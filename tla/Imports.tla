------------------------------- MODULE Imports -------------------------------
(***************************************************************************)
(* The offers of one seller in the catalog: the handlers that change them  *)
(* one by one, and the import jobs that create and change them from a      *)
(* file.                                                                   *)
(*                                                                         *)
(* A worker is one goroutine of the relay that runs a job when its event   *)
(* catalog.import_scheduled is delivered: one at a time, as long as the    *)
(* relay's transaction has the advisory lock, and again until the handler  *)
(* succeeds.  A worker that has lost that transaction works on.  Each row  *)
(* is a transaction of its own; every save asks for the version read.      *)
(***************************************************************************)
EXTENDS Naturals, Sequences, FiniteSets

CONSTANTS
    Offers,                    \* offer ids
    Skus, SoldProducts, Prices,  \* seller SKUs, published products, terms
    Jobs, File,                \* import jobs, and the rows of the file of each
    MaxImportRows, ImportProgress,
    ImportWorkers,             \* goroutines of the relay
    Clients, ClientMay,        \* goroutines of requests, what each may run
    MaxCrashes,                \* bound on crashes, lost transactions, failed statements
    MaxChanges,                \* bound on the changes of the seller's status
    MaxSlow,                   \* bound on how often a worker lets its job go stale
    MaxOfferVersion,           \* bound on the changes of an offer by clients
    Null

(* A file has a number of rows.                                            *)
ASSUME FilesHaveRows == \A j \in Jobs : Len(File[j]) \in Nat

VARIABLES
    offer,      \* catalog.offers
    job,        \* catalog.import_jobs
    event,      \* job -> its import_scheduled event: "none", "pending", "handled"
    stale,      \* jobs whose updated_at is longer ago than ImportStaleAfter
    finished,   \* job -> import_finished events written
    runner,     \* worker -> the job it runs, and what it holds of it
    client,     \* client -> the handler it runs, and the offer it has read
    canSell,    \* the seller may sell
    crashes, changes, slow

importVars == <<offer, job, event, stale, finished, runner, client, canSell, crashes,
                changes, slow>>

-----------------------------------------------------------------------------
(* Rows.                                                                   *)

OfferStatus == {"active", "paused", "archived"}
OfferRow == [status : OfferStatus \cup {"none"}, sku : Skus \cup {Null},
             product : SoldProducts \cup {Null}, price : Prices \cup {Null}, version : Nat]
NoOffer == [status |-> "none", sku |-> Null, product |-> Null, price |-> Null, version |-> 0]

ImportStatus == {"none", "pending", "processing", "completed", "failed"}
JobRow == [status : ImportStatus, total : 0 .. MaxImportRows, failed : 0 .. MaxImportRows,
           version : Nat]
NoJob == [status |-> "none", total |-> 0, failed |-> 0, version |-> 0]

(* A worker: the job as it has it in memory, the offer the row is about.   *)
NoRun == [at |-> "idle", id |-> Null, job |-> NoJob, offer |-> Null, found |-> NoOffer,
          lost |-> FALSE]
NoRequest == [at |-> "idle", op |-> "none", id |-> Null, arg |-> Null, row |-> NoOffer]

ImportsTypeOK ==
    /\ offer \in [Offers -> OfferRow]
    /\ job \in [Jobs -> JobRow]
    /\ event \in [Jobs -> {"none", "pending", "handled"}]
    /\ stale \subseteq Jobs
    /\ finished \in [Jobs -> Nat]
    /\ \A w \in ImportWorkers : runner[w].job \in JobRow /\ runner[w].found \in OfferRow
    /\ \A c \in Clients : client[c].row \in OfferRow
    /\ canSell \in BOOLEAN
    /\ crashes \in 0 .. MaxCrashes /\ changes \in 0 .. MaxChanges /\ slow \in 0 .. MaxSlow

ImportsInit ==
    /\ offer = [o \in Offers |-> NoOffer]
    /\ job = [j \in Jobs |-> NoJob]
    /\ event = [j \in Jobs |-> "none"]
    /\ stale = {}
    /\ finished = [j \in Jobs |-> 0]
    /\ runner = [w \in ImportWorkers |-> NoRun]
    /\ client = [c \in Clients |-> NoRequest]
    /\ canSell = TRUE
    /\ crashes = 0 /\ changes = 0 /\ slow = 0

-----------------------------------------------------------------------------
(* The aggregates: what a method makes of a row, None where it refuses.    *)

CreateOffer(sku, product, price) ==
    [status |-> "active", sku |-> sku, product |-> product, price |-> price, version |-> 0]
Mutable(o) == o.status # "archived"
ChangeTerms(o, price) == IF Mutable(o) THEN [o EXCEPT !.price = price] ELSE Null
ChangeStatus(o, target) ==
    IF Mutable(o) \/ target = "archived" THEN [o EXCEPT !.status = target] ELSE Null

StartJob(j) == IF j.status = "pending" THEN [j EXCEPT !.status = "processing"] ELSE Null
RecordRow(j, ok) == [j EXCEPT !.total = @ + 1, !.failed = IF ok THEN @ ELSE @ + 1]
Complete(j) == [j EXCEPT !.status = "completed"]
FailJob(j) == [j EXCEPT !.status = "failed"]
Requeue(j) == [j EXCEPT !.status = "pending", !.total = 0, !.failed = 0]

(* Repositories.  Among the offers that are not archived the SKU and the   *)
(* product are unique.                                                     *)

ForSale(o) == offer[o].status \in {"active", "paused"}
FindBySellerSKU(sku) == {o \in Offers : ForSale(o) /\ offer[o].sku = sku}
OfferTaken(id, row) ==
    \E o \in Offers \ {id} :
        ForSale(o) /\ (offer[o].sku = row.sku \/ offer[o].product = row.product)

CanSaveOffer(id, row) ==
    /\ offer[id].version = row.version
    /\ row.version = 0 => ~OfferTaken(id, row)
SaveOffer(id, row) == offer' = [offer EXCEPT ![id] = [row EXCEPT !.version = @ + 1]]

(* Faulty: the update does not ask for the version.                        *)
SaveAnyJob(j, row) == TRUE

CanSaveJob(j, row) == job[j].version = row.version

(* A save touches updated_at; one that ends the job writes its event.      *)
SaveJob(j, row) ==
    /\ job' = [job EXCEPT ![j] = [row EXCEPT !.version = @ + 1]]
    /\ stale' = stale \ {j}
    /\ finished' = IF row.status \in {"completed", "failed"}
                     THEN [finished EXCEPT ![j] = @ + 1] ELSE finished

-----------------------------------------------------------------------------
(* Requests of the seller about one offer.                                 *)

Reply(c) == client' = [client EXCEPT ![c] = NoRequest]

StartCreate(c, id, sku, product, price) ==
    /\ client[c].at = "idle" /\ "create" \in ClientMay[c]
    /\ canSell
    /\ offer[id].status = "none"
    /\ \A d \in Clients : client[d].id # id
    /\ \A w \in ImportWorkers : runner[w].offer # id
    /\ client' = [client EXCEPT ![c] = [at |-> "save", op |-> "create", id |-> id, arg |-> Null,
                                    row |-> CreateOffer(sku, product, price)]]
    /\ UNCHANGED <<offer, job, event, stale, finished, runner, canSell, crashes, changes, slow>>

(* Whether the seller may sell is asked before the offer is read again.    *)
StartOfferAction(c, id, op, arg) ==
    /\ client[c].at = "idle" /\ op \in ClientMay[c]
    /\ offer[id].status # "none" /\ offer[id].version < MaxOfferVersion
    /\ (op = "status" /\ arg = "active") => canSell
    /\ client' = [client EXCEPT ![c] = [at |-> "find", op |-> op, id |-> id, arg |-> arg,
                                    row |-> NoOffer]]
    /\ UNCHANGED <<offer, job, event, stale, finished, runner, canSell, crashes, changes, slow>>

FindOffer(c) ==
    /\ client[c].at = "find"
    /\ client' = [client EXCEPT ![c].row = offer[client[c].id], ![c].at = "save"]
    /\ UNCHANGED <<offer, job, event, stale, finished, runner, canSell, crashes, changes, slow>>

ChangedOffer(q) ==
    CASE q.op = "create" -> q.row
      [] q.op = "terms" -> ChangeTerms(q.row, q.arg)
      [] q.op = "status" -> ChangeStatus(q.row, q.arg)

CommitOffer(c) ==
    /\ client[c].at = "save"
    /\ LET q == client[c]
       IN  IF ChangedOffer(q) # Null /\ CanSaveOffer(q.id, ChangedOffer(q))
             THEN SaveOffer(q.id, ChangedOffer(q)) ELSE UNCHANGED offer
    /\ Reply(c)
    /\ UNCHANGED <<job, event, stale, finished, runner, canSell, crashes, changes, slow>>

(* The seller is suspended or reinstated.                                  *)
ChangeSeller ==
    /\ changes < MaxChanges
    /\ canSell' = ~canSell
    /\ changes' = changes + 1
    /\ UNCHANGED <<offer, job, event, stale, finished, runner, client, crashes, slow>>

-----------------------------------------------------------------------------
(* A job is scheduled, and run by the worker its event is delivered to.    *)

GoOn(w, at) == runner' = [runner EXCEPT ![w].at = at]
Rest(w) == runner' = [runner EXCEPT ![w] = NoRun]

(* The handler has succeeded; a relay that has lost its transaction cannot *)
(* note it.  An error leaves the event to be delivered again.              *)
AcknowledgeRun(w) ==
    /\ Rest(w)
    /\ event' = IF runner[w].lost THEN event ELSE [event EXCEPT ![runner[w].id] = "handled"]
Retry(w) == Rest(w) /\ UNCHANGED event

Schedule(j) ==
    /\ canSell
    /\ job[j].status = "none"
    /\ job' = [job EXCEPT ![j] = [NoJob EXCEPT !.status = "pending", !.version = 1]]
    /\ event' = [event EXCEPT ![j] = "pending"]
    /\ UNCHANGED <<offer, stale, finished, runner, client, canSell, crashes, changes, slow>>

DeliverImport(w, j) ==
    /\ event[j] = "pending"
    /\ runner[w].at = "idle"
    /\ \A v \in ImportWorkers : runner[v].at = "idle" \/ runner[v].lost
    /\ runner' = [runner EXCEPT ![w].at = "start", ![w].id = j]
    /\ UNCHANGED <<offer, job, event, stale, finished, client, canSell, crashes, changes, slow>>

(* A job that is not pending is none of this worker's business: success.   *)
StartRun(w) ==
    /\ runner[w].at = "start"
    /\ LET j == runner[w].id
           started == StartJob(job[j])
       IN  IF started = Null
             THEN AcknowledgeRun(w) /\ UNCHANGED <<job, stale, finished>>
             ELSE /\ SaveJob(j, started)
                  /\ runner' = [runner EXCEPT ![w].job = [started EXCEPT !.version = @ + 1],
                                         ![w].at = "check"]
                  /\ UNCHANGED event
    /\ UNCHANGED <<offer, client, canSell, crashes, changes, slow>>

(* The seller may have been suspended; the file may be unreadable.         *)
Check(w) ==
    /\ runner[w].at = "check"
    /\ \/ canSell /\ GoOn(w, "row")
       \/ GoOn(w, "fail")
    /\ UNCHANGED <<offer, job, event, stale, finished, client, canSell, crashes, changes, slow>>

Row(w) == File[runner[w].id][runner[w].job.total + 1]
More(w) == runner[w].job.total < Len(File[runner[w].id])

(* The offer of the row's SKU, or a new one for its product.               *)
FindRow(w) ==
    /\ runner[w].at = "row" /\ More(w) /\ runner[w].job.total < MaxImportRows
    /\ LET row == Row(w)
           known == FindBySellerSKU(row.sku)
       IN  \/ \E o \in known :
                 runner' = [runner EXCEPT ![w].at = IF offer[o].product = row.product
                                                  THEN "upsert" ELSE "refused",
                                      ![w].offer = o, ![w].found = offer[o]]
           \/ /\ known = {}
              /\ \E o \in Offers :
                    /\ offer[o].status = "none"
                    /\ \A c \in Clients : client[c].id # o
                    /\ \A v \in ImportWorkers : runner[v].offer # o
                    /\ runner' = [runner EXCEPT ![w].at = "upsert", ![w].offer = o,
                          ![w].found = CreateOffer(row.sku, row.product, row.price)]
    /\ UNCHANGED <<offer, job, event, stale, finished, client, canSell, crashes, changes, slow>>

(* A conflict or a constraint is counted as a failure of the row.          *)
Upsert(w) ==
    /\ runner[w].at = "upsert"
    /\ LET q == runner[w]
           changed == [q.found EXCEPT !.price = Row(w).price, !.status = Row(w).status]
       IN  IF CanSaveOffer(q.offer, changed)
             THEN SaveOffer(q.offer, changed) /\ GoOn(w, "succeeded")
             ELSE UNCHANGED offer /\ GoOn(w, "refused")
    /\ UNCHANGED <<job, event, stale, finished, client, canSell, crashes, changes, slow>>

(* The row is counted; now and then the job is saved on the way.           *)
Count(w) ==
    /\ runner[w].at \in {"succeeded", "refused"}
    /\ LET q == runner[w]
           counted == RecordRow(q.job, q.at = "succeeded")
           rested == [q EXCEPT !.offer = Null, !.found = NoOffer, !.at = "row"]
       IN  IF counted.total % ImportProgress # 0
             THEN /\ runner' = [runner EXCEPT ![w] = [rested EXCEPT !.job = counted]]
                  /\ UNCHANGED <<job, event, stale, finished>>
           ELSE IF CanSaveJob(q.id, counted)
             THEN /\ SaveJob(q.id, counted)
                  /\ runner' = [runner EXCEPT ![w] =
                        [rested EXCEPT !.job = [counted EXCEPT !.version = @ + 1]]]
                  /\ UNCHANGED event
           ELSE Retry(w) /\ UNCHANGED <<job, stale, finished>>
    /\ UNCHANGED <<offer, client, canSell, crashes, changes, slow>>

(* The end of the file, too many rows, or a job that cannot be done.       *)
End(w) ==
    /\ \/ runner[w].at = "fail"
       \/ runner[w].at = "row" /\ (~More(w) \/ runner[w].job.total >= MaxImportRows)
    /\ LET q == runner[w]
           ended == IF q.at = "row" /\ ~More(w) THEN Complete(q.job) ELSE FailJob(q.job)
       IN  IF CanSaveJob(q.id, ended)
             THEN SaveJob(q.id, ended) /\ AcknowledgeRun(w)
             ELSE Retry(w) /\ UNCHANGED <<job, stale, finished>>
    /\ UNCHANGED <<offer, client, canSell, crashes, changes, slow>>

-----------------------------------------------------------------------------
(* A slow job, and the scheduled job that puts it back.                    *)

Held(j) == \E w \in ImportWorkers : runner[w].id = j /\ runner[w].job.status = "processing"

GrowStale(j) ==
    /\ job[j].status = "processing" /\ j \notin stale
    /\ Held(j) => slow < MaxSlow
    /\ slow' = IF Held(j) THEN slow + 1 ELSE slow
    /\ stale' = stale \cup {j}
    /\ UNCHANGED <<offer, job, event, finished, runner, client, canSell, crashes, changes>>

(* Faulty: a job is taken for stale only before its first progress.        *)
StaleAtStart(j) == j \in stale /\ job[j].total = 0

IsStale(j) == job[j].status = "processing" /\ j \in stale

RequeueStale(j) ==
    /\ IsStale(j)
    /\ SaveJob(j, Requeue(job[j]))
    /\ UNCHANGED <<offer, event, runner, client, canSell, crashes, changes, slow>>

(* The process stops, a statement fails, or the relay loses its            *)
(* transaction while the handler is at work.                               *)
StopRun(w) ==
    /\ runner[w].at # "idle" /\ crashes < MaxCrashes
    /\ crashes' = crashes + 1
    /\ Rest(w)
    /\ UNCHANGED <<offer, job, event, stale, finished, client, canSell, changes, slow>>

LoseRun(w) ==
    /\ runner[w].at # "idle" /\ ~runner[w].lost /\ crashes < MaxCrashes
    /\ crashes' = crashes + 1
    /\ runner' = [runner EXCEPT ![w].lost = TRUE]
    /\ UNCHANGED <<offer, job, event, stale, finished, client, canSell, changes, slow>>

ProceedRun(w) == StartRun(w) \/ Check(w) \/ FindRow(w) \/ Upsert(w) \/ Count(w) \/ End(w)

ImportsNext ==
    \/ \E c \in Clients :
          \/ FindOffer(c) \/ CommitOffer(c)
          \/ \E id \in Offers :
                \/ \E sku \in Skus, product \in SoldProducts, price \in Prices :
                      StartCreate(c, id, sku, product, price)
                \/ \E price \in Prices : StartOfferAction(c, id, "terms", price)
                \/ \E status \in OfferStatus : StartOfferAction(c, id, "status", status)
    \/ ChangeSeller
    \/ \E j \in Jobs : Schedule(j) \/ GrowStale(j) \/ RequeueStale(j)
    \/ \E w \in ImportWorkers :
          \/ ProceedRun(w) \/ StopRun(w) \/ LoseRun(w)
          \/ \E j \in Jobs : DeliverImport(w, j)

(* A worker goes on, an event is delivered as long as it is pending, time  *)
(* passes and the scheduled job runs.                                      *)
ImportsFairness ==
    /\ \A w \in ImportWorkers : WF_importVars(ProceedRun(w))
    /\ \A j \in Jobs : /\ WF_importVars(\E w \in ImportWorkers : DeliverImport(w, j))
                       /\ WF_importVars(GrowStale(j)) /\ WF_importVars(RequeueStale(j))

ImportsSpec == ImportsInit /\ [][ImportsNext]_importVars /\ ImportsFairness

-----------------------------------------------------------------------------
(* A job ends once, with one event, and counts every row of its file,      *)
(* though it may be put back and be run by two workers at a time.          *)
FinishedOnce ==
    \A j \in Jobs :
        /\ finished[j] <= 1
        /\ job[j].status = "completed" => job[j].total = Len(File[j])
        /\ job[j].status \in {"completed", "failed"} <=> finished[j] = 1

(* An archived offer stays as it is: neither a request nor a row that has  *)
(* read the offer before brings it back.                                   *)
ArchivedStays ==
    [][\A o \in Offers : offer[o].status = "archived" => offer'[o].price = offer[o].price
                                                       /\ offer'[o].status = "archived"]_importVars

(* A job does not stay in progress for ever, whatever becomes of the       *)
(* worker that has started it.                                             *)
ProgressEnds ==
    \A j \in Jobs : (job[j].status = "processing") ~> (job[j].status # "processing")

(* A job that is scheduled is completed or fails in the end.               *)
ImportEnds ==
    \A j \in Jobs : (job[j].status = "pending") ~> (job[j].status \in {"completed", "failed"})
=============================================================================
