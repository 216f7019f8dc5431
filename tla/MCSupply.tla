------------------------------ MODULE MCSupply ------------------------------
(***************************************************************************)
(* Small instances of what serves the sellers and the search of the        *)
(* storefront, for TLC: the admission of sellers and the settlement of     *)
(* orders, the catalog, imports of offers, and the search index.  They     *)
(* share no state here.  One run checks them all: a behaviour begins with  *)
(* the choice of an instance, `focus', and takes the steps of it only.     *)
(***************************************************************************)
EXTENDS Catalog, Imports, Settlement, Paging, TLC

VARIABLES
    focus,
    published, cover, shop, sells, queue, docs, view, active, figures, stats, rebuild, request,
    run, handler, lagging, recent, missed, outdated, overtaken, early, lapses

-----------------------------------------------------------------------------
(* Two sellers of one order, whose rates change while it is settled.       *)
Forms == "l1" :> "sole_proprietor" @@ "l2" :> "sole_proprietor"
TaxIds == "l1" :> "t" @@ "l2" :> "t"
Kinds == "d1" :> "registration_certificate" @@ "d2" :> "bank_confirmation"
OrderItems == "o1" :> <<[seller |-> "s1", category |-> "k", amount |-> 105],
                        [seller |-> "s2", category |-> "k", amount |-> 30],
                        [seller |-> "s1", category |-> "k", amount |-> 205]>>
SettlersMayRun == "r1" :> {"open", "override", "clear", "category"} @@ "r2" :> {"add", "remove"}

(* One seller on the way through moderation: the seller edits while a      *)
(* moderator decides.  Its performance is bad enough to suspend it.        *)
Failing == {[orders |-> 20, cancelled |-> 20, late |-> 20, reviews |-> 0, stars |-> 0]}

Moderation == INSTANCE Settlement WITH
    MaxSellerVersion <- 6, MaxLost <- 0,
    MayRun <- "r1" :> {"legal", "attach", "submit", "bank"}
              @@ "r2" :> {"approve", "reject", "verify", "suspend", "reinstate",
                          "terminate", "performance"}

Applicant == [OpenApplication("u1", "l1") EXCEPT !.documents = {"d1", "d2"},
                                                   !.version = 3]
Established == [Applicant EXCEPT !.status = "active", !.bank = "b1", !.verified = TRUE,
                                 !.version = 5]
NothingFiled == [legal |-> Absent, documents |-> {}]

SellersStart ==
    /\ seller = "s1" :> (IF focus = "accruals" THEN Established ELSE Applicant)
                @@ "s2" :> NoSeller
    /\ filed = "s1" :> (IF focus = "accruals" THEN [legal |-> "l1", documents |-> {"d1", "d2"}]
                        ELSE NothingFiled)
               @@ "s2" :> NothingFiled
    /\ commission = "k" :> NoCommission
    /\ call = [r \in Callers |-> Quiet]
    /\ SettlementInit

-----------------------------------------------------------------------------
(* A tree of two categories, two products, two images, two groups.         *)
TreeParent == "root" :> None @@ "leaf" :> "root"
TreeSlugs == "root" :> "s1" @@ "leaf" :> "s2"
InLeaf == [p \in {"p1", "p2", "g", "h"} |-> "leaf"]
Colored(v) == [code \in Codes |-> v]
Edited == {Colored("b")}
AnyColor == {[required |-> TRUE, allows |-> {"a", "b"}]}

(* One product whose author edits it while moderation and the worker that  *)
(* processes its images are at work.                                       *)
ModeratedMayRun == "r1" :> {"confirm_image", "submit", "reject"}
                   @@ "r2" :> {"update", "publish"}
                   @@ "w" :> {"process_image"}

(* The same product, whose author puts objects again that were confirmed   *)
(* and reorders and removes images while they are processed.               *)
Photos == INSTANCE Catalog WITH
    Puts <- {"right", "broken"},
    Offered <- "r1" :> {"confirm_image", "remove_image", "reorder_images"} @@ "r2" :> {}
               @@ "w" :> {"process_image"}

(* Attributes are defined and removed from two requests.                   *)
Tree == INSTANCE Catalog WITH
    Products <- {"p1", "p2"}, Definitions <- {[required |-> TRUE, allows |-> {"a"}]},
    Contents <- {Colored("a")},
    Offered <- "r1" :> {"create_category", "define_attribute", "rename_category"}
               @@ "r2" :> {"create_category", "define_attribute", "remove_attribute"}
               @@ "w" :> {}

(* Variants are added to two groups and removed.                           *)
Variants == INSTANCE Catalog WITH
    Products <- {"p1", "p2"}, Definitions <- {[required |-> FALSE, allows |-> {"a", "b"}]},
    Contents <- {Colored("a"), Colored("b")}, MaxVersion <- 2, Puts <- {"wrong"},
    Offered <- "r1" :> {"create_group", "add_variant", "request_image"}
               @@ "r2" :> {"create_product", "add_variant", "remove_variant"}
               @@ "w" :> {}

Photo(i, status) == [id |-> i, status |-> status]

FirstDraft(images) ==
    [status |-> "draft", attributes |-> Colored("a"), images |-> images, version |-> 1]

Drafted == IF focus \in {"moderated", "photos"} THEN {"p1"} ELSE {"p1", "p2"}

CatalogStart ==
    IF focus = "tree" THEN Tree!CatalogInit
    ELSE /\ category =
              "root" :> [exists |-> TRUE, slug |-> "s1", ancestors |-> {}, version |-> 2,
                         attributes |-> Colored([required |-> focus # "variants",
                                                 allows |-> {"a", "b"}])]
              @@ "leaf" :> [exists |-> TRUE, slug |-> "s2", ancestors |-> {"root"}, version |-> 1,
                            attributes |-> Colored(None)]
         /\ product =
              "p1" :> FirstDraft(IF focus \in {"moderated", "photos"}
                                 THEN <<Photo("i1", "awaiting_upload"), Photo("i2", "uploaded")>>
                                 ELSE <<>>)
              @@ [p \in Drafted |-> NoProduct]
         /\ uploads = IF focus \in {"moderated", "photos"} THEN {<<"p1", "i2">>} ELSE {}
         /\ attempts = [e \in Drafted \X Images |-> 0]
         /\ object = [i \in Images |-> IF focus = "variants" /\ i = "i1"
                                         THEN "none" ELSE "right"]
         /\ group = [g \in Groups |-> NoGroup]
         /\ submitted = [p \in Drafted |-> NoProduct]
         /\ announced = [p \in Drafted |-> None]
         /\ answered = [g \in Groups |-> {}]
         /\ raced = FALSE
         /\ req = [r \in Requests |-> Idle]

-----------------------------------------------------------------------------
(* One import, whose rows are two offers of one seller SKU.  Two workers:  *)
(* the job goes stale under one and is put back.                           *)
FileRow(sold, status) == [sku |-> "k", product |-> sold, price |-> 1, status |-> status]
TwoRows == "j" :> <<FileRow("p1", "active"), FileRow("p2", "paused")>>
NoneMay == "c1" :> {} @@ "c2" :> {}

(* Two clients who change the offers that a worker is importing.           *)
ImportOffers == INSTANCE Imports WITH
    ClientMay <- "c1" :> {"create"} @@ "c2" :> {"status", "terms"},
    MaxCrashes <- 0, MaxChanges <- 1, MaxSlow <- 0

-----------------------------------------------------------------------------
(* Two products and a rebuild of the index.                                *)
Index == INSTANCE Search WITH
    Products <- {1, 2}, Covers <- {0, 1}, Offers <- {}, ProductOf <- <<>>, SellerOf <- <<>>,
    PriceOf <- <<>>, Sellers <- {}, FeedBatch <- 1, ReindexJobs <- {"j"}, Requests <- {"r"},
    MaxLagging <- 1, MaxFaults <- 0, MaxEvents <- 1,
    rows <- figures, job <- rebuild, faults <- lapses

(* One product, and a rebuild that may fail and be asked for again.        *)
Rebuild == INSTANCE Search WITH
    Products <- {1}, Covers <- {0, 1}, Offers <- {}, ProductOf <- <<>>, SellerOf <- <<>>,
    PriceOf <- <<>>, Sellers <- {}, FeedBatch <- 1, ReindexJobs <- {"j", "k"},
    Requests <- {"r"}, MaxLagging <- 0, MaxFaults <- 1, MaxEvents <- 1,
    rows <- figures, job <- rebuild, faults <- lapses

(* One product, one offer of one seller, and a failure.                    *)
Feed == INSTANCE Search WITH
    Products <- {1}, Covers <- {0}, Offers <- {"o"}, ProductOf <- "o" :> 1,
    SellerOf <- "o" :> "s", PriceOf <- "o" :> 1, Sellers <- {"s"}, FeedBatch <- 1,
    ReindexJobs <- {}, Requests <- {}, MaxLagging <- 0, MaxFaults <- 1, MaxEvents <- 2,
    rows <- figures, job <- rebuild, faults <- lapses

(* Three products, pages of two.                                           *)
Figures(n, price, at, rank) ==
    [offers |-> n, price |-> price, published |-> at, rank |-> rank]

SomeOffering == {Figures(0, 0, 1, 0), Figures(1, 1, 1, 1), Figures(1, 2, 2, 1),
                 Figures(2, 1, 2, 0), Figures(2, 2, 1, 1), Figures(1, 1, 2, 0)}

-----------------------------------------------------------------------------
sellersSide == <<seller, commission, call, filed, entry, completed, work, lostWork>>
searchSide == <<published, cover, shop, sells, queue, docs, view, active, figures, stats,
                rebuild, request, run, handler, lagging, recent, missed, outdated, overtaken, early,
                lapses>>
supplyVars == <<focus, allVars, catalogVars, importVars, searchSide, pagingVars>>

SupplyInit ==
    /\ focus \in {"moderation", "accruals", "tree", "moderated", "photos", "variants", "jobs",
                  "offers", "index", "rebuild", "feed", "reader"}
    /\ SellersStart /\ CatalogStart /\ ImportsInit
    /\ IF focus = "reader" THEN ranked \in [Matching -> Offering]
       ELSE ranked = [p \in Matching |-> Figures(0, 0, 1, 0)]
    /\ page = Closed
    /\ IF focus = "feed" THEN Feed!Init
       ELSE IF focus = "rebuild" THEN Rebuild!Init ELSE Index!Init

Only(f) == focus = f /\ UNCHANGED focus

SupplyNext ==
    \/ /\ UNCHANGED <<catalogVars, importVars, searchSide, pagingVars>>
       /\ \/ Only("moderation") /\ Moderation!SellerNext /\ UNCHANGED settlementVars
          \/ Only("accruals") /\ SettlementNext
    \/ /\ UNCHANGED <<allVars, importVars, searchSide, pagingVars>>
       /\ \/ Only("tree") /\ Tree!CatalogNext
          \/ Only("moderated") /\ CatalogNext
          \/ Only("photos") /\ Photos!CatalogNext
          \/ Only("variants") /\ Variants!CatalogNext
    \/ /\ UNCHANGED <<allVars, catalogVars, searchSide, pagingVars>>
       /\ \/ Only("jobs") /\ ImportsNext
          \/ Only("offers") /\ ImportOffers!ImportsNext
    \/ /\ UNCHANGED <<allVars, catalogVars, importVars, pagingVars>>
       /\ \/ Only("index") /\ Index!Next
          \/ Only("rebuild") /\ Rebuild!Next
          \/ Only("feed") /\ Feed!Next
    \/ Only("reader") /\ PagingNext /\ UNCHANGED <<allVars, catalogVars, importVars, searchSide>>

SupplySpec ==
    /\ SupplyInit /\ [][SupplyNext]_supplyVars
    /\ CatalogFairness /\ Delivery /\ ImportsFairness

-----------------------------------------------------------------------------
(* The properties that are not one of a single component as it stands.     *)

(* Every variable of every component stays in its range.                   *)
SupplyTypeOK ==
    CASE focus = "moderation" -> Moderation!SellerTypeOK /\ Moderation!SettlementTypeOK
      [] focus = "accruals" -> SellerTypeOK /\ SettlementTypeOK
      [] focus = "tree" -> Tree!CatalogTypeOK
      [] focus = "moderated" -> CatalogTypeOK
      [] focus = "photos" -> Photos!CatalogTypeOK
      [] focus = "variants" -> Variants!CatalogTypeOK
      [] focus = "jobs" -> ImportsTypeOK
      [] focus = "offers" -> ImportOffers!ImportsTypeOK
      [] focus = "index" -> Index!TypeOK
      [] focus = "rebuild" -> Rebuild!TypeOK
      [] focus = "feed" -> Feed!TypeOK
      [] focus = "reader" -> PagingTypeOK

(* No import stays in progress for ever, and none brings an archived offer *)
(* back.                                                                   *)
ImportsSettle == ProgressEnds /\ ArchivedStays

(* Search shows what is published, with the figures of its offers, once    *)
(* the events are consumed and the rebuilds are over, and a rebuild takes  *)
(* nothing from the results meanwhile.                                     *)
IndexCatchesUp ==
    /\ [](/\ focus = "index" => Index!IndexCatchesUp
          /\ focus = "rebuild" => Rebuild!IndexCatchesUp
          /\ focus = "feed" => Feed!FiguresAgree)
    /\ [][focus = "index" => Index!KeepsResults]_searchSide
=============================================================================
