------------------------------- MODULE Catalog -------------------------------
(***************************************************************************)
(* The catalog context without its offers (module Imports): the category   *)
(* tree with its attributes, products on their way through moderation,     *)
(* their images, and groups of variants.                                   *)
(*                                                                         *)
(* A request is one goroutine in one handler.  Nothing is locked: a        *)
(* handler reads at the level read committed, one query after the other    *)
(* (a product's row before its attributes and images, a category before    *)
(* the ones above and below it), and its save asks only for the version of *)
(* the one row it changes.  Contents are abstract: an attribute allows a   *)
(* set of values; an uploaded object is the image that was announced       *)
(* ("right"), begins like it and cannot be decoded ("broken"), or is       *)
(* something else ("wrong").                                               *)
(***************************************************************************)
EXTENDS Naturals, Sequences, FiniteSets, SequencesExt

CONSTANTS
    Categories, Parent,   \* categories, and the one each is created under
    Slugs, SlugOf,        \* slugs, and the one each category is created with
    MaxCategoryDepth,
    Codes, Definitions,   \* attribute codes; definitions: required, allows
    Values,               \* attribute values
    Products, CategoryOf, \* products, and the category each is created in
    Contents,             \* attribute values a request may bring
    Images, MaxImages,
    Groups, Axes,         \* groups of variants, and the codes that tell them apart
    Requests, Offered,    \* goroutines, and the handlers each may run
    Puts,                 \* what clients put where an upload was requested
    MaxAttempts,          \* RelayConfig.MaxAttempts: the relay gives an event up
    MaxVersion,           \* bound on the changes of one row
    None

(* Categories are created under categories, and what a request brings is   *)
(* what the parsers of requests let through.                               *)
ASSUME CatalogAssumption ==
    /\ Parent \in [Categories -> Categories \cup {None}]
    /\ \A c \in Categories : SlugOf[c] \in Slugs
    /\ \A p \in Products \cup Groups : CategoryOf[p] \in Categories
    /\ Contents \subseteq [Codes -> Values \cup {None}]
    /\ None \notin Categories
    /\ Puts \subseteq {"right", "broken", "wrong"}
    /\ MaxAttempts \in Nat \ {0}

VARIABLES
    category,   \* catalog.categories with their attributes
    product,    \* catalog.products with attributes and images
    group,      \* catalog.variant_groups with their members
    object,     \* image -> what the client has uploaded for it
    uploads,    \* product_image_uploaded events that wait for the worker
    attempts,   \* such an event -> the attempts that have failed
    submitted,  \* product -> what its author submitted last
    announced,  \* product -> the cover the last event of it names
    answered,   \* group -> the members, by the changes that were answered
    raced,      \* a code was defined while it was being defined above or below
    req         \* request -> the handler it runs and what it has read

catalogRows == <<category, product, group>>
catalogEvents == <<uploads, attempts, announced>>
catalogHistory == <<submitted, answered, raced>>
catalogVars == <<catalogRows, object, catalogEvents, catalogHistory, req>>

-----------------------------------------------------------------------------
(* Rows.                                                                   *)

Attributes == [Codes -> Definitions \cup {None}]
Content == [Codes -> Values \cup {None}]
NoContent == [c \in Codes |-> None]

(* The ancestors of a category, from its parent up to the root.            *)
CategoryRow == [exists : BOOLEAN, slug : Slugs \cup {None}, ancestors : SUBSET Categories,
                attributes : Attributes, version : Nat]
NoCategory == [exists |-> FALSE, slug |-> None, ancestors |-> {},
               attributes |-> [c \in Codes |-> None], version |-> 0]

ProductStatus == {"none", "draft", "on_moderation", "published", "rejected"}
Image == [id : Images, status : {"awaiting_upload", "uploaded", "processed"}]
ProductRow == [status : ProductStatus, attributes : Content, images : Seq(Image), version : Nat]
NoProduct == [status |-> "none", attributes |-> NoContent, images |-> <<>>, version |-> 0]

(* A member is a product with the values it had when it was added.         *)
Member == [product : Products, values : Content]
GroupRow == [exists : BOOLEAN, members : SUBSET Member, version : Nat]
NoGroup == [exists |-> FALSE, members |-> {}, version |-> 0]

Objects == {"none", "right", "broken", "wrong"}

Class == [ok : BOOLEAN, attributes : Attributes]
NoClass == [ok |-> FALSE, attributes |-> [c \in Codes |-> None]]

Idle == [op |-> "none", at |-> "idle", id |-> None, arg |-> None, row |-> NoProduct,
         class |-> NoClass, members |-> {}, version |-> 0]

CatalogTypeOK ==
    /\ category \in [Categories -> CategoryRow]
    /\ product \in [Products -> ProductRow]
    /\ group \in [Groups -> GroupRow]
    /\ object \in [Images -> Objects]
    /\ uploads \subseteq (Products \X Images)
    /\ attempts \in [Products \X Images -> 0 .. MaxAttempts]
    /\ \A r \in Requests : /\ req[r].row \in ProductRow
                           /\ req[r].class \in Class
                           /\ req[r].version \in Nat
    /\ announced \in [Products -> Images \cup {None}]
    /\ answered \in [Groups -> SUBSET Products]
    /\ raced \in BOOLEAN

CatalogInit ==
    /\ category = [c \in Categories |-> NoCategory]
    /\ product = [p \in Products |-> NoProduct]
    /\ group = [g \in Groups |-> NoGroup]
    /\ object = [i \in Images |-> "none"]
    /\ uploads = {} /\ attempts = [e \in Products \X Images |-> 0]
    /\ submitted = [p \in Products |-> NoProduct]
    /\ announced = [p \in Products |-> None]
    /\ answered = [g \in Groups |-> {}]
    /\ raced = FALSE
    /\ req = [r \in Requests |-> Idle]

-----------------------------------------------------------------------------
(* The tree, and the attributes a category has from it.                    *)

(* The path of a category: what lies above it and itself.                  *)
Chain(c) == category[c].ancestors \cup {c}
Below(c) == {d \in Categories : c \in category[d].ancestors}
Defines(c, code) == category[c].attributes[code] # None

(* A schema with a code twice is refused.                                  *)
NewSchema(chain) ==
    [ok |-> \A code \in Codes : Cardinality({c \in chain : Defines(c, code)}) <= 1,
     attributes |-> [code \in Codes |->
        IF \E c \in chain : Defines(c, code)
          THEN category[CHOOSE c \in chain : Defines(c, code)].attributes[code] ELSE None]]
Classify(c) == IF category[c].exists THEN NewSchema(Chain(c)) ELSE NoClass

ParseValues(class, raw) ==
    \A code \in Codes : raw[code] # None =>
        class.attributes[code] # None /\ raw[code] \in class.attributes[code].allows
MissingRequired(class, values) ==
    {code \in Codes : class.attributes[code] # None /\ values[code] = None
                      /\ class.attributes[code].required}

-----------------------------------------------------------------------------
(* The product: what a method makes of it, None where it refuses.          *)

Editable(p) == p.status \in {"draft", "rejected"}
Transitions ==
    [s \in ProductStatus |->
        CASE s = "draft" -> {"on_moderation"}
          [] s = "on_moderation" -> {"published", "rejected"}
          [] s = "rejected" -> {"draft", "on_moderation"}
          [] OTHER -> {}]
EnsureComplete(p, class) ==
    ParseValues(class, p.attributes) /\ MissingRequired(class, p.attributes) = {}

CreateProduct(class, content) ==
    IF class.ok /\ ParseValues(class, content)
      THEN [NoProduct EXCEPT !.status = "draft", !.attributes = content] ELSE None

UpdateContent(p, class, content) ==
    IF Editable(p) /\ ParseValues(class, content)
      THEN [p EXCEPT !.attributes = content, !.status = "draft"] ELSE None

ProductTransition(p, target) ==
    IF target \in Transitions[p.status] THEN [p EXCEPT !.status = target] ELSE None
SubmitForModeration(p, class) ==
    IF EnsureComplete(p, class) THEN ProductTransition(p, "on_moderation") ELSE None
Publish(p, class) ==
    IF EnsureComplete(p, class) THEN ProductTransition(p, "published") ELSE None
RejectProduct(p) == ProductTransition(p, "rejected")

At(p, i) == {n \in DOMAIN p.images : p.images[n].id = i}
ImageIndex(p, i) == CHOOSE n \in At(p, i) : TRUE
ImageStatus(p, i) == IF At(p, i) = {} THEN "none" ELSE p.images[ImageIndex(p, i)].status
SetStatus(p, i, status) ==
    [p EXCEPT !.images = [n \in DOMAIN p.images |->
        IF p.images[n].id = i THEN [p.images[n] EXCEPT !.status = status] ELSE p.images[n]]]

RequestImageUpload(p, i) ==
    IF Editable(p) /\ Len(p.images) < MaxImages /\ At(p, i) = {}
      THEN [p EXCEPT !.images = Append(@, [id |-> i, status |-> "awaiting_upload"])] ELSE None
(* The object has been found to be what was announced.                     *)
ConfirmImageUpload(p, i) ==
    IF Editable(p) /\ ImageStatus(p, i) = "awaiting_upload"
      THEN SetStatus(p, i, "uploaded") ELSE None
MarkImageProcessed(p, i) ==
    IF ImageStatus(p, i) \in {"uploaded", "processed"}
      THEN SetStatus(p, i, "processed") ELSE None
RemoveImage(p, i) ==
    IF Editable(p) /\ At(p, i) # {}
      THEN [p EXCEPT !.images = RemoveAt(@, ImageIndex(p, i))] ELSE None
(* An order is one of the images the product has, each once.               *)
ImageIds(p) == {p.images[n].id : n \in DOMAIN p.images}
OrdersOf(p) == {order \in [DOMAIN p.images -> ImageIds(p)] : IsInjective(order)}
ReorderImages(p, order) ==
    IF Editable(p) /\ order \in OrdersOf(p)
      THEN [p EXCEPT !.images = [n \in DOMAIN @ |-> @[ImageIndex(p, order[n])]]] ELSE None

(* The first image with thumbnails.                                        *)
FirstProcessed(images) ==
    LET first == {n \in DOMAIN images : /\ images[n].status = "processed"
                                        /\ \A m \in 1 .. n - 1 : images[m].status # "processed"}
    IN  IF first = {} THEN None ELSE images[CHOOSE n \in first : TRUE].id
CoverKey(p) == FirstProcessed(p.images)

-----------------------------------------------------------------------------
(* Requests: what each step keeps in req, and the saves.                   *)

Begin(r, o, id, arg, at, version) ==
    /\ req[r].at = "idle" /\ o \in Offered[r]
    /\ req' = [req EXCEPT ![r] = [Idle EXCEPT !.op = o, !.id = id, !.arg = arg, !.at = at,
                                             !.version = version,
                                             !.members = IF id \in Groups THEN group[id].members
                                                                           ELSE {}]]
Goto(r, at) == req' = [req EXCEPT ![r].at = at]
Finish(r) == req' = [req EXCEPT ![r] = Idle]

(* Faulty: the update does not ask for the version.                        *)
SaveAnyProduct(p, version) == TRUE

CanSaveProduct(p, version) == product[p].version = version
SaveProduct(p, row) == product' = [product EXCEPT ![p] = [row EXCEPT !.version = @ + 1]]

(* The slug of a category is taken by a sibling.                           *)
SlugTaken(c, slug) ==
    \E d \in Categories \ {c} : /\ category[d].exists /\ category[d].slug = slug
                              /\ Parent[d] = Parent[c]
CanSaveCategory(c, row) == category[c].version = row.version /\ ~SlugTaken(c, row.slug)
SaveCategory(c, row) == category' = [category EXCEPT ![c] = [row EXCEPT !.version = @ + 1]]

(* A product is in one group at most: a constraint of the table.           *)
CanSaveGroup(g, version) == group[g].version = version
Grouped(g, members) ==
    \E m \in members, h \in Groups \ {g} : \E n \in group[h].members : m.product = n.product
SaveGroup(g, members, version) ==
    group' = [group EXCEPT ![g] = [exists |-> TRUE, members |-> members, version |-> version + 1]]

-----------------------------------------------------------------------------
(* Categories.                                                             *)

StartCreateCategory(r, c) ==
    /\ ~category[c].exists
    /\ IF Parent[c] = None THEN Begin(r, "create_category", c, {}, "insert_category", 0)
       ELSE /\ category[Parent[c]].exists
            /\ Cardinality(Chain(Parent[c])) < MaxCategoryDepth
            /\ Begin(r, "create_category", c, Chain(Parent[c]), "insert_category", 0)
    /\ UNCHANGED <<catalogRows, object, catalogEvents, catalogHistory>>

InsertCategory(r) ==
    /\ req[r].at = "insert_category"
    /\ LET c == req[r].id
           row == [NoCategory EXCEPT !.exists = TRUE, !.slug = SlugOf[c],
                                     !.ancestors = req[r].arg]
       IN  IF CanSaveCategory(c, row) THEN SaveCategory(c, row) ELSE UNCHANGED category
    /\ Finish(r)
    /\ UNCHANGED <<product, group, object, catalogEvents, catalogHistory>>

StartRename(r, c, slug) ==
    /\ category[c].exists /\ category[c].version < MaxVersion
    /\ Begin(r, "rename_category", c, slug, "save_category", category[c].version)
    /\ UNCHANGED <<catalogRows, object, catalogEvents, catalogHistory>>

StartDefine(r, c, code, def) ==
    /\ category[c].exists /\ category[c].version < MaxVersion
    /\ Begin(r, "define_attribute", c, <<code, def>>, "inherited", category[c].version)
    /\ UNCHANGED <<catalogRows, object, catalogEvents, catalogHistory>>

StartRemoveAttribute(r, c, code) ==
    /\ category[c].exists /\ category[c].version < MaxVersion
    /\ Begin(r, "remove_attribute", c, <<code, None>>, "save_category", category[c].version)
    /\ UNCHANGED <<catalogRows, object, catalogEvents, catalogHistory>>

DefinedBelow(c, code) == \E d \in Below(c) : Defines(d, code)

(* The attributes above the category, and the codes of those below it.     *)
ReadInherited(r) ==
    /\ req[r].at = "inherited"
    /\ LET c == req[r].id
           inherited == Classify(Parent[c])
       IN  IF Parent[c] = None
              \/ (inherited.ok /\ inherited.attributes[req[r].arg[1]] = None)
             THEN Goto(r, "descendants") ELSE Finish(r)
    /\ UNCHANGED <<catalogRows, object, catalogEvents, catalogHistory>>

ReadDescendants(r) ==
    /\ req[r].at = "descendants"
    /\ IF DefinedBelow(req[r].id, req[r].arg[1])
         THEN Finish(r) ELSE Goto(r, "save_category")
    /\ UNCHANGED <<catalogRows, object, catalogEvents, catalogHistory>>

(* What a request makes of the category; None where it refuses.            *)
ChangedCategory(o, row, arg) ==
    CASE o = "rename_category" -> [row EXCEPT !.slug = arg]
      [] o = "define_attribute" ->
            IF row.attributes[arg[1]] # None THEN None
            ELSE [row EXCEPT !.attributes[arg[1]] = arg[2]]
      [] o = "remove_attribute" ->
            IF row.attributes[arg[1]] = None THEN None
            ELSE [row EXCEPT !.attributes[arg[1]] = None]

(* Two requests define one code on one path of the tree.                   *)
Races(q, z) ==
    /\ q.op = "define_attribute" /\ z.op = "define_attribute"
    /\ q.arg[1] = z.arg[1]
    /\ q.id \in Chain(z.id) \/ z.id \in Chain(q.id)

(* The row is still the one read if its version is.                        *)
CommitCategory(r) ==
    /\ req[r].at = "save_category"
    /\ LET c == req[r].id
           changed == ChangedCategory(req[r].op, category[c], req[r].arg)
       IN  IF /\ category[c].version = req[r].version
              /\ changed # None /\ CanSaveCategory(c, changed)
             THEN SaveCategory(c, changed) ELSE UNCHANGED category
    /\ raced' = (raced \/ \E q \in Requests \ {r} : Races(req[r], req[q]))
    /\ Finish(r)
    /\ UNCHANGED <<product, group, object, catalogEvents, submitted, answered>>

-----------------------------------------------------------------------------
(* Products: the handlers of the author and of a moderator.                *)

StartCreateProduct(r, p, content) ==
    /\ product[p].status = "none" /\ \A q \in Requests : req[q].id # p
    /\ LET created == CreateProduct(Classify(CategoryOf[p]), content)
       IN  /\ created # None
           /\ Begin(r, "create_product", p, created, "insert_product", 0)
    /\ UNCHANGED <<catalogRows, object, catalogEvents, catalogHistory>>

InsertProduct(r) ==
    /\ req[r].at = "insert_product"
    /\ SaveProduct(req[r].id, req[r].arg)
    /\ Finish(r)
    /\ UNCHANGED <<category, group, object, catalogEvents, catalogHistory>>

NeedsClass == {"update", "submit", "publish", "reject"}

StartProduct(r, p, o, arg) ==
    /\ product[p].status # "none" /\ product[p].version < MaxVersion
    /\ Begin(r, o, p, arg, "find_product", 0)
    /\ UNCHANGED <<catalogRows, object, catalogEvents, catalogHistory>>

(* The object's size and its first bytes are looked at before the product  *)
(* is read.                                                                *)
StartConfirmUpload(r, p, i) ==
    /\ object[i] \in {"right", "broken"}
    /\ StartProduct(r, p, "confirm_image", i)

FindProduct(r) ==
    /\ req[r].at = "find_product"
    /\ LET p == product[req[r].id]
       IN  req' = [req EXCEPT ![r].row.status = p.status, ![r].row.version = p.version,
                              ![r].at = "load_parts"]
    /\ UNCHANGED <<catalogRows, object, catalogEvents, catalogHistory>>

LoadParts(r) ==
    /\ req[r].at = "load_parts"
    /\ LET p == product[req[r].id]
       IN  req' = [req EXCEPT ![r].row.attributes = p.attributes, ![r].row.images = p.images,
                              ![r].at = IF req[r].op \in NeedsClass THEN "classify"
                                                                    ELSE "save_product"]
    /\ UNCHANGED <<catalogRows, object, catalogEvents, catalogHistory>>

ClassifyProduct(r) ==
    /\ req[r].at = "classify"
    /\ LET class == Classify(CategoryOf[req[r].id])
       IN  req' = IF class.ok
                    THEN [req EXCEPT ![r].class = class, ![r].at = "save_product"]
                    ELSE [req EXCEPT ![r] = Idle]
    /\ UNCHANGED <<catalogRows, object, catalogEvents, catalogHistory>>

Operation(o, p, class, arg) ==
    CASE o = "update" -> UpdateContent(p, class, arg)
      [] o = "submit" -> SubmitForModeration(p, class)
      [] o = "publish" -> Publish(p, class)
      [] o = "reject" -> RejectProduct(p)
      [] o = "request_image" -> RequestImageUpload(p, arg)
      [] o = "confirm_image" -> ConfirmImageUpload(p, arg)
      [] o = "remove_image" -> RemoveImage(p, arg)
      [] o = "reorder_images" -> ReorderImages(p, arg)
      [] o = "process_image" -> MarkImageProcessed(p, arg)

Announced(p, i) == CoverKey(p)

(* The events that are written with a save.                                *)
Record(o, id, before, after, arg) ==
    /\ submitted' = IF o = "submit" THEN [submitted EXCEPT ![id] = after] ELSE submitted
    /\ announced' =
          IF o = "publish" THEN [announced EXCEPT ![id] = CoverKey(after)]
          ELSE IF o = "process_image" /\ after # before /\ after.status = "published"
                 THEN [announced EXCEPT ![id] = Announced(after, arg)]
          ELSE announced

CommitProduct(r) ==
    /\ req[r].at = "save_product" /\ req[r].op # "process_image"
    /\ LET q == req[r]
           changed == Operation(q.op, q.row, q.class, q.arg)
       IN  IF changed # None /\ CanSaveProduct(q.id, q.row.version)
             THEN /\ SaveProduct(q.id, changed)
                  /\ Record(q.op, q.id, q.row, changed, q.arg)
                  /\ uploads' = IF q.op = "confirm_image" THEN uploads \cup {<<q.id, q.arg>>}
                                                          ELSE uploads
             ELSE UNCHANGED <<product, uploads, announced, submitted>>
    /\ Finish(r)
    /\ UNCHANGED <<category, group, object, attempts, answered, raced>>

(* The client puts an object where its upload was requested, and may put   *)
(* another in its place, also when it has confirmed the first: the URL is  *)
(* good until it expires.  A processed image's object is not read again.   *)
PutObject(i, kind) ==
    /\ \E p \in Products : ImageStatus(product[p], i) \in {"awaiting_upload", "uploaded"}
    /\ object[i] # kind
    /\ object' = [object EXCEPT ![i] = kind]
    /\ UNCHANGED <<catalogRows, catalogEvents, catalogHistory, req>>

-----------------------------------------------------------------------------
(* The worker renders thumbnails.  The relay delivers an event until its   *)
(* handler succeeds or the attempts are used up; the handler asks first    *)
(* whether there is anything to do.                                        *)

GivenUp(p, i) == attempts[<<p, i>>] = MaxAttempts

ConsumeUpload(r, p, i) ==
    /\ <<p, i>> \in uploads /\ ~GivenUp(p, i)
    /\ \A q \in Requests : req[q].op = "process_image" => req[q].id # p
    /\ Begin(r, "process_image", p, i, "pending", 0)
    /\ UNCHANGED <<catalogRows, object, catalogEvents, catalogHistory>>

Acknowledge(r) ==
    /\ uploads' = uploads \ {<<req[r].id, req[r].arg>>}
    /\ Finish(r)
    /\ UNCHANGED attempts

(* An attempt has failed.  It counts for the events of the product that    *)
(* were fetched with this one, too: they are not handled, and wait.        *)
AttemptFails(r) ==
    LET failed == <<req[r].id, req[r].arg>>
    IN  /\ \E blocked \in SUBSET {e \in uploads : e[1] = failed[1] /\ e # failed} :
              attempts' = [e \in DOMAIN attempts |->
                  IF e \in blocked \cup {failed} /\ attempts[e] < MaxAttempts
                    THEN attempts[e] + 1 ELSE attempts[e]]
        /\ Finish(r)
        /\ UNCHANGED uploads

Pending(r) ==
    /\ req[r].at = "pending"
    /\ IF ImageStatus(product[req[r].id], req[r].arg) = "uploaded"
         THEN Goto(r, "render") /\ UNCHANGED <<uploads, attempts>>
         ELSE Acknowledge(r)
    /\ UNCHANGED <<catalogRows, object, announced, catalogHistory>>

Render(r) ==
    /\ req[r].at = "render"
    /\ IF object[req[r].arg] = "right"
         THEN Goto(r, "find_product") /\ UNCHANGED <<uploads, attempts>>
         ELSE AttemptFails(r)
    /\ UNCHANGED <<catalogRows, object, announced, catalogHistory>>

(* Faulty: an event that meets a conflict is done with.                    *)
DropConflict(r) == Acknowledge(r)

Conflict(r) == AttemptFails(r)

(* The image may have been removed while it was rendered.                  *)
CommitProcessed(r) ==
    /\ req[r].at = "save_product" /\ req[r].op = "process_image"
    /\ LET q == req[r]
           changed == Operation(q.op, q.row, q.class, q.arg)
       IN  IF changed = None
             THEN Acknowledge(r) /\ UNCHANGED <<product, announced, submitted>>
           ELSE IF ~CanSaveProduct(q.id, q.row.version)
             THEN Conflict(r) /\ UNCHANGED <<product, announced, submitted>>
           ELSE /\ SaveProduct(q.id, changed)
                /\ Record(q.op, q.id, q.row, changed, q.arg)
                /\ Acknowledge(r)
    /\ UNCHANGED <<category, group, object, answered, raced>>

-----------------------------------------------------------------------------
(* Groups of variants.                                                     *)

CreateGroup(r, g) ==
    /\ req[r].at = "idle" /\ "create_group" \in Offered[r]
    /\ ~group[g].exists
    /\ LET class == Classify(CategoryOf[g])
       IN  class.ok /\ \A axis \in Axes : class.attributes[axis] # None
    /\ SaveGroup(g, {}, 0)
    /\ UNCHANGED <<category, product, object, catalogEvents, catalogHistory, req>>

StartAddVariant(r, g, p) ==
    /\ group[g].exists /\ group[g].version < MaxVersion
    /\ product[p].status # "none" /\ CategoryOf[p] = CategoryOf[g]
    /\ Begin(r, "add_variant", g, p, "find_variant", group[g].version)
    /\ UNCHANGED <<catalogRows, object, catalogEvents, catalogHistory>>

(* The product is read after the group, and its version is not looked at.  *)
FindVariant(r) ==
    /\ req[r].at = "find_variant"
    /\ req' = [req EXCEPT ![r].row = product[req[r].arg], ![r].at = "save_group"]
    /\ UNCHANGED <<catalogRows, object, catalogEvents, catalogHistory>>

StartRemoveVariant(r, g, p) ==
    /\ group[g].exists /\ group[g].version < MaxVersion
    /\ Begin(r, "remove_variant", g, p, "save_group", group[g].version)
    /\ UNCHANGED <<catalogRows, object, catalogEvents, catalogHistory>>

AxisValues(p) == [code \in Codes |-> IF code \in Axes THEN p.attributes[code] ELSE None]

AddProduct(members, p, values) ==
    IF \E axis \in Axes : values[axis] = None THEN None
    ELSE IF \E m \in members : m.product = p THEN members
    ELSE IF \E m \in members : m.values = values THEN None
    ELSE members \cup {[product |-> p, values |-> values]}
RemoveProduct(members, p) ==
    IF \E m \in members : m.product = p THEN {m \in members : m.product # p} ELSE None

Kept(r) == UNCHANGED <<group, answered>> /\ Finish(r)

CommitGroup(r) ==
    /\ req[r].at = "save_group"
    /\ LET q == req[r]
           changed == IF q.op = "add_variant"
                        THEN AddProduct(q.members, q.arg, AxisValues(q.row))
                        ELSE RemoveProduct(q.members, q.arg)
       IN  IF changed # None /\ CanSaveGroup(q.id, q.version) /\ ~Grouped(q.id, changed)
             THEN /\ SaveGroup(q.id, changed, group[q.id].version)
                  /\ answered' = [answered EXCEPT ![q.id] =
                        IF q.op = "add_variant" THEN @ \cup {q.arg} ELSE @ \ {q.arg}]
                  /\ Finish(r)
             ELSE Kept(r)
    /\ UNCHANGED <<category, product, object, catalogEvents, submitted, raced>>

-----------------------------------------------------------------------------
StartHandling(r) ==
    \/ \E c \in Categories :
          \/ StartCreateCategory(r, c)
          \/ \E slug \in Slugs : StartRename(r, c, slug)
          \/ \E code \in Codes : \/ StartRemoveAttribute(r, c, code)
                                  \/ \E def \in Definitions : StartDefine(r, c, code, def)
    \/ \E p \in Products :
          \/ \E content \in Contents : \/ StartCreateProduct(r, p, content)
                                        \/ StartProduct(r, p, "update", content)
          \/ \E o \in {"submit", "publish", "reject"} : StartProduct(r, p, o, None)
          \/ \E order \in OrdersOf(product[p]) : StartProduct(r, p, "reorder_images", order)
          \/ \E i \in Images : \/ StartProduct(r, p, "request_image", i)
                                \/ StartProduct(r, p, "remove_image", i)
                                \/ StartConfirmUpload(r, p, i)
                                \/ ConsumeUpload(r, p, i)
    \/ \E g \in Groups :
          \/ CreateGroup(r, g)
          \/ \E p \in Products : StartAddVariant(r, g, p) \/ StartRemoveVariant(r, g, p)

Proceed(r) ==
    \/ InsertCategory(r) \/ ReadInherited(r) \/ ReadDescendants(r) \/ CommitCategory(r)
    \/ InsertProduct(r) \/ FindProduct(r) \/ LoadParts(r) \/ ClassifyProduct(r)
    \/ CommitProduct(r) \/ Pending(r) \/ Render(r) \/ CommitProcessed(r)
    \/ FindVariant(r) \/ CommitGroup(r)

CatalogNext ==
    \/ \E r \in Requests : StartHandling(r) \/ Proceed(r)
    \/ \E i \in Images, kind \in Puts : PutObject(i, kind)

(* The worker goes on, and the relay delivers an event again until its     *)
(* attempts are used up.  A request of a client may stop after any step.   *)
CatalogFairness ==
    \A r \in Requests : WF_catalogVars(req[r].op = "process_image" /\ Proceed(r))
Delivery ==
    \A p \in Products, i \in Images :
        SF_catalogVars(\E r \in Requests : ConsumeUpload(r, p, i))

CatalogSpec == CatalogInit /\ [][CatalogNext]_catalogVars /\ CatalogFairness /\ Delivery

-----------------------------------------------------------------------------
(* What a moderator sees and publishes is what the author submitted: no    *)
(* edit that was begun before the submission is saved after it.            *)
Shown(p) == [attributes |-> p.attributes,
             images |-> [n \in DOMAIN p.images |-> p.images[n].id]]
PublishedAsSubmitted ==
    \A p \in Products :
        product[p].status \in {"on_moderation", "published"}
            => Shown(product[p]) = Shown(submitted[p])

(* The cover that the events of a published product named last is its      *)
(* first processed image, in whatever order its images are processed and   *)
(* the product is published.                                               *)
CoverAnnounced ==
    \A p \in Products :
        product[p].status = "published" => announced[p] = CoverKey(product[p])

(* A group has exactly the products that were added and not removed since, *)
(* and tells every two of them apart by the values they were added with:   *)
(* no change of one member undoes another that was answered.               *)
GroupKeepsMembers ==
    \A g \in Groups :
        /\ {m.product : m \in group[g].members} = answered[g]
        /\ \A m, n \in group[g].members : m.values = n.values => m = n

(* Every uploaded image gets its thumbnails or is removed, though the      *)
(* product changes and the object is put again while they are rendered,    *)
(* unless the attempts are used up, by objects that cannot be decoded, by  *)
(* conflicts, or by failures of another image of the product.              *)
ImagesProcessed ==
    \A p \in Products, i \in Images :
        (ImageStatus(product[p], i) = "uploaded")
            ~> (ImageStatus(product[p], i) # "uploaded" \/ GivenUp(p, i))

(* An attribute's code is defined once on every path of the tree, so that  *)
(* a product has a schema, unless two requests define it at once above and *)
(* below: each reads what is there without the other and saves a row of    *)
(* its own.                                                                *)
CodesUnique ==
    ~raced => \A c \in Categories : category[c].exists => Classify(c).ok

(* Changes that overlap leave the catalog consistent: what is published is *)
(* what the author submitted, with its cover announced; a group has what   *)
(* was added to it; a product's category has a schema.                     *)
CatalogHolds ==
    /\ PublishedAsSubmitted /\ CoverAnnounced
    /\ GroupKeepsMembers /\ CodesUnique
=============================================================================
