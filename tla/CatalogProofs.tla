---------------------------- MODULE CatalogProofs ----------------------------
(***************************************************************************)
(* Proofs about the catalog, for any categories, products, groups, files,  *)
(* requests, workers and bounds.                                           *)
(*                                                                         *)
(* First that what requests leave behind, overlap as they may, is          *)
(* consistent (CatalogHolds): the invariant CatalogInv says what the tree  *)
(* is, and how what a request has read relates to the row it will save.    *)
(* Then that an import job ends once and counts every row of its file,     *)
(* though a job is put back while a slow worker holds it, and that no      *)
(* import brings an archived offer back.  Last that the pages of a search  *)
(* show every product once, in order (PagesInv).                           *)
(***************************************************************************)
EXTENDS Imports, Catalog, Paging, FiniteSetTheorems, SequenceTheorems, TLAPS

(* The positions of a request at a product that exists, and what it runs.  *)
Ats == {"pending", "render", "find_product", "load_parts", "classify", "save_product"}
ImageOps == {"request_image", "remove_image", "confirm_image", "process_image"}
ProductOps == {"update", "submit", "publish", "reject", "reorder_images"} \cup ImageOps

(* A request has its fields, and in them rows as they are read.            *)
IsRequest(q) ==
    /\ DOMAIN q = {"op", "at", "id", "arg", "row", "class", "members", "version"}
    /\ q.row \in ProductRow /\ q.class \in Class /\ q.version \in Nat

RequestsOK == DOMAIN req = Requests /\ \A r \in Requests : IsRequest(req[r])

-----------------------------------------------------------------------------
(* The tree: a category that does not exist has nothing, one that does is  *)
(* on the path of its parent, and of two categories on a path one is above *)
(* the other.                                                              *)
CategoryOK(c) ==
    /\ ~ category[c].exists => category[c] = NoCategory
    /\ category[c].exists =>
          /\ category[c].version # 0
          /\ Parent[c] = None => category[c].ancestors = {}
          /\ Parent[c] # None => /\ category[Parent[c]].exists
                                 /\ category[c].ancestors = Chain(Parent[c])

PathOK(d) ==
    /\ \A e \in category[d].ancestors : category[e].exists
    /\ \A c, e \in Chain(d) : c \in Chain(e) \/ e \in Chain(c)

DefinesOnce(d, code) ==
    \A c, e \in Chain(d) : Defines(c, code) /\ Defines(e, code) => c = e

NoneAbove(c, code) == \A e \in category[c].ancestors : ~ Defines(e, code)
NoneBelow(c, code) == \A d \in Below(c) : ~ Defines(d, code)

(* A request at a category; one that defines an attribute has seen none of *)
(* its code above, and then none below, unless another defined one since.  *)
CategoryCall(q) ==
    /\ q.at = "insert_category" =>
          /\ q.id \in Categories
          /\ Parent[q.id] = None => q.arg = {}
          /\ Parent[q.id] # None => /\ category[Parent[q.id]].exists
                                    /\ q.arg = Chain(Parent[q.id])
    /\ q.at \in {"inherited", "descendants", "save_category"} =>
          /\ q.id \in Categories /\ category[q.id].exists
          /\ \/ q.op = "rename_category" /\ q.at = "save_category" /\ q.arg \in Slugs
             \/ /\ q.op = "remove_attribute" /\ q.at = "save_category"
                /\ \E code \in Codes : q.arg = <<code, None>>
             \/ /\ q.op = "define_attribute"
                /\ \E code \in Codes, def \in Definitions : q.arg = <<code, def>>
    /\ ~ raced /\ q.op = "define_attribute" =>
          /\ q.at \in {"descendants", "save_category"} => NoneAbove(q.id, q.arg[1])
          /\ q.at = "save_category" => NoneBelow(q.id, q.arg[1])

CategoriesOK ==
    /\ category \in [Categories -> CategoryRow]
    /\ raced \in BOOLEAN
    /\ \A c \in Categories : CategoryOK(c) /\ PathOK(c)
    /\ ~ raced => \A c \in Categories, code \in Codes : DefinesOnce(c, code)
    /\ \A r \in Requests : CategoryCall(req[r])

-----------------------------------------------------------------------------
(* A request at a product: the row it has is the product or older.         *)
ProductCall(q) ==
    /\ q.at = "insert_product" =>
          /\ q.id \in Products /\ product[q.id].status = "none"
          /\ q.arg \in ProductRow /\ q.arg.status = "draft"
    /\ q.at \in Ats =>
          /\ q.id \in Products /\ product[q.id].status # "none"
          /\ q.op \in ProductOps
          /\ q.op \in ImageOps => q.arg \in Images
          /\ q.op = "update" => q.arg \in Contents
    /\ q.at \in {"load_parts", "classify", "save_product"} =>
          q.row.version <= product[q.id].version
    /\ q.at = "load_parts" /\ q.row.version = product[q.id].version =>
          q.row.status = product[q.id].status
    /\ q.at \in {"classify", "save_product"} /\ q.row.version = product[q.id].version =>
          q.row = product[q.id]

(* No two requests create one product.                                     *)
Inserting(q) == q.at = "insert_product"
InsertsApart ==
    \A r, s \in Requests : r # s /\ Inserting(req[r]) /\ Inserting(req[s])
                              => req[r].id # req[s].id

ProductOK(p) ==
    /\ product[p].status \in {"on_moderation", "published"}
          => Shown(product[p]) = Shown(submitted[p])
    /\ product[p].status = "published" => announced[p] = CoverKey(product[p])

ProductsOK ==
    /\ product \in [Products -> ProductRow]
    /\ object \in [Images -> Objects]
    /\ uploads \subseteq (Products \X Images)
    /\ \A e \in uploads : product[e[1]].status # "none"
    /\ announced \in [Products -> Images \cup {None}]
    /\ DOMAIN submitted = Products
    /\ \A p \in Products : ProductOK(p)
    /\ InsertsApart
    /\ \A r \in Requests : ProductCall(req[r])

-----------------------------------------------------------------------------
(* A request at a group: its members are the group's or older.             *)
GroupCall(q) ==
    q.at \in {"find_variant", "save_group"} =>
        /\ q.id \in Groups /\ group[q.id].exists
        /\ q.op \in {"add_variant", "remove_variant"} /\ q.arg \in Products
        /\ q.version <= group[q.id].version
        /\ q.version = group[q.id].version => q.members = group[q.id].members

GroupOK(g) ==
    /\ ~ group[g].exists => group[g].members = {}
    /\ {m.product : m \in group[g].members} = answered[g]
    /\ \A m, n \in group[g].members : m.values = n.values => m = n

GroupsOK ==
    /\ group \in [Groups -> GroupRow]
    /\ answered \in [Groups -> SUBSET Products]
    /\ \A g \in Groups : GroupOK(g)
    /\ \A r \in Requests : GroupCall(req[r])

CatalogInv == RequestsOK /\ CategoriesOK /\ ProductsOK /\ GroupsOK

-----------------------------------------------------------------------------
(* A request goes on; what it does not change stays as it must be.         *)
LEMMA RequestReplaced ==
    ASSUME RequestsOK, NEW r \in Requests, NEW q, IsRequest(q),
           req' = [req EXCEPT ![r] = q]
    PROVE  /\ RequestsOK'
           /\ \A s \in Requests : req'[s] = IF s = r THEN q ELSE req[s]
BY DEF RequestsOK, IsRequest

LEMMA CategoriesKept ==
    ASSUME CategoriesOK, UNCHANGED <<category, raced>>, NEW r \in Requests,
           NEW q, CategoryCall(q),
           \A s \in Requests : req'[s] = IF s = r THEN q ELSE req[s]
    PROVE  CategoriesOK'
<1>1. \A c \in Categories : (CategoryOK(c) /\ PathOK(c))'
  BY DEF CategoriesOK, CategoryOK, PathOK, Chain
<1>2. (~ raced => \A c \in Categories, code \in Codes : DefinesOnce(c, code))'
  BY DEF CategoriesOK, DefinesOnce, Defines, Chain
<1>3. \A c : CategoryCall(c) => CategoryCall(c)'
  BY DEF CategoryCall, NoneAbove, NoneBelow, Defines, Below, Chain
<1>4. \A s \in Requests : CategoryCall(req[s])'
  <2> SUFFICES ASSUME NEW s \in Requests PROVE CategoryCall(req[s])'
    OBVIOUS
  <2>1. PICK c : c = req'[s]
    OBVIOUS
  <2>2. CategoryCall(c)
    BY <2>1 DEF CategoriesOK
  <2>3. CategoryCall(c)'
    BY <1>3, <2>2
  <2> QED
    BY <2>1, <2>3 DEF CategoryCall
<1> QED
  BY <1>1, <1>2, <1>4 DEF CategoriesOK

LEMMA ProductsKept ==
    ASSUME ProductsOK, UNCHANGED <<product, object, submitted, announced>>,
           uploads' \subseteq uploads, NEW r \in Requests, NEW q, ProductCall(q),
           Inserting(q) => \A s \in Requests \ {r} : req[s].id # q.id,
           \A s \in Requests : req'[s] = IF s = r THEN q ELSE req[s]
    PROVE  ProductsOK'
<1>1. \A p \in Products : ProductOK(p)'
  BY DEF ProductsOK, ProductOK
<1>2. InsertsApart'
  BY DEF ProductsOK, InsertsApart, Inserting
<1>3. \A c : ProductCall(c) => ProductCall(c)'
  BY DEF ProductCall
<1>4. \A s \in Requests : ProductCall(req[s])'
  <2> SUFFICES ASSUME NEW s \in Requests PROVE ProductCall(req[s])'
    OBVIOUS
  <2>1. PICK c : c = req'[s]
    OBVIOUS
  <2>2. ProductCall(c)
    BY <2>1 DEF ProductsOK
  <2>3. ProductCall(c)'
    BY <1>3, <2>2
  <2> QED
    BY <2>1, <2>3 DEF ProductCall
<1> QED
  BY <1>1, <1>2, <1>4 DEF ProductsOK

LEMMA GroupsKept ==
    ASSUME GroupsOK, UNCHANGED <<group, answered>>, NEW r \in Requests, NEW q, GroupCall(q),
           \A s \in Requests : req'[s] = IF s = r THEN q ELSE req[s]
    PROVE  GroupsOK'
<1>1. \A g \in Groups : GroupOK(g)'
  BY DEF GroupsOK, GroupOK
<1>2. \A c : GroupCall(c) => GroupCall(c)'
  BY DEF GroupCall
<1>3. \A s \in Requests : GroupCall(req[s])'
  <2> SUFFICES ASSUME NEW s \in Requests PROVE GroupCall(req[s])'
    OBVIOUS
  <2>1. PICK c : c = req'[s]
    OBVIOUS
  <2>2. GroupCall(c)
    BY <2>1 DEF GroupsOK
  <2>3. GroupCall(c)'
    BY <1>2, <2>2
  <2> QED
    BY <2>1, <2>3 DEF GroupCall
<1> QED
  BY <1>1, <1>3 DEF GroupsOK

(* A request that has ended is idle.                                       *)
LEMMA IdleOK ==
    /\ IsRequest(Idle) /\ Idle.at = "idle"
    /\ CategoryCall(Idle) /\ ProductCall(Idle) /\ GroupCall(Idle) /\ ~ Inserting(Idle)
BY DEF IsRequest, Idle, NoProduct, NoClass, ProductRow, ProductStatus, Content, NoContent,
       Class, Attributes, CategoryCall, ProductCall, GroupCall, Inserting, Ats

(* A step of one request that changes no row.                              *)
LEMMA Reading ==
    ASSUME CatalogInv, NEW r \in Requests, NEW q, IsRequest(q), CategoryCall(q),
           ProductCall(q), GroupCall(q),
           Inserting(q) => \A s \in Requests \ {r} : req[s].id # q.id,
           req' = [req EXCEPT ![r] = q], UNCHANGED <<catalogRows, object, announced>>,
           UNCHANGED catalogHistory, uploads' \subseteq uploads
    PROVE  CatalogInv'
<1>0. RequestsOK
  BY DEF CatalogInv
<1>1. RequestsOK' /\ \A s \in Requests : req'[s] = IF s = r THEN q ELSE req[s]
  BY ONLY <1>0, IsRequest(q), req' = [req EXCEPT ![r] = q], RequestReplaced
<1>2. CategoriesOK'
  BY <1>1, CategoriesKept DEF CatalogInv, catalogRows, catalogHistory
<1>3. ProductsOK'
  BY <1>1, ProductsKept DEF CatalogInv, catalogRows, catalogHistory
<1>4. GroupsOK'
  BY <1>1, GroupsKept DEF CatalogInv, catalogRows, catalogHistory
<1> QED
  BY <1>1, <1>2, <1>3, <1>4 DEF CatalogInv

(* What a handler that begins has of its request.                          *)
LEMMA Beginning ==
    ASSUME NEW r \in Requests, NEW o, NEW id, NEW arg, NEW at, NEW version \in Nat,
           Begin(r, o, id, arg, at, version)
    PROVE  \E q : /\ IsRequest(q) /\ req' = [req EXCEPT ![r] = q]
                  /\ q.op = o /\ q.id = id /\ q.arg = arg /\ q.at = at
                  /\ q.version = version
                  /\ id \in Groups => q.members = group[id].members
<1>1. PICK held : held = IF id \in Groups THEN group[id].members ELSE {}
  OBVIOUS
<1>2. PICK z : z = Idle
  OBVIOUS
<1>3. IsRequest(z)
  BY <1>2, IdleOK
<1>4. PICK q : q = [z EXCEPT !.op = o, !.id = id, !.arg = arg, !.at = at,
                             !.version = version, !.members = held]
  OBVIOUS
<1>5. req' = [req EXCEPT ![r] = q]
  BY <1>1, <1>2, <1>4 DEF Begin
<1>6. /\ DOMAIN q = DOMAIN z /\ q.row = z.row /\ q.class = z.class
      /\ q.op = o /\ q.id = id /\ q.arg = arg /\ q.at = at
      /\ q.version = version /\ q.members = held
  <2>1. DOMAIN z = {"op", "at", "id", "arg", "row", "class", "members", "version"}
    BY <1>3 DEF IsRequest
  <2> QED
    BY ONLY <1>4, <2>1
<1>7. IsRequest(q)
  BY <1>3, <1>6 DEF IsRequest
<1> QED
  BY <1>1, <1>5, <1>6, <1>7

-----------------------------------------------------------------------------
(* Steps of requests at categories that read.                              *)
LEMMA CategoryReads ==
    ASSUME CatalogInv, NEW r \in Requests, NEW q, IsRequest(q), CategoryCall(q),
           q.at \in {"insert_category", "inherited", "descendants", "save_category"},
           req' = [req EXCEPT ![r] = q],
           UNCHANGED <<catalogRows, object, catalogEvents, catalogHistory>>
    PROVE  CatalogInv'
<1>1. ProductCall(q) /\ GroupCall(q) /\ ~ Inserting(q)
  BY DEF ProductCall, GroupCall, Inserting, Ats
<1>2. UNCHANGED <<catalogRows, object, announced>> /\ uploads' \subseteq uploads
  BY DEF catalogEvents
<1> QED
  BY <1>1, <1>2, Reading

LEMMA RequestEnded ==
    ASSUME RequestsOK, NEW r \in Requests, Finish(r)
    PROVE  RequestsOK' /\ \A s \in Requests : req'[s] = IF s = r THEN Idle ELSE req[s]
BY IdleOK, RequestReplaced DEF Finish

LEMMA RequestEnds ==
    ASSUME CatalogInv, NEW r \in Requests, Finish(r),
           UNCHANGED <<catalogRows, object, catalogEvents, catalogHistory>>
    PROVE  CatalogInv'
<1>1. UNCHANGED <<catalogRows, object, announced>> /\ uploads' \subseteq uploads
  BY DEF catalogEvents
<1>2. req' = [req EXCEPT ![r] = Idle]
  BY DEF Finish
<1> QED
  BY <1>1, <1>2, IdleOK, Reading

(* A category is created under one that exists: none is ever removed.      *)
LEMMA CreateCategoryKeeps ==
    ASSUME CatalogInv, NEW r \in Requests, NEW c \in Categories, StartCreateCategory(r, c)
    PROVE  CatalogInv'
<1>1. CASE Parent[c] = None
  <2>1. Begin(r, "create_category", c, {}, "insert_category", 0)
    BY <1>1 DEF StartCreateCategory
  <2>2. PICK q : /\ IsRequest(q) /\ req' = [req EXCEPT ![r] = q]
                 /\ q.op = "create_category" /\ q.id = c /\ q.arg = {}
                 /\ q.at = "insert_category"
    BY <2>1, Beginning
  <2>3. CategoryCall(q)
    BY <1>1, <2>2 DEF CategoryCall
  <2> QED
    BY <2>2, <2>3, CategoryReads DEF StartCreateCategory
<1>2. CASE Parent[c] # None
  <2>1. /\ Begin(r, "create_category", c, Chain(Parent[c]), "insert_category", 0)
        /\ category[Parent[c]].exists
    BY <1>2 DEF StartCreateCategory
  <2>2. PICK q : /\ IsRequest(q) /\ req' = [req EXCEPT ![r] = q]
                 /\ q.op = "create_category" /\ q.id = c /\ q.arg = Chain(Parent[c])
                 /\ q.at = "insert_category"
    BY <2>1, Beginning
  <2>3. CategoryCall(q)
    BY <1>2, <2>1, <2>2 DEF CategoryCall
  <2> QED
    BY <2>2, <2>3, CategoryReads DEF StartCreateCategory
<1> QED
  BY <1>1, <1>2

LEMMA ChangeCategoryKeeps ==
    ASSUME CatalogInv, NEW r \in Requests, NEW c \in Categories,
           \/ \E slug \in Slugs : StartRename(r, c, slug)
           \/ \E code \in Codes : \/ StartRemoveAttribute(r, c, code)
                                   \/ \E def \in Definitions : StartDefine(r, c, code, def)
    PROVE  CatalogInv'
<1>1. category[c].version \in Nat
  BY DEF CatalogInv, CategoriesOK, CategoryRow
<1>2. /\ category[c].exists
      /\ UNCHANGED <<catalogRows, object, catalogEvents, catalogHistory>>
      /\ \/ \E slug \in Slugs :
               Begin(r, "rename_category", c, slug, "save_category", category[c].version)
         \/ \E code \in Codes :
               Begin(r, "remove_attribute", c, <<code, None>>, "save_category",
                     category[c].version)
         \/ \E code \in Codes, def \in Definitions :
               Begin(r, "define_attribute", c, <<code, def>>, "inherited",
                     category[c].version)
  BY DEF StartRename, StartRemoveAttribute, StartDefine
<1>3. PICK q : /\ IsRequest(q) /\ req' = [req EXCEPT ![r] = q] /\ q.id = c
               /\ \/ /\ q.op = "rename_category" /\ q.at = "save_category"
                     /\ q.arg \in Slugs
                  \/ /\ q.op = "remove_attribute" /\ q.at = "save_category"
                     /\ \E code \in Codes : q.arg = <<code, None>>
                  \/ /\ q.op = "define_attribute" /\ q.at = "inherited"
                     /\ \E code \in Codes, def \in Definitions : q.arg = <<code, def>>
  <2>1. CASE \E slug \in Slugs :
               Begin(r, "rename_category", c, slug, "save_category", category[c].version)
    BY <1>1, <2>1, Beginning
  <2>2. CASE \E code \in Codes :
               Begin(r, "remove_attribute", c, <<code, None>>, "save_category",
                     category[c].version)
    BY <1>1, <2>2, Beginning
  <2>3. CASE \E code \in Codes, def \in Definitions :
               Begin(r, "define_attribute", c, <<code, def>>, "inherited",
                     category[c].version)
    BY <1>1, <2>3, Beginning
  <2> QED
    BY <1>2, <2>1, <2>2, <2>3
<1>4. CategoryCall(q)
  BY <1>2, <1>3 DEF CategoryCall
<1>5. q.at \in {"inherited", "save_category"}
  BY <1>3
<1> QED
  BY <1>2, <1>3, <1>4, <1>5, CategoryReads

(* A schema without a code: nothing on the path defines it.                *)
LEMMA SchemaLacks ==
    ASSUME NEW c \in Categories, NEW code \in Codes, category[c].exists,
           Classify(c).attributes[code] = None
    PROVE  \A e \in Chain(c) : ~ Defines(e, code)
<1> DEFINE definers == {e \in Chain(c) : Defines(e, code)}
<1>1. Classify(c).attributes[code] =
         IF \E e \in Chain(c) : Defines(e, code)
           THEN category[CHOOSE e \in Chain(c) : Defines(e, code)].attributes[code] ELSE None
  BY DEF Classify, NewSchema
<1>2. ASSUME \E e \in Chain(c) : Defines(e, code) PROVE FALSE
  <2>1. PICK k : k = CHOOSE e \in Chain(c) : Defines(e, code)
    OBVIOUS
  <2>2. Defines(k, code)
    BY <1>2, <2>1
  <2> QED
    BY <1>1, <1>2, <2>1, <2>2 DEF Defines
<1> QED
  BY <1>2

(* The position of a request changes.                                      *)
LEMMA GoesOn ==
    ASSUME RequestsOK, NEW r \in Requests, NEW at, Goto(r, at)
    PROVE  \E q : /\ IsRequest(q) /\ req' = [req EXCEPT ![r] = q] /\ q.at = at
                  /\ q.op = req[r].op /\ q.id = req[r].id /\ q.arg = req[r].arg
                  /\ q.row = req[r].row /\ q.version = req[r].version
                  /\ q.members = req[r].members
<1> DEFINE c == req[r]
           q == [c EXCEPT !.at = at]
<1>1. req' = [req EXCEPT ![r] = q]
  BY DEF Goto, RequestsOK
<1>2. IsRequest(c)
  BY DEF RequestsOK
<1> HIDE DEF c
<1>3. /\ IsRequest(q) /\ q.at = at /\ q.op = c.op /\ q.id = c.id /\ q.arg = c.arg
      /\ q.row = c.row /\ q.version = c.version /\ q.members = c.members
  BY <1>2 DEF IsRequest
<1> QED
  BY <1>1, <1>3 DEF c

LEMMA InheritedKeeps ==
    ASSUME CatalogInv, NEW r \in Requests,
           ReadInherited(r) \/ ReadDescendants(r)
    PROVE  CatalogInv'
<1>1. PICK c : c = req[r]
  OBVIOUS
<1>2. /\ CategoryCall(c) /\ IsRequest(c) /\ c.at \in {"inherited", "descendants"}
      /\ UNCHANGED <<catalogRows, object, catalogEvents, catalogHistory>>
  BY <1>1 DEF CatalogInv, CategoriesOK, RequestsOK, ReadInherited, ReadDescendants
<1>3. /\ c.id \in Categories /\ category[c.id].exists /\ c.op = "define_attribute"
      /\ \E code \in Codes, def \in Definitions : c.arg = <<code, def>>
  BY <1>2 DEF CategoryCall
<1>4. PICK code \in Codes, def \in Definitions : c.arg = <<code, def>>
  BY <1>3
<1>5. c.arg[1] = code
  BY <1>4
<1>6. CASE Finish(r)
  BY <1>2, <1>6, RequestEnds
<1>7. CASE ReadInherited(r) /\ ~ Finish(r)
  <2>1. /\ c.at = "inherited" /\ Goto(r, "descendants")
        /\ \/ Parent[c.id] = None
           \/ Classify(Parent[c.id]).ok /\ Classify(Parent[c.id]).attributes[code] = None
    BY <1>1, <1>5, <1>7 DEF ReadInherited
  <2>2. NoneAbove(c.id, code)
    <3>1. CASE Parent[c.id] = None
      BY <1>3, <3>1 DEF CatalogInv, CategoriesOK, CategoryOK, NoneAbove
    <3>2. CASE Parent[c.id] # None
      <4>1. /\ Parent[c.id] \in Categories /\ category[Parent[c.id]].exists
            /\ category[c.id].ancestors = Chain(Parent[c.id])
        BY <1>3, <3>2, CatalogAssumption DEF CatalogInv, CategoriesOK, CategoryOK
      <4>2. \A e \in Chain(Parent[c.id]) : ~ Defines(e, code)
        BY <2>1, <3>2, <4>1, SchemaLacks
      <4> QED
        BY <4>1, <4>2 DEF NoneAbove
    <3> QED
      BY <3>1, <3>2
  <2>3. PICK q : /\ IsRequest(q) /\ req' = [req EXCEPT ![r] = q] /\ q.at = "descendants"
                 /\ q.op = c.op /\ q.id = c.id /\ q.arg = c.arg
    BY <1>1, <2>1, GoesOn DEF CatalogInv
  <2>4. CategoryCall(q)
    BY <1>3, <1>5, <2>2, <2>3 DEF CategoryCall
  <2> QED
    BY <1>2, <2>3, <2>4, CategoryReads
<1>8. CASE ReadDescendants(r) /\ ~ Finish(r)
  <2>1. c.at = "descendants" /\ Goto(r, "save_category") /\ ~ DefinedBelow(c.id, code)
    BY <1>1, <1>5, <1>8 DEF ReadDescendants
  <2>2. NoneBelow(c.id, code)
    BY <2>1 DEF DefinedBelow, NoneBelow
  <2>3. PICK q : /\ IsRequest(q) /\ req' = [req EXCEPT ![r] = q] /\ q.at = "save_category"
                 /\ q.op = c.op /\ q.id = c.id /\ q.arg = c.arg
    BY <1>1, <2>1, GoesOn DEF CatalogInv
  <2>4. CategoryCall(q)
    BY <1>2, <1>3, <1>5, <2>1, <2>2, <2>3 DEF CategoryCall
  <2> QED
    BY <1>2, <2>3, <2>4, CategoryReads
<1> QED
  BY <1>6, <1>7, <1>8
-----------------------------------------------------------------------------
(* Saves of a category.                                                    *)
LEMMA OthersKept ==
    ASSUME CatalogInv, NEW r \in Requests, Finish(r),
           UNCHANGED <<product, group, object, catalogEvents, submitted, answered>>
    PROVE  /\ RequestsOK' /\ ProductsOK' /\ GroupsOK'
           /\ \A s \in Requests : req'[s] = IF s = r THEN Idle ELSE req[s]
<1>1. RequestsOK' /\ \A s \in Requests : req'[s] = IF s = r THEN Idle ELSE req[s]
  BY RequestEnded DEF CatalogInv
<1>2. ProductsOK'
  BY <1>1, IdleOK, ProductsKept DEF CatalogInv, catalogEvents
<1>3. GroupsOK'
  BY <1>1, IdleOK, GroupsKept DEF CatalogInv
<1> QED
  BY <1>1, <1>2, <1>3

LEMMA CategoryCreated ==
    ASSUME CategoriesOK, NEW c \in Categories, ~ category[c].exists,
           NEW above, Parent[c] = None => above = {},
           Parent[c] # None => category[Parent[c]].exists /\ above = Chain(Parent[c]),
           NEW new \in CategoryRow, new.exists, new.ancestors = above, new.version # 0,
           \A code \in Codes : new.attributes[code] = None,
           category' = [category EXCEPT ![c] = new],
           UNCHANGED raced
    PROVE  /\ category' \in [Categories -> CategoryRow]
           /\ \A d \in Categories : (CategoryOK(d) /\ PathOK(d))'
           /\ (~ raced => \A d \in Categories, code \in Codes : DefinesOnce(d, code))'
           /\ \A q : CategoryCall(q) => CategoryCall(q)'
<1>1. /\ category \in [Categories -> CategoryRow]
      /\ Parent[c] # None => Parent[c] \in Categories
      /\ \A d \in Categories : Parent[d] # None => Parent[d] \in Categories
  BY CatalogAssumption DEF CategoriesOK
<1>2. \A d \in Categories : category[d].ancestors \subseteq Categories
  BY <1>1 DEF CategoryRow
<1>3. above \subseteq Categories
  BY <1>1, <1>2 DEF Chain
<1>5. category' \in [Categories -> CategoryRow]
  BY <1>1
<1>6. /\ category'[c] = new
      /\ \A d \in Categories : d # c => category'[d] = category[d]
  BY <1>1
<1>7. /\ category'[c].exists /\ category'[c].ancestors = above
      /\ category'[c].version # 0
      /\ \A code \in Codes : category'[c].attributes[code] = None
  BY <1>6
<1>8. \A d \in Categories : c \notin category[d].ancestors
  BY DEF CategoriesOK, PathOK
<1>9. \A d \in Categories : d # c => Chain(d)' = Chain(d)
  BY <1>6 DEF Chain
<1>10. Chain(c)' = above \cup {c}
  BY <1>7 DEF Chain
<1>11. /\ \A e \in above : category[e].exists
       /\ \A x, y \in above : x \in Chain(y) \/ y \in Chain(x)
  <2>1. CASE Parent[c] = None
    BY <2>1
  <2>2. CASE Parent[c] # None
    <3>1. PathOK(Parent[c]) /\ above = Chain(Parent[c]) /\ category[Parent[c]].exists
      BY <1>1, <2>2 DEF CategoriesOK
    <3> QED
      BY <3>1 DEF PathOK, Chain
  <2> QED
    BY <2>1, <2>2
<1>12. c \notin above
  BY <1>11
<1>13. \A d \in Categories : category[d].exists => category'[d].exists
  BY <1>6
<1>14. \A d \in Categories : CategoryOK(d)'
  <2> SUFFICES ASSUME NEW d \in Categories PROVE CategoryOK(d)'
    OBVIOUS
  <2>1. CASE d = c
    <3>1. Parent[c] # None => Chain(Parent[c])' = Chain(Parent[c])
      BY <1>1, <1>9
    <3> QED
      BY <1>1, <1>7, <1>13, <2>1, <3>1 DEF CategoryOK
  <2>2. CASE d # c
    <3>1. CategoryOK(d) /\ category'[d] = category[d]
      BY <1>6, <2>2 DEF CategoriesOK
    <3>2. CASE category[d].exists /\ Parent[d] # None
      <4>1. category[Parent[d]].exists /\ Parent[d] \in Categories
        BY <1>1, <3>1, <3>2 DEF CategoryOK
      <4>2. Chain(Parent[d])' = Chain(Parent[d]) /\ category'[Parent[d]].exists
        BY <1>9, <1>13, <4>1
      <4> QED
        BY <3>1, <3>2, <4>2 DEF CategoryOK
    <3>3. CASE ~ (category[d].exists /\ Parent[d] # None)
      BY <3>1, <3>3 DEF CategoryOK
    <3> QED
      BY <3>2, <3>3
  <2> QED
    BY <2>1, <2>2
<1>15. \A d \in Categories : PathOK(d)'
  <2> SUFFICES ASSUME NEW d \in Categories PROVE PathOK(d)'
    OBVIOUS
  <2>1. CASE d = c
    <3>1. \A e \in above : Chain(e)' = Chain(e) /\ category'[e].exists
      BY <1>3, <1>9, <1>11, <1>12, <1>13
    <3>2. \A x, y \in Chain(c)' : x \in Chain(y)' \/ y \in Chain(x)'
      BY <1>10, <1>11, <3>1
    <3> QED
      BY <1>7, <2>1, <3>1, <3>2 DEF PathOK
  <2>2. CASE d # c
    <3>1. PathOK(d) /\ category'[d].ancestors = category[d].ancestors
      BY <1>6, <2>2 DEF CategoriesOK
    <3>2. \A e \in Chain(d) : e \in Categories /\ e # c /\ Chain(e)' = Chain(e)
      BY <1>2, <1>8, <1>9, <2>2 DEF Chain
    <3>3. \A e \in category[d].ancestors : category'[e].exists
      BY <1>2, <1>13, <3>1 DEF PathOK
    <3>4. \A x, y \in Chain(d)' : x \in Chain(y)' \/ y \in Chain(x)'
      BY <1>9, <2>2, <3>1, <3>2 DEF PathOK
    <3> QED
      BY <3>1, <3>3, <3>4 DEF PathOK
  <2> QED
    BY <2>1, <2>2
<1>16. \A d \in Categories, code \in Codes : Defines(d, code)' => d # c /\ Defines(d, code)
  BY <1>6, <1>7 DEF Defines
<1>17. (~ raced => \A d \in Categories, code \in Codes : DefinesOnce(d, code))'
  <2> SUFFICES ASSUME ~ raced, NEW d \in Categories, NEW code \in Codes,
                      NEW x \in Chain(d)', NEW y \in Chain(d)',
                      Defines(x, code)', Defines(y, code)'
               PROVE x = y
    BY DEF DefinesOnce
  <2>1. x \in Categories /\ y \in Categories
    BY <1>2, <1>3, <1>9, <1>10 DEF Chain
  <2>2. /\ x # c /\ y # c /\ Defines(x, code) /\ Defines(y, code)
    BY <1>16, <2>1
  <2>3. CASE d = c
    <3>1. x \in above /\ y \in above
      BY <1>10, <2>2, <2>3
    <3>2. Parent[c] # None /\ above = Chain(Parent[c])
      BY <3>1
    <3> QED
      BY <1>1, <2>2, <3>1, <3>2 DEF CategoriesOK, DefinesOnce
  <2>4. CASE d # c
    BY <1>9, <2>2, <2>4 DEF CategoriesOK, DefinesOnce
  <2> QED
    BY <2>3, <2>4
<1>18. \A q : CategoryCall(q) => CategoryCall(q)'
  <2> SUFFICES ASSUME NEW q, CategoryCall(q) PROVE CategoryCall(q)'
    OBVIOUS
  <2>1. q.at = "insert_category" =>
          /\ q.id \in Categories
          /\ Parent[q.id] = None => q.arg = {}
          /\ Parent[q.id] # None => /\ category'[Parent[q.id]].exists
                                    /\ q.arg = Chain(Parent[q.id])'
    BY <1>1, <1>9, <1>13 DEF CategoryCall
  <2>2. q.at \in {"inherited", "descendants", "save_category"} =>
          q.id \in Categories /\ q.id # c /\ category'[q.id].exists
    BY <1>6 DEF CategoryCall
  <2>3. ASSUME q.at \in {"inherited", "descendants", "save_category"},
               q.op = "define_attribute"
        PROVE  /\ q.arg[1] \in Codes
               /\ NoneAbove(q.id, q.arg[1]) => NoneAbove(q.id, q.arg[1])'
               /\ NoneBelow(q.id, q.arg[1]) => NoneBelow(q.id, q.arg[1])'
    <3>1. \E code \in Codes, def \in Definitions : q.arg = <<code, def>>
      BY <2>3 DEF CategoryCall
    <3>2. q.arg[1] \in Codes
      BY <3>1
    <3>3. PICK code \in Codes : code = q.arg[1]
      BY <3>2
    <3>4. q.id \in Categories /\ q.id # c
      BY <2>2, <2>3
    <3>5. NoneAbove(q.id, code) => NoneAbove(q.id, code)'
      BY <1>2, <1>6, <1>16, <3>4 DEF NoneAbove
    <3>6. NoneBelow(q.id, code) => NoneBelow(q.id, code)'
      <4>1. \A d \in Below(q.id)' : d \in Categories /\ (d = c \/ d \in Below(q.id))
        BY <1>6 DEF Below
      <4> QED
        BY <1>16, <4>1 DEF NoneBelow
    <3> QED
      BY <3>3, <3>5, <3>6 DEF NoneAbove, NoneBelow, Defines
  <2> QED
    BY <2>1, <2>2, <2>3 DEF CategoryCall
<1> QED
  BY <1>5, <1>14, <1>15, <1>17, <1>18

LEMMA InsertCategoryKeeps ==
    ASSUME CatalogInv, NEW r \in Requests, InsertCategory(r)
    PROVE  CatalogInv'
<1>1. PICK q : q = req[r]
  OBVIOUS
<1>2. /\ CategoryCall(q) /\ q.at = "insert_category" /\ Finish(r)
      /\ UNCHANGED <<product, group, object, catalogEvents, catalogHistory>>
  BY <1>1 DEF CatalogInv, CategoriesOK, InsertCategory
<1>3. /\ q.id \in Categories
      /\ Parent[q.id] = None => q.arg = {}
      /\ Parent[q.id] # None => /\ category[Parent[q.id]].exists
                                /\ q.arg = Chain(Parent[q.id])
  BY <1>2 DEF CategoryCall
<1>4. PICK c \in Categories : c = q.id
  BY <1>3
<1>5. /\ RequestsOK' /\ ProductsOK' /\ GroupsOK'
      /\ \A s \in Requests : req'[s] = IF s = r THEN Idle ELSE req[s]
  BY <1>2, OthersKept DEF catalogHistory
<1>6. CASE UNCHANGED category
  BY <1>2, <1>6, RequestEnds DEF catalogRows
<1>7. CASE ~ UNCHANGED category
  <2>1. NoCategory \in CategoryRow
    BY DEF NoCategory, CategoryRow, Attributes
  <2>2. q.arg \subseteq Categories
    BY <1>3, CatalogAssumption DEF CatalogInv, CategoriesOK, CategoryRow, Chain
  <2>3. PICK row : row = [NoCategory EXCEPT !.exists = TRUE, !.slug = SlugOf[c],
                                            !.ancestors = q.arg]
    OBVIOUS
  <2>4. CanSaveCategory(c, row) /\ SaveCategory(c, row)
    BY <1>1, <1>4, <1>7, <2>3 DEF InsertCategory
  <2>5. /\ row \in CategoryRow /\ row.exists /\ row.ancestors = q.arg
        /\ row.version = NoCategory.version /\ row.attributes = NoCategory.attributes
    <3>1. SlugOf[c] \in Slugs
      BY CatalogAssumption
    <3> QED
      BY <2>1, <2>2, <2>3, <3>1 DEF CategoryRow
  <2>6. /\ row.version = 0 /\ \A code \in Codes : row.attributes[code] = None
    BY <2>5 DEF NoCategory
  <2>7. PICK new : new = [row EXCEPT !.version = @ + 1]
    OBVIOUS
  <2>8. /\ new \in CategoryRow /\ new.exists /\ new.ancestors = q.arg
        /\ new.version = row.version + 1 /\ new.attributes = row.attributes
    BY <2>5, <2>7 DEF CategoryRow
  <2>9. ~ category[c].exists
    BY <2>4, <2>6 DEF CanSaveCategory, CatalogInv, CategoriesOK, CategoryOK
  <2>10. category' = [category EXCEPT ![c] = new]
    BY <2>4, <2>7 DEF SaveCategory
  <2>11. /\ category' \in [Categories -> CategoryRow]
         /\ \A d \in Categories : (CategoryOK(d) /\ PathOK(d))'
         /\ (~ raced => \A d \in Categories, code \in Codes : DefinesOnce(d, code))'
         /\ \A z : CategoryCall(z) => CategoryCall(z)'
    <3>1. new.version # 0 /\ \A code \in Codes : new.attributes[code] = None
      BY <2>6, <2>8
    <3> QED
      BY <1>2, <1>3, <1>4, <2>8, <2>9, <2>10, <3>1, CategoryCreated
      DEF CatalogInv, catalogHistory
  <2>12. \A s \in Requests : CategoryCall(req[s])'
    <3> SUFFICES ASSUME NEW s \in Requests PROVE CategoryCall(req[s])'
      OBVIOUS
    <3>1. PICK z : z = req'[s]
      OBVIOUS
    <3>2. CategoryCall(z)
      BY <1>5, <3>1, IdleOK DEF CatalogInv, CategoriesOK
    <3>3. CategoryCall(z)'
      BY <2>11, <3>2
    <3> QED
      BY <3>1, <3>3 DEF CategoryCall
  <2>13. raced' \in BOOLEAN
    BY <1>2 DEF CatalogInv, CategoriesOK, catalogHistory
  <2> QED
    BY <1>5, <2>11, <2>12, <2>13 DEF CatalogInv, CategoriesOK
<1> QED
  BY <1>6, <1>7

(* A change of a category leaves the tree as it is.                        *)
LEMMA CategoryChanged ==
    ASSUME CategoriesOK, NEW c \in Categories, category[c].exists,
           NEW new \in CategoryRow, new.exists, new.version # 0,
           new.ancestors = category[c].ancestors,
           category' = [category EXCEPT ![c] = new]
    PROVE  /\ category' \in [Categories -> CategoryRow] /\ category'[c] = new
           /\ \A d \in Categories :
                 /\ (CategoryOK(d) /\ PathOK(d))'
                 /\ Chain(d)' = Chain(d) /\ Below(d)' = Below(d)
                 /\ category'[d].ancestors = category[d].ancestors
                 /\ category'[d].exists <=> category[d].exists
                 /\ d # c => category'[d] = category[d]
<1>1. category \in [Categories -> CategoryRow]
  BY DEF CategoriesOK
<1>2. /\ category' \in [Categories -> CategoryRow] /\ category'[c] = new
      /\ \A d \in Categories : d # c => category'[d] = category[d]
  BY <1>1
<1>3. \A d \in Categories : /\ category'[d].ancestors = category[d].ancestors
                            /\ category'[d].exists <=> category[d].exists
  BY <1>2
<1>4. \A d \in Categories : Chain(d)' = Chain(d) /\ Below(d)' = Below(d)
  BY <1>3 DEF Chain, Below
<1>5. \A d \in Categories : /\ category[d].ancestors \subseteq Categories
                            /\ Parent[d] # None => Parent[d] \in Categories
  BY <1>1, CatalogAssumption DEF CategoryRow
<1>6. \A d \in Categories : CategoryOK(d)'
  <2> SUFFICES ASSUME NEW d \in Categories PROVE CategoryOK(d)'
    OBVIOUS
  <2>1. CategoryOK(d)
    BY DEF CategoriesOK
  <2>2. ~ category'[d].exists => category'[d] = NoCategory
    BY <1>2, <1>3, <2>1 DEF CategoryOK
  <2>3. category'[d].exists => category'[d].version # 0
    BY <1>2, <1>3, <2>1 DEF CategoryOK
  <2>4. Parent[d] # None => /\ Chain(Parent[d])' = Chain(Parent[d])
                           /\ category'[Parent[d]].exists <=> category[Parent[d]].exists
    BY <1>3, <1>4, <1>5
  <2> QED
    BY <1>3, <2>1, <2>2, <2>3, <2>4 DEF CategoryOK
<1>7. \A d \in Categories : PathOK(d)'
  <2> SUFFICES ASSUME NEW d \in Categories PROVE PathOK(d)'
    OBVIOUS
  <2>1. PathOK(d)
    BY DEF CategoriesOK
  <2>2. \A e \in Chain(d) : e \in Categories /\ Chain(e)' = Chain(e)
    BY <1>4, <1>5 DEF Chain
  <2>3. \A e \in category'[d].ancestors : category'[e].exists
    BY <1>3, <1>5, <2>1 DEF PathOK
  <2>4. \A x, y \in Chain(d)' : x \in Chain(y)' \/ y \in Chain(x)'
    BY <1>4, <2>1, <2>2 DEF PathOK
  <2> QED
    BY <2>3, <2>4 DEF PathOK
<1> QED
  BY <1>2, <1>3, <1>4, <1>6, <1>7

(* What a request makes of a category.                                     *)
LEMMA ChangesCategory ==
    ASSUME NEW o, NEW row \in CategoryRow, NEW arg, ChangedCategory(o, row, arg) # None,
           row.exists,
           \/ o = "rename_category" /\ arg \in Slugs
           \/ o = "remove_attribute" /\ \E code \in Codes : arg = <<code, None>>
           \/ /\ o = "define_attribute"
              /\ \E code \in Codes, def \in Definitions : arg = <<code, def>>
    PROVE  \E new \in CategoryRow :
              /\ new = ChangedCategory(o, row, arg)
              /\ new.exists /\ new.ancestors = row.ancestors /\ new.version = row.version
              /\ \A code \in Codes :
                    new.attributes[code] # None
                       => \/ row.attributes[code] # None
                          \/ o = "define_attribute" /\ code = arg[1]
<1>1. CASE o = "rename_category" /\ arg \in Slugs
  <2>1. ChangedCategory(o, row, arg) = [row EXCEPT !.slug = arg]
    BY <1>1 DEF ChangedCategory
  <2> QED
    BY <1>1, <2>1 DEF CategoryRow
<1>2. CASE o = "remove_attribute" /\ \E code \in Codes : arg = <<code, None>>
  <2>1. PICK code \in Codes : arg = <<code, None>>
    BY <1>2
  <2>2. PICK after : after = [row.attributes EXCEPT ![code] = None]
    OBVIOUS
  <2>3. after \in Attributes /\ \A x \in Codes : after[x] # None => row.attributes[x] # None
    BY <2>2 DEF CategoryRow, Attributes
  <2>4. ChangedCategory(o, row, arg) = [row EXCEPT !.attributes = after]
    BY <1>2, <2>1, <2>2 DEF ChangedCategory
  <2> QED
    BY <2>3, <2>4 DEF CategoryRow
<1>3. CASE /\ o = "define_attribute"
           /\ \E code \in Codes, def \in Definitions : arg = <<code, def>>
  <2>1. PICK code \in Codes, def \in Definitions : arg = <<code, def>>
    BY <1>3
  <2>2. PICK after : after = [row.attributes EXCEPT ![code] = def]
    OBVIOUS
  <2>3. /\ after \in Attributes
        /\ \A x \in Codes : after[x] # None => row.attributes[x] # None \/ x = code
    BY <2>2 DEF CategoryRow, Attributes
  <2>4. ChangedCategory(o, row, arg) = [row EXCEPT !.attributes = after]
    BY <1>3, <2>1, <2>2 DEF ChangedCategory
  <2>5. o = "define_attribute" /\ arg[1] = code
    BY <1>3, <2>1
  <2> QED
    BY <2>3, <2>4, <2>5 DEF CategoryRow
<1> QED
  BY <1>1, <1>2, <1>3

LEMMA CommitCategoryKeeps ==
    ASSUME CatalogInv, NEW r \in Requests, CommitCategory(r)
    PROVE  CatalogInv'
<1>1. PICK q : q = req[r]
  OBVIOUS
<1>2. /\ CategoryCall(q) /\ q.at = "save_category" /\ Finish(r)
      /\ UNCHANGED <<product, group, object, catalogEvents, submitted, answered>>
      /\ raced' = (raced \/ \E s \in Requests \ {r} : Races(q, req[s]))
  BY <1>1 DEF CatalogInv, CategoriesOK, CommitCategory
<1>3. /\ q.id \in Categories /\ category[q.id].exists
      /\ \/ q.op = "rename_category" /\ q.arg \in Slugs
         \/ q.op = "remove_attribute" /\ \E code \in Codes : q.arg = <<code, None>>
         \/ /\ q.op = "define_attribute"
            /\ \E code \in Codes, def \in Definitions : q.arg = <<code, def>>
  BY <1>2 DEF CategoryCall
<1>4. PICK c \in Categories : c = q.id
  BY <1>3
<1>5. /\ RequestsOK' /\ ProductsOK' /\ GroupsOK'
      /\ \A s \in Requests : req'[s] = IF s = r THEN Idle ELSE req[s]
  BY <1>2, OthersKept
<1>6. /\ raced' \in BOOLEAN /\ (raced => raced')
      /\ ~ raced' => \A s \in Requests \ {r} : ~ Races(q, req[s])
  BY <1>2, Zenon DEF CatalogInv, CategoriesOK
<1>7. ASSUME category' \in [Categories -> CategoryRow],
             \A d \in Categories :
                /\ (CategoryOK(d) /\ PathOK(d))'
                /\ Chain(d)' = Chain(d) /\ Below(d)' = Below(d)
                /\ category'[d].ancestors = category[d].ancestors
                /\ category'[d].exists <=> category[d].exists,
             \A d \in Categories, code \in Codes :
                Defines(d, code)' =>
                   \/ Defines(d, code)
                   \/ d = c /\ q.op = "define_attribute" /\ code = q.arg[1]
      PROVE  CategoriesOK'
  <2>1. \A d \in Categories : /\ category[d].ancestors \subseteq Categories
                              /\ Chain(d) \subseteq Categories
                              /\ Parent[d] # None => Parent[d] \in Categories
    BY CatalogAssumption DEF CatalogInv, CategoriesOK, CategoryRow, Chain
  <2>2. ASSUME ~ raced', NEW d \in Categories, NEW code \in Codes,
               NEW x \in Chain(d), NEW y \in Chain(d),
               Defines(x, code)', Defines(y, code)'
        PROVE  x = y
    <3>1. /\ x \in Categories /\ y \in Categories /\ PathOK(d) /\ DefinesOnce(d, code)
          /\ ~ raced
      BY <1>6, <2>1, <2>2 DEF CatalogInv, CategoriesOK
    <3>2. x \in Chain(y) \/ y \in Chain(x)
      BY <3>1 DEF PathOK
    <3>3. ASSUME q.op = "define_attribute", q.arg[1] = code
          PROVE  \A e \in Chain(c) \cup Below(c) : e # c => ~ Defines(e, code)
      <4>1. NoneAbove(c, code) /\ NoneBelow(c, code)
        BY <1>2, <1>4, <3>1, <3>3 DEF CategoryCall
      <4> QED
        BY <4>1 DEF NoneAbove, NoneBelow, Chain
    <3>4. ASSUME NEW e \in Categories, e # c, e \in Chain(c) \/ c \in Chain(e)
          PROVE  e \in Chain(c) \cup Below(c)
      BY <3>4 DEF Chain, Below
    <3>5. CASE Defines(x, code) /\ Defines(y, code)
      BY <3>1, <3>5 DEF DefinesOnce
    <3>6. CASE ~ Defines(x, code)
      <4>1. x = c /\ q.op = "define_attribute" /\ q.arg[1] = code
        BY <1>7, <2>2, <3>1, <3>6
      <4>2. y # c => Defines(y, code)
        BY <1>7, <2>2, <3>1
      <4> QED
        BY <3>1, <3>2, <3>3, <3>4, <4>1, <4>2
    <3>7. CASE ~ Defines(y, code)
      <4>1. y = c /\ q.op = "define_attribute" /\ q.arg[1] = code
        BY <1>7, <2>2, <3>1, <3>7
      <4>2. x # c => Defines(x, code)
        BY <1>7, <2>2, <3>1
      <4> QED
        BY <3>1, <3>2, <3>3, <3>4, <4>1, <4>2
    <3> QED
      BY <3>5, <3>6, <3>7
  <2>3. (~ raced => \A d \in Categories, code \in Codes : DefinesOnce(d, code))'
    BY <1>7, <2>2 DEF DefinesOnce
  <2>4. ASSUME NEW z, CategoryCall(z), raced' \/ ~ Races(q, z)
        PROVE  CategoryCall(z)'
    <3>1. z.at = "insert_category" =>
            /\ z.id \in Categories
            /\ Parent[z.id] = None => z.arg = {}
            /\ Parent[z.id] # None => /\ category'[Parent[z.id]].exists
                                      /\ z.arg = Chain(Parent[z.id])'
      BY <1>7, <2>1, <2>4 DEF CategoryCall
    <3>2. z.at \in {"inherited", "descendants", "save_category"} =>
            z.id \in Categories /\ category'[z.id].exists
      BY <1>7, <2>4 DEF CategoryCall
    <3>3. ASSUME ~ raced', z.op = "define_attribute",
                 z.at \in {"inherited", "descendants", "save_category"}
          PROVE  /\ NoneAbove(z.id, z.arg[1]) => NoneAbove(z.id, z.arg[1])'
                 /\ NoneBelow(z.id, z.arg[1]) => NoneBelow(z.id, z.arg[1])'
      <4>1. \E code \in Codes, def \in Definitions : z.arg = <<code, def>>
        BY <2>4, <3>3 DEF CategoryCall
      <4>2. z.arg[1] \in Codes
        BY <4>1
      <4>3. PICK code \in Codes : code = z.arg[1]
        BY <4>2
      <4>4. PICK d \in Categories : d = z.id
        BY <3>2, <3>3
      <4>5. \A e \in Categories :
                Defines(e, code)' => Defines(e, code) \/ e \notin Chain(d) \cup Below(d)
        <5> SUFFICES ASSUME NEW e \in Categories, Defines(e, code)', ~ Defines(e, code)
                     PROVE  e \notin Chain(d) \cup Below(d)
          OBVIOUS
        <5>1. e = c /\ q.op = "define_attribute" /\ q.arg[1] = code
          BY <1>7
        <5>2. ~ (c \in Chain(d)) /\ ~ (d \in Chain(c))
          BY <1>4, <2>4, <3>3, <4>3, <4>4, <5>1 DEF Races
        <5> QED
          BY <5>1, <5>2 DEF Chain, Below
      <4>6. NoneAbove(d, code) => NoneAbove(d, code)'
        BY <1>7, <2>1, <4>5 DEF NoneAbove, Chain
      <4>7. NoneBelow(d, code) => NoneBelow(d, code)'
        BY <1>7, <4>5 DEF NoneBelow, Below
      <4> QED
        BY <4>3, <4>4, <4>6, <4>7 DEF NoneAbove, NoneBelow, Defines, Below
    <3> QED
      BY <1>6, <2>4, <3>1, <3>2, <3>3 DEF CategoryCall
  <2>5. \A s \in Requests : CategoryCall(req[s])'
    <3> SUFFICES ASSUME NEW s \in Requests PROVE CategoryCall(req[s])'
      OBVIOUS
    <3>1. PICK z : z = req'[s]
      OBVIOUS
    <3>2. CategoryCall(z)
      BY <1>5, <3>1, IdleOK DEF CatalogInv, CategoriesOK
    <3>3. raced' \/ ~ Races(q, z)
      <4>1. CASE s = r
        BY <1>5, <3>1, <4>1 DEF Idle, Races
      <4>2. CASE s # r
        BY <1>5, <1>6, <3>1, <4>2
      <4> QED
        BY <4>1, <4>2
    <3>4. CategoryCall(z)'
      BY <2>4, <3>2, <3>3
    <3> QED
      BY <3>1, <3>4 DEF CategoryCall
  <2> QED
    BY <1>6, <1>7, <2>3, <2>5 DEF CategoriesOK
<1>8. CASE UNCHANGED category
  <2>1. /\ category' \in [Categories -> CategoryRow]
        /\ \A d \in Categories :
              /\ (CategoryOK(d) /\ PathOK(d))'
              /\ Chain(d)' = Chain(d) /\ Below(d)' = Below(d)
    BY <1>8 DEF CatalogInv, CategoriesOK, CategoryOK, PathOK, Chain, Below
  <2>2. \A d \in Categories, code \in Codes : Defines(d, code)' => Defines(d, code)
    BY <1>8 DEF Defines
  <2>3. CategoriesOK'
    BY <1>7, <1>8, <2>1, <2>2
  <2> QED
    BY <1>5, <2>3 DEF CatalogInv
<1>9. CASE ~ UNCHANGED category
  <2>1. PICK row \in CategoryRow : row = category[c]
    BY DEF CatalogInv, CategoriesOK
  <2>2. /\ ChangedCategory(q.op, row, q.arg) # None
        /\ SaveCategory(c, ChangedCategory(q.op, row, q.arg))
    BY <1>1, <1>4, <1>9, <2>1 DEF CommitCategory
  <2>3. PICK changed \in CategoryRow :
              /\ changed = ChangedCategory(q.op, row, q.arg)
              /\ changed.exists /\ changed.ancestors = row.ancestors
              /\ changed.version = row.version
              /\ \A code \in Codes :
                    changed.attributes[code] # None
                       => \/ row.attributes[code] # None
                          \/ q.op = "define_attribute" /\ code = q.arg[1]
    <3>1. row.exists
      BY <1>3, <1>4, <2>1
    <3>2. PICK o : o = q.op
      OBVIOUS
    <3>3. PICK arg : arg = q.arg
      OBVIOUS
    <3>4. \/ o = "rename_category" /\ arg \in Slugs
          \/ o = "remove_attribute" /\ \E code \in Codes : arg = <<code, None>>
          \/ /\ o = "define_attribute"
             /\ \E code \in Codes, def \in Definitions : arg = <<code, def>>
      BY <1>3, <3>2, <3>3
    <3>5. ChangedCategory(o, row, arg) # None
      BY <2>2, <3>2, <3>3
    <3>6. \E new \in CategoryRow :
              /\ new = ChangedCategory(o, row, arg)
              /\ new.exists /\ new.ancestors = row.ancestors /\ new.version = row.version
              /\ \A code \in Codes :
                    new.attributes[code] # None
                       => \/ row.attributes[code] # None
                          \/ o = "define_attribute" /\ code = arg[1]
      BY <3>1, <3>4, <3>5, ChangesCategory
    <3> QED
      BY <3>2, <3>3, <3>6
  <2>4. PICK new : new = [changed EXCEPT !.version = @ + 1]
    OBVIOUS
  <2>5. /\ new \in CategoryRow /\ new.exists /\ new.ancestors = changed.ancestors
        /\ new.version = changed.version + 1 /\ new.attributes = changed.attributes
    BY <2>3, <2>4 DEF CategoryRow
  <2>6. new.version # 0 /\ new.ancestors = category[c].ancestors
    BY <2>1, <2>3, <2>5 DEF CategoryRow
  <2>7. category' = [category EXCEPT ![c] = new]
    BY <2>2, <2>3, <2>4 DEF SaveCategory
  <2>8. /\ category' \in [Categories -> CategoryRow] /\ category'[c] = new
        /\ \A d \in Categories :
              /\ (CategoryOK(d) /\ PathOK(d))'
              /\ Chain(d)' = Chain(d) /\ Below(d)' = Below(d)
              /\ category'[d].ancestors = category[d].ancestors
              /\ category'[d].exists <=> category[d].exists
              /\ d # c => category'[d] = category[d]
    BY <1>3, <1>4, <2>5, <2>6, <2>7, CategoryChanged DEF CatalogInv
  <2>9. \A d \in Categories, code \in Codes :
           Defines(d, code)' =>
              \/ Defines(d, code)
              \/ d = c /\ q.op = "define_attribute" /\ code = q.arg[1]
    BY <2>1, <2>3, <2>5, <2>8 DEF Defines
  <2>10. CategoriesOK'
    BY <1>7, <2>8, <2>9
  <2> QED
    BY <1>5, <2>10 DEF CatalogInv
<1> QED
  BY <1>8, <1>9

-----------------------------------------------------------------------------
(* The product and its images.                                             *)
LEMMA RemovedIsSeq ==
    ASSUME NEW S, NEW s \in Seq(S), NEW n \in DOMAIN s
    PROVE  RemoveAt(s, n) \in Seq(S)
<1>1. n \in 1 .. Len(s) /\ Len(s) \in Nat
  OBVIOUS
<1>2. SubSeq(s, 1, n - 1) \in Seq(S)
  BY <1>1, SubSeqProperties
<1>3. SubSeq(s, n + 1, Len(s)) \in Seq(S)
  BY <1>1, SubSeqProperties
<1> QED
  BY <1>2, <1>3, ConcatProperties DEF RemoveAt

LEMMA CoverTyped ==
    ASSUME NEW images \in Seq(Image)
    PROVE  FirstProcessed(images) \in Images \cup {None}
<1> DEFINE first == {n \in DOMAIN images :
                        /\ images[n].status = "processed"
                        /\ \A m \in 1 .. n - 1 : images[m].status # "processed"}
<1>1. first \subseteq DOMAIN images
  OBVIOUS
<1>2. FirstProcessed(images) = IF first = {} THEN None
                               ELSE images[CHOOSE n \in first : TRUE].id
  BY DEF FirstProcessed
<1> HIDE DEF first
<1>3. PICK k : k = CHOOSE n \in first : TRUE
  OBVIOUS
<1>4. first # {} => k \in first
  BY <1>3
<1>5. first # {} => images[k] \in Image
  BY <1>1, <1>4
<1>6. first # {} => images[k].id \in Images
  BY <1>5 DEF Image
<1> QED
  BY <1>2, <1>3, <1>6

LEMMA StatusSet ==
    ASSUME NEW p \in ProductRow, NEW i, NEW status \in {"uploaded", "processed"}
    PROVE  /\ SetStatus(p, i, status) \in ProductRow
           /\ SetStatus(p, i, status).version = p.version
           /\ SetStatus(p, i, status).status = p.status
           /\ Shown(SetStatus(p, i, status)) = Shown(p)
<1>1. PICK images : images = [n \in DOMAIN p.images |->
                       IF p.images[n].id = i THEN [p.images[n] EXCEPT !.status = status]
                                             ELSE p.images[n]]
  OBVIOUS
<1>2. p.images \in Seq(Image)
  BY DEF ProductRow
<1>3. images \in Seq(Image)
  <2>1. PICK s \in Seq(Image) : s = p.images
    BY <1>2
  <2>2. ASSUME NEW n \in DOMAIN s
        PROVE  (IF s[n].id = i THEN [s[n] EXCEPT !.status = status] ELSE s[n]) \in Image
    <3>1. s[n] \in Image
      OBVIOUS
    <3> QED
      BY <3>1 DEF Image
  <2>3. [n \in DOMAIN s |->
            IF s[n].id = i THEN [s[n] EXCEPT !.status = status] ELSE s[n]] \in Seq(Image)
    BY <2>2, SeqDef
  <2> QED
    BY <1>1, <2>1, <2>3
<1>4. DOMAIN images = DOMAIN p.images
  BY <1>1
<1>5. \A n \in DOMAIN p.images : images[n].id = p.images[n].id
  BY <1>1, <1>2 DEF Image
<1>6. PICK after : after = [p EXCEPT !.images = images]
  OBVIOUS
<1>7. /\ after \in ProductRow /\ after.version = p.version /\ after.status = p.status
      /\ after.attributes = p.attributes /\ after.images = images
  BY <1>3, <1>6 DEF ProductRow
<1>8. [n \in DOMAIN images |-> images[n].id] = [n \in DOMAIN p.images |-> p.images[n].id]
  BY <1>4, <1>5
<1>9. Shown(after) = Shown(p)
  BY <1>7, <1>8 DEF Shown
<1>10. SetStatus(p, i, status) = after
  BY <1>1, <1>6 DEF SetStatus
<1> QED
  BY <1>7, <1>9, <1>10

(* What an operation makes of a product that exists.                       *)
Made(o, p, after) ==
    /\ after \in ProductRow /\ after.version = p.version /\ after.status # "none"
    /\ o \notin {"submit", "publish", "process_image"} => after.status \in {"draft", "rejected"}
    /\ o = "submit" => after.status = "on_moderation"
    /\ o = "publish" => /\ p.status = "on_moderation" /\ after.status = "published"
                        /\ Shown(after) = Shown(p)
    /\ o = "process_image" => after.status = p.status /\ Shown(after) = Shown(p)

LEMMA StatusChanged ==
    ASSUME NEW p \in ProductRow, NEW target \in ProductStatus,
           ProductTransition(p, target) # None
    PROVE  /\ ProductTransition(p, target) \in ProductRow
           /\ ProductTransition(p, target).version = p.version
           /\ ProductTransition(p, target).status = target
           /\ Shown(ProductTransition(p, target)) = Shown(p)
           /\ target = "published" => p.status = "on_moderation"
<1>1. PICK after : after = [p EXCEPT !.status = target]
  OBVIOUS
<1>2. target \in Transitions[p.status] /\ ProductTransition(p, target) = after
  BY <1>1 DEF ProductTransition
<1>3. /\ after \in ProductRow /\ after.version = p.version /\ after.status = target
      /\ after.attributes = p.attributes /\ after.images = p.images
  BY <1>1 DEF ProductRow
<1>4. Shown(after) = Shown(p)
  BY <1>3 DEF Shown
<1>5. p.status \in ProductStatus
  BY DEF ProductRow
<1>6. target = "published" => p.status = "on_moderation"
  BY <1>2, <1>5 DEF Transitions, ProductStatus
<1> QED
  BY <1>2, <1>3, <1>4, <1>6

LEMMA Operates ==
    ASSUME NEW o \in ProductOps, NEW p \in ProductRow, p.status # "none", NEW class, NEW arg,
           o \in ImageOps => arg \in Images, o = "update" => arg \in Contents,
           Operation(o, p, class, arg) # None
    PROVE  Made(o, p, Operation(o, p, class, arg))
<1>1. CASE o = "update"
  <2>1. Operation(o, p, class, arg) = [p EXCEPT !.attributes = arg, !.status = "draft"]
    BY <1>1 DEF Operation, UpdateContent
  <2>2. PICK after : after = [p EXCEPT !.attributes = arg, !.status = "draft"]
    OBVIOUS
  <2>3. arg \in Content
    BY <1>1, CatalogAssumption DEF Content
  <2>4. after \in ProductRow /\ after.version = p.version /\ after.status = "draft"
    BY <2>2, <2>3 DEF ProductRow, ProductStatus
  <2> QED
    BY <1>1, <2>1, <2>2, <2>4 DEF Made
<1>2. CASE o \in {"submit", "publish", "reject"}
  <2>1. PICK target \in ProductStatus :
              /\ Operation(o, p, class, arg) = ProductTransition(p, target)
              /\ o = "submit" => target = "on_moderation"
              /\ o = "publish" => target = "published"
              /\ o = "reject" => target = "rejected"
    BY <1>2 DEF Operation, SubmitForModeration, Publish, RejectProduct, ProductStatus
  <2>2. /\ ProductTransition(p, target) \in ProductRow
        /\ ProductTransition(p, target).version = p.version
        /\ ProductTransition(p, target).status = target
        /\ Shown(ProductTransition(p, target)) = Shown(p)
        /\ target = "published" => p.status = "on_moderation"
    BY <2>1, StatusChanged
  <2> QED
    BY <1>2, <2>1, <2>2 DEF Made
<1>3. CASE o \in {"request_image", "remove_image", "reorder_images"}
  <2>1. Editable(p) /\ p.images \in Seq(Image)
    BY <1>3 DEF Operation, RequestImageUpload, RemoveImage, ReorderImages, ProductRow
  <2>2. PICK images \in Seq(Image) :
              Operation(o, p, class, arg) = [p EXCEPT !.images = images]
    <3>1. CASE o = "request_image"
      <4>1. Append(p.images, [id |-> arg, status |-> "awaiting_upload"]) \in Seq(Image)
        BY <2>1, <3>1 DEF Image, ImageOps
      <4> QED
        BY <3>1, <4>1 DEF Operation, RequestImageUpload
    <3>2. CASE o = "remove_image"
      <4>1. /\ At(p, arg) # {}
            /\ Operation(o, p, class, arg)
                  = [p EXCEPT !.images = RemoveAt(@, ImageIndex(p, arg))]
        BY <3>2 DEF Operation, RemoveImage
      <4>2. ImageIndex(p, arg) \in At(p, arg)
        BY <4>1 DEF ImageIndex
      <4>3. RemoveAt(p.images, ImageIndex(p, arg)) \in Seq(Image)
        BY <2>1, <4>2, RemovedIsSeq DEF At
      <4> QED
        BY <4>1, <4>3
    <3>3. CASE o = "reorder_images"
      <4>1. /\ arg \in OrdersOf(p)
            /\ Operation(o, p, class, arg)
                  = [p EXCEPT !.images = [n \in DOMAIN @ |-> @[ImageIndex(p, arg[n])]]]
        BY <3>3 DEF Operation, ReorderImages
      <4>2. DOMAIN p.images = 1 .. Len(p.images) /\ Len(p.images) \in Nat
        BY <2>1
      <4>3. \A n \in DOMAIN p.images : ImageIndex(p, arg[n]) \in DOMAIN p.images
        BY <4>1 DEF OrdersOf, ImageIds, ImageIndex, At
      <4>4. \A n \in DOMAIN p.images : p.images[n] \in Image
        BY <2>1, <4>2
      <4>5. [n \in DOMAIN p.images |-> p.images[ImageIndex(p, arg[n])]] \in Seq(Image)
        BY <4>2, <4>3, <4>4, SeqDef
      <4> QED
        BY <4>1, <4>5
    <3> QED
      BY <1>3, <3>1, <3>2, <3>3
  <2>3. PICK after : after = [p EXCEPT !.images = images]
    OBVIOUS
  <2>4. after \in ProductRow /\ after.version = p.version /\ after.status = p.status
    BY <2>3 DEF ProductRow
  <2> QED
    BY <1>3, <2>1, <2>2, <2>3, <2>4 DEF Made, Editable
<1>4. CASE o = "confirm_image"
  <2>1. Editable(p) /\ Operation(o, p, class, arg) = SetStatus(p, arg, "uploaded")
    BY <1>4 DEF Operation, ConfirmImageUpload
  <2> QED
    BY <1>4, <2>1, StatusSet DEF Made, Editable
<1>5. CASE o = "process_image"
  <2>1. Operation(o, p, class, arg) = SetStatus(p, arg, "processed")
    BY <1>5 DEF Operation, MarkImageProcessed
  <2> QED
    BY <1>5, <2>1, StatusSet DEF Made
<1> QED
  BY <1>1, <1>2, <1>3, <1>4, <1>5 DEF ProductOps, ImageOps

LEMMA Classified ==
    ASSUME CategoriesOK, NEW c \in Categories
    PROVE  Classify(c) \in Class
<1>1. Chain(c) \subseteq Categories
  BY DEF CategoriesOK, CategoryRow, Chain
<1>2. \A code \in Codes, d \in Categories :
         category[d].attributes[code] \in Definitions \cup {None}
  BY DEF CategoriesOK, CategoryRow, Attributes
<1>3. CASE category[c].exists
  <2> DEFINE attributes ==
        [code \in Codes |->
            IF \E e \in Chain(c) : Defines(e, code)
              THEN category[CHOOSE e \in Chain(c) : Defines(e, code)].attributes[code]
              ELSE None]
  <2>1. Classify(c) =
          [ok |-> \A code \in Codes : Cardinality({e \in Chain(c) : Defines(e, code)}) <= 1,
           attributes |-> attributes]
    BY <1>3 DEF Classify, NewSchema
  <2>2. ASSUME NEW code \in Codes PROVE attributes[code] \in Definitions \cup {None}
    <3>1. CASE \E e \in Chain(c) : Defines(e, code)
      <4>1. PICK k : k = CHOOSE e \in Chain(c) : Defines(e, code)
        OBVIOUS
      <4>2. k \in Categories
        BY <1>1, <3>1, <4>1
      <4> QED
        BY <1>2, <3>1, <4>1, <4>2
    <3>2. CASE ~ \E e \in Chain(c) : Defines(e, code)
      BY <3>2
    <3> QED
      BY <3>1, <3>2
  <2>3. attributes \in Attributes
    BY <2>2 DEF Attributes
  <2> HIDE DEF attributes
  <2> QED
    BY <2>1, <2>3 DEF Class
<1>4. CASE ~ category[c].exists
  BY <1>4 DEF Classify, NoClass, Class, Attributes
<1> QED
  BY <1>3, <1>4

-----------------------------------------------------------------------------
(* Steps of requests at products that read.                                *)
LEMMA ProductReads ==
    ASSUME CatalogInv, NEW r \in Requests, NEW q, IsRequest(q), ProductCall(q),
           q.at \in Ats \cup {"insert_product"},
           Inserting(q) => \A s \in Requests \ {r} : req[s].id # q.id,
           req' = [req EXCEPT ![r] = q], UNCHANGED <<catalogRows, object, announced>>,
           UNCHANGED catalogHistory, uploads' \subseteq uploads
    PROVE  CatalogInv'
<1>1. CategoryCall(q) /\ GroupCall(q)
  BY DEF CategoryCall, GroupCall, Ats
<1> QED
  BY <1>1, Reading

LEMMA CreateProductKeeps ==
    ASSUME CatalogInv, NEW r \in Requests, NEW p \in Products, NEW content \in Contents,
           StartCreateProduct(r, p, content)
    PROVE  CatalogInv'
<1>1. PICK created : /\ created = CreateProduct(Classify(CategoryOf[p]), content)
                     /\ created # None
                     /\ Begin(r, "create_product", p, created, "insert_product", 0)
  BY DEF StartCreateProduct
<1>2. /\ product[p].status = "none" /\ \A s \in Requests : req[s].id # p
      /\ UNCHANGED <<catalogRows, object, catalogEvents, catalogHistory>>
  BY DEF StartCreateProduct
<1>3. created = [NoProduct EXCEPT !.status = "draft", !.attributes = content]
  BY <1>1 DEF CreateProduct
<1>4. NoProduct \in ProductRow
  BY DEF NoProduct, ProductRow, ProductStatus, NoContent, Content
<1>5. content \in Content
  BY CatalogAssumption DEF Content
<1>6. created \in ProductRow /\ created.status = "draft"
  BY <1>3, <1>4, <1>5 DEF ProductRow, ProductStatus
<1>7. PICK q : /\ IsRequest(q) /\ req' = [req EXCEPT ![r] = q]
               /\ q.id = p /\ q.arg = created /\ q.at = "insert_product"
  BY <1>1, Beginning
<1>8. ProductCall(q)
  BY <1>2, <1>6, <1>7 DEF ProductCall, Ats
<1>9. Inserting(q) => \A s \in Requests \ {r} : req[s].id # q.id
  BY <1>2, <1>7
<1> QED
  BY <1>2, <1>7, <1>8, <1>9, ProductReads DEF catalogEvents

LEMMA StartProductKeeps ==
    ASSUME CatalogInv, NEW r \in Requests, NEW p \in Products, NEW o \in ProductOps, NEW arg,
           o \in ImageOps => arg \in Images, o = "update" => arg \in Contents,
           StartProduct(r, p, o, arg)
    PROVE  CatalogInv'
<1>1. /\ product[p].status # "none" /\ Begin(r, o, p, arg, "find_product", 0)
      /\ UNCHANGED <<catalogRows, object, catalogEvents, catalogHistory>>
  BY DEF StartProduct
<1>2. PICK q : /\ IsRequest(q) /\ req' = [req EXCEPT ![r] = q] /\ q.op = o
               /\ q.id = p /\ q.arg = arg /\ q.at = "find_product"
  BY <1>1, Beginning
<1>3. ProductCall(q) /\ ~ Inserting(q) /\ q.at \in Ats
  BY <1>1, <1>2 DEF ProductCall, Inserting, Ats
<1> QED
  BY <1>1, <1>2, <1>3, ProductReads DEF catalogEvents

(* An upload that waits for the worker is of a product that exists.        *)
LEMMA ConsumeUploadKeeps ==
    ASSUME CatalogInv, NEW r \in Requests, NEW p \in Products, NEW i \in Images,
           ConsumeUpload(r, p, i)
    PROVE  CatalogInv'
<1>1. /\ <<p, i>> \in uploads /\ Begin(r, "process_image", p, i, "pending", 0)
      /\ UNCHANGED <<catalogRows, object, catalogEvents, catalogHistory>>
  BY DEF ConsumeUpload
<1>2. product[p].status # "none"
  BY <1>1 DEF CatalogInv, ProductsOK
<1>3. PICK q : /\ IsRequest(q) /\ req' = [req EXCEPT ![r] = q] /\ q.op = "process_image"
               /\ q.id = p /\ q.arg = i /\ q.at = "pending"
  BY <1>1, Beginning
<1>4. ProductCall(q) /\ ~ Inserting(q) /\ q.at \in Ats
  BY <1>2, <1>3 DEF ProductCall, Inserting, Ats, ProductOps, ImageOps
<1> QED
  BY <1>1, <1>3, <1>4, ProductReads DEF catalogEvents

LEMMA PendingKeeps ==
    ASSUME CatalogInv, NEW r \in Requests, Pending(r) \/ Render(r)
    PROVE  CatalogInv'
<1>1. PICK c : c = req[r]
  OBVIOUS
<1>2. /\ ProductCall(c) /\ c.at \in Ats /\ c.at \in {"pending", "render"}
      /\ UNCHANGED <<catalogRows, object, announced>> /\ UNCHANGED catalogHistory
  BY <1>1 DEF CatalogInv, ProductsOK, Pending, Render, Ats
<1>3. ASSUME NEW at \in {"render", "find_product"}, Goto(r, at), UNCHANGED uploads
      PROVE  CatalogInv'
  <2>1. PICK q : /\ IsRequest(q) /\ req' = [req EXCEPT ![r] = q] /\ q.at = at
                 /\ q.op = c.op /\ q.id = c.id /\ q.arg = c.arg
    BY <1>1, <1>3, GoesOn DEF CatalogInv
  <2>2. ProductCall(q) /\ ~ Inserting(q) /\ q.at \in Ats
    BY <1>2, <2>1 DEF ProductCall, Inserting, Ats
  <2>3. uploads' \subseteq uploads
    BY <1>3
  <2> QED
    BY <1>2, <2>1, <2>2, <2>3, ProductReads
<1>4. CASE Acknowledge(r) \/ AttemptFails(r)
  <2>1. req' = [req EXCEPT ![r] = Idle] /\ uploads' \subseteq uploads
    BY <1>4 DEF Acknowledge, AttemptFails, Finish
  <2> QED
    BY <1>2, <2>1, IdleOK, Reading
<1> QED
  BY <1>3, <1>4 DEF Pending, Render

LEMMA RowsEqual ==
    ASSUME NEW x \in ProductRow, NEW y \in ProductRow, x.status = y.status,
           x.attributes = y.attributes, x.images = y.images, x.version = y.version
    PROVE  x = y
BY DEF ProductRow

LEMMA FindProductKeeps ==
    ASSUME CatalogInv, NEW r \in Requests, FindProduct(r)
    PROVE  CatalogInv'
<1>1. PICK c : c = req[r]
  OBVIOUS
<1>2. /\ ProductCall(c) /\ IsRequest(c) /\ c.at = "find_product"
      /\ UNCHANGED <<catalogRows, object, catalogEvents, catalogHistory>>
  BY <1>1 DEF CatalogInv, ProductsOK, RequestsOK, FindProduct
<1>3. c.id \in Products
  BY <1>2 DEF ProductCall, Ats
<1>4. PICK p \in ProductRow : p = product[c.id]
  BY <1>3 DEF CatalogInv, ProductsOK
<1>5. PICK row : row = [c.row EXCEPT !.status = p.status, !.version = p.version]
  OBVIOUS
<1>6. row \in ProductRow /\ row.status = p.status /\ row.version = p.version
  BY <1>2, <1>5 DEF IsRequest, ProductRow
<1>7. PICK q : q = [c EXCEPT !.row = row, !.at = "load_parts"]
  OBVIOUS
<1>8. req' = [req EXCEPT ![r] = q]
  BY <1>1, <1>4, <1>5, <1>7 DEF FindProduct, CatalogInv, RequestsOK, IsRequest
<1>9. /\ IsRequest(q) /\ q.op = c.op /\ q.id = c.id /\ q.arg = c.arg
      /\ q.at = "load_parts" /\ q.row = row
  BY <1>2, <1>6, <1>7 DEF IsRequest
<1>10. q.row.version \in Nat
  BY <1>6, <1>9 DEF ProductRow
<1>11. ProductCall(q) /\ ~ Inserting(q) /\ q.at \in Ats
  BY <1>2, <1>4, <1>6, <1>9, <1>10 DEF ProductCall, Inserting, Ats
<1> QED
  BY <1>2, <1>8, <1>9, <1>11, ProductReads DEF catalogEvents

(* If no save came between the two reads, the row is the product's.        *)
LEMMA LoadPartsKeeps ==
    ASSUME CatalogInv, NEW r \in Requests, LoadParts(r)
    PROVE  CatalogInv'
<1>1. PICK c : c = req[r]
  OBVIOUS
<1>2. /\ ProductCall(c) /\ IsRequest(c) /\ c.at = "load_parts"
      /\ UNCHANGED <<catalogRows, object, catalogEvents, catalogHistory>>
  BY <1>1 DEF CatalogInv, ProductsOK, RequestsOK, LoadParts
<1>3. c.id \in Products
  BY <1>2 DEF ProductCall, Ats
<1>4. PICK p \in ProductRow : p = product[c.id]
  BY <1>3 DEF CatalogInv, ProductsOK
<1>5. PICK row : row = [c.row EXCEPT !.attributes = p.attributes, !.images = p.images]
  OBVIOUS
<1>6. /\ row \in ProductRow /\ row.status = c.row.status /\ row.version = c.row.version
      /\ row.attributes = p.attributes /\ row.images = p.images
  BY <1>2, <1>5 DEF IsRequest, ProductRow
<1>7. PICK at \in {"classify", "save_product"} :
            at = IF c.op \in NeedsClass THEN "classify" ELSE "save_product"
  OBVIOUS
<1>8. PICK q : q = [c EXCEPT !.row = row, !.at = at]
  OBVIOUS
<1>9. req' = [req EXCEPT ![r] = q]
  BY <1>1, <1>4, <1>5, <1>7, <1>8 DEF LoadParts, CatalogInv, RequestsOK, IsRequest
<1>10. /\ IsRequest(q) /\ q.op = c.op /\ q.id = c.id /\ q.arg = c.arg
       /\ q.at = at /\ q.row = row
  BY <1>2, <1>6, <1>8 DEF IsRequest
<1>11. row.version = p.version => row = p
  BY <1>2, <1>4, <1>6, RowsEqual DEF ProductCall
<1>12. ProductCall(q) /\ ~ Inserting(q) /\ q.at \in Ats
  BY <1>2, <1>4, <1>6, <1>7, <1>10, <1>11 DEF ProductCall, Inserting, Ats
<1> QED
  BY <1>2, <1>9, <1>10, <1>12, ProductReads DEF catalogEvents

LEMMA ClassifyKeeps ==
    ASSUME CatalogInv, NEW r \in Requests, ClassifyProduct(r)
    PROVE  CatalogInv'
<1>1. PICK c : c = req[r]
  OBVIOUS
<1>2. /\ ProductCall(c) /\ IsRequest(c) /\ c.at = "classify"
      /\ UNCHANGED <<catalogRows, object, catalogEvents, catalogHistory>>
  BY <1>1 DEF CatalogInv, ProductsOK, RequestsOK, ClassifyProduct
<1>3. CategoryOf[c.id] \in Categories
  BY <1>2, CatalogAssumption DEF ProductCall, Ats
<1>4. PICK class \in Class : class = Classify(CategoryOf[c.id])
  BY <1>3, Classified DEF CatalogInv
<1>5. CASE req' = [req EXCEPT ![r] = Idle]
  BY <1>2, <1>5, RequestEnds DEF Finish
<1>6. CASE req' = [req EXCEPT ![r].class = class, ![r].at = "save_product"]
  <2>1. PICK q : q = [c EXCEPT !.class = class, !.at = "save_product"]
    OBVIOUS
  <2>2. req' = [req EXCEPT ![r] = q]
    BY <1>1, <1>6, <2>1 DEF CatalogInv, RequestsOK, IsRequest
  <2>3. /\ IsRequest(q) /\ q.op = c.op /\ q.id = c.id /\ q.arg = c.arg
        /\ q.at = "save_product" /\ q.row = c.row
    BY <1>2, <2>1 DEF IsRequest
  <2>4. ProductCall(q) /\ ~ Inserting(q) /\ q.at \in Ats
    BY <1>2, <2>3 DEF ProductCall, Inserting, Ats
  <2> QED
    BY <1>2, <2>2, <2>3, <2>4, ProductReads DEF catalogEvents
<1> QED
  BY <1>1, <1>4, <1>5, <1>6 DEF ClassifyProduct

-----------------------------------------------------------------------------
(* A save of a product: every other request at it has an older row now.    *)
LEMMA ProductSaved ==
    ASSUME CatalogInv, NEW r \in Requests, Finish(r), NEW p \in Products,
           NEW new \in ProductRow, new.status # "none",
           new.version > product[p].version \/ product[p].status = "none",
           product' = [product EXCEPT ![p] = new],
           \A s \in Requests \ {r} : Inserting(req[s]) => req[s].id # p,
           announced' \in [Products -> Images \cup {None}], DOMAIN submitted' = Products,
           \A d \in Products \ {p} : /\ announced'[d] = announced[d]
                                     /\ submitted'[d] = submitted[d],
           ProductOK(p)', uploads' \subseteq uploads \cup ({p} \X Images),
           UNCHANGED <<category, group, object, answered, raced>>
    PROVE  CatalogInv'
<1>1. RequestsOK' /\ \A s \in Requests : req'[s] = IF s = r THEN Idle ELSE req[s]
  BY RequestEnded DEF CatalogInv
<1>2. CategoriesOK'
  BY <1>1, IdleOK, CategoriesKept DEF CatalogInv
<1>3. GroupsOK'
  BY <1>1, IdleOK, GroupsKept DEF CatalogInv
<1>4. /\ product \in [Products -> ProductRow] /\ product' \in [Products -> ProductRow]
      /\ product'[p] = new /\ \A d \in Products \ {p} : product'[d] = product[d]
  BY DEF CatalogInv, ProductsOK
<1>5. product[p].version \in Nat /\ new.version \in Nat
  BY <1>4 DEF ProductRow
<1>6. \A d \in Products : ProductOK(d)'
  <2> SUFFICES ASSUME NEW d \in Products PROVE ProductOK(d)'
    OBVIOUS
  <2>1. CASE d = p
    BY <2>1
  <2>2. CASE d # p
    BY <1>4, <2>2 DEF CatalogInv, ProductsOK, ProductOK
  <2> QED
    BY <2>1, <2>2
<1>7. \A e \in uploads' : e \in Products \X Images /\ product'[e[1]].status # "none"
  <2> SUFFICES ASSUME NEW e \in uploads'
               PROVE  e \in Products \X Images /\ product'[e[1]].status # "none"
    OBVIOUS
  <2>1. CASE e \in uploads
    BY <1>4, <2>1 DEF CatalogInv, ProductsOK
  <2>2. CASE e \in {p} \X Images
    BY <1>4, <2>2
  <2> QED
    BY <2>1, <2>2
<1>8. InsertsApart'
  BY <1>1, IdleOK DEF CatalogInv, ProductsOK, InsertsApart, Inserting
<1>9. ASSUME NEW s \in Requests PROVE ProductCall(req[s])'
  <2>1. PICK q : q = req'[s]
    OBVIOUS
  <2>2. CASE s = r
    <3>1. q = Idle
      BY <1>1, <2>1, <2>2
    <3>2. ProductCall(q)'
      BY <3>1, IdleOK DEF ProductCall, Ats
    <3> QED
      BY <2>1, <3>2 DEF ProductCall
  <2>3. CASE s # r
    <3>1. q = req[s] /\ ProductCall(q) /\ IsRequest(q)
      BY <1>1, <2>1, <2>3 DEF CatalogInv, ProductsOK, RequestsOK
    <3>2. q.row.version \in Nat
      BY <3>1 DEF IsRequest, ProductRow
    <3>3. Inserting(q) => q.id # p
      BY <2>3, <3>1
    <3>4. ProductCall(q)'
      <4>1. CASE q.id = p
        BY <1>4, <1>5, <3>1, <3>2, <3>3, <4>1 DEF ProductCall, Ats, Inserting
      <4>2. CASE q.id # p
        BY <1>4, <3>1, <4>2 DEF ProductCall, Ats
      <4> QED
        BY <4>1, <4>2
    <3> QED
      BY <2>1, <3>4 DEF ProductCall
  <2> QED
    BY <2>2, <2>3
<1>10. ProductsOK'
  BY <1>4, <1>6, <1>7, <1>8, <1>9 DEF CatalogInv, ProductsOK
<1> QED
  BY <1>1, <1>2, <1>3, <1>10 DEF CatalogInv

LEMMA InsertProductKeeps ==
    ASSUME CatalogInv, NEW r \in Requests, InsertProduct(r)
    PROVE  CatalogInv'
<1>1. PICK q : q = req[r]
  OBVIOUS
<1>2. /\ ProductCall(q) /\ q.at = "insert_product" /\ SaveProduct(q.id, q.arg) /\ Finish(r)
      /\ UNCHANGED <<category, group, object, catalogEvents, catalogHistory>>
  BY <1>1 DEF CatalogInv, ProductsOK, InsertProduct
<1>3. /\ q.id \in Products /\ product[q.id].status = "none"
      /\ q.arg \in ProductRow /\ q.arg.status = "draft"
  BY <1>2 DEF ProductCall
<1>4. PICK new : new = [q.arg EXCEPT !.version = @ + 1]
  OBVIOUS
<1>5. new \in ProductRow /\ new.status = "draft" /\ new.version = q.arg.version + 1
  BY <1>3, <1>4 DEF ProductRow
<1>6. product' = [product EXCEPT ![q.id] = new]
  BY <1>2, <1>4 DEF SaveProduct
<1>7. product'[q.id] = new
  BY <1>3, <1>6 DEF CatalogInv, ProductsOK
<1>8. ProductOK(q.id)'
  BY <1>5, <1>7 DEF ProductOK
<1>9. \A s \in Requests \ {r} : Inserting(req[s]) => req[s].id # q.id
  BY <1>1, <1>2 DEF CatalogInv, ProductsOK, InsertsApart, Inserting
<1>10. /\ announced' \in [Products -> Images \cup {None}] /\ DOMAIN submitted' = Products
       /\ uploads' \subseteq uploads /\ UNCHANGED <<announced, submitted>>
       /\ UNCHANGED <<category, group, object, answered, raced>>
  BY <1>2 DEF CatalogInv, ProductsOK, catalogEvents, catalogHistory
<1> QED
  BY <1>2, <1>3, <1>5, <1>6, <1>8, <1>9, <1>10, ProductSaved

(* A save of an operation on a product: the row it has is the product's.   *)
LEMMA ProductCommitted ==
    ASSUME CatalogInv, NEW r \in Requests, NEW q, q = req[r], q.at = "save_product",
           NEW changed, changed = Operation(q.op, q.row, q.class, q.arg), changed # None,
           CanSaveProduct(q.id, q.row.version), SaveProduct(q.id, changed),
           Record(q.op, q.id, q.row, changed, q.arg), Finish(r),
           uploads' \subseteq uploads \cup ({q.id} \X Images),
           UNCHANGED <<category, group, object, answered, raced>>
    PROVE  CatalogInv'
<1>1. /\ q.id \in Products /\ product[q.id].status # "none" /\ q.op \in ProductOps
      /\ q.op \in ImageOps => q.arg \in Images
      /\ q.op = "update" => q.arg \in Contents
      /\ q.row = product[q.id]
  BY DEF CatalogInv, ProductsOK, ProductCall, Ats, CanSaveProduct
<1>2. PICK p \in Products : p = q.id
  BY <1>1
<1>3. PICK row \in ProductRow : row = product[p] /\ row = q.row
  BY <1>1, <1>2 DEF CatalogInv, ProductsOK
<1>4. Made(q.op, row, changed)
  <2>1. PICK o \in ProductOps : o = q.op
    BY <1>1
  <2>2. PICK arg : arg = q.arg
    OBVIOUS
  <2>3. PICK class : class = q.class
    OBVIOUS
  <2>4. Operation(o, row, class, arg) # None
    BY <1>3, <2>1, <2>2, <2>3
  <2>5. Made(o, row, Operation(o, row, class, arg))
    BY <1>1, <1>2, <1>3, <2>1, <2>2, <2>4, Operates
  <2> QED
    BY <1>3, <2>1, <2>2, <2>3, <2>5
<1>5. PICK new : new = [changed EXCEPT !.version = @ + 1]
  OBVIOUS
<1>6. /\ new \in ProductRow /\ new.status = changed.status
      /\ new.version = changed.version + 1 /\ changed.version = row.version
      /\ new.attributes = changed.attributes /\ new.images = changed.images
  <2>1. changed \in ProductRow /\ changed.version = row.version
    BY <1>4 DEF Made
  <2> QED
    BY <1>5, <2>1 DEF ProductRow
<1>7. new.version > product[p].version
  BY <1>3, <1>6 DEF ProductRow
<1>8. product' = [product EXCEPT ![p] = new]
  BY <1>2, <1>5 DEF SaveProduct
<1>9. product'[p] = new
  BY <1>8 DEF CatalogInv, ProductsOK
<1>10. Shown(new) = Shown(changed) /\ CoverKey(new) = CoverKey(changed)
  BY <1>6 DEF Shown, CoverKey
<1>11. CoverKey(changed) \in Images \cup {None}
  BY <1>4, CoverTyped DEF Made, ProductRow, CoverKey
<1>12. /\ submitted' = IF q.op = "submit" THEN [submitted EXCEPT ![p] = changed] ELSE submitted
       /\ announced' =
             IF q.op = "publish" THEN [announced EXCEPT ![p] = CoverKey(changed)]
             ELSE IF q.op = "process_image" /\ changed # row /\ changed.status = "published"
                    THEN [announced EXCEPT ![p] = CoverKey(changed)]
             ELSE announced
  BY <1>2, <1>3 DEF Record, Announced
<1>13. /\ announced \in [Products -> Images \cup {None}] /\ DOMAIN submitted = Products
       /\ ProductOK(p)
  BY DEF CatalogInv, ProductsOK
<1>14. /\ announced' \in [Products -> Images \cup {None}] /\ DOMAIN submitted' = Products
       /\ \A d \in Products \ {p} : /\ announced'[d] = announced[d]
                                     /\ submitted'[d] = submitted[d]
  BY <1>11, <1>12, <1>13
<1>15. Shown(new) = Shown(submitted'[p]) \/ new.status \notin {"on_moderation", "published"}
  <2>1. CASE q.op = "submit"
    BY <1>10, <1>12, <1>13, <2>1
  <2>2. CASE q.op \in {"publish", "process_image"}
    BY <1>3, <1>4, <1>6, <1>10, <1>12, <1>13, <2>2 DEF Made, ProductOK
  <2>3. CASE q.op \notin {"submit", "publish", "process_image"}
    BY <1>4, <1>6, <2>3 DEF Made
  <2> QED
    BY <2>1, <2>2, <2>3
<1>16. new.status = "published" => announced'[p] = CoverKey(new)
  <2>1. CASE q.op = "publish"
    BY <1>10, <1>12, <1>13, <2>1
  <2>2. CASE q.op = "process_image"
    <3>1. CASE changed = row
      BY <1>3, <1>6, <1>10, <1>12, <1>13, <2>2, <3>1 DEF ProductOK
    <3>2. CASE changed # row
      BY <1>6, <1>10, <1>12, <1>13, <2>2, <3>2
    <3> QED
      BY <3>1, <3>2
  <2>3. CASE q.op \notin {"publish", "process_image"}
    BY <1>4, <1>6, <2>3 DEF Made
  <2> QED
    BY <2>1, <2>2, <2>3
<1>17. ProductOK(p)'
  BY <1>9, <1>15, <1>16 DEF ProductOK, Shown, CoverKey
<1>18. \A s \in Requests \ {r} : Inserting(req[s]) => req[s].id # p
  BY <1>1, <1>2 DEF CatalogInv, ProductsOK, ProductCall, Inserting
<1>19. new.status # "none" /\ uploads' \subseteq uploads \cup ({p} \X Images)
  BY <1>2, <1>4, <1>6 DEF Made
<1> QED
  BY <1>6, <1>7, <1>8, <1>14, <1>17, <1>18, <1>19, ProductSaved

(* A handler of the worker that is done with its event.                    *)
LEMMA AcknowledgeKeeps ==
    ASSUME CatalogInv, NEW r \in Requests, Acknowledge(r) \/ Conflict(r),
           UNCHANGED <<catalogRows, object, announced>>, UNCHANGED catalogHistory
    PROVE  CatalogInv'
<1>1. req' = [req EXCEPT ![r] = Idle] /\ uploads' \subseteq uploads
  BY DEF Acknowledge, Conflict, AttemptFails, Finish
<1> QED
  BY <1>1, IdleOK, Reading

LEMMA CommitProductKeeps ==
    ASSUME CatalogInv, NEW r \in Requests, CommitProduct(r) \/ CommitProcessed(r)
    PROVE  CatalogInv'
<1>1. PICK q : q = req[r]
  OBVIOUS
<1>2. PICK changed : changed = Operation(q.op, q.row, q.class, q.arg)
  OBVIOUS
<1>3. /\ ProductCall(q) /\ q.at = "save_product" /\ Finish(r)
      /\ UNCHANGED <<category, group, object, answered, raced>>
  BY <1>1 DEF CatalogInv, ProductsOK, CommitProduct, CommitProcessed, Acknowledge, Conflict,
              AttemptFails
<1>4. q.op \in ImageOps => q.arg \in Images
  BY <1>3 DEF ProductCall, Ats
<1>5. CASE /\ changed # None /\ CanSaveProduct(q.id, q.row.version)
           /\ SaveProduct(q.id, changed) /\ Record(q.op, q.id, q.row, changed, q.arg)
           /\ uploads' \subseteq uploads \cup ({q.id} \X Images)
  BY <1>1, <1>2, <1>3, <1>5, ProductCommitted
<1>6. CASE CommitProduct(r) /\ UNCHANGED <<product, uploads, announced, submitted>>
  <2>1. UNCHANGED <<catalogRows, object, catalogEvents, catalogHistory>>
    BY <1>3, <1>6 DEF catalogRows, catalogEvents, catalogHistory, CommitProduct
  <2> QED
    BY <1>3, <2>1, RequestEnds
<1>7. CASE CommitProcessed(r) /\ UNCHANGED <<product, announced, submitted>>
  <2>1. Acknowledge(r) \/ Conflict(r)
    BY <1>7 DEF CommitProcessed
  <2>2. UNCHANGED <<catalogRows, object, announced>> /\ UNCHANGED catalogHistory
    BY <1>3, <1>7 DEF catalogRows, catalogHistory
  <2> QED
    BY <2>1, <2>2, AcknowledgeKeeps
<1>8. CASE CommitProduct(r)
  <2>1. CASE changed # None /\ CanSaveProduct(q.id, q.row.version)
    <3>1. /\ SaveProduct(q.id, changed) /\ Record(q.op, q.id, q.row, changed, q.arg)
          /\ uploads' = IF q.op = "confirm_image" THEN uploads \cup {<<q.id, q.arg>>}
                                                  ELSE uploads
      BY <1>1, <1>2, <1>8, <2>1 DEF CommitProduct
    <3>2. uploads' \subseteq uploads \cup ({q.id} \X Images)
      BY <1>4, <3>1 DEF ImageOps
    <3> QED
      BY <1>5, <2>1, <3>1, <3>2
  <2>2. CASE ~ (changed # None /\ CanSaveProduct(q.id, q.row.version))
    <3>1. UNCHANGED <<product, uploads, announced, submitted>>
      BY <1>1, <1>2, <1>8, <2>2 DEF CommitProduct
    <3> QED
      BY <1>6, <1>8, <3>1
  <2> QED
    BY <2>1, <2>2
<1>9. CASE CommitProcessed(r)
  <2>1. CASE changed # None /\ CanSaveProduct(q.id, q.row.version)
    <3>1. /\ SaveProduct(q.id, changed) /\ Record(q.op, q.id, q.row, changed, q.arg)
          /\ Acknowledge(r)
      BY <1>1, <1>2, <1>9, <2>1 DEF CommitProcessed
    <3>2. uploads' \subseteq uploads \cup ({q.id} \X Images)
      BY <3>1 DEF Acknowledge
    <3> QED
      BY <1>5, <2>1, <3>1, <3>2
  <2>2. CASE ~ (changed # None /\ CanSaveProduct(q.id, q.row.version))
    <3>1. UNCHANGED <<product, announced, submitted>>
      BY <1>1, <1>2, <1>9, <2>2 DEF CommitProcessed
    <3> QED
      BY <1>7, <1>9, <3>1
  <2> QED
    BY <2>1, <2>2
<1> QED
  BY <1>8, <1>9

LEMMA PutObjectKeeps ==
    ASSUME CatalogInv, NEW i \in Images, NEW kind \in Puts, PutObject(i, kind)
    PROVE  CatalogInv'
<1>1. /\ object' \in [Images -> Objects]
      /\ UNCHANGED <<catalogRows, catalogEvents, catalogHistory, req>>
  BY CatalogAssumption DEF PutObject, CatalogInv, ProductsOK, Objects
<1>2. RequestsOK' /\ CategoriesOK' /\ GroupsOK'
  BY <1>1 DEF CatalogInv, RequestsOK, catalogRows, catalogHistory, CategoriesOK, GroupsOK,
              CategoryOK, PathOK, DefinesOnce, Defines, Chain, Below, CategoryCall, NoneAbove,
              NoneBelow, GroupOK, GroupCall
<1>3. ProductsOK'
  BY <1>1 DEF CatalogInv, ProductsOK, catalogRows, catalogEvents, catalogHistory,
              ProductOK, InsertsApart, Inserting, ProductCall
<1> QED
  BY <1>2, <1>3 DEF CatalogInv

-----------------------------------------------------------------------------
(* Groups of variants.                                                     *)
LEMMA GroupReads ==
    ASSUME CatalogInv, NEW r \in Requests, NEW q, IsRequest(q), GroupCall(q),
           q.at \in {"find_variant", "save_group"}, req' = [req EXCEPT ![r] = q],
           UNCHANGED <<catalogRows, object, catalogEvents, catalogHistory>>
    PROVE  CatalogInv'
<1>1. CategoryCall(q) /\ ProductCall(q) /\ ~ Inserting(q)
  BY DEF CategoryCall, ProductCall, Inserting, Ats
<1>2. UNCHANGED <<catalogRows, object, announced>> /\ uploads' \subseteq uploads
  BY DEF catalogEvents
<1> QED
  BY <1>1, <1>2, Reading

LEMMA StartVariantKeeps ==
    ASSUME CatalogInv, NEW r \in Requests, NEW g \in Groups, NEW p \in Products,
           StartAddVariant(r, g, p) \/ StartRemoveVariant(r, g, p)
    PROVE  CatalogInv'
<1>1. group[g].version \in Nat
  BY DEF CatalogInv, GroupsOK, GroupRow
<1>2. /\ group[g].exists /\ UNCHANGED <<catalogRows, object, catalogEvents, catalogHistory>>
      /\ \/ Begin(r, "add_variant", g, p, "find_variant", group[g].version)
         \/ Begin(r, "remove_variant", g, p, "save_group", group[g].version)
  BY DEF StartAddVariant, StartRemoveVariant
<1>3. PICK q : /\ IsRequest(q) /\ req' = [req EXCEPT ![r] = q] /\ q.id = g /\ q.arg = p
               /\ q.op \in {"add_variant", "remove_variant"}
               /\ q.at \in {"find_variant", "save_group"}
               /\ q.version = group[g].version /\ q.members = group[g].members
  <2>1. CASE Begin(r, "add_variant", g, p, "find_variant", group[g].version)
    BY <1>1, <2>1, Beginning
  <2>2. CASE Begin(r, "remove_variant", g, p, "save_group", group[g].version)
    BY <1>1, <2>2, Beginning
  <2> QED
    BY <1>2, <2>1, <2>2
<1>4. GroupCall(q)
  BY <1>1, <1>2, <1>3 DEF GroupCall
<1> QED
  BY <1>2, <1>3, <1>4, GroupReads

LEMMA FindVariantKeeps ==
    ASSUME CatalogInv, NEW r \in Requests, FindVariant(r)
    PROVE  CatalogInv'
<1>1. PICK c : c = req[r]
  OBVIOUS
<1>2. /\ GroupCall(c) /\ IsRequest(c) /\ c.at = "find_variant"
      /\ UNCHANGED <<catalogRows, object, catalogEvents, catalogHistory>>
  BY <1>1 DEF CatalogInv, GroupsOK, RequestsOK, FindVariant
<1>3. c.arg \in Products
  BY <1>2 DEF GroupCall
<1>4. PICK p \in ProductRow : p = product[c.arg]
  BY <1>3 DEF CatalogInv, ProductsOK
<1>5. PICK q : q = [c EXCEPT !.row = p, !.at = "save_group"]
  OBVIOUS
<1>6. req' = [req EXCEPT ![r] = q]
  BY <1>1, <1>4, <1>5 DEF FindVariant, CatalogInv, RequestsOK, IsRequest
<1>7. /\ IsRequest(q) /\ q.op = c.op /\ q.id = c.id /\ q.arg = c.arg
      /\ q.at = "save_group" /\ q.version = c.version /\ q.members = c.members
  BY <1>2, <1>5 DEF IsRequest
<1>8. GroupCall(q)
  BY <1>2, <1>7 DEF GroupCall
<1> QED
  BY <1>2, <1>6, <1>7, <1>8, GroupReads

(* A save of a group: other requests at it have older members now.         *)
LEMMA GroupSaved ==
    ASSUME GroupsOK, NEW g \in Groups, NEW members \in SUBSET Member,
           NEW version \in Nat, group[g].exists => version >= group[g].version,
           NEW names \in SUBSET Products,
           group' = [group EXCEPT ![g] = [exists |-> TRUE, members |-> members,
                                          version |-> version + 1]],
           answered' = [answered EXCEPT ![g] = names],
           {m.product : m \in members} = names,
           \A m, n \in members : m.values = n.values => m = n,
           \A r \in Requests : IsRequest(req[r]),
           \A r \in Requests : req'[r] = Idle \/ req'[r] = req[r]
    PROVE  GroupsOK'
<1> DEFINE new == [exists |-> TRUE, members |-> members, version |-> version + 1]
<1>1. new \in GroupRow /\ new.exists /\ new.members = members /\ new.version = version + 1
  BY DEF GroupRow
<1> HIDE DEF new
<1>2. group \in [Groups -> GroupRow] /\ answered \in [Groups -> SUBSET Products]
  BY DEF GroupsOK
<1>3. /\ group' \in [Groups -> GroupRow] /\ answered' \in [Groups -> SUBSET Products]
      /\ group'[g] = new /\ answered'[g] = names
      /\ \A h \in Groups \ {g} : group'[h] = group[h] /\ answered'[h] = answered[h]
  BY <1>1, <1>2 DEF new
<1>4. ASSUME NEW h \in Groups PROVE GroupOK(h)'
  <2>1. CASE h = g
    <3>1. group'[h].exists /\ group'[h].members = members /\ answered'[h] = names
      BY <1>1, <1>3, <2>1
    <3> QED
      BY <3>1 DEF GroupOK
  <2>2. CASE h # g
    BY <1>3, <2>2 DEF GroupsOK, GroupOK
  <2> QED
    BY <2>1, <2>2
<1>5. ASSUME NEW r \in Requests PROVE GroupCall(req[r])'
  <2>1. PICK q : q = req'[r]
    OBVIOUS
  <2>2. GroupCall(q) /\ q.version \in Nat
    BY <2>1, IdleOK DEF GroupsOK, IsRequest
  <2>3. group[g].version \in Nat /\ group'[g].version = version + 1 /\ group'[g].exists
    BY <1>1, <1>2, <1>3 DEF GroupRow
  <2>4. GroupCall(q)'
    <3>1. CASE q.id = g
      BY <2>2, <2>3, <3>1 DEF GroupCall
    <3>2. CASE q.id # g
      BY <1>3, <2>2, <3>2 DEF GroupCall
    <3> QED
      BY <3>1, <3>2
  <2> QED
    BY <2>1, <2>4 DEF GroupCall
<1> QED
  BY <1>3, <1>4, <1>5 DEF GroupsOK

LEMMA CreateGroupKeeps ==
    ASSUME CatalogInv, NEW r \in Requests, NEW g \in Groups, CreateGroup(r, g)
    PROVE  CatalogInv'
<1>1. /\ ~ group[g].exists
      /\ group' = [group EXCEPT ![g] = [exists |-> TRUE, members |-> {}, version |-> 0 + 1]]
      /\ UNCHANGED <<category, product, object, catalogEvents, catalogHistory, req>>
  BY DEF CreateGroup, SaveGroup
<1>2. RequestsOK' /\ CategoriesOK'
  BY <1>1 DEF CatalogInv, RequestsOK, catalogHistory, CategoriesOK,
              CategoryOK, PathOK, DefinesOnce, Defines, Chain, Below, CategoryCall, NoneAbove,
              NoneBelow
<1>3. ProductsOK'
  BY <1>1 DEF CatalogInv, ProductsOK, catalogEvents, catalogHistory,
              ProductOK, InsertsApart, Inserting, ProductCall
<1>4. \A s \in Requests : req'[s] = req[s] /\ IsRequest(req[s])
  BY <1>1 DEF CatalogInv, RequestsOK
<1>5. answered' = [answered EXCEPT ![g] = {}] /\ {m.product : m \in {}} = {}
  BY <1>1 DEF CatalogInv, GroupsOK, GroupOK, catalogHistory
<1>6. GroupsOK'
  <2>1. \A m, n \in {} : m.values = n.values => m = n
    OBVIOUS
  <2>2. {} \in SUBSET Member /\ {} \in SUBSET Products /\ 0 \in Nat
    OBVIOUS
  <2> QED
    BY <1>1, <1>4, <1>5, <2>1, <2>2, GroupSaved DEF CatalogInv
<1> QED
  BY <1>2, <1>3, <1>6 DEF CatalogInv

(* What adding or removing a product makes of the members of a group.      *)
LEMMA MembersChanged ==
    ASSUME NEW members \in SUBSET Member, NEW p \in Products, NEW values \in Content, NEW names,
           names = {m.product : m \in members},
           \A m, n \in members : m.values = n.values => m = n
    PROVE  /\ AddProduct(members, p, values) # None =>
                 /\ AddProduct(members, p, values) \in SUBSET Member
                 /\ {m.product : m \in AddProduct(members, p, values)} = names \cup {p}
                 /\ \A m, n \in AddProduct(members, p, values) :
                       m.values = n.values => m = n
           /\ RemoveProduct(members, p) # None =>
                 /\ RemoveProduct(members, p) \in SUBSET Member
                 /\ {m.product : m \in RemoveProduct(members, p)} = names \ {p}
                 /\ \A m, n \in RemoveProduct(members, p) : m.values = n.values => m = n
<1>1. ASSUME AddProduct(members, p, values) # None
      PROVE  /\ AddProduct(members, p, values) \in SUBSET Member
             /\ {m.product : m \in AddProduct(members, p, values)} = names \cup {p}
             /\ \A m, n \in AddProduct(members, p, values) : m.values = n.values => m = n
  <2>1. CASE \E m \in members : m.product = p
    <3>1. AddProduct(members, p, values) = members /\ p \in names
      BY <1>1, <2>1 DEF AddProduct
    <3> QED
      BY <3>1
  <2>2. CASE ~ \E m \in members : m.product = p
    <3>1. PICK new \in Member : new = [product |-> p, values |-> values]
      BY DEF Member
    <3>2. /\ AddProduct(members, p, values) = members \cup {new}
          /\ \A m \in members : m.values # values
      BY <1>1, <2>2, <3>1 DEF AddProduct
    <3>3. new.product = p /\ new.values = values
      BY <3>1
    <3> QED
      BY <3>2, <3>3
  <2> QED
    BY <2>1, <2>2
<1>2. ASSUME RemoveProduct(members, p) # None
      PROVE  /\ RemoveProduct(members, p) \in SUBSET Member
             /\ {m.product : m \in RemoveProduct(members, p)} = names \ {p}
             /\ \A m, n \in RemoveProduct(members, p) : m.values = n.values => m = n
  <2>1. RemoveProduct(members, p) = {m \in members : m.product # p}
    BY <1>2 DEF RemoveProduct
  <2> QED
    BY <2>1
<1> QED
  BY <1>1, <1>2

LEMMA CommitGroupKeeps ==
    ASSUME CatalogInv, NEW r \in Requests, CommitGroup(r)
    PROVE  CatalogInv'
<1>1. PICK q : q = req[r]
  OBVIOUS
<1>2. /\ GroupCall(q) /\ IsRequest(q) /\ q.at = "save_group" /\ Finish(r)
      /\ UNCHANGED <<category, product, object, catalogEvents, submitted, raced>>
  BY <1>1 DEF CatalogInv, GroupsOK, RequestsOK, CommitGroup, Kept
<1>3. /\ q.id \in Groups /\ group[q.id].exists
      /\ q.op \in {"add_variant", "remove_variant"} /\ q.arg \in Products
      /\ q.version = group[q.id].version => q.members = group[q.id].members
  BY <1>2 DEF GroupCall
<1>4. CASE Kept(r)
  <2>1. UNCHANGED <<catalogRows, object, catalogEvents, catalogHistory>>
    BY <1>2, <1>4 DEF Kept, catalogRows, catalogHistory
  <2> QED
    BY <1>2, <2>1, RequestEnds
<1>5. CASE ~ Kept(r)
  <2>1. PICK g \in Groups : g = q.id
    BY <1>3
  <2>2. PICK p \in Products : p = q.arg
    BY <1>3
  <2>3. PICK values \in Content : values = AxisValues(q.row)
    BY <1>2 DEF AxisValues, IsRequest, ProductRow, Content
  <2>4. PICK members \in SUBSET Member : members = group[g].members
    BY DEF CatalogInv, GroupsOK, GroupRow
  <2>5. PICK changed : changed = IF q.op = "add_variant"
                                   THEN AddProduct(q.members, q.arg, AxisValues(q.row))
                                   ELSE RemoveProduct(q.members, q.arg)
    OBVIOUS
  <2>6. /\ changed # None /\ CanSaveGroup(q.id, q.version)
        /\ SaveGroup(q.id, changed, group[q.id].version)
        /\ answered' = [answered EXCEPT ![q.id] =
                          IF q.op = "add_variant" THEN @ \cup {q.arg} ELSE @ \ {q.arg}]
    BY <1>1, <1>5, <2>5 DEF CommitGroup
  <2>7. q.members = members
    BY <1>3, <2>1, <2>4, <2>6 DEF CanSaveGroup
  <2>8. PICK names : /\ names = answered[g] /\ names = {m.product : m \in members}
                     /\ names \subseteq Products
                     /\ \A m, n \in members : m.values = n.values => m = n
    BY <2>4 DEF CatalogInv, GroupsOK, GroupOK
  <2>9. PICK after \in SUBSET Products :
              after = IF q.op = "add_variant" THEN names \cup {p} ELSE names \ {p}
    BY <2>8
  <2>10. /\ changed \in SUBSET Member /\ {m.product : m \in changed} = after
         /\ \A m, n \in changed : m.values = n.values => m = n
    <3>1. CASE q.op = "add_variant"
      <4>1. changed = AddProduct(members, p, values)
        BY <2>2, <2>3, <2>5, <2>7, <3>1
      <4> QED
        BY <2>6, <2>8, <2>9, <3>1, <4>1, MembersChanged
    <3>2. CASE q.op # "add_variant"
      <4>1. changed = RemoveProduct(members, p)
        BY <2>2, <2>5, <2>7, <3>2
      <4> QED
        BY <2>3, <2>6, <2>8, <2>9, <3>2, <4>1, MembersChanged
    <3> QED
      BY <3>1, <3>2
  <2>11. PICK version \in Nat : version = group[g].version
    BY DEF CatalogInv, GroupsOK, GroupRow
  <2>12. group' = [group EXCEPT ![g] = [exists |-> TRUE, members |-> changed,
                                        version |-> version + 1]]
    BY <2>1, <2>6, <2>11 DEF SaveGroup
  <2>13. answered' = [answered EXCEPT ![g] = after]
    BY <2>1, <2>2, <2>6, <2>8, <2>9 DEF CatalogInv, GroupsOK
  <2>14. RequestsOK' /\ \A s \in Requests : req'[s] = IF s = r THEN Idle ELSE req[s]
    BY <1>2, RequestEnded DEF CatalogInv
  <2>15. GroupsOK'
    <3>1. version >= group[g].version
      BY <2>11
    <3>2. \A s \in Requests : IsRequest(req[s])
      BY DEF CatalogInv, RequestsOK
    <3>3. \A s \in Requests : req'[s] = Idle \/ req'[s] = req[s]
      BY <2>14
    <3> QED
      BY <2>10, <2>12, <2>13, <3>1, <3>2, <3>3, GroupSaved DEF CatalogInv
  <2>16. CategoriesOK'
    BY <1>2, <2>14, IdleOK, CategoriesKept DEF CatalogInv
  <2>17. ProductsOK'
    BY <1>2, <2>14, IdleOK, ProductsKept DEF CatalogInv, catalogEvents
  <2> QED
    BY <2>14, <2>15, <2>16, <2>17 DEF CatalogInv
<1> QED
  BY <1>4, <1>5

-----------------------------------------------------------------------------
LEMMA CatalogStarts == CatalogInit => CatalogInv
<1> SUFFICES ASSUME CatalogInit PROVE CatalogInv
  OBVIOUS
<1>1. /\ NoCategory \in CategoryRow /\ ~ NoCategory.exists /\ NoCategory.ancestors = {}
      /\ \A code \in Codes : NoCategory.attributes[code] = None
  BY DEF NoCategory, CategoryRow, Attributes
<1>2. NoProduct \in ProductRow /\ NoProduct.status = "none"
  BY DEF NoProduct, ProductRow, ProductStatus, NoContent, Content
<1>3. NoGroup \in GroupRow /\ ~ NoGroup.exists /\ NoGroup.members = {}
  BY DEF NoGroup, GroupRow
<1>4. \A r \in Requests : req[r] = Idle
  BY DEF CatalogInit
<1>5. RequestsOK
  BY <1>4, IdleOK DEF CatalogInit, RequestsOK
<1>6. CategoriesOK
  <2>1. \A c \in Categories : category[c] = NoCategory
    BY DEF CatalogInit
  <2>2. \A c \in Categories : Chain(c) = {c}
    BY <1>1, <2>1 DEF Chain
  <2>3. \A c \in Categories : CategoryOK(c) /\ PathOK(c)
    BY <1>1, <2>1, <2>2 DEF CategoryOK, PathOK
  <2>4. \A c \in Categories, code \in Codes : DefinesOnce(c, code)
    BY <1>1, <2>1, <2>2 DEF DefinesOnce, Defines
  <2> QED
    BY <1>1, <1>4, <2>3, <2>4, IdleOK DEF CatalogInit, CategoriesOK
<1>7. ProductsOK
  <2>1. \A p \in Products : ProductOK(p)
    BY <1>2 DEF CatalogInit, ProductOK
  <2>2. InsertsApart
    BY <1>4, IdleOK DEF InsertsApart
  <2> QED
    BY <1>2, <1>4, <2>1, <2>2, IdleOK DEF CatalogInit, ProductsOK, Objects
<1>8. GroupsOK
  <2>1. \A g \in Groups : GroupOK(g)
    BY <1>3 DEF CatalogInit, GroupOK
  <2> QED
    BY <1>3, <1>4, <2>1, IdleOK DEF CatalogInit, GroupsOK
<1> QED
  BY <1>5, <1>6, <1>7, <1>8 DEF CatalogInv

LEMMA CatalogStutters == CatalogInv /\ UNCHANGED catalogVars => CatalogInv'
<1> SUFFICES ASSUME CatalogInv, UNCHANGED catalogVars PROVE CatalogInv'
  OBVIOUS
<1>1. UNCHANGED <<category, product, group, object, uploads, announced, submitted, answered,
                  raced, req>>
  BY DEF catalogVars, catalogRows, catalogEvents, catalogHistory
<1>2. RequestsOK' /\ CategoriesOK'
  BY <1>1 DEF CatalogInv, RequestsOK, CategoriesOK, CategoryOK, PathOK, DefinesOnce, Defines,
              Chain, Below, CategoryCall, NoneAbove, NoneBelow
<1>3. ProductsOK' /\ GroupsOK'
  BY <1>1 DEF CatalogInv, ProductsOK, ProductOK, InsertsApart, Inserting, ProductCall,
              GroupsOK, GroupOK, GroupCall
<1> QED
  BY <1>2, <1>3 DEF CatalogInv

LEMMA CatalogGoesOn == CatalogInv /\ [CatalogNext]_catalogVars => CatalogInv'
<1> SUFFICES ASSUME CatalogInv, [CatalogNext]_catalogVars PROVE CatalogInv'
  OBVIOUS
<1>1. CASE UNCHANGED catalogVars
  BY <1>1, CatalogStutters
<1>2. ASSUME NEW r \in Requests, StartHandling(r) PROVE CatalogInv'
  <2>1. CASE \E c \in Categories :
                \/ StartCreateCategory(r, c)
                \/ \E slug \in Slugs : StartRename(r, c, slug)
                \/ \E code \in Codes : \/ StartRemoveAttribute(r, c, code)
                                        \/ \E def \in Definitions : StartDefine(r, c, code, def)
    BY <2>1, CreateCategoryKeeps, ChangeCategoryKeeps
  <2>2. ASSUME NEW p \in Products,
               \/ \E content \in Contents : StartCreateProduct(r, p, content)
               \/ \E i \in Images : ConsumeUpload(r, p, i)
        PROVE  CatalogInv'
    BY <2>2, CreateProductKeeps, ConsumeUploadKeeps
  <2>3. ASSUME NEW p \in Products,
               \/ \E content \in Contents : StartProduct(r, p, "update", content)
               \/ \E o \in {"submit", "publish", "reject"} : StartProduct(r, p, o, None)
               \/ \E order \in OrdersOf(product[p]) :
                     StartProduct(r, p, "reorder_images", order)
               \/ \E i \in Images : \/ StartProduct(r, p, "request_image", i)
                                     \/ StartProduct(r, p, "remove_image", i)
                                     \/ StartConfirmUpload(r, p, i)
        PROVE  CatalogInv'
    <3>1. CASE \E content \in Contents : StartProduct(r, p, "update", content)
      BY <3>1, StartProductKeeps DEF ProductOps, ImageOps
    <3>2. CASE \E o \in {"submit", "publish", "reject", "reorder_images"}, arg \in
                     {None} \cup OrdersOf(product[p]) : StartProduct(r, p, o, arg)
      BY <3>2, StartProductKeeps DEF ProductOps, ImageOps
    <3>3. CASE \E i \in Images, o \in ImageOps : StartProduct(r, p, o, i)
      BY <3>3, StartProductKeeps DEF ProductOps, ImageOps
    <3> QED
      BY <2>3, <3>1, <3>2, <3>3 DEF StartConfirmUpload, ImageOps
  <2>4. ASSUME NEW g \in Groups,
               \/ CreateGroup(r, g)
               \/ \E p \in Products : StartAddVariant(r, g, p) \/ StartRemoveVariant(r, g, p)
        PROVE  CatalogInv'
    BY <2>4, CreateGroupKeeps, StartVariantKeeps
  <2> QED
    BY <1>2, <2>1, <2>2, <2>3, <2>4 DEF StartHandling
<1>3. ASSUME NEW r \in Requests, Proceed(r) PROVE CatalogInv'
  BY <1>3, InsertCategoryKeeps, InheritedKeeps, CommitCategoryKeeps, InsertProductKeeps,
     FindProductKeeps, LoadPartsKeeps, ClassifyKeeps, CommitProductKeeps, PendingKeeps,
     FindVariantKeeps, CommitGroupKeeps DEF Proceed
<1>4. CASE \E i \in Images, kind \in Puts : PutObject(i, kind)
  BY <1>4, PutObjectKeeps
<1> QED
  BY <1>1, <1>2, <1>3, <1>4 DEF CatalogNext

THEOREM CatalogKeepsInv == CatalogSpec => []CatalogInv
<1>1. CatalogInit => CatalogInv
  BY CatalogStarts
<1>2. CatalogInv /\ [CatalogNext]_catalogVars => CatalogInv'
  BY CatalogGoesOn
<1> QED
  BY <1>1, <1>2, PTL DEF CatalogSpec

(* Only an attempt that fails is counted, up to the limit.                 *)
AttemptsOK == attempts \in [Products \X Images -> 0 .. MaxAttempts]

LEMMA AttemptsCounted == AttemptsOK /\ [CatalogNext]_catalogVars => AttemptsOK'
<1> SUFFICES ASSUME AttemptsOK, [CatalogNext]_catalogVars PROVE AttemptsOK'
  OBVIOUS
<1>1. ASSUME NEW r \in Requests, AttemptFails(r) PROVE AttemptsOK'
  <2>1. PICK failing : attempts' = [e \in DOMAIN attempts |->
            IF e \in failing /\ attempts[e] < MaxAttempts THEN attempts[e] + 1 ELSE attempts[e]]
    BY <1>1 DEF AttemptFails
  <2> QED
    BY <2>1, CatalogAssumption DEF AttemptsOK
<1>2. CASE UNCHANGED attempts
  BY <1>2 DEF AttemptsOK
<1>3. ASSUME NEW r \in Requests, StartHandling(r) PROVE UNCHANGED attempts
  BY <1>3 DEF StartHandling, StartCreateCategory, StartRename, StartRemoveAttribute, StartDefine,
              StartCreateProduct, StartProduct, StartConfirmUpload, ConsumeUpload, CreateGroup,
              StartAddVariant, StartRemoveVariant, catalogEvents
<1>4. ASSUME NEW r \in Requests, Proceed(r)
      PROVE  UNCHANGED attempts \/ AttemptFails(r)
  <2>1. InsertCategory(r) \/ ReadInherited(r) \/ ReadDescendants(r) \/ CommitCategory(r)
        \/ InsertProduct(r) \/ FindProduct(r) \/ LoadParts(r) \/ ClassifyProduct(r)
        \/ FindVariant(r) \/ CommitGroup(r) => UNCHANGED attempts
    BY DEF InsertCategory, ReadInherited, ReadDescendants, CommitCategory, InsertProduct,
           FindProduct, LoadParts, ClassifyProduct, FindVariant, CommitGroup, catalogEvents
  <2>2. CommitProduct(r) \/ Pending(r) \/ Render(r) => UNCHANGED attempts \/ AttemptFails(r)
    BY DEF CommitProduct, Pending, Render, Acknowledge
  <2>3. CommitProcessed(r) => UNCHANGED attempts \/ AttemptFails(r)
    BY DEF CommitProcessed, Acknowledge, Conflict
  <2> QED
    BY <1>4, <2>1, <2>2, <2>3 DEF Proceed
<1>5. ASSUME NEW i \in Images, NEW kind \in Puts, PutObject(i, kind) PROVE UNCHANGED attempts
  BY <1>5 DEF PutObject, catalogEvents
<1>6. CASE UNCHANGED catalogVars
  BY <1>2, <1>6 DEF catalogVars, catalogEvents
<1> QED
  BY <1>1, <1>2, <1>3, <1>4, <1>5, <1>6 DEF CatalogNext

(* Rows, events and what requests have read are what the tables and the    *)
(* handlers allow.                                                         *)
THEOREM CatalogTypeCorrect == CatalogSpec => []CatalogTypeOK
<1>1. CatalogInv /\ AttemptsOK => CatalogTypeOK
  BY DEF CatalogInv, RequestsOK, IsRequest, CategoriesOK, ProductsOK, GroupsOK, AttemptsOK,
         CatalogTypeOK
<1>2. CatalogInit => AttemptsOK
  BY CatalogAssumption DEF CatalogInit, AttemptsOK
<1> QED
  BY <1>1, <1>2, AttemptsCounted, CatalogKeepsInv, PTL DEF CatalogSpec

(* A code that a path defines at most once makes a schema.                 *)
LEMMA SchemaOK ==
    ASSUME NEW c \in Categories, category[c].exists,
           \A code \in Codes : DefinesOnce(c, code)
    PROVE  Classify(c).ok
<1>1. ASSUME NEW code \in Codes
      PROVE  Cardinality({e \in Chain(c) : Defines(e, code)}) <= 1
  <2> DEFINE definers == {e \in Chain(c) : Defines(e, code)}
  <2>1. CASE definers = {}
    BY <2>1, FS_EmptySet
  <2>2. CASE definers # {}
    <3>1. PICK e : e \in definers
      BY <2>2
    <3>2. definers = {e}
      BY <3>1 DEF DefinesOnce
    <3> HIDE DEF definers
    <3>3. Cardinality(definers) = 1
      BY <3>2, FS_Singleton
    <3> QED
      BY <3>3 DEF definers
  <2> QED
    BY <2>1, <2>2
<1> QED
  BY <1>1 DEF Classify, NewSchema

(* Whatever requests overlap, the catalog stays consistent: what moderators *)
(* see and publish is what the author submitted, the cover named last is    *)
(* the cover, a group has what was added to it, and a product's category    *)
(* has a schema unless two definitions of attributes overlapped.            *)
THEOREM CatalogAlwaysHolds == CatalogSpec => []CatalogHolds
<1>1. CatalogInv => PublishedAsSubmitted /\ CoverAnnounced
  BY DEF CatalogInv, ProductsOK, ProductOK, PublishedAsSubmitted, CoverAnnounced
<1>2. CatalogInv => GroupKeepsMembers
  BY DEF CatalogInv, GroupsOK, GroupOK, GroupKeepsMembers
<1>3. CatalogInv => CodesUnique
  BY SchemaOK DEF CatalogInv, CategoriesOK, CodesUnique
<1>4. CatalogInv => CatalogHolds
  BY <1>1, <1>2, <1>3 DEF CatalogHolds
<1> QED
  BY <1>4, CatalogKeepsInv, PTL

-----------------------------------------------------------------------------
(* Import jobs.                                                            *)
JobRecord == [status : ImportStatus, total : Nat, failed : Nat, version : Nat]

JobEnded == {"completed", "failed"}

(* The part of TypeOK that is about jobs; of a worker, the fields it has.  *)
JobsTyped ==
    /\ job \in [Jobs -> JobRecord]
    /\ finished \in [Jobs -> Nat]
    /\ DOMAIN runner = ImportWorkers
    /\ \A w \in ImportWorkers : DOMAIN runner[w] = DOMAIN NoRun

(* The events of a job that has ended, and what a row says of the file.    *)
JobOK(j) ==
    /\ finished[j] = IF job[j].status \in JobEnded THEN 1 ELSE 0
    /\ job[j].status = "completed" => job[j].total = Len(File[j])
    /\ job[j].status = "pending" => job[j].total = 0
    /\ job[j].status = "none" => job[j].version = 0

(* A worker at a job has it as it is in the table and in progress, or as   *)
(* it was at an older version, and has not counted more rows than there    *)
(* are.                                                                    *)
HeldJob(q, j) ==
    /\ q.job \in JobRecord
    /\ q.job.status = "processing"
    /\ q.job.version <= job[j].version
    /\ q.job.version = job[j].version => job[j].status = "processing"
    /\ q.job.total <= Len(File[j])
    /\ q.at \in {"upsert", "succeeded", "refused"} => q.job.total < Len(File[j])

RunnerOK(q) ==
    /\ q.at # "idle" => q.id \in Jobs
    /\ q.at \notin {"idle", "start"} => HeldJob(q, q.id)

ImportsInv ==
    /\ JobsTyped
    /\ \A j \in Jobs : JobOK(j)
    /\ \A w \in ImportWorkers : RunnerOK(runner[w])

-----------------------------------------------------------------------------
(* A worker that rests has no job.                                         *)
LEMMA NoRunOK == RunnerOK(NoRun)
BY DEF NoRun, RunnerOK

(* No job is scheduled and no worker is at one.                            *)
LEMMA ImportsStart == ImportsInit => ImportsInv
<1> SUFFICES ASSUME ImportsInit PROVE ImportsInv
  OBVIOUS
<1>1. NoJob \in JobRecord /\ NoJob.status = "none" /\ NoJob.version = 0
  BY DEF NoJob, JobRecord, ImportStatus
<1>2. JobsTyped
  BY <1>1 DEF ImportsInit, JobsTyped
<1>3. \A j \in Jobs : JobOK(j)
  BY <1>1 DEF ImportsInit, JobOK, JobEnded
<1>4. \A w \in ImportWorkers : runner[w] = NoRun
  BY DEF ImportsInit
<1> QED
  BY <1>2, <1>3, <1>4, NoRunOK DEF ImportsInv

(* A step of one worker that saves no job.                                 *)
LEMMA RunKeeps ==
    ASSUME ImportsInv, UNCHANGED <<job, finished>>, NEW w \in ImportWorkers, NEW q,
           runner' = [runner EXCEPT ![w] = q], DOMAIN q = DOMAIN NoRun, RunnerOK(q)
    PROVE  ImportsInv'
<1>1. runner'[w] = q /\ DOMAIN runner' = ImportWorkers
      /\ \A v \in ImportWorkers \ {w} : runner'[v] = runner[v]
  BY DEF ImportsInv, JobsTyped
<1>2. JobsTyped'
  BY <1>1 DEF ImportsInv, JobsTyped
<1>3. \A j \in Jobs : JobOK(j)'
  BY DEF ImportsInv, JobOK
<1>4. RunnerOK(runner[w])'
  BY <1>1 DEF RunnerOK, HeldJob
<1>5. \A v \in ImportWorkers \ {w} : RunnerOK(runner[v])'
  BY <1>1 DEF ImportsInv, RunnerOK, HeldJob
<1> QED
  BY <1>2, <1>3, <1>4, <1>5 DEF ImportsInv

(* A step that saves a job that has not ended, by a worker with what it    *)
(* has of it now, or (with the worker's q left as it is) by the scheduled  *)
(* job.                                                                    *)
LEMMA SaveJobKeeps ==
    ASSUME ImportsInv, NEW j \in Jobs, NEW row \in JobRecord, SaveJob(j, row),
           row.version = job[j].version, job[j].status \notin JobEnded,
           row.status # "none",
           row.status = "completed" => row.total = Len(File[j]),
           row.status = "pending" => row.total = 0,
           \/ UNCHANGED runner
           \/ \E w \in ImportWorkers : \E q :
                 /\ runner' = [runner EXCEPT ![w] = q] /\ DOMAIN q = DOMAIN NoRun
                 /\ \/ q = NoRun
                    \/ /\ q.id = j /\ q.job \in JobRecord /\ row.status = "processing"
                       /\ q.job.status = "processing" /\ q.job.version = row.version + 1
                       /\ q.job.total <= Len(File[j])
                       /\ q.at \in {"check", "row"}
    PROVE  ImportsInv'
<1> DEFINE kept == [row EXCEPT !.version = row.version + 1]
<1>1. /\ kept \in JobRecord /\ kept.status = row.status /\ kept.total = row.total
      /\ kept.version = row.version + 1
  BY DEF JobRecord
<1>2. job' = [job EXCEPT ![j] = kept]
  BY DEF SaveJob
<1>3. finished' = IF row.status \in JobEnded THEN [finished EXCEPT ![j] = finished[j] + 1]
                                          ELSE finished
  BY DEF SaveJob, JobEnded
<1> HIDE DEF kept
<1>4. /\ job'[j] = kept /\ \A i \in Jobs \ {j} : job'[i] = job[i]
      /\ job' \in [Jobs -> JobRecord]
  BY <1>1, <1>2 DEF ImportsInv, JobsTyped
<1>5. finished[j] = 0
  BY DEF ImportsInv, JobOK
<1>6. /\ finished' \in [Jobs -> Nat] /\ finished'[j] = IF row.status \in JobEnded THEN 1 ELSE 0
      /\ \A i \in Jobs \ {j} : finished'[i] = finished[i]
  BY <1>3, <1>5 DEF ImportsInv, JobsTyped
<1>7. \A i \in Jobs : JobOK(i)'
  BY <1>1, <1>4, <1>6 DEF ImportsInv, JobOK
<1>8. job[j].version \in Nat
  BY DEF ImportsInv, JobsTyped, JobRecord
<1>9. ASSUME NEW v \in ImportWorkers, runner'[v] = runner[v] PROVE RunnerOK(runner[v])'
  <2>1. RunnerOK(runner[v])
    BY DEF ImportsInv
  <2>2. ASSUME HeldJob(runner[v], runner[v].id), runner[v].id \in Jobs
        PROVE  HeldJob(runner[v], runner[v].id)'
    <3>1. CASE runner[v].id = j
      <4>1. PICK n \in Nat : n = runner[v].job.version
        BY <2>2 DEF HeldJob, JobRecord
      <4>2. n < kept.version
        BY <1>1, <1>8, <2>2, <3>1, <4>1 DEF HeldJob
      <4> QED
        BY <1>4, <1>9, <2>2, <3>1, <4>1, <4>2, <1>1, <1>8 DEF HeldJob
    <3>2. CASE runner[v].id # j
      BY <1>4, <1>9, <2>2, <3>2 DEF HeldJob
    <3> QED
      BY <3>1, <3>2
  <2> QED
    BY <1>9, <2>1, <2>2 DEF RunnerOK
<1>10. CASE UNCHANGED runner
  BY <1>4, <1>6, <1>7, <1>9, <1>10 DEF ImportsInv, JobsTyped
<1>11. ASSUME NEW w \in ImportWorkers, NEW q,
              runner' = [runner EXCEPT ![w] = q], DOMAIN q = DOMAIN NoRun, RunnerOK(q)'
       PROVE  ImportsInv'
  <2>1. runner'[w] = q /\ DOMAIN runner' = ImportWorkers
        /\ \A v \in ImportWorkers \ {w} : runner'[v] = runner[v]
    BY <1>11 DEF ImportsInv, JobsTyped
  <2>2. RunnerOK(runner[w])'
    BY <1>11, <2>1 DEF RunnerOK, HeldJob
  <2>3. \A v \in ImportWorkers \ {w} : RunnerOK(runner[v])'
    BY <1>9, <2>1
  <2> QED
    BY <1>4, <1>6, <1>7, <1>11, <2>1, <2>2, <2>3 DEF ImportsInv, JobsTyped
<1>12. ASSUME NEW w \in ImportWorkers, NEW q,
              runner' = [runner EXCEPT ![w] = q], DOMAIN q = DOMAIN NoRun,
              \/ q = NoRun
              \/ /\ q.id = j /\ q.job \in JobRecord /\ row.status = "processing"
                 /\ q.job.status = "processing" /\ q.job.version = row.version + 1
                 /\ q.job.total <= Len(File[j])
                 /\ q.at \in {"check", "row"}
       PROVE  RunnerOK(q)'
  <2>1. CASE q = NoRun
    BY <2>1 DEF RunnerOK, NoRun
  <2>2. CASE /\ q.id = j /\ q.job \in JobRecord /\ row.status = "processing"
             /\ q.job.status = "processing" /\ q.job.version = row.version + 1
             /\ q.job.total <= Len(File[j])
             /\ q.at \in {"check", "row"}
    <3>1. job'[j].version = row.version + 1 /\ job'[j].status = "processing"
          /\ row.version + 1 \in Nat
      BY <1>1, <1>4, <1>8, <2>2
    <3> QED
      BY <2>2, <3>1 DEF RunnerOK, HeldJob
  <2> QED
    BY <1>12, <2>1, <2>2
<1> QED
  BY <1>10, <1>11, <1>12

-----------------------------------------------------------------------------
(* The delivery of an event, the loss of the relay's transaction and the   *)
(* steps of a worker between two saves.                                    *)
LEMMA RunStepKeeps ==
    ASSUME ImportsInv, NEW w \in ImportWorkers,
           \/ \E j \in Jobs : DeliverImport(w, j)
           \/ Check(w) \/ FindRow(w) \/ Upsert(w) \/ StopRun(w) \/ LoseRun(w)
    PROVE  ImportsInv'
<1>0. /\ DOMAIN runner[w] = DOMAIN NoRun /\ RunnerOK(runner[w])
      /\ runner[w].job.total \in Nat \/ runner[w].at \in {"idle", "start"}
  BY DEF ImportsInv, JobsTyped, RunnerOK, HeldJob, JobRecord
<1>1. ASSUME NEW j \in Jobs, DeliverImport(w, j) PROVE ImportsInv'
  <2> DEFINE q == [runner[w] EXCEPT !.at = "start", !.id = j]
  <2>1. runner' = [runner EXCEPT ![w] = q] /\ UNCHANGED <<job, finished>>
    BY <1>1 DEF DeliverImport
  <2>2. DOMAIN q = DOMAIN NoRun /\ q.at = "start" /\ q.id = j
    BY <1>0 DEF NoRun
  <2>3. RunnerOK(q)
    BY <2>2 DEF RunnerOK
  <2> HIDE DEF q
  <2> QED
    BY <2>1, <2>2, <2>3, RunKeeps
<1>2. ASSUME NEW step \in {"row", "fail", "refused", "succeeded"},
             runner[w].at \in {"check", "upsert"},
             step \in {"refused", "succeeded"} => runner[w].at = "upsert",
             GoOn(w, step), UNCHANGED <<job, finished>>
      PROVE  ImportsInv'
  <2> DEFINE q == [runner[w] EXCEPT !.at = step]
  <2>1. runner' = [runner EXCEPT ![w] = q]
    BY <1>2 DEF GoOn
  <2>2. DOMAIN q = DOMAIN NoRun /\ q.at = step /\ q.id = runner[w].id /\ q.job = runner[w].job
    BY <1>0 DEF NoRun
  <2> HIDE DEF q
  <2>3. RunnerOK(q)
    BY <1>0, <1>2, <2>2 DEF RunnerOK, HeldJob
  <2> QED
    BY <1>2, <2>1, <2>2, <2>3, RunKeeps
<1>3. CASE Check(w)
  BY <1>2, <1>3 DEF Check
<1>4. CASE Upsert(w)
  BY <1>2, <1>4 DEF Upsert
<1>5. CASE FindRow(w)
  <2>0. PICK step \in {"upsert", "refused"} :
           \E o, found :
              runner' = [runner EXCEPT ![w].at = step, ![w].offer = o, ![w].found = found]
    BY <1>5 DEF FindRow
  <2>1. PICK o, found :
           runner' = [runner EXCEPT ![w].at = step, ![w].offer = o, ![w].found = found]
    BY <2>0
  <2>2. runner[w].at = "row" /\ runner[w].job.total < Len(File[runner[w].id])
        /\ UNCHANGED <<job, finished>>
    BY <1>5 DEF FindRow, More
  <2> DEFINE q == [runner[w] EXCEPT !.at = step, !.offer = o, !.found = found]
  <2>3. runner' = [runner EXCEPT ![w] = q]
    BY <2>1
  <2>4. DOMAIN q = DOMAIN NoRun /\ q.at = step /\ q.id = runner[w].id /\ q.job = runner[w].job
    BY <1>0 DEF NoRun
  <2> HIDE DEF q
  <2>5. RunnerOK(q)
    BY <1>0, <2>2, <2>4 DEF RunnerOK, HeldJob
  <2> QED
    BY <2>2, <2>3, <2>4, <2>5, RunKeeps
<1>6. CASE StopRun(w)
  BY <1>6, NoRunOK, RunKeeps DEF StopRun, Rest
<1>7. CASE LoseRun(w)
  <2> DEFINE q == [runner[w] EXCEPT !.lost = TRUE]
  <2>1. runner' = [runner EXCEPT ![w] = q] /\ UNCHANGED <<job, finished>>
    BY <1>7 DEF LoseRun
  <2>2. /\ DOMAIN q = DOMAIN NoRun
        /\ q.at = runner[w].at /\ q.id = runner[w].id /\ q.job = runner[w].job
    BY <1>0 DEF NoRun
  <2> HIDE DEF q
  <2>3. RunnerOK(q)
    BY <1>0, <2>2 DEF RunnerOK, HeldJob
  <2> QED
    BY <2>1, <2>2, <2>3, RunKeeps
<1> QED
  BY <1>1, <1>3, <1>4, <1>5, <1>6, <1>7

(* What the methods of a job make of its row.                              *)
LEMMA JobMethods ==
    ASSUME NEW r \in JobRecord
    PROVE  /\ \A b \in BOOLEAN : /\ RecordRow(r, b) \in JobRecord
                                 /\ RecordRow(r, b).status = r.status
                                 /\ RecordRow(r, b).version = r.version
                                 /\ RecordRow(r, b).total = r.total + 1
           /\ Complete(r) \in JobRecord /\ Complete(r).status = "completed"
           /\ Complete(r).version = r.version /\ Complete(r).total = r.total
           /\ FailJob(r) \in JobRecord /\ FailJob(r).status = "failed"
           /\ FailJob(r).version = r.version
           /\ Requeue(r) \in JobRecord /\ Requeue(r).status = "pending"
           /\ Requeue(r).version = r.version /\ Requeue(r).total = 0
           /\ StartJob(r) # Null =>
                 /\ r.status = "pending"
                 /\ StartJob(r) \in JobRecord /\ StartJob(r).status = "processing"
                 /\ StartJob(r).version = r.version /\ StartJob(r).total = r.total
<1>1. ASSUME NEW b \in BOOLEAN
      PROVE  /\ RecordRow(r, b) \in JobRecord
             /\ RecordRow(r, b).status = r.status
             /\ RecordRow(r, b).version = r.version
             /\ RecordRow(r, b).total = r.total + 1
  <2>1. PICK f \in Nat : f = IF b THEN r.failed ELSE r.failed + 1
    BY DEF JobRecord
  <2>2. RecordRow(r, b) = [r EXCEPT !.total = r.total + 1, !.failed = f]
    BY <2>1 DEF RecordRow
  <2>3. r.total + 1 \in Nat
    BY DEF JobRecord
  <2> QED
    BY <2>2, <2>3 DEF JobRecord
<1>2. LET started == [r EXCEPT !.status = "processing"] IN
      /\ StartJob(r) \in {Null, started} /\ (StartJob(r) # Null => r.status = "pending")
      /\ started \in JobRecord /\ started.status = "processing"
      /\ started.version = r.version /\ started.total = r.total
  BY DEF StartJob, JobRecord, ImportStatus
<1> QED
  BY <1>1, <1>2 DEF Complete, FailJob, Requeue, JobRecord, ImportStatus

(* A save makes the next version of a row.                                 *)
LEMMA NextJobVersion ==
    ASSUME NEW r \in JobRecord
    PROVE  LET kept == [r EXCEPT !.version = r.version + 1] IN
           /\ kept \in JobRecord /\ kept.status = r.status /\ kept.total = r.total
           /\ kept.version = r.version + 1
BY DEF JobRecord

(* A worker that takes up its job finds it pending, or leaves it alone.    *)
LEMMA StartRunKeeps ==
    ASSUME ImportsInv, NEW w \in ImportWorkers, StartRun(w)
    PROVE  ImportsInv'
<1>1. PICK j \in Jobs : j = runner[w].id
  BY DEF StartRun, ImportsInv, RunnerOK
<1>2. job[j] \in JobRecord /\ JobOK(j) /\ DOMAIN runner[w] = DOMAIN NoRun
      /\ job[j].version \in Nat
  BY DEF ImportsInv, JobsTyped, JobRecord
<1>3. CASE StartJob(job[j]) = Null
  <2>1. runner' = [runner EXCEPT ![w] = NoRun] /\ UNCHANGED <<job, finished>>
    BY <1>1, <1>3 DEF StartRun, AcknowledgeRun, Rest
  <2> QED
    BY <2>1, NoRunOK, RunKeeps
<1>4. CASE StartJob(job[j]) # Null
  <2>1. PICK row \in JobRecord : /\ row = StartJob(job[j]) /\ job[j].status = "pending"
                                 /\ row.status = "processing" /\ row.total = 0
                                 /\ row.version = job[j].version
    BY <1>2, <1>4, JobMethods DEF JobOK
  <2>2. PICK kept \in JobRecord : /\ kept = [row EXCEPT !.version = row.version + 1]
                                  /\ kept.status = "processing" /\ kept.total = 0
                                  /\ kept.version = row.version + 1
    BY <2>1, NextJobVersion
  <2> DEFINE q == [runner[w] EXCEPT !.job = kept, !.at = "check"]
  <2>3. SaveJob(j, row) /\ runner' = [runner EXCEPT ![w] = q]
    BY <1>1, <1>4, <2>1, <2>2 DEF StartRun
  <2>4. DOMAIN q = DOMAIN NoRun /\ q.at = "check" /\ q.id = j /\ q.job = kept
    BY <1>1, <1>2 DEF NoRun
  <2> HIDE DEF q
  <2>5. q.job.total <= Len(File[j])
    BY <2>2, <2>4, FilesHaveRows
  <2>6. /\ q.job \in JobRecord /\ q.job.status = "processing"
        /\ q.job.version = row.version + 1
    BY <2>2, <2>4
  <2>7. row.status \notin JobEnded /\ job[j].status \notin JobEnded /\ row.status # "none"
        /\ row.status # "completed" /\ row.status # "pending"
    BY <2>1 DEF JobEnded
  <2> QED
    BY <2>1, <2>3, <2>4, <2>5, <2>6, <2>7, SaveJobKeeps
<1> QED
  BY <1>3, <1>4

(* A row is counted by the worker, and with every ImportProgress-th row in *)
(* the table, where a conflict ends the work.                              *)
LEMMA CountRowKeeps ==
    ASSUME ImportsInv, NEW w \in ImportWorkers, Count(w)
    PROVE  ImportsInv'
<1>1. runner[w].at \in {"succeeded", "refused"}
  BY DEF Count
<1>2. PICK j \in Jobs : j = runner[w].id
  BY <1>1 DEF ImportsInv, RunnerOK
<1>3. /\ HeldJob(runner[w], j) /\ runner[w].job \in JobRecord /\ runner[w].job.status = "processing"
      /\ runner[w].job.total < Len(File[j]) /\ Len(File[j]) \in Nat
      /\ runner[w].job.total \in Nat
      /\ DOMAIN runner[w] = DOMAIN NoRun
  BY <1>1, <1>2, FilesHaveRows DEF ImportsInv, JobsTyped, RunnerOK, HeldJob, JobRecord
<1>4. PICK counted \in JobRecord :
         /\ counted = RecordRow(runner[w].job, runner[w].at = "succeeded")
         /\ counted.status = "processing" /\ counted.version = runner[w].job.version
         /\ counted.total <= Len(File[j])
  <2>1. PICK b \in BOOLEAN : b = (runner[w].at = "succeeded")
    OBVIOUS
  <2>2. runner[w].job.total + 1 <= Len(File[j])
    BY <1>3
  <2>3. /\ RecordRow(runner[w].job, b) \in JobRecord
        /\ RecordRow(runner[w].job, b).status = "processing"
        /\ RecordRow(runner[w].job, b).version = runner[w].job.version
        /\ RecordRow(runner[w].job, b).total = runner[w].job.total + 1
    BY <1>3, JobMethods
  <2> QED
    BY <2>1, <2>2, <2>3, Zenon
<1> DEFINE rested == [runner[w] EXCEPT !.offer = Null, !.found = NoOffer, !.at = "row"]
           with(r) == [rested EXCEPT !.job = r]
<1>5. ASSUME NEW r
      PROVE  DOMAIN with(r) = DOMAIN NoRun /\ with(r).at = "row" /\ with(r).id = j
             /\ with(r).job = r
  BY <1>2, <1>3 DEF NoRun
<1>6. PICK kept \in JobRecord : /\ kept = [counted EXCEPT !.version = counted.version + 1]
                                /\ kept.status = "processing" /\ kept.total = counted.total
                                /\ kept.version = counted.version + 1
  <2> DEFINE k == [counted EXCEPT !.version = counted.version + 1]
  <2>1. /\ k \in JobRecord /\ k.status = counted.status /\ k.total = counted.total
        /\ k.version = counted.version + 1
    BY NextJobVersion
  <2>2. counted.status = "processing"
    BY <1>4
  <2>3. k = [counted EXCEPT !.version = counted.version + 1]
    OBVIOUS
  <2> HIDE DEF k
  <2> QED
    BY <2>1, <2>2, <2>3
<1>7. \/ runner' = [runner EXCEPT ![w] = with(counted)] /\ UNCHANGED <<job, finished>>
      \/ /\ CanSaveJob(j, counted) /\ SaveJob(j, counted)
         /\ runner' = [runner EXCEPT ![w] = with(kept)]
      \/ runner' = [runner EXCEPT ![w] = NoRun] /\ UNCHANGED <<job, finished>>
  BY <1>2, <1>4, <1>6 DEF Count, Retry, Rest
<1> HIDE DEF with
<1>8. CASE runner' = [runner EXCEPT ![w] = with(counted)] /\ UNCHANGED <<job, finished>>
  <2>1. RunnerOK(with(counted))
    BY <1>3, <1>4, <1>5 DEF RunnerOK, HeldJob
  <2> QED
    BY <1>5, <1>8, <2>1, RunKeeps
<1>9. CASE /\ CanSaveJob(j, counted) /\ SaveJob(j, counted)
           /\ runner' = [runner EXCEPT ![w] = with(kept)]
  <2>1. job[j].version = counted.version /\ job[j].status = "processing"
    BY <1>3, <1>4, <1>9 DEF CanSaveJob, HeldJob
  <2> DEFINE q == with(kept)
  <2>2. DOMAIN q = DOMAIN NoRun /\ q.at = "row" /\ q.id = j /\ q.job = kept
    BY <1>5
  <2>3. runner' = [runner EXCEPT ![w] = q]
    BY <1>9
  <2> HIDE DEF q
  <2>4. /\ q.job \in JobRecord /\ q.job.status = "processing"
        /\ q.job.version = counted.version + 1 /\ q.job.total <= Len(File[j])
    BY <1>4, <1>6, <2>2
  <2>5. /\ job[j].status \notin JobEnded /\ counted.status = "processing"
        /\ counted.version = job[j].version /\ SaveJob(j, counted)
    BY <1>4, <1>9, <2>1 DEF JobEnded
  <2>6. \/ q = NoRun
        \/ /\ q.id = j /\ q.job \in JobRecord /\ counted.status = "processing"
           /\ q.job.status = "processing" /\ q.job.version = counted.version + 1
           /\ q.job.total <= Len(File[j])
           /\ q.at \in {"check", "row"}
    BY <2>2, <2>4, <2>5
  <2> QED
    BY <2>2, <2>3, <2>5, <2>6, SaveJobKeeps
<1>10. CASE runner' = [runner EXCEPT ![w] = NoRun] /\ UNCHANGED <<job, finished>>
  BY <1>10, NoRunOK, RunKeeps
<1> QED
  BY <1>7, <1>8, <1>9, <1>10

(* The job is completed at the end of its file, or fails.                  *)
LEMMA EndRunKeeps ==
    ASSUME ImportsInv, NEW w \in ImportWorkers, End(w)
    PROVE  ImportsInv'
<1>1. runner[w].at \in {"row", "fail"}
  BY DEF End
<1>2. PICK j \in Jobs : j = runner[w].id
  BY <1>1 DEF ImportsInv, RunnerOK
<1>3. /\ HeldJob(runner[w], j) /\ runner[w].job \in JobRecord /\ Len(File[j]) \in Nat
      /\ runner[w].job.total \in Nat /\ runner[w].job.total <= Len(File[j])
  BY <1>1, <1>2, FilesHaveRows DEF ImportsInv, RunnerOK, HeldJob, JobRecord
<1> DEFINE done == runner[w].at = "row" /\ ~More(w)
<1>4. PICK ended \in JobRecord :
         /\ ended = IF done THEN Complete(runner[w].job) ELSE FailJob(runner[w].job)
         /\ ended.version = runner[w].job.version /\ ended.status \in JobEnded
         /\ ended.status = "completed" => ended.total = Len(File[j])
  <2>1. CASE done
    <3>1. runner[w].job.total = Len(File[j])
      BY <1>2, <1>3, <2>1 DEF More
    <3> QED
      BY <1>3, <2>1, <3>1, JobMethods DEF JobEnded
  <2>2. CASE ~ done
    BY <1>3, <2>2, JobMethods DEF JobEnded
  <2> QED
    BY <2>1, <2>2
<1>5. /\ runner' = [runner EXCEPT ![w] = NoRun]
      /\ \/ CanSaveJob(j, ended) /\ SaveJob(j, ended)
         \/ UNCHANGED <<job, finished>>
  BY <1>2, <1>4 DEF End, AcknowledgeRun, Retry, Rest
<1>6. CASE CanSaveJob(j, ended) /\ SaveJob(j, ended)
  <2>1. job[j].version = ended.version /\ job[j].status = "processing"
    BY <1>3, <1>4, <1>6 DEF CanSaveJob, HeldJob
  <2> QED
    BY <1>4, <1>5, <1>6, <2>1, SaveJobKeeps DEF JobEnded
<1>7. CASE UNCHANGED <<job, finished>>
  BY <1>5, <1>7, NoRunOK, RunKeeps
<1> QED
  BY <1>5, <1>6, <1>7

(* A job is scheduled once, and no worker has it before.                   *)
LEMMA ScheduleKeeps ==
    ASSUME ImportsInv, NEW j \in Jobs, Schedule(j)
    PROVE  ImportsInv'
<1> DEFINE new == [NoJob EXCEPT !.status = "pending", !.version = 1]
<1>1. /\ new \in JobRecord /\ new.status = "pending" /\ new.version = 1 /\ new.total = 0
  BY DEF NoJob, JobRecord, ImportStatus
<1>2. job' = [job EXCEPT ![j] = new] /\ job[j].status = "none" /\ UNCHANGED <<finished, runner>>
  BY DEF Schedule
<1> HIDE DEF new
<1>3. /\ job'[j] = new /\ \A i \in Jobs \ {j} : job'[i] = job[i]
      /\ job' \in [Jobs -> JobRecord]
  BY <1>1, <1>2 DEF ImportsInv, JobsTyped
<1>4. \A i \in Jobs : JobOK(i)'
  BY <1>1, <1>2, <1>3 DEF ImportsInv, JobOK, JobEnded
<1>5. ASSUME NEW v \in ImportWorkers PROVE RunnerOK(runner[v])'
  <2>1. RunnerOK(runner[v])
    BY DEF ImportsInv
  <2>2. CASE runner[v].at \in {"idle", "start"}
    BY <1>2, <2>1, <2>2 DEF RunnerOK
  <2>3. CASE runner[v].at \notin {"idle", "start"}
    <3>1. runner[v].id # j
      <4>1. job[j].version = 0
        BY <1>2 DEF ImportsInv, JobOK
      <4> QED
        BY <1>2, <2>1, <2>3, <4>1 DEF RunnerOK, HeldJob, JobRecord
    <3> QED
      BY <1>2, <1>3, <2>1, <2>3, <3>1 DEF RunnerOK, HeldJob
  <2> QED
    BY <2>2, <2>3
<1> QED
  BY <1>2, <1>3, <1>4, <1>5 DEF ImportsInv, JobsTyped

(* Every step of a worker, of a client and of the scheduled job keeps the  *)
(* invariant.                                                              *)
LEMMA ImportsGoOn == ImportsInv /\ [ImportsNext]_importVars => ImportsInv'
<1> SUFFICES ASSUME ImportsInv, [ImportsNext]_importVars PROVE ImportsInv'
  OBVIOUS
<1>1. ASSUME UNCHANGED <<job, finished, runner>> PROVE ImportsInv'
  BY <1>1 DEF ImportsInv, JobsTyped, JobOK, RunnerOK, HeldJob
<1>2. CASE UNCHANGED importVars
  BY <1>1, <1>2 DEF importVars
<1>3. ASSUME NEW c \in Clients,
             \/ FindOffer(c) \/ CommitOffer(c)
             \/ \E id \in Offers :
                   \/ \E sku \in Skus, sold \in SoldProducts, price \in Prices :
                         StartCreate(c, id, sku, sold, price)
                   \/ \E price \in Prices : StartOfferAction(c, id, "terms", price)
                   \/ \E status \in OfferStatus : StartOfferAction(c, id, "status", status)
      PROVE  ImportsInv'
  BY <1>1, <1>3 DEF FindOffer, CommitOffer, StartCreate, StartOfferAction
<1>4. CASE ChangeSeller
  BY <1>1, <1>4 DEF ChangeSeller
<1>5. ASSUME NEW j \in Jobs, GrowStale(j) PROVE ImportsInv'
  BY <1>1, <1>5 DEF GrowStale
<1>6. ASSUME NEW j \in Jobs, RequeueStale(j) PROVE ImportsInv'
  <2>1. job[j] \in JobRecord /\ job[j].status = "processing"
    BY <1>6 DEF RequeueStale, IsStale, ImportsInv, JobsTyped
  <2>2. PICK row \in JobRecord : /\ row = Requeue(job[j]) /\ row.status = "pending"
                                 /\ row.version = job[j].version /\ row.total = 0
    BY <2>1, JobMethods
  <2> QED
    BY <1>6, <2>1, <2>2, SaveJobKeeps DEF RequeueStale, JobEnded
<1>7. ASSUME NEW w \in ImportWorkers, ProceedRun(w) PROVE ImportsInv'
  BY <1>7, StartRunKeeps, RunStepKeeps, CountRowKeeps, EndRunKeeps DEF ProceedRun
<1>8. ASSUME NEW w \in ImportWorkers,
             StopRun(w) \/ LoseRun(w) \/ \E j \in Jobs : DeliverImport(w, j)
      PROVE  ImportsInv'
  BY <1>8, RunStepKeeps
<1> QED
  BY <1>2, <1>3, <1>4, <1>5, <1>6, <1>7, <1>8, ScheduleKeeps DEF ImportsNext

(* A job ends once, with one event, and a completed one has counted every  *)
(* row of its file, though the scheduled job puts it back while a slow     *)
(* worker holds it and another then runs it beside (process_import.go):    *)
(* the version a worker holds lets it save its job only if nobody has.     *)
THEOREM AlwaysFinishedOnce == ImportsSpec => []FinishedOnce
<1>1. ImportsInit => ImportsInv
  BY ImportsStart
<1>2. ImportsInv /\ [ImportsNext]_importVars => ImportsInv'
  BY ImportsGoOn
<1>3. ImportsInv => FinishedOnce
  BY DEF ImportsInv, JobOK, JobEnded, FinishedOnce
<1> QED
  BY <1>1, <1>2, <1>3, PTL DEF ImportsSpec

-----------------------------------------------------------------------------
(* Offers beside imports: a request or a row has the offer as it is, or an *)
(* older version of it.                                                    *)

IsOfferRow(o) ==
    /\ DOMAIN o = {"status", "sku", "product", "price", "version"}
    /\ o.version \in Nat

OfferOK(o) == IsOfferRow(o) /\ (o.version = 0 => o.status = "none")

OfferSeen(o, row) ==
    /\ IsOfferRow(row) /\ row.version <= offer[o].version
    /\ row.version # 0 /\ row.version = offer[o].version => row = offer[o]

ClientOK(q) ==
    /\ DOMAIN q = DOMAIN NoRequest
    /\ q.at # "idle" => q.id \in Offers /\ q.op \in {"create", "terms", "status"}
    /\ q.at = "find" => q.op # "create"
    /\ q.at = "save" =>
          /\ OfferSeen(q.id, q.row)
          /\ q.op = "create" => q.row.version = 0

(* A row is about an offer that was for sale when it was found, or new.    *)
RowOK(q) ==
    /\ DOMAIN q = DOMAIN NoRun
    /\ q.at = "upsert" =>
          /\ q.offer \in Offers /\ OfferSeen(q.offer, q.found)
          /\ q.found.status \in {"active", "paused"}

OffersInv ==
    /\ DOMAIN offer = Offers /\ \A o \in Offers : OfferOK(offer[o])
    /\ DOMAIN client = Clients /\ \A c \in Clients : ClientOK(client[c])
    /\ DOMAIN runner = ImportWorkers /\ \A w \in ImportWorkers : RowOK(runner[w])

(* What becomes of an offer that is archived.                              *)
StaysArchived ==
    \A o \in Offers : offer[o].status = "archived" => /\ offer'[o].price = offer[o].price
                                                      /\ offer'[o].status = "archived"

LEMMA OffersStart == ImportsInit => OffersInv
<1> SUFFICES ASSUME ImportsInit PROVE OffersInv
  OBVIOUS
<1>1. \A o \in Offers : OfferOK(offer[o])
  BY DEF ImportsInit, NoOffer, OfferOK, IsOfferRow
<1>2. \A c \in Clients : ClientOK(client[c])
  BY DEF ImportsInit, NoRequest, ClientOK
<1>3. \A w \in ImportWorkers : RowOK(runner[w])
  BY DEF ImportsInit, NoRun, RowOK
<1> QED
  BY <1>1, <1>2, <1>3 DEF ImportsInit, OffersInv

(* A save makes the versions that were read stale.                         *)
LEMMA OfferSaved ==
    ASSUME OffersInv, NEW id \in Offers, NEW row, IsOfferRow(row), CanSaveOffer(id, row),
           SaveOffer(id, row)
    PROVE  /\ DOMAIN offer' = Offers /\ \A o \in Offers : OfferOK(offer'[o])
           /\ \A o \in Offers : \A seen : OfferSeen(o, seen) => OfferSeen(o, seen)'
           /\ offer'[id].status = row.status /\ offer'[id].price = row.price
           /\ \A o \in Offers \ {id} : offer'[o] = offer[o]
<1> DEFINE kept == [row EXCEPT !.version = row.version + 1]
<1>1. /\ IsOfferRow(kept) /\ kept.version = row.version + 1
      /\ kept.status = row.status /\ kept.price = row.price
  BY DEF IsOfferRow
<1>2. offer' = [offer EXCEPT ![id] = kept]
  BY DEF SaveOffer
<1> HIDE DEF kept
<1>3. DOMAIN offer' = Offers /\ offer'[id] = kept /\ \A o \in Offers \ {id} : offer'[o] = offer[o]
  BY <1>2 DEF OffersInv
<1>4. row.version \in Nat /\ offer[id].version = row.version
  BY DEF CanSaveOffer, IsOfferRow
<1>5. \A o \in Offers : OfferOK(offer'[o])
  BY <1>1, <1>3, <1>4 DEF OffersInv, OfferOK
<1>6. ASSUME NEW o \in Offers, NEW seen, OfferSeen(o, seen) PROVE OfferSeen(o, seen)'
  <2>1. CASE o = id
    BY <1>1, <1>3, <1>4, <1>6, <2>1 DEF OfferSeen, IsOfferRow
  <2>2. CASE o # id
    BY <1>3, <1>6, <2>2 DEF OfferSeen
  <2> QED
    BY <2>1, <2>2
<1> QED
  BY <1>1, <1>3, <1>5, <1>6

(* Nothing but a save moves the offers.                                    *)
LEMMA OffersKeep ==
    ASSUME OffersInv,
           DOMAIN offer' = Offers, \A o \in Offers : OfferOK(offer'[o]),
           \A o \in Offers : \A seen : OfferSeen(o, seen) => OfferSeen(o, seen)',
           \/ UNCHANGED client
           \/ \E c \in Clients : \E q : client' = [client EXCEPT ![c] = q] /\ ClientOK(q)',
           \/ UNCHANGED runner
           \/ \E w \in ImportWorkers : \E q : runner' = [runner EXCEPT ![w] = q] /\ RowOK(q)'
    PROVE  OffersInv'
<1>1. ASSUME NEW q, ClientOK(q) PROVE ClientOK(q)'
  BY <1>1 DEF ClientOK
<1>2. ASSUME NEW q, RowOK(q) PROVE RowOK(q)'
  BY <1>2 DEF RowOK
<1>3. DOMAIN client' = Clients /\ \A c \in Clients : ClientOK(client[c])'
  <2>1. CASE UNCHANGED client
    BY <1>1, <2>1 DEF OffersInv
  <2>2. ASSUME NEW c \in Clients, NEW q, client' = [client EXCEPT ![c] = q], ClientOK(q)'
        PROVE  DOMAIN client' = Clients /\ \A d \in Clients : ClientOK(client[d])'
    <3>1. DOMAIN client' = Clients /\ client'[c] = q
          /\ \A d \in Clients \ {c} : client'[d] = client[d]
      BY <2>2 DEF OffersInv
    <3>2. ASSUME NEW d \in Clients PROVE ClientOK(client[d])'
      <4>1. PICK p : p = client'[d]
        OBVIOUS
      <4>2. ClientOK(p)'
        BY <1>1, <2>2, <3>1, <4>1 DEF OffersInv
      <4> QED
        BY <4>1, <4>2 DEF ClientOK, OfferSeen
    <3> QED
      BY <3>1, <3>2
  <2> QED
    BY <2>1, <2>2
<1>4. DOMAIN runner' = ImportWorkers /\ \A w \in ImportWorkers : RowOK(runner[w])'
  <2>1. CASE UNCHANGED runner
    BY <1>2, <2>1 DEF OffersInv
  <2>2. ASSUME NEW w \in ImportWorkers, NEW q, runner' = [runner EXCEPT ![w] = q], RowOK(q)'
        PROVE  DOMAIN runner' = ImportWorkers /\ \A v \in ImportWorkers : RowOK(runner[v])'
    <3>1. DOMAIN runner' = ImportWorkers /\ runner'[w] = q
          /\ \A v \in ImportWorkers \ {w} : runner'[v] = runner[v]
      BY <2>2 DEF OffersInv
    <3>2. ASSUME NEW v \in ImportWorkers PROVE RowOK(runner[v])'
      <4>1. PICK p : p = runner'[v]
        OBVIOUS
      <4>2. RowOK(p)'
        BY <1>2, <2>2, <3>1, <4>1 DEF OffersInv
      <4> QED
        BY <4>1, <4>2 DEF RowOK, OfferSeen
    <3> QED
      BY <3>1, <3>2
  <2> QED
    BY <2>1, <2>2
<1> QED
  BY <1>3, <1>4 DEF OffersInv

(* A step that leaves the offers as they are.                              *)
LEMMA OffersStill ==
    ASSUME OffersInv, UNCHANGED offer,
           \/ UNCHANGED client
           \/ \E c \in Clients : \E q : client' = [client EXCEPT ![c] = q] /\ ClientOK(q),
           \/ UNCHANGED runner
           \/ \E w \in ImportWorkers : \E q : runner' = [runner EXCEPT ![w] = q] /\ RowOK(q)
    PROVE  OffersInv' /\ StaysArchived
<1>1. \A o \in Offers : \A seen : OfferSeen(o, seen) => OfferSeen(o, seen)'
  BY DEF OfferSeen
<1>2. ASSUME NEW q, ClientOK(q) PROVE ClientOK(q)'
  BY <1>2 DEF ClientOK, OfferSeen
<1>3. ASSUME NEW q, RowOK(q) PROVE RowOK(q)'
  BY <1>3 DEF RowOK, OfferSeen
<1>4. DOMAIN offer' = Offers /\ \A o \in Offers : OfferOK(offer'[o])
  BY DEF OffersInv
<1>5. UNCHANGED client
      \/ \E c \in Clients : \E q : client' = [client EXCEPT ![c] = q] /\ ClientOK(q)'
  BY <1>2
<1>6. UNCHANGED runner
      \/ \E w \in ImportWorkers : \E q : runner' = [runner EXCEPT ![w] = q] /\ RowOK(q)'
  BY <1>3
<1>7. OffersInv'
  BY <1>1, <1>4, <1>5, <1>6, OffersKeep
<1> QED
  BY <1>7 DEF StaysArchived

LEMMA RestingOK == ClientOK(NoRequest) /\ RowOK(NoRun)
BY DEF ClientOK, RowOK, NoRequest, NoRun

(* A request that asks, and one that reads the offer again.                *)
LEMMA ClientsAsk ==
    ASSUME OffersInv, NEW c \in Clients,
           \/ FindOffer(c)
           \/ \E id \in Offers :
                 \/ \E sku \in Skus, sold \in SoldProducts, price \in Prices :
                       StartCreate(c, id, sku, sold, price)
                 \/ \E price \in Prices : StartOfferAction(c, id, "terms", price)
                 \/ \E status \in OfferStatus : StartOfferAction(c, id, "status", status)
    PROVE  OffersInv' /\ StaysArchived
<1>1. CASE FindOffer(c)
  <2>1. PICK q : q = [client[c] EXCEPT !.row = offer[client[c].id], !.at = "save"]
    OBVIOUS
  <2>2. /\ client[c].at = "find" /\ client[c].id \in Offers /\ client[c].op # "create"
        /\ client[c].op \in {"create", "terms", "status"} /\ DOMAIN client[c] = DOMAIN NoRequest
    BY <1>1 DEF FindOffer, OffersInv, ClientOK
  <2>3. /\ q.at = "save" /\ q.id = client[c].id /\ q.op = client[c].op /\ q.row = offer[q.id]
        /\ DOMAIN q = DOMAIN NoRequest
    BY <2>1, <2>2 DEF NoRequest
  <2>4. OfferSeen(q.id, q.row)
    BY <2>2, <2>3 DEF OfferSeen, OffersInv, OfferOK, IsOfferRow
  <2>5. ClientOK(q)
    BY <2>2, <2>3, <2>4 DEF ClientOK
  <2>6. client' = [client EXCEPT ![c] = q] /\ UNCHANGED <<offer, runner>>
    BY <1>1, <2>1 DEF FindOffer, OffersInv
  <2> QED
    BY <2>5, <2>6, OffersStill
<1>2. ASSUME NEW id \in Offers, NEW sku, NEW sold, NEW price,
             StartCreate(c, id, sku, sold, price)
      PROVE  OffersInv' /\ StaysArchived
  <2>1. PICK q : q = [at |-> "save", op |-> "create", id |-> id, arg |-> Null,
                      row |-> CreateOffer(sku, sold, price)]
    OBVIOUS
  <2>2. OfferSeen(q.id, q.row) /\ q.row.version = 0
    BY <2>1 DEF OfferSeen, OffersInv, OfferOK, IsOfferRow, CreateOffer
  <2>3. ClientOK(q)
    BY <2>1, <2>2 DEF ClientOK, NoRequest
  <2>4. client' = [client EXCEPT ![c] = q] /\ UNCHANGED <<offer, runner>>
    BY <1>2, <2>1 DEF StartCreate
  <2> QED
    BY <2>3, <2>4, OffersStill
<1>3. ASSUME NEW id \in Offers, NEW op \in {"terms", "status"}, NEW arg,
             StartOfferAction(c, id, op, arg)
      PROVE  OffersInv' /\ StaysArchived
  <2>1. PICK q : q = [at |-> "find", op |-> op, id |-> id, arg |-> arg, row |-> NoOffer]
    OBVIOUS
  <2>2. ClientOK(q)
    BY <2>1 DEF ClientOK, NoRequest
  <2>3. client' = [client EXCEPT ![c] = q] /\ UNCHANGED <<offer, runner>>
    BY <1>3, <2>1 DEF StartOfferAction
  <2> QED
    BY <2>2, <2>3, OffersStill
<1> QED
  BY <1>1, <1>2, <1>3

(* A save of what somebody has seen, if an archived offer is saved as it   *)
(* is, or not at all.                                                      *)
LEMMA SeenSaves ==
    ASSUME OffersInv, NEW id \in Offers, NEW row, IsOfferRow(row), CanSaveOffer(id, row),
           SaveOffer(id, row),
           offer[id].status = "archived" =>
               row.status = "archived" /\ row.price = offer[id].price,
           \/ UNCHANGED client
           \/ \E c \in Clients : client' = [client EXCEPT ![c] = NoRequest],
           \/ UNCHANGED runner
           \/ \E w \in ImportWorkers : runner' = [runner EXCEPT ![w].at = "succeeded"]
    PROVE  OffersInv' /\ StaysArchived
<1>1. /\ DOMAIN offer' = Offers /\ \A o \in Offers : OfferOK(offer'[o])
      /\ \A o \in Offers : \A seen : OfferSeen(o, seen) => OfferSeen(o, seen)'
      /\ offer'[id].status = row.status /\ offer'[id].price = row.price
      /\ \A o \in Offers \ {id} : offer'[o] = offer[o]
  BY OfferSaved
<1>2. StaysArchived
  <2> SUFFICES ASSUME NEW o \in Offers, offer[o].status = "archived"
               PROVE  offer'[o].price = offer[o].price /\ offer'[o].status = "archived"
    BY DEF StaysArchived
  <2>1. CASE o = id
    BY <1>1, <2>1
  <2>2. CASE o # id
    BY <1>1, <2>2
  <2> QED
    BY <2>1, <2>2
<1>3. UNCHANGED client
      \/ \E c \in Clients : \E q : client' = [client EXCEPT ![c] = q] /\ ClientOK(q)'
  <2>1. PICK q : q = NoRequest
    OBVIOUS
  <2>2. ClientOK(q)'
    BY <2>1 DEF ClientOK, NoRequest
  <2> QED
    BY <2>1, <2>2
<1>4. UNCHANGED runner
      \/ \E w \in ImportWorkers : \E q : runner' = [runner EXCEPT ![w] = q] /\ RowOK(q)'
  <2>1. ASSUME NEW w \in ImportWorkers, runner' = [runner EXCEPT ![w].at = "succeeded"]
        PROVE  \E q : runner' = [runner EXCEPT ![w] = q] /\ RowOK(q)'
    <3>1. PICK q : q = [runner[w] EXCEPT !.at = "succeeded"]
      OBVIOUS
    <3>2. DOMAIN runner[w] = DOMAIN NoRun
      BY DEF OffersInv, RowOK
    <3>3. DOMAIN q = DOMAIN NoRun /\ q.at = "succeeded"
      BY <3>1, <3>2 DEF NoRun
    <3>4. RowOK(q)'
      BY <3>3 DEF RowOK
    <3>5. runner' = [runner EXCEPT ![w] = q]
      BY <2>1, <3>1 DEF OffersInv
    <3> QED
      BY <3>4, <3>5
  <2> QED
    BY <2>1
<1>5. OffersInv'
  BY <1>1, <1>3, <1>4, OffersKeep
<1> QED
  BY <1>2, <1>5

(* A request changes an offer only as it has read it.                      *)
LEMMA ClientsCommit ==
    ASSUME OffersInv, NEW c \in Clients, CommitOffer(c)
    PROVE  OffersInv' /\ StaysArchived
<1>1. PICK q : q = client[c]
  OBVIOUS
<1>2. PICK row : row = ChangedOffer(q)
  OBVIOUS
<1>3. /\ q.at = "save" /\ q.id \in Offers /\ q.op \in {"create", "terms", "status"}
      /\ OfferSeen(q.id, q.row) /\ (q.op = "create" => q.row.version = 0)
  BY <1>1 DEF CommitOffer, OffersInv, ClientOK
<1>4. client' = [client EXCEPT ![c] = NoRequest] /\ UNCHANGED runner
  BY DEF CommitOffer, Reply
<1>5. CASE row # Null /\ CanSaveOffer(q.id, row)
  <2>1. SaveOffer(q.id, row)
    BY <1>1, <1>2, <1>5 DEF CommitOffer
  <2>2. PICK seen : seen = q.row /\ IsOfferRow(seen)
    BY <1>3 DEF OfferSeen
  <2>3. /\ IsOfferRow(row) /\ row.version = seen.version
        /\ q.op # "create" /\ seen.status = "archived" =>
               row.status = "archived" /\ row.price = seen.price
    <3>1. CASE q.op = "create"
      BY <1>2, <2>2, <3>1 DEF ChangedOffer
    <3>2. CASE q.op = "terms"
      BY <1>2, <1>5, <2>2, <3>2 DEF ChangedOffer, ChangeTerms, Mutable, IsOfferRow
    <3>3. CASE q.op = "status"
      BY <1>2, <1>5, <2>2, <3>3 DEF ChangedOffer, ChangeStatus, Mutable, IsOfferRow
    <3> QED
      BY <1>3, <3>1, <3>2, <3>3
  <2>4. ASSUME offer[q.id].status = "archived"
        PROVE  row.status = "archived" /\ row.price = offer[q.id].price
    <3>1. offer[q.id].version # 0
      BY <1>3, <2>4 DEF OffersInv, OfferOK
    <3>2. seen.version = offer[q.id].version
      BY <1>5, <2>3 DEF CanSaveOffer
    <3>3. seen = offer[q.id] /\ q.op # "create"
      BY <1>3, <2>2, <3>1, <3>2 DEF OfferSeen
    <3> QED
      BY <2>3, <2>4, <3>3
  <2> QED
    BY <1>3, <1>4, <1>5, <2>1, <2>3, <2>4, SeenSaves
<1>6. CASE ~(row # Null /\ CanSaveOffer(q.id, row))
  <2>1. UNCHANGED offer
    BY <1>1, <1>2, <1>6 DEF CommitOffer
  <2> QED
    BY <1>4, <2>1, RestingOK, OffersStill
<1> QED
  BY <1>5, <1>6

(* A row finds an offer that is for sale, or takes a new one.              *)
LEMMA RowsFind ==
    ASSUME OffersInv, NEW w \in ImportWorkers, FindRow(w)
    PROVE  OffersInv' /\ StaysArchived
<1>1. PICK sku, sold, price : sku = Row(w).sku /\ sold = Row(w).product /\ price = Row(w).price
  OBVIOUS
<1>2. DOMAIN runner[w] = DOMAIN NoRun
  BY DEF OffersInv, RowOK
<1>3. \E q : runner' = [runner EXCEPT ![w] = q] /\ RowOK(q)
  <2>1. ASSUME NEW o \in Offers, NEW at, NEW found,
               runner' = [runner EXCEPT ![w].at = at, ![w].offer = o, ![w].found = found],
               at = "upsert" => OfferSeen(o, found) /\ found.status \in {"active", "paused"}
        PROVE  \E q : runner' = [runner EXCEPT ![w] = q] /\ RowOK(q)
    <3>1. PICK q : q = [runner[w] EXCEPT !.at = at, !.offer = o, !.found = found]
      OBVIOUS
    <3>2. DOMAIN q = DOMAIN NoRun /\ q.at = at /\ q.offer = o /\ q.found = found
      BY <1>2, <3>1 DEF NoRun
    <3>3. RowOK(q)
      BY <2>1, <3>2 DEF RowOK
    <3>4. runner' = [runner EXCEPT ![w] = q]
      BY <2>1, <3>1 DEF OffersInv
    <3> QED
      BY <3>3, <3>4
  <2>2. ASSUME NEW o \in FindBySellerSKU(sku),
               runner' = [runner EXCEPT ![w].at = IF offer[o].product = sold
                                                THEN "upsert" ELSE "refused",
                                    ![w].offer = o, ![w].found = offer[o]]
        PROVE  \E q : runner' = [runner EXCEPT ![w] = q] /\ RowOK(q)
    <3>1. o \in Offers /\ offer[o].status \in {"active", "paused"}
      BY DEF FindBySellerSKU, ForSale
    <3>2. OfferSeen(o, offer[o])
      BY <3>1 DEF OfferSeen, OffersInv, OfferOK, IsOfferRow
    <3> QED
      BY <2>1, <2>2, <3>1, <3>2
  <2>3. ASSUME NEW o \in Offers,
               runner' = [runner EXCEPT ![w].at = "upsert", ![w].offer = o,
                                        ![w].found = CreateOffer(sku, sold, price)]
        PROVE  \E q : runner' = [runner EXCEPT ![w] = q] /\ RowOK(q)
    <3>1. OfferSeen(o, CreateOffer(sku, sold, price))
      BY DEF OfferSeen, OffersInv, OfferOK, IsOfferRow, CreateOffer
    <3>2. CreateOffer(sku, sold, price).status = "active"
      BY DEF CreateOffer
    <3> QED
      BY <2>1, <2>3, <3>1, <3>2
  <2> QED
    BY <1>1, <2>2, <2>3 DEF FindRow
<1>4. UNCHANGED <<offer, client>>
  BY DEF FindRow
<1> QED
  BY <1>3, <1>4, OffersStill

(* A row saves the offer it has found, if that is still as it was.         *)
LEMMA RowsSave ==
    ASSUME OffersInv, NEW w \in ImportWorkers, Upsert(w)
    PROVE  OffersInv' /\ StaysArchived
<1>1. PICK q : q = runner[w]
  OBVIOUS
<1>2. PICK seen : seen = q.found
  OBVIOUS
<1>3. PICK row : row = [seen EXCEPT !.price = Row(w).price, !.status = Row(w).status]
  OBVIOUS
<1>4. /\ q.offer \in Offers /\ OfferSeen(q.offer, seen) /\ IsOfferRow(seen)
      /\ seen.status \in {"active", "paused"} /\ DOMAIN q = DOMAIN NoRun
  BY <1>1, <1>2 DEF Upsert, OffersInv, RowOK, OfferSeen
<1>5. IsOfferRow(row) /\ row.version = seen.version
  BY <1>3, <1>4 DEF IsOfferRow
<1>6. CASE CanSaveOffer(q.offer, row)
  <2>1. /\ SaveOffer(q.offer, row) /\ UNCHANGED client
        /\ runner' = [runner EXCEPT ![w].at = "succeeded"]
    BY <1>1, <1>2, <1>3, <1>6 DEF Upsert, GoOn
  <2>2. offer[q.offer].status # "archived"
    <3> SUFFICES ASSUME offer[q.offer].status = "archived" PROVE FALSE
      OBVIOUS
    <3>1. offer[q.offer].version # 0
      BY <1>4 DEF OffersInv, OfferOK
    <3>2. seen.version = offer[q.offer].version
      BY <1>5, <1>6 DEF CanSaveOffer
    <3> QED
      BY <1>4, <3>1, <3>2 DEF OfferSeen
  <2> QED
    BY <1>4, <1>5, <1>6, <2>1, <2>2, SeenSaves
<1>7. CASE ~CanSaveOffer(q.offer, row)
  <2>1. PICK r : r = [runner[w] EXCEPT !.at = "refused"]
    OBVIOUS
  <2>2. RowOK(r)
    BY <1>1, <1>4, <2>1 DEF RowOK, NoRun
  <2>3. runner' = [runner EXCEPT ![w] = r] /\ UNCHANGED <<offer, client>>
    BY <1>1, <1>2, <1>3, <1>7, <2>1 DEF Upsert, GoOn, OffersInv
  <2> QED
    BY <2>2, <2>3, OffersStill
<1> QED
  BY <1>6, <1>7

(* What else a worker does leaves the offers alone.                        *)
LEMMA RowsRest ==
    ASSUME OffersInv, NEW w \in ImportWorkers,
           \/ StartRun(w) \/ Check(w) \/ Count(w) \/ End(w) \/ StopRun(w) \/ LoseRun(w)
           \/ \E j \in Jobs : DeliverImport(w, j)
    PROVE  OffersInv' /\ StaysArchived
<1>1. /\ DOMAIN runner[w] = DOMAIN NoRun /\ DOMAIN runner = ImportWorkers
      /\ RowOK(runner[w])
  BY DEF OffersInv, RowOK
<1>2. UNCHANGED <<offer, client>>
  BY DEF StartRun, Check, Count, End, StopRun, LoseRun, DeliverImport
<1>3. ASSUME runner' = [runner EXCEPT ![w] = NoRun] PROVE OffersInv' /\ StaysArchived
  BY <1>2, <1>3, RestingOK, OffersStill
<1>4. ASSUME NEW q, runner' = [runner EXCEPT ![w] = q], DOMAIN q = DOMAIN NoRun,
             q.at # "upsert"
      PROVE  OffersInv' /\ StaysArchived
  BY <1>2, <1>4, OffersStill DEF RowOK
<1>5. CASE StartRun(w)
  <2>1. PICK started : started = StartJob(job[runner[w].id])
    OBVIOUS
  <2>2. PICK q : q = [runner[w] EXCEPT !.job = [started EXCEPT !.version = @ + 1], !.at = "check"]
    OBVIOUS
  <2>3. DOMAIN q = DOMAIN NoRun /\ q.at # "upsert"
    BY <1>1, <2>2 DEF NoRun
  <2>4. CASE started = Null
    BY <1>3, <1>5, <2>1, <2>4 DEF StartRun, AcknowledgeRun, Rest
  <2>5. CASE started # Null
    <3>1. runner' = [runner EXCEPT ![w] = q]
      BY <1>1, <1>5, <2>1, <2>2, <2>5 DEF StartRun
    <3> QED
      BY <1>4, <2>3, <3>1
  <2> QED
    BY <2>4, <2>5
<1>6. ASSUME NEW at, at # "upsert", runner' = [runner EXCEPT ![w].at = at]
      PROVE  OffersInv' /\ StaysArchived
  <2>1. PICK q : q = [runner[w] EXCEPT !.at = at]
    OBVIOUS
  <2>2. DOMAIN q = DOMAIN NoRun /\ q.at # "upsert"
    BY <1>1, <1>6, <2>1 DEF NoRun
  <2>3. runner' = [runner EXCEPT ![w] = q]
    BY <1>1, <1>6, <2>1
  <2> QED
    BY <1>4, <2>2, <2>3
<1>7. CASE Check(w)
  BY <1>6, <1>7 DEF Check, GoOn
<1>8. CASE Count(w)
  <2>1. PICK counted : counted = RecordRow(runner[w].job, runner[w].at = "succeeded")
    OBVIOUS
  <2>2. PICK rested : rested = [runner[w] EXCEPT !.offer = Null, !.found = NoOffer, !.at = "row"]
    OBVIOUS
  <2>3. DOMAIN rested = DOMAIN NoRun /\ rested.at = "row"
    BY <1>1, <2>2 DEF NoRun
  <2>4. ASSUME NEW held, runner' = [runner EXCEPT ![w] = [rested EXCEPT !.job = held]]
        PROVE  OffersInv' /\ StaysArchived
    <3>1. PICK q : q = [rested EXCEPT !.job = held]
      OBVIOUS
    <3>2. DOMAIN q = DOMAIN NoRun /\ q.at = "row"
      BY <2>3, <3>1 DEF NoRun
    <3> QED
      BY <1>4, <2>4, <3>1, <3>2
  <2>5. \/ runner' = [runner EXCEPT ![w] = [rested EXCEPT !.job = counted]]
        \/ runner' = [runner EXCEPT ![w] = [rested EXCEPT !.job = [counted EXCEPT !.version = @ + 1]]]
        \/ runner' = [runner EXCEPT ![w] = NoRun]
    BY <1>8, <2>1, <2>2 DEF Count, Retry, Rest
  <2> QED
    BY <1>3, <2>4, <2>5
<1>9. CASE End(w) \/ StopRun(w)
  BY <1>3, <1>9 DEF End, StopRun, AcknowledgeRun, Retry, Rest
<1>10. CASE LoseRun(w)
  <2>1. PICK q : q = [runner[w] EXCEPT !.lost = TRUE]
    OBVIOUS
  <2>2. RowOK(q)
    BY <1>1, <2>1 DEF RowOK, NoRun
  <2>3. runner' = [runner EXCEPT ![w] = q]
    BY <1>1, <1>10, <2>1 DEF LoseRun
  <2> QED
    BY <1>2, <2>2, <2>3, OffersStill
<1>11. ASSUME NEW j, DeliverImport(w, j) PROVE OffersInv' /\ StaysArchived
  <2>1. PICK q : q = [runner[w] EXCEPT !.at = "start", !.id = j]
    OBVIOUS
  <2>2. DOMAIN q = DOMAIN NoRun /\ q.at # "upsert"
    BY <1>1, <2>1 DEF NoRun
  <2>3. runner' = [runner EXCEPT ![w] = q]
    BY <1>1, <1>11, <2>1 DEF DeliverImport
  <2> QED
    BY <1>4, <2>2, <2>3
<1> QED
  BY <1>5, <1>7, <1>8, <1>9, <1>10, <1>11

LEMMA OffersGoOn == OffersInv /\ [ImportsNext]_importVars => OffersInv' /\ StaysArchived
<1> SUFFICES ASSUME OffersInv, [ImportsNext]_importVars PROVE OffersInv' /\ StaysArchived
  OBVIOUS
<1>1. ASSUME UNCHANGED <<offer, runner, client>> PROVE OffersInv' /\ StaysArchived
  BY <1>1, OffersStill
<1>2. CASE UNCHANGED importVars
  BY <1>1, <1>2 DEF importVars
<1>3. CASE ChangeSeller
  BY <1>1, <1>3 DEF ChangeSeller
<1>4. ASSUME NEW j \in Jobs, Schedule(j) \/ GrowStale(j) \/ RequeueStale(j)
      PROVE  OffersInv' /\ StaysArchived
  BY <1>1, <1>4 DEF Schedule, GrowStale, RequeueStale
<1>5. ASSUME NEW w \in ImportWorkers, ProceedRun(w) PROVE OffersInv' /\ StaysArchived
  BY <1>5, RowsFind, RowsSave, RowsRest DEF ProceedRun
<1>6. ASSUME NEW w \in ImportWorkers,
             StopRun(w) \/ LoseRun(w) \/ \E j \in Jobs : DeliverImport(w, j)
      PROVE  OffersInv' /\ StaysArchived
  BY <1>6, RowsRest
<1> QED
  BY <1>2, <1>3, <1>4, <1>5, <1>6, ClientsAsk, ClientsCommit DEF ImportsNext

(* An archived offer stays as it is: no import that has found it before    *)
(* and no request that has read it before brings it back                   *)
(* (process_import.go: a row is saved at the version that was found).      *)
THEOREM ImportsKeepArchived == ImportsSpec => ArchivedStays
<1>1. ImportsInit => OffersInv
  BY OffersStart
<1>2. OffersInv /\ [ImportsNext]_importVars => OffersInv' /\ StaysArchived
  BY OffersGoOn
<1>3. StaysArchived => \A o \in Offers : offer[o].status = "archived" => offer'[o].price = offer[o].price
                                                       /\ offer'[o].status = "archived"
  BY DEF StaysArchived
<1>4. OffersInv /\ [ImportsNext]_importVars =>
        [\A o \in Offers : offer[o].status = "archived" => offer'[o].price = offer[o].price
                                                       /\ offer'[o].status = "archived"]_importVars
  BY <1>2, <1>3
<1> QED
  BY <1>1, <1>2, <1>4, PTL DEF ImportsSpec, ArchivedStays

-----------------------------------------------------------------------------
(* The pages of a search.                                                  *)

IsKey(k) == k[1] \in Int /\ k[2] \in Int /\ k[3] \in Int

LEMMA SortKeyIsKey ==
    ASSUME NEW sort \in Sorts, NEW p \in Matching, ranked \in [Matching -> Offering]
    PROVE  IsKey(SortKey(sort, p))
<1>1. IsOffering(ranked[p]) /\ p \in Int /\ Unpriced \in Int
    BY PagingAssumption
<1> DEFINE f == ranked[p]
<1>2. f.price \in Nat /\ f.offers \in Nat /\ f.published \in Nat /\ f.rank \in Nat
    BY <1>1 DEF IsOffering
<1>3. CASE sort = "price_asc" BY <1>1, <1>2, <1>3 DEF SortKey, IsKey
<1>4. CASE sort = "price_desc" BY <1>1, <1>2, <1>4 DEF SortKey, IsKey
<1>5. CASE sort = "new" BY <1>1, <1>2, <1>5 DEF SortKey, IsKey
<1>6. CASE sort = "popular" BY <1>1, <1>2, <1>6 DEF SortKey, IsKey
<1>7. CASE sort = "relevance" BY <1>1, <1>2, <1>7 DEF SortKey, IsKey
<1> QED BY <1>3, <1>4, <1>5, <1>6, <1>7 DEF Sorts

LEMMA CursorIsKey ==
    ASSUME NEW sort \in Sorts, NEW p \in Matching, ranked \in [Matching -> Offering]
    PROVE  EncodeCursor(sort, p) \in Int \X Int \X Int
<1>1. IsOffering(ranked[p]) /\ p \in Int
    BY PagingAssumption
<1> DEFINE f == ranked[p]
<1>2. f.price \in Nat /\ f.offers \in Nat /\ f.published \in Nat /\ f.rank \in Nat
    BY <1>1 DEF IsOffering
<1>3. CASE sort = "price_asc" BY <1>1, <1>2, <1>3 DEF EncodeCursor
<1>4. CASE sort = "price_desc" BY <1>1, <1>2, <1>4 DEF EncodeCursor
<1>5. CASE sort = "new" BY <1>1, <1>2, <1>5 DEF EncodeCursor, KeysetKey, SortKey
<1>6. CASE sort = "popular" BY <1>1, <1>2, <1>6 DEF EncodeCursor, KeysetKey
<1>7. CASE sort = "relevance" BY <1>1, <1>2, <1>7 DEF EncodeCursor, KeysetKey, SortKey
<1> QED BY <1>3, <1>4, <1>5, <1>6, <1>7 DEF Sorts

LEMMA PrecedesTransitive ==
    ASSUME NEW k, NEW l, NEW m, IsKey(k), IsKey(l), IsKey(m), Precedes(k, l), Precedes(l, m)
    PROVE  Precedes(k, m)
BY DEF IsKey, Precedes

(* Where the orders are comparable, the cursor stands for its row.         *)
LEMMA CursorTells ==
    ASSUME NEW sort \in Sorts, NEW p \in Matching, NEW q \in Matching,
           ranked \in [Matching -> Offering], Comparable(sort)
    PROVE  Precedes(EncodeCursor(sort, p), KeysetKey(sort, q))
               <=> Precedes(SortKey(sort, p), SortKey(sort, q))
<1>1. IsOffering(ranked[p]) /\ IsOffering(ranked[q])
    BY PagingAssumption
<1>2. /\ ranked[p].rank \in Nat /\ ranked[p].offers \in Nat
      /\ ranked[q].rank \in Nat /\ ranked[q].offers \in Nat
    BY <1>1 DEF IsOffering
<1>3. CASE sort \in {"price_asc", "price_desc"}
    <2>1. Priced(p) BY <1>3 DEF Comparable
    <2>2. KeysetKey(sort, q) = SortKey(sort, q) BY <1>3 DEF KeysetKey
    <2>3. EncodeCursor(sort, p) = SortKey(sort, p)
        BY <1>3, <2>1 DEF EncodeCursor, SortKey
    <2> QED BY <2>2, <2>3
<1>4. CASE sort = "popular"
    <2>1. ranked[p].rank = ranked[q].rank BY <1>4 DEF Comparable
    <2>2. /\ EncodeCursor(sort, p) = <<-ranked[p].offers, 0, -p>>
          /\ KeysetKey(sort, q) = <<-ranked[q].offers, 0, -q>>
        BY <1>4 DEF EncodeCursor, KeysetKey
    <2>3. /\ SortKey(sort, p) = <<-ranked[p].offers, -ranked[p].rank, -p>>
          /\ SortKey(sort, q) = <<-ranked[q].offers, -ranked[q].rank, -q>>
        BY <1>4 DEF SortKey
    <2> QED BY <2>1, <2>2, <2>3, <1>2 DEF Precedes
<1>5. CASE sort \in {"new", "relevance"}
    BY <1>5 DEF EncodeCursor, KeysetKey
<1> QED BY <1>3, <1>4, <1>5 DEF Sorts

(* What has been shown is in order; what is left comes after the last row  *)
(* shown, for which the cursor stands.                                     *)
LastShown == page.shown[Len(page.shown)]

InOrder(rows) ==
    \A i, j \in DOMAIN rows :
        i < j => Precedes(SortKey(page.sort, rows[i]), SortKey(page.sort, rows[j]))

After(p) == {q \in Matching : Precedes(SortKey(page.sort, p), SortKey(page.sort, q))}

PagesInv ==
    /\ PagingTypeOK
    /\ page = [sort |-> page.sort, cursor |-> page.cursor, shown |-> page.shown, more |-> page.more]
    /\ page.sort = "none" => ~page.more /\ page.shown = <<>>
    /\ page.shown = <<>> => page.cursor = NoCursor
    /\ page.sort # "none" /\ Comparable(page.sort) =>
          /\ InOrder(page.shown)
          /\ ~page.more => RowsOf(page.shown) = Matching
          /\ page.more /\ page.shown # <<>> =>
                /\ page.cursor = EncodeCursor(page.sort, LastShown)
                /\ Matching = RowsOf(page.shown) \cup After(LastShown)

LEMMA PagesInitially == PagingInit => PagesInv
BY DEF PagingInit, PagesInv, PagingTypeOK, Closed

LEMMA PagesOpen ==
    ASSUME PagesInv, NEW sort \in Sorts, OpenSearch(sort)
    PROVE  PagesInv'
<1>1. page' = [sort |-> sort, cursor |-> NoCursor, shown |-> <<>>, more |-> TRUE]
    BY DEF OpenSearch, Closed
<1>2. PagingTypeOK'
    <2>1. page'.sort \in Sorts \cup {"none"} /\ page'.more \in BOOLEAN BY <1>1
    <2>2. page'.shown \in Seq(Matching) BY <1>1
    <2>3. (ranked \in [Matching -> Offering])' BY DEF PagesInv, PagingTypeOK, OpenSearch
    <2> QED BY <2>1, <2>2, <2>3 DEF PagingTypeOK
<1>3. sort # "none" BY DEF Sorts
<1>4. InOrder(page.shown)' BY <1>1 DEF InOrder
<1> QED BY <1>1, <1>2, <1>3, <1>4 DEF PagesInv

(* The rows of a page, and what is shown with them.                        *)
LEMMA Joined ==
    ASSUME NEW S, NEW s \in Seq(S), NEW n \in Nat, NEW r \in [1..n -> S]
    PROVE  /\ r \in Seq(S) /\ Len(r) = n
           /\ s \o r \in Seq(S) /\ Len(s \o r) = Len(s) + n
           /\ RowsOf(s \o r) = RowsOf(s) \cup RowsOf(r)
           /\ \A i \in 1..Len(s) : (s \o r)[i] = s[i]
           /\ \A i \in Len(s) + 1 .. Len(s) + n : i - Len(s) \in 1..n /\ (s \o r)[i] = r[i - Len(s)]
<1>1. r \in Seq(S) /\ Len(r) = n
    OBVIOUS
<1>2. s \o r \in Seq(S) /\ Len(s \o r) = Len(s) + n
    BY <1>1
<1>3. \A i \in 1..Len(s) : (s \o r)[i] = s[i]
    BY <1>1
<1>4. \A i \in Len(s) + 1 .. Len(s) + n : i - Len(s) \in 1..n /\ (s \o r)[i] = r[i - Len(s)]
    BY <1>1
<1>5. RowsOf(s \o r) \subseteq RowsOf(s) \cup RowsOf(r)
    <2>1. SUFFICES ASSUME NEW i \in DOMAIN (s \o r)
                   PROVE  (s \o r)[i] \in RowsOf(s) \cup RowsOf(r)
        BY DEF RowsOf
    <2>2. i \in 1 .. Len(s) + n BY <1>2
    <2>3. CASE i \in 1..Len(s) BY <1>3, <2>3 DEF RowsOf
    <2>4. CASE i \in Len(s) + 1 .. Len(s) + n BY <1>1, <1>4, <2>4 DEF RowsOf
    <2> QED BY <2>2, <2>3, <2>4
<1>6. RowsOf(s) \subseteq RowsOf(s \o r)
    BY <1>2, <1>3 DEF RowsOf
<1>7. RowsOf(r) \subseteq RowsOf(s \o r)
    <2>1. SUFFICES ASSUME NEW i \in 1..n PROVE r[i] \in RowsOf(s \o r)
        BY <1>1 DEF RowsOf
    <2>2. /\ Len(s) + i \in Len(s) + 1 .. Len(s) + n
          /\ Len(s) + i - Len(s) = i
        OBVIOUS
    <2>3. (s \o r)[Len(s) + i] = r[i] BY <1>4, <2>2
    <2>4. Len(s) + i \in DOMAIN (s \o r) BY <1>2, <2>2
    <2> QED BY <2>3, <2>4 DEF RowsOf
<1> QED BY <1>1, <1>2, <1>3, <1>4, <1>5, <1>6, <1>7

(* The rows of one page follow those shown before.                         *)
LEMMA PagesTurn ==
    ASSUME PagesInv, NextPage
    PROVE  PagesInv'
<1> DEFINE hits == Hits(page.sort, page.cursor)
<1>1. PICK n \in 0..PageLimit : \E rows \in [1..n -> hits] :
          IsPage(rows, hits, page.sort) /\ Turn(hits, rows)
    BY DEF NextPage
<1>2. PICK rows \in [1..n -> hits] : IsPage(rows, hits, page.sort) /\ Turn(hits, rows)
    BY <1>1
<1>3. /\ hits \subseteq Matching /\ n \in Nat /\ n <= PageLimit /\ page.sort \in Sorts
      /\ page.shown \in Seq(Matching) /\ ranked \in [Matching -> Offering] /\ ranked' = ranked
      /\ page.more
    BY <1>1, PagingAssumption DEF PagesInv, PagingTypeOK, Hits, NextPage
<1> DEFINE s == page.shown
           left == hits \ RowsOf(rows)
<1>4. rows \in [1..n -> Matching] BY <1>3
<1>5. /\ rows \in Seq(Matching) /\ Len(rows) = n
      /\ s \o rows \in Seq(Matching) /\ Len(s \o rows) = Len(s) + n
      /\ RowsOf(s \o rows) = RowsOf(s) \cup RowsOf(rows)
      /\ \A i \in 1..Len(s) : (s \o rows)[i] = s[i]
      /\ \A i \in Len(s) + 1 .. Len(s) + n :
            i - Len(s) \in 1..n /\ (s \o rows)[i] = rows[i - Len(s)]
    BY <1>3, <1>4, Joined
<1>6. page' = [sort |-> page.sort, shown |-> s \o rows, more |-> left # {},
               cursor |-> IF left = {} THEN NoCursor ELSE EncodeCursor(page.sort, rows[n])]
    BY <1>2, <1>5 DEF Turn, PagesInv
<1>7. PagingTypeOK'
    <2>1. page'.sort \in Sorts \cup {"none"} /\ page'.more \in BOOLEAN BY <1>3, <1>6
    <2>2. page'.shown \in Seq(Matching) BY <1>5, <1>6
    <2>3. (ranked \in [Matching -> Offering])' BY <1>3
    <2> QED BY <2>1, <2>2, <2>3 DEF PagingTypeOK
<1>8. page.sort # "none" BY <1>3 DEF Sorts
<1>9. left # {} => n = PageLimit /\ n \in 1..n
    <2>1. ASSUME n < PageLimit PROVE left = {}
        BY <1>2, <1>5, <2>1 DEF IsPage
    <2> QED BY <2>1, <1>3, PagingAssumption
<1>10. s \o rows = <<>> => left = {}
    <2>1. ASSUME s \o rows = <<>> PROVE n = 0
        BY <1>3, <1>5, <2>1
    <2> QED BY <2>1, <1>9
<1>11. ASSUME Comparable(page.sort)
       PROVE  /\ InOrder(s \o rows)
              /\ left = {} => RowsOf(s \o rows) = Matching
              /\ left # {} => Matching = RowsOf(s \o rows) \cup After(rows[n])
    <2> DEFINE K(p) == SortKey(page.sort, p)
    <2>1. \A p \in Matching : IsKey(K(p)) BY <1>3, SortKeyIsKey
    <2> HIDE DEF K
    <2>2. (\A i \in DOMAIN s, q \in hits : Precedes(K(s[i]), K(q))) /\ Matching = RowsOf(s) \cup hits
        <3>1. CASE s = <<>>
            <4>1. hits = Matching BY <3>1 DEF Hits, PagesInv
            <4>2. DOMAIN s = {} BY <3>1
            <4> QED BY <4>1, <4>2 DEF RowsOf
        <3>2. CASE s # <<>>
            <4>1. Len(s) \in Nat /\ Len(s) \in 1..Len(s) /\ DOMAIN s = 1..Len(s) BY <3>2, <1>3
            <4>2. LastShown \in Matching /\ LastShown = s[Len(s)] BY <4>1, <1>3 DEF LastShown
            <4>3. /\ InOrder(s)
                  /\ page.cursor = EncodeCursor(page.sort, LastShown)
                  /\ Matching = RowsOf(s) \cup After(LastShown)
                BY <3>2, <1>3, <1>8, <1>11 DEF PagesInv
            <4>4. \A q \in Matching : Precedes(page.cursor, KeysetKey(page.sort, q))
                                          <=> Precedes(K(LastShown), K(q))
                BY <4>2, <4>3, <1>3, <1>11, CursorTells DEF K
            <4>5. hits = {q \in Matching : page.cursor = NoCursor \/ Precedes(K(LastShown), K(q))}
                BY <4>4 DEF Hits
            <4>6. EncodeCursor(page.sort, LastShown) \in Int \X Int \X Int
                BY <4>2, <1>3, CursorIsKey
            <4>7. hits = After(LastShown)
                BY <4>3, <4>5, <4>6, PagingAssumption DEF After, K
            <4>8. ASSUME NEW i \in DOMAIN s, NEW q \in hits PROVE Precedes(K(s[i]), K(q))
                <5>1. Precedes(K(LastShown), K(q)) /\ q \in Matching BY <4>7 DEF After, K
                <5>2. CASE i = Len(s) BY <5>1, <5>2, <4>2
                <5>3. CASE i # Len(s)
                    <6>1. i < Len(s) /\ s[i] \in Matching BY <5>3, <4>1, <1>3
                    <6>2. Precedes(K(s[i]), K(LastShown)) BY <6>1, <4>1, <4>2, <4>3 DEF InOrder, K
                    <6> QED BY <5>1, <6>1, <6>2, <4>2, <2>1, PrecedesTransitive
                <5> QED BY <5>2, <5>3
            <4> QED BY <4>3, <4>7, <4>8
        <3> QED BY <3>1, <3>2
    <2>3. IsPage(rows, hits, page.sort) BY <1>2
    <2>4. InOrder(s)
        BY <1>3, <1>8, <1>11 DEF PagesInv
    <2>5. ASSUME NEW i \in DOMAIN (s \o rows), NEW j \in DOMAIN (s \o rows), i < j
          PROVE  Precedes(K((s \o rows)[i]), K((s \o rows)[j]))
        <3>1. /\ DOMAIN (s \o rows) = 1 .. Len(s) + n /\ DOMAIN s = 1..Len(s) /\ DOMAIN rows = 1..n
              /\ Len(s) \in Nat
            BY <1>3, <1>5
        <3>2. CASE j <= Len(s)
            <4>1. i \in DOMAIN s /\ j \in DOMAIN s /\ (s \o rows)[i] = s[i] /\ (s \o rows)[j] = s[j]
                BY <3>1, <3>2, <2>5, <1>5
            <4> QED BY <4>1, <2>4, <2>5 DEF InOrder, K
        <3>3. CASE i <= Len(s) /\ j > Len(s)
            <4>1. i \in DOMAIN s /\ (s \o rows)[i] = s[i] BY <3>1, <3>3, <2>5, <1>5
            <4>2. (s \o rows)[j] \in hits
                BY <3>1, <3>3, <2>5, <1>5
            <4> QED BY <4>1, <4>2, <2>2
        <3>4. CASE i > Len(s)
            <4>1. /\ i - Len(s) \in DOMAIN rows /\ (s \o rows)[i] = rows[i - Len(s)]
                  /\ j - Len(s) \in DOMAIN rows /\ (s \o rows)[j] = rows[j - Len(s)]
                  /\ i - Len(s) < j - Len(s)
                BY <3>1, <3>4, <2>5, <1>5
            <4> QED BY <4>1, <2>3 DEF IsPage, K
        <3> QED BY <3>1, <3>2, <3>3, <3>4
    <2>6. InOrder(s \o rows) BY <2>5 DEF InOrder, K
    <2>7. RowsOf(rows) \subseteq hits BY <1>5 DEF RowsOf
    <2>8. ASSUME left = {} PROVE RowsOf(s \o rows) = Matching
        BY <2>2, <2>7, <2>8, <1>5
    <2>9. ASSUME left # {} PROVE Matching = RowsOf(s \o rows) \cup After(rows[n])
        <3>1. n \in DOMAIN rows BY <2>9, <1>5, <1>9
        <3>2. \A p \in left : Precedes(K(rows[n]), K(p)) BY <2>3, <3>1 DEF IsPage, K
        <3>3. left \subseteq After(rows[n]) BY <3>2, <1>3 DEF After, K
        <3>4. After(rows[n]) \subseteq Matching BY DEF After
        <3> QED BY <3>3, <3>4, <2>2, <2>7, <1>5
    <2> QED BY <2>6, <2>8, <2>9
<1>12. UNCHANGED ranked BY <1>3
<1>13. page'.sort # "none" /\ (page'.shown = <<>> => page'.cursor = NoCursor)
    BY <1>6, <1>8, <1>10
<1>14. ASSUME Comparable(page.sort)'
       PROVE  /\ InOrder(page.shown)'
              /\ ~page'.more => RowsOf(page'.shown) = Matching
              /\ page'.more /\ page'.shown # <<>> =>
                    /\ page'.cursor = EncodeCursor(page.sort, LastShown)'
                    /\ Matching = RowsOf(page'.shown) \cup After(LastShown)'
    <2>1. Comparable(page.sort) BY <1>14, <1>12, <1>6 DEF Comparable, Priced
    <2>2. page'.sort = page.sort /\ page'.shown = s \o rows /\ page'.more = (left # {}) BY <1>6
    <2>3. InOrder(page.shown)' BY <2>1, <2>2, <1>11, <1>12 DEF InOrder, SortKey, Priced
    <2>4. ~page'.more => RowsOf(page'.shown) = Matching BY <2>1, <2>2, <1>11
    <2>5. ASSUME page'.more
          PROVE  /\ page'.cursor = EncodeCursor(page.sort, LastShown)'
                 /\ Matching = RowsOf(page'.shown) \cup After(LastShown)'
        <3>1. left # {} /\ page'.cursor = EncodeCursor(page.sort, rows[n]) BY <2>2, <2>5, <1>6
        <3>2. LastShown' = rows[n]
            <4>1. /\ Len(s) + n \in Len(s) + 1 .. Len(s) + n /\ Len(s) + n - Len(s) = n
                BY <3>1, <1>3, <1>9
            <4>2. (s \o rows)[Len(s) + n] = rows[n] BY <4>1, <1>5
            <4> QED BY <4>2, <2>2, <1>5 DEF LastShown
        <3>3. EncodeCursor(page.sort, LastShown)' = EncodeCursor(page.sort, rows[n])
            BY <3>2, <2>2, <1>12 DEF EncodeCursor, KeysetKey, SortKey, Priced
        <3>4. After(LastShown)' = After(rows[n])
            BY <3>2, <2>2, <1>12 DEF After, SortKey, Priced
        <3> QED BY <3>1, <3>3, <3>4, <2>1, <2>2, <1>11
    <2> QED BY <2>3, <2>4, <2>5
<1> QED BY <1>6, <1>7, <1>13, <1>14 DEF PagesInv

LEMMA PagesGoOn == PagesInv /\ [PagingNext]_pagingVars => PagesInv'
<1> SUFFICES ASSUME PagesInv, [PagingNext]_pagingVars PROVE PagesInv'
    OBVIOUS
<1>1. CASE UNCHANGED pagingVars
    BY <1>1 DEF pagingVars, PagesInv, PagingTypeOK, Comparable, Priced, InOrder, After,
        LastShown, SortKey, KeysetKey, EncodeCursor, RowsOf
<1> QED BY <1>1, PagesOpen, PagesTurn DEF PagingNext

LEMMA PagesHold == PagingSpec => []PagesInv
BY PagesInitially, PagesGoOn, PTL DEF PagingSpec

(* The rows shown are products that match, whatever the figures.           *)
THEOREM PagingTypeCorrect == PagingSpec => []PagingTypeOK
<1>1. PagesInv => PagingTypeOK BY DEF PagesInv
<1> QED BY <1>1, PagesHold, PTL

(* A reader who turns the pages of a search (criteria.go, read_model.go)   *)
(* is shown every product once and in the order asked for, whatever the    *)
(* length of a page and the figures of the products, where the cursor      *)
(* holds what the order compares.                                          *)
THEOREM AlwaysPagesOnce == PagingSpec => []PagesOnce
<1>1. PagesInv => PagesOnce BY DEF PagesInv, PagesOnce, InOrder
<1> QED BY <1>1, PagesHold, PTL
=============================================================================
