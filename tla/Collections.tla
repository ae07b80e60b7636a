----------------------------- MODULE Collections -----------------------------
(***************************************************************************)
(* A collection on a store's page and its ordered products.  A list is     *)
(* replaced in a transaction that deletes the rows it can see and inserts  *)
(* the new ones, at the level READ COMMITTED: it waits for a row another   *)
(* transaction holds, and does not see the rows that one adds meanwhile,   *)
(* those it deletes and adds again among them.  Who reads a list is not    *)
(* told of the rows that could not be read.                                *)
(***************************************************************************)
EXTENDS Requests, FiniteSetsExt, SequencesExt

CONSTANTS
    Product,
    List            \* lists a request may name, products twice among them

ASSUME CollectionsAssumption == \A list \in List : list \in Seq(Product)

VARIABLES
    products,       \* rows of the catalogue
    collection,     \* none, there or deleted
    published,      \* is_published
    position,       \* position[p]: where collection_products puts p, 0 for no row
    saving,         \* saving[r]: the list request r is replacing
    asked,          \* history: the list last saved
    mixed           \* history: it was saved by a request another one overlapped

collectionsVars == <<products, collection, published, position, saving, asked, mixed>>

-----------------------------------------------------------------------------

Rows(place) == {p \in Product : place[p] # 0}

NoRows == [p \in Product |-> 0]

\* sees: the rows the delete has found and nobody has replaced; gone: whether they are deleted;
\* put: the rows inserted; done: how many of the list have been tried.
Saving ==
    {Idle} \cup [op: {"saving"}, want: List, sees: SUBSET Product, gone: BOOLEAN,
                 put: [Product -> Nat], done: Nat, late: BOOLEAN]

CollectionsTypeOK ==
    /\ products \subseteq Product
    /\ collection \in {"none", "there", "deleted"} /\ published \in BOOLEAN /\ mixed \in BOOLEAN
    /\ position \in [Product -> Nat]
    /\ saving \in [Request -> Saving]
    /\ asked \in List \cup {<<>>}
    /\ Rows(position) \subseteq products
    /\ collection # "there" => Rows(position) = {}

CollectionsInit ==
    /\ products = Product
    /\ collection = "none" /\ published = FALSE /\ mixed = FALSE
    /\ position = NoRows /\ asked = <<>>
    /\ saving = [r \in Request |-> Idle]

-----------------------------------------------------------------------------

CreateCollection ==
    /\ collection = "none"
    /\ collection' = "there"
    /\ UNCHANGED <<products, published, position, saving, asked, mixed>>

\* Mutant: the new rows are added to the old.
SeesNothing == {}

SeesRows == Rows(position)

\* CreateCollection and UpdateCollection come here with the row they have written.
DeleteStarts(r, want) ==
    /\ collection = "there" /\ saving[r] = Idle
    /\ saving' = [saving EXCEPT ![r] =
                     [op |-> "saving", want |-> want, sees |-> SeesRows, gone |-> FALSE,
                      put |-> NoRows, done |-> 0, late |-> FALSE]]
    /\ UNCHANGED <<products, collection, published, position, asked, mixed>>

\* Rows request r has changed and not committed.
Locked(r) ==
    IF saving[r] = Idle THEN {}
    ELSE Rows(saving[r].put) \cup IF saving[r].gone THEN saving[r].sees ELSE {}

LockedByOthers(r) == UNION {Locked(q) : q \in Request \ {r}}

DeleteEnds(r) ==
    /\ saving[r] # Idle /\ ~saving[r].gone
    /\ saving[r].sees \cap LockedByOthers(r) = {}
    /\ saving' = [saving EXCEPT ![r].gone = TRUE, ![r].sees = @ \cap Rows(position)]
    /\ UNCHANGED <<products, collection, published, position, asked, mixed>>

\* A row that is there already stays as it is.
There(r, p) ==
    \/ saving[r].put[p] # 0
    \/ position[p] # 0 /\ p \notin saving[r].sees

InsertNext(r) ==
    /\ saving[r] # Idle /\ saving[r].gone /\ saving[r].done < Len(saving[r].want)
    /\ LET i == saving[r].done + 1
           p == saving[r].want[i]
       IN  /\ p \notin LockedByOthers(r)
           /\ p \in products /\ collection = "there"
           /\ saving' = [saving EXCEPT ![r].done = i,
                                       ![r].put[p] = IF There(r, p) THEN @ ELSE i]
    /\ UNCHANGED <<products, collection, published, position, asked, mixed>>

\* A delete that waited for r finds the rows r deleted gone, and those r put in their
\* place too new to be seen.
Commit(r) ==
    /\ saving[r] # Idle /\ saving[r].gone /\ saving[r].done = Len(saving[r].want)
    /\ position' = [p \in Product |->
                       IF saving[r].put[p] # 0 THEN saving[r].put[p]
                       ELSE IF p \in saving[r].sees THEN 0 ELSE position[p]]
    /\ asked' = saving[r].want /\ mixed' = saving[r].late
    /\ saving' = [q \in Request |->
                     IF q = r \/ saving[q] = Idle THEN Idle
                     ELSE [saving[q] EXCEPT !.late = TRUE, !.sees = @ \ saving[r].sees]]
    /\ UNCHANGED <<products, collection, published>>

\* A product or the collection is gone, two transactions wait for each other, or the
\* connection breaks: everything stays as it was, and the caller is told it was saved.
SaveFails(r) ==
    /\ saving[r] # Idle
    /\ saving' = [saving EXCEPT ![r] = Idle]
    /\ UNCHANGED <<products, collection, published, position, asked, mixed>>

\* Mutant: the product's row in the collection stays.
DeleteProductAlone(p) ==
    /\ p \in products /\ \A r \in Request : p \notin Locked(r)
    /\ products' = products \ {p}
    /\ UNCHANGED <<collection, published, position, saving, asked, mixed>>

\* The row goes from the collection with the product.
DeleteProduct(p) ==
    /\ p \in products /\ \A r \in Request : p \notin Locked(r)
    /\ products' = products \ {p}
    /\ position' = [position EXCEPT ![p] = 0]
    /\ UNCHANGED <<collection, published, saving, asked, mixed>>

DeleteCollection ==
    /\ collection = "there" /\ \A r \in Request : Locked(r) = {}
    /\ collection' = "deleted" /\ published' = FALSE
    /\ position' = NoRows /\ asked' = <<>>
    /\ UNCHANGED <<products, saving, mixed>>

\* It waits for no list, and touches none.
PublishCollection(publish) ==
    /\ collection = "there" /\ published # publish
    /\ published' = publish
    /\ UNCHANGED <<products, collection, position, saving, asked, mixed>>

CollectionsNext ==
    \/ CreateCollection
    \/ \E publish \in BOOLEAN : PublishCollection(publish)
    \/ \E r \in Request, want \in List : DeleteStarts(r, want)
    \/ \E r \in Request : DeleteEnds(r)
    \/ \E r \in Request : InsertNext(r)
    \/ \E r \in Request : Commit(r)
    \/ \E r \in Request : SaveFails(r)
    \/ \E p \in Product : DeleteProduct(p)
    \/ DeleteCollection

CollectionsSpec == CollectionsInit /\ [][CollectionsNext]_collectionsVars

-----------------------------------------------------------------------------

\* The rows that could be read, by their positions; what two saves put at one place may
\* come in either order.
CollectionProductIDs(read) ==
    {ids \in SetToSeqs(read) :
        \A i, j \in DOMAIN ids : i < j => position[ids[i]] <= position[ids[j]]}

\* A query that fails reads no row, one row may not scan, and a connection that breaks
\* cuts the rows off: the list is shown as it is.  lost: the rows it lacks.
ListCollections ==
    IF collection = "there"
    THEN UNION {{[published |-> published, productIDs |-> ids, lost |-> lost] :
                    ids \in CollectionProductIDs(Rows(position) \ lost)} : lost \in SUBSET Rows(position)}
    ELSE {}

\* The list names p before it names q.
Precedes(list, p, q) ==
    \E i \in DOMAIN list : list[i] = p /\ \A j \in DOMAIN list : list[j] = q => i < j

\* The products of the list that are still sold, but for those lost, each once, where it
\* is first named.
Follows(ids, list, lost) ==
    /\ ToSet(ids) = (ToSet(list) \cap products) \ lost
    /\ \A i, j \in DOMAIN ids : i < j => Precedes(list, ids[i], ids[j])

\* A collection lists the products of one request in that request's order, those deleted
\* since left out, published or not, and nothing else - unless two requests saved it at
\* once.  The list is complete unless reading it failed: collectionProductIDs drops that
\* error, and shows what it has.
OneListAtATime ==
    \A shown \in ListCollections : ~mixed => Follows(shown.productIDs, asked, shown.lost)

=============================================================================
