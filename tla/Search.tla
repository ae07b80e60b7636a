-------------------------------- MODULE Search -------------------------------
(***************************************************************************)
(* A shopper's search for stores, page by page.  One query is followed:    *)
(* each store is known by what it has to do with that query.  Every page   *)
(* is a request of its own, which works out afresh what place the query    *)
(* names, from the stores and markets there are by then.                   *)
(***************************************************************************)
EXTENDS Integers, FiniteSetsExt, SequencesExt

CONSTANTS
    Shop,
    Query,          \* what the query has: a market, an area, categories, a location
    Traits,         \* what a store may have to do with it
    Limits,         \* page lengths asked for
    MaxLimit,       \* 50 in the code
    DefaultLimit    \* 20 in the code

VARIABLES
    query,
    traits,         \* traits[s]: the columns of store s, as far as the query goes
    opened,         \* active stores, newest first
    walk,           \* the pages so far
    slipped         \* history: stores a named cause may have kept off every page

searchVars == <<query, traits, opened, walk, slipped>>

-----------------------------------------------------------------------------

\* A name or its first word counts from four letters on.
ShortName == 4

ASSUME SearchAssumption ==
    /\ Query \subseteq [market: BOOLEAN, area: BOOLEAN, categories: BOOLEAN, located: BOOLEAN]
    /\ Traits \subseteq [named: {"full", "word", "no"}, letters: Nat, market: BOOLEAN, area: BOOLEAN,
                         category: BOOLEAN, distance: Nat, text: BOOLEAN]
    /\ Limits \subseteq Int
    /\ MaxLimit \in Nat /\ DefaultLimit \in 1..MaxLimit

Blank == [named |-> "no", letters |-> 0, market |-> FALSE, area |-> FALSE,
          category |-> FALSE, distance |-> 0, text |-> FALSE]

NoPlace == [market |-> FALSE, area |-> FALSE, categories |-> FALSE, located |-> FALSE]

NoWalk == [op |-> "none", limit |-> 0, offset |-> 0, seen |-> {}]

SearchTypeOK ==
    /\ query \in Query \cup {NoPlace}
    /\ traits \in [Shop -> Traits \cup {Blank}]
    /\ opened \in Seq(Shop) /\ IsInjective(opened)
    /\ walk \in [op: {"none", "more", "over"}, limit: Limits, offset: Nat, seen: SUBSET Shop]
       \/ walk = NoWalk
    /\ slipped \subseteq Shop

SearchInit ==
    /\ query = NoPlace
    /\ traits = [s \in Shop |-> Blank]
    /\ opened = <<>>
    /\ walk = NoWalk
    /\ slipped = {}

-----------------------------------------------------------------------------

Least(a, b) == IF a < b THEN a ELSE b

Active == Range(opened)

\* The longest of the names spelled out, or else of the first words; which of two of one
\* length is up to the table.
Called(by) == {s \in Active : traits[s].named = by /\ traits[s].letters >= ShortName}

Longest(S) == {s \in S : \A t \in S : traits[t].letters <= traits[s].letters}

MatchVendor == IF Called("full") # {} THEN Longest(Called("full")) ELSE Longest(Called("word"))

\* From the most to the least specific.
MatchType(vendor) ==
    CASE vendor # {} -> "vendor"
      [] vendor = {} /\ query.market -> "market"
      [] vendor = {} /\ ~query.market /\ query.area -> "city"
      [] vendor = {} /\ ~query.market /\ ~query.area /\ query.located -> "distance"
      [] OTHER -> "none"

\* A store without coordinates is within every radius, and last.
Radius == 2
Unknown == 9

InPlace(s, type, vendor) ==
    CASE type = "vendor" -> s \in vendor
      [] type = "market" -> traits[s].market
      [] type = "city" -> traits[s].area
      [] type = "distance" -> traits[s].distance <= Radius \/ traits[s].distance = Unknown
      [] OTHER -> TRUE

\* The categories the query names, or its text where it names no place either.
InSubject(s, type) ==
    IF query.categories THEN traits[s].category
    ELSE type \in {"distance", "none"} => traits[s].text

Hits(vendor) ==
    {s \in Active : InPlace(s, MatchType(vendor), vendor) /\ InSubject(s, MatchType(vendor))}

Newer(s, t) == \E i, j \in DOMAIN opened : i < j /\ opened[i] = s /\ opened[j] = t

\* The nearest first, where the query has no place but the shopper's own: stores at one
\* distance, and all those of unknown distance, come in whatever order.  Otherwise the newest.
Answers(vendor) ==
    {order \in SetToSeqs(Hits(vendor)) :
        \A i, j \in DOMAIN order : i < j =>
            IF MatchType(vendor) = "distance"
            THEN traits[order[i]].distance <= traits[order[j]].distance
            ELSE Newer(order[i], order[j])}

\* History: stores no nearer than another, whose order the next page need not repeat.
Tied(vendor) ==
    IF MatchType(vendor) # "distance" THEN {}
    ELSE {s \in Hits(vendor) : \E t \in Hits(vendor) \ {s} : traits[s].distance = traits[t].distance}

OneOf(S) == IF S = {} THEN {{}} ELSE {{s} : s \in S}

ClampedLimit(limit) == IF limit <= 0 \/ limit > MaxLimit THEN DefaultLimit ELSE limit

\* Mutant: a page that is full is the last one.
ReadOnlyThePage(limit) == limit

\* One row more than the page tells whether there is another.
RowsRead(limit) == limit + 1

\* SearchStores: the first page, or the next after what came so far.
SearchStores(limit) ==
    /\ walk.op = "none" \/ (walk.op = "more" /\ limit = walk.limit)
    /\ \E vendor \in OneOf(MatchVendor) :
         \E hits \in Answers(vendor) :
           LET size == ClampedLimit(limit)
               rows == SubSeq(hits, walk.offset + 1, Least(Len(hits), walk.offset + RowsRead(size)))
               page == SubSeq(rows, 1, Least(Len(rows), size))
           IN  /\ walk' = [op |-> IF Len(rows) > size THEN "more" ELSE "over", limit |-> limit,
                           offset |-> walk.offset + Len(page), seen |-> walk.seen \cup Range(page)]
               /\ slipped' = slipped \cup Tied(vendor)
    /\ UNCHANGED <<query, traits, opened>>

\* The next search is a new walk.
SearchFor(q) ==
    /\ walk # NoWalk \/ q # query
    /\ query' = q
    /\ walk' = NoWalk /\ slipped' = {}
    /\ UNCHANGED <<traits, opened>>

-----------------------------------------------------------------------------
(* Meanwhile stores open, change and close.  What thereby comes to stand before the offset *)
(* will be on no page. *)

Places == UNION {Answers(vendor) : vendor \in OneOf(MatchVendor)}

GoneBy(hits) == Range(SubSeq(hits, 1, Least(Len(hits), walk.offset)))

MaybeAhead == UNION {GoneBy(hits) : hits \in Places}
SurelyAhead == {s \in MaybeAhead : \A hits \in Places : s \in GoneBy(hits)}

Slip == slipped' = slipped \cup ((MaybeAhead' \ SurelyAhead) \ walk.seen)

OpenStore(s, t) ==
    /\ s \notin Active /\ walk.op # "over"
    /\ opened' = <<s>> \o opened
    /\ traits' = [traits EXCEPT ![s] = t]
    /\ UNCHANGED <<query, walk>> /\ Slip

UpdateStore(s, t) ==
    /\ s \in Active /\ walk.op = "more" /\ t # traits[s]
    /\ traits' = [traits EXCEPT ![s] = t]
    /\ UNCHANGED <<query, opened, walk>> /\ Slip

\* By hand: no handler clears is_active.
DeactivateStore(s) ==
    /\ s \in Active /\ walk.op = "more"
    /\ \E at \in DOMAIN opened : opened[at] = s /\ opened' = RemoveAt(opened, at)
    /\ traits' = [traits EXCEPT ![s] = Blank]
    /\ UNCHANGED <<query, walk>> /\ Slip

SearchNext ==
    \/ \E limit \in Limits : SearchStores(limit)
    \/ \E q \in Query : SearchFor(q)
    \/ \E s \in Shop, t \in Traits : OpenStore(s, t)
    \/ \E s \in Shop, t \in Traits : UpdateStore(s, t)
    \/ \E s \in Shop : DeactivateStore(s)

SearchSpec == SearchInit /\ [][SearchNext]_searchVars

-----------------------------------------------------------------------------

\* When the last page says there are no more, every store that answers the query by then
\* has been shown, but those that a store opened, changed or closed between two pages put
\* where the shopper had already been, and, in a search by distance, stores as far away as
\* another: no page knows how the one before it ordered those.
PagesMissNothing ==
    walk.op = "over" => \E vendor \in OneOf(MatchVendor) : Hits(vendor) \subseteq walk.seen \cup slipped

=============================================================================
