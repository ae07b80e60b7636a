------------------------------ MODULE Listings -------------------------------
(***************************************************************************)
(* Lists read a page at a time.  Every list of the platform is cut by      *)
(* LIMIT and OFFSET from an order that changes while a reader goes through *)
(* it; most tell the total, by a statement of its own before, beside or    *)
(* after the one that reads the page.  The reader asks page after page     *)
(* until what it was told says that there is no more.                      *)
(***************************************************************************)
EXTENDS Integers, FiniteSetsExt, SequencesExt

CONSTANTS
    MaxPer,         \* the largest page that may be asked for
    DefaultPer,     \* the page of those who ask for none
    FirstEntries,   \* bound: rows there at first
    MaxEntries,     \* bound: rows ever
    MaxChange       \* bound: departures and moves

ASSUME ListingsAssumption ==
    /\ DefaultPer \in 1..MaxPer /\ MaxPer \in Nat
    /\ FirstEntries \in 0..MaxEntries /\ MaxEntries \in Nat /\ MaxChange \in Nat

VARIABLES
    list,           \* the list being read
    per,            \* rows to a page
    entries,        \* its rows, in the order of the list
    twin,           \* rows whose owner has another row, told apart by an e-mail's case
    page,           \* the page asked for
    stage,          \* what of that page the reader has: nothing, the count, the rows
    told,           \* the total it was told with the page
    got,            \* the rows on the page
    more,           \* the row past the page was there
    shown,          \* rows the reader has been shown
    atStart,        \* history: the rows when the reading began
    disturbed,      \* history: departures and moves since
    late,           \* history: rows that came between the count and the page
    uncounted       \* history: a count failed and nobody looked

listingsVars == <<list, per, entries, twin, page, stage, told, got, more, shown,
                  atStart, disturbed, late, uncounted>>

-----------------------------------------------------------------------------

\* What each handler's query lets happen to the rows between two pages, and how it says
\* that there is no more.  A row may come at any place of any of them: the stamps they are
\* ordered by are taken before the commit, or long before the row is first shown.

\* Orders, once paid, stay; asked by a status, they come and go.
ListOrders == {"counted before"}
ListOrdersByStatus == {"counted before", "leave"}
\* An abandoned order that is paid late leaves.
ListAbandonedCarts == {"leave"}
\* A customer who buys again moves up.  The count's error is dropped, and the count is of
\* customers where the rows are customers and spellings of their e-mail.
ListCustomers == {"counted before", "move", "count unchecked", "twins"}
ListSubscribers == {"counted before", "leave", "count unchecked"}
\* The handler first expires what is due, which moves it, or takes it off its tab.
ListStoreOffers == {"counted before", "leave", "move"}
ListProducts == {"counted before", "leave"}
\* Ranked by what the rows say; without stores to look in there is no page at all.
SearchProducts == {"counted before", "leave", "move", "scoped"}
searchProducts == {"extra row", "leave", "move"}
searchVendors == {"extra row", "leave", "move"}
listBatches == {"counted after", "twins", "clamped"}
listDisputes == {"counted after", "leave", "clamped"}
directoryCustomers == {"counted beside", "clamped"}
directoryVendors == {"counted beside", "clamped"}
listErrors == {"counted beside", "leave", "clamped"}
\* Paystack's list of successful charges tells its number of pages with each page.
fetchSuccessful == {"paged"}

Lists ==
    {ListOrders, ListOrdersByStatus, ListAbandonedCarts, ListCustomers, ListSubscribers,
     ListStoreOffers, ListProducts, SearchProducts, searchProducts, searchVendors, listBatches,
     listDisputes, directoryCustomers, directoryVendors, listErrors, fetchSuccessful}

\* The services replace a size they do not like, admin-api takes the nearest.
GoPer(asked) == IF asked \in 1..MaxPer THEN asked ELSE DefaultPer

clampPaging(asked) == Min({MaxPer, Max({1, asked})})

PerPage(asked) == IF "clamped" \in list THEN clampPaging(asked) ELSE GoPer(asked)

\* Mutant: pages counted from nought.
OffsetFromPage(p) == p * per

Offset(p) == (Max({1, p}) - 1) * per

PageOf(p) == SubSeq(entries, Offset(p) + 1, Min({Len(entries), Offset(p) + per}))

Total == Len(entries) - Cardinality(twin \cap ToSet(entries))

Counts == \E when \in {"counted before", "counted beside", "counted after"} : when \in list

\* The reader goes on while it was not told that this is all.
IsLast(count, rowsGot, extra) ==
    CASE Counts -> Max({1, page}) * per >= count
      [] "extra row" \in list -> ~extra
      [] "paged" \in list -> Max({1, page}) * per >= Len(entries) \/ rowsGot = <<>>
      [] OTHER -> Len(rowsGot) < per

-----------------------------------------------------------------------------

ListingsTypeOK ==
    /\ list \in Lists /\ per \in 1..MaxPer
    /\ entries \in Seq(1..MaxEntries) /\ IsInjective(entries)
    /\ twin \subseteq 1..MaxEntries /\ shown \subseteq 1..MaxEntries /\ atStart \subseteq 1..MaxEntries
    /\ page \in Nat
    /\ stage \in {"asks", "counted", "read", "over"}
    /\ told \in 0..MaxEntries /\ got \in Seq(1..MaxEntries)
    /\ disturbed \in 0..MaxChange /\ late \in Nat
    /\ more \in BOOLEAN /\ uncounted \in BOOLEAN

\* Rows are numbered as they first appear.
Known == atStart \cup twin \cup shown \cup ToSet(entries)

ListingsInit ==
    /\ list \in Lists
    /\ \E asked \in 0..(MaxPer + 1) : per = PerPage(asked)
    /\ entries = [i \in 1..FirstEntries |-> i]
    /\ atStart = 1..FirstEntries
    /\ twin = {} /\ shown = {} /\ got = <<>>
    /\ page \in {0, 1}
    /\ stage = "asks"
    /\ told = 0 /\ disturbed = 0 /\ late = 0
    /\ more = FALSE /\ uncounted = FALSE

-----------------------------------------------------------------------------

\* A row comes in.
RowComes(i, at, isTwin) ==
    /\ stage # "over"
    /\ i \in 1..MaxEntries \ Known /\ \A j \in 1..MaxEntries \ Known : i <= j
    /\ isTwin => "twins" \in list
    /\ entries' = InsertAt(entries, at, i)
    /\ twin' = IF isTwin THEN twin \cup {i} ELSE twin
    /\ late' = IF stage = "counted" THEN late + 1 ELSE late
    /\ UNCHANGED <<list, per, page, stage, told, got, more, shown, atStart, disturbed, uncounted>>

RowLeaves(at) ==
    /\ stage # "over" /\ "leave" \in list /\ disturbed < MaxChange
    /\ entries' = RemoveAt(entries, at)
    /\ disturbed' = disturbed + 1
    /\ UNCHANGED <<list, per, twin, page, stage, told, got, more, shown, atStart, late, uncounted>>

RowMoves(from, at) ==
    /\ stage # "over" /\ "move" \in list /\ disturbed < MaxChange
    /\ from # at
    /\ entries' = InsertAt(RemoveAt(entries, from), at, entries[from])
    /\ disturbed' = disturbed + 1
    /\ UNCHANGED <<list, per, twin, page, stage, told, got, more, shown, atStart, late, uncounted>>

-----------------------------------------------------------------------------

\* Both halves of the page are in: the reader turns it, or has come to the end.
Turn(count, rowsGot, extra) ==
    /\ shown' = shown \cup ToSet(rowsGot)
    /\ IF IsLast(count, rowsGot, extra)
       THEN stage' = "over" /\ page' = page /\ late' = late
       ELSE stage' = "asks" /\ page' = Max({1, page}) + 1 /\ late' = 0
    /\ told' = 0 /\ got' = <<>> /\ more' = FALSE
    /\ UNCHANGED <<list, per, entries, twin, atStart, disturbed>>

CountEntries(count) ==
    \/ /\ stage = "asks" /\ list \cap {"counted before", "counted beside"} # {}
       /\ stage' = "counted" /\ told' = count
       /\ UNCHANGED <<list, per, entries, twin, page, got, more, shown, atStart, disturbed, late>>
    \/ /\ stage = "read" /\ list \cap {"counted beside", "counted after"} # {}
       /\ Turn(count, got, more)

\* The statement that counts.
CountMatches == CountEntries(Total) /\ UNCHANGED uncounted

\* It fails, nobody looks, and the answer says that there are none.
CountFails ==
    /\ "count unchecked" \in list
    /\ CountEntries(0)
    /\ uncounted' = TRUE

\* The statement that reads the page.  One row more than a page is read where that row is
\* the answer to whether there is more, and is not shown.
ReadPage ==
    LET extra == Len(entries) > Offset(page) + per
    IN  /\ \/ /\ stage = "counted"
              /\ Turn(told, PageOf(page), extra)
           \/ /\ stage = "asks" /\ ~Counts
              /\ Turn(told, PageOf(page), extra)
           \/ /\ stage = "asks" /\ list \cap {"counted beside", "counted after"} # {}
              /\ stage' = "read" /\ got' = PageOf(page) /\ more' = extra
              /\ UNCHANGED <<list, per, entries, twin, page, told, shown, atStart, disturbed, late>>
        /\ UNCHANGED uncounted

\* A search among no stores answers an empty page before it asks the database.
NothingInScope ==
    /\ stage = "asks" /\ "scoped" \in list /\ page <= 1
    /\ stage' = "over" /\ atStart' = {}
    /\ UNCHANGED <<list, per, entries, twin, page, told, got, more, shown, disturbed, late, uncounted>>

-----------------------------------------------------------------------------

ListingsNext ==
    \/ \E i \in 1..MaxEntries, at \in 1..(Len(entries) + 1), isTwin \in BOOLEAN : RowComes(i, at, isTwin)
    \/ \E at \in DOMAIN entries : RowLeaves(at)
    \/ \E from, at \in DOMAIN entries : RowMoves(from, at)
    \/ CountMatches
    \/ CountFails
    \/ ReadPage
    \/ NothingInScope

NotShown == (atStart \cap ToSet(entries)) \ shown

\* A reader who has come to the end has been shown every row that was there from the
\* beginning and still is, but for one per departure or move meanwhile, one per row that
\* came between the last count and the last page, and one per spelling the count does not
\* know of - and unless a count failed and nobody looked.  ListOrders and the other lists
\* cut by OFFSET.
ListsMissLittle ==
    stage = "over" /\ ~uncounted
        => Cardinality(NotShown) <= disturbed + late + Cardinality(twin)

=============================================================================
