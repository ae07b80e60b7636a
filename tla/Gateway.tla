------------------------------- MODULE Gateway -------------------------------
(***************************************************************************)
(* How the gateway tells the services behind it which store a user has:    *)
(* from the claim in the access token, and when the token carries none     *)
(* from a cache in memory that the storefront fills.  The token and the    *)
(* cache may both be older than the store.  One user, who keeps asking;    *)
(* the cache is keyed by user and nothing else is shared.                  *)
(***************************************************************************)
EXTENDS Requests

VARIABLES
    owner,          \* the user has a store
    bearer,         \* the access token in hand carries it
    cache,          \* the user's entry
    lookup,         \* lookup[r]: how far request r is
    served          \* the last request to be passed on went with the store

gatewayVars == <<owner, bearer, cache, lookup, served>>

-----------------------------------------------------------------------------

StoreEntry == {"absent", "found", "none", "old"}

Lookup ==
    {Idle} \cup [op: {"fetching"}] \cup [op: {"fetched"}, answer: {"found", "none"}]

GatewayTypeOK ==
    /\ owner \in BOOLEAN /\ bearer \in BOOLEAN /\ served \in BOOLEAN
    /\ cache \in StoreEntry
    /\ lookup \in [Request -> Lookup]
    /\ ~owner => ~bearer /\ ~served /\ cache # "found"

GatewayInit ==
    /\ owner = FALSE /\ bearer = FALSE /\ served = FALSE
    /\ cache = "absent"
    /\ lookup = [r \in Request |-> Idle]

-----------------------------------------------------------------------------

CreateStore ==
    /\ ~owner
    /\ owner' = TRUE
    /\ UNCHANGED <<bearer, cache, lookup, served>>

\* A token issued after the store was made carries it, unless that query failed: the
\* token is issued all the same.
IssueAccessToken(queried) ==
    /\ bearer' = (owner /\ queried)
    /\ UNCHANGED <<owner, cache, lookup, served>>

\* The claim is taken as it is, and the cache only asked without one.
Pass(r) ==
    /\ lookup[r] = Idle
    /\ bearer \/ cache \in {"found", "none"}
    /\ served' = (bearer \/ cache = "found")
    /\ UNCHANGED <<owner, bearer, cache, lookup>>

Miss(r) ==
    /\ lookup[r] = Idle
    /\ ~bearer /\ cache \in {"absent", "old"}
    /\ lookup' = [lookup EXCEPT ![r] = [op |-> "fetching"]]
    /\ UNCHANGED <<owner, bearer, cache, served>>

FetchFromStorefront(r) ==
    /\ lookup[r].op = "fetching"
    /\ lookup' = [lookup EXCEPT ![r] = [op |-> "fetched", answer |-> IF owner THEN "found" ELSE "none"]]
    /\ UNCHANGED <<owner, bearer, cache, served>>

\* Unreachable, late, refused or unreadable: kept as if there were no store.
FetchFails(r) ==
    /\ lookup[r].op = "fetching"
    /\ lookup' = [lookup EXCEPT ![r] = [op |-> "fetched", answer |-> "none"]]
    /\ UNCHANGED <<owner, bearer, cache, served>>

\* The later writer wins, whichever answer is the older.
KeepAnswer(r) ==
    /\ lookup[r].op = "fetched"
    /\ cache' = lookup[r].answer
    /\ served' = (lookup[r].answer = "found")
    /\ lookup' = [lookup EXCEPT ![r] = Idle]
    /\ UNCHANGED <<owner, bearer>>

\* Mutant: an entry without a store is kept until the gateway restarts.
FoundExpires == cache = "found"

MayExpire == cache \in {"found", "none"}

\* Five minutes with a store, five seconds without.
Expire ==
    /\ MayExpire
    /\ cache' = "old"
    /\ UNCHANGED <<owner, bearer, lookup, served>>

RestartGateway ==
    /\ cache # "absent" \/ \E r \in Request : lookup[r] # Idle
    /\ cache' = "absent"
    /\ lookup' = [r \in Request |-> Idle]
    /\ UNCHANGED <<owner, bearer, served>>

GatewayNext ==
    \/ CreateStore
    \/ \E queried \in BOOLEAN : IssueAccessToken(queried)
    \/ \E r \in Request : Pass(r)
    \/ \E r \in Request : Miss(r)
    \/ \E r \in Request : FetchFromStorefront(r)
    \/ \E r \in Request : FetchFails(r)
    \/ \E r \in Request : KeepAnswer(r)
    \/ Expire
    \/ RestartGateway

KeepStore(r) == lookup[r].op = "fetched" /\ lookup[r].answer = "found" /\ KeepAnswer(r)

GatewaySpec == GatewayInit /\ [][GatewayNext]_gatewayVars

-----------------------------------------------------------------------------

\* A user who has a store and keeps asking goes on being passed on with it, again and
\* again: neither an old token nor an old answer hides the store for ever (resolveStoreID).
StoreIsFound == owner ~> served

=============================================================================
