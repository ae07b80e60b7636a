------------------------------- MODULE MCShop --------------------------------
(***************************************************************************)
(* Shop for TLC.  Two requests at a time in every part.                    *)
(***************************************************************************)
EXTENDS Shop

MCLimit ==
    [free |-> [product |-> 2, member |-> 1],
     pro |-> [product |-> Unlimited, member |-> 2]]

MCPlan == DOMAIN MCLimit

MCProduct == {"p1", "p2"}

MCList == {<<"p1", "p2">>, <<"p2">>, <<"p2", "p2", "p1">>}

Asks(market, area, categories, located) ==
    [market |-> market, area |-> area, categories |-> categories, located |-> located]

\* A market and a kind of thing; an area; a kind of thing near the shopper.
MCQuery == {Asks(TRUE, FALSE, TRUE, FALSE), Asks(FALSE, TRUE, FALSE, FALSE), Asks(FALSE, FALSE, TRUE, TRUE)}

\* A store the query spells out, one it names by the first word, one without coordinates.
MCTraits ==
    {[named |-> "full", letters |-> 8, market |-> FALSE, area |-> FALSE, category |-> FALSE, distance |-> 3, text |-> TRUE],
     [named |-> "word", letters |-> 5, market |-> TRUE, area |-> TRUE, category |-> TRUE, distance |-> 1, text |-> FALSE],
     [named |-> "no", letters |-> 9, market |-> TRUE, area |-> TRUE, category |-> TRUE, distance |-> Unknown, text |-> TRUE]}

Pair(first, second) == [p \in {"x", "y"} |-> IF p = "x" THEN first ELSE second]

\* Nothing, for the other parts; two of one service, two services of which one reads a table of the other, the tool twice,
\* and those that keep no schema.
MCDeployments ==
    {Nothing, Pair("orders", "orders"), Pair("orders", "storefront"), Pair("migrate", "migrate"),
     Pair("catalogue", "auth"), Pair("identity", "gateway")}

MCFilesOf ==
    [s \in Program |->
        CASE s = "orders" -> <<"gateways", "fees">>
          [] s = "storefront" -> <<"stores", "pickup">>
          [] s = "catalogue" -> <<"products">>
          [] s = "migrate" -> <<"users">>
          [] OTHER -> <<>>]

MCFile == UNION {{MCFilesOf[s][i] : i \in DOMAIN MCFilesOf[s]} : s \in Program}

MCNeededBy == [f \in MCFile |-> IF f = "gateways" THEN {"stores"} ELSE {}]

MCRepeatable == MCFile \ {"fees", "pickup"}

MCEarlier == {{}, {"stores"}}

=============================================================================
