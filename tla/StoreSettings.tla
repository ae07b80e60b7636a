---------------------------- MODULE StoreSettings ----------------------------
(***************************************************************************)
(* What a vendor sets for the checkout of the store: the ways an order     *)
(* gets to the buyer, each with its price, and the gateways a buyer may    *)
(* pay through.  The vendor's edits, the dashboard's seeding reads and the *)
(* orders being placed interleave, each in several statements.             *)
(***************************************************************************)
EXTENDS Requests, FiniteSetsExt, SequencesExt

CONSTANTS
    Option,         \* rows store_delivery_options may come to hold
    Price,          \* prices a vendor asks, in kobo
    MaxPosition,    \* bound: positions
    KnownGateways,
    Paystack        \* the one that is on until the vendor says otherwise

ASSUME StoreSettingsAssumption ==
    /\ Price \subseteq Nat /\ MaxPosition \in Nat
    /\ Paystack \in KnownGateways

VARIABLES
    options,        \* store_delivery_options
    born,           \* its rows in the order they were inserted
    follows,        \* history: follows[o]: rows there when the adding of o began, none since moved
    adding,         \* adding[r]: the option request r is about to insert
    quote,          \* quote[r]: the fee request r has looked up for an order
    gateways,       \* gateways[g]: the row of store_payment_methods
    seeding,        \* seeding[r]: gateways request r has still to seed
    choice          \* history: choice[g]: what the vendor last set

deliveryVars == <<options, born, follows, adding, quote>>
paymentVars == <<gateways, seeding, choice>>
settingsVars == <<deliveryVars, paymentVars>>

-----------------------------------------------------------------------------

Row == [price: Price \cup {0}, pickup: BOOLEAN, active: BOOLEAN, position: 0..MaxPosition]

NoRow == [price |-> 0, pickup |-> FALSE, active |-> FALSE, position |-> 0, gone |-> TRUE]

OptionRows == {o \in Option : options[o] # NoRow}

Adding == {Idle} \cup [op: {"adding"}, position: 0..MaxPosition, after: SUBSET Option]

\* digital: the whole order is digital and bears no fee; offered: what the option has asked, while
\* active, since the request came; fee and pickup: as priced, and then on the order.
OfferTerms == [price: Price \cup {0}, pickup: BOOLEAN]

Quote == {Idle} \cup [op: {"placing"}, option: Option, digital: BOOLEAN, offered: SUBSET OfferTerms]
                \cup [op: {"priced", "placed"}, option: Option, digital: BOOLEAN, fee: Price \cup {0},
                      pickup: BOOLEAN, offered: SUBSET OfferTerms]

StoreSettingsTypeOK ==
    /\ options \in [Option -> Row \cup {NoRow}]
    /\ born \in Seq(Option) /\ ToSet(born) = OptionRows /\ IsInjective(born)
    /\ follows \in [Option -> SUBSET Option]
    /\ adding \in [Request -> Adding]
    /\ quote \in [Request -> Quote]
    /\ gateways \in [KnownGateways -> {"none", "on", "off"}]
    /\ seeding \in [Request -> SUBSET KnownGateways]
    /\ choice \in [KnownGateways -> {"none", "on", "off"}]

StoreSettingsInit ==
    /\ options = [o \in Option |-> NoRow] /\ born = <<>>
    /\ follows = [o \in Option |-> {}]
    /\ adding = [r \in Request |-> Idle]
    /\ quote = [r \in Request |-> Idle]
    /\ gateways = [g \in KnownGateways |-> "none"]
    /\ seeding = [r \in Request |-> {}]
    /\ choice = [g \in KnownGateways |-> "none"]

-----------------------------------------------------------------------------
(* Delivery options. *)

\* The rows as the dashboard and the checkout list them: by position, then by age.
ListedBefore(a, b) ==
    \/ options[a].position < options[b].position
    \/ /\ options[a].position = options[b].position
       /\ \E i, j \in DOMAIN born : i < j /\ born[i] = a /\ born[j] = b

\* What a row offers a buyer.
OfferOf(row) ==
    IF row # NoRow /\ row.active THEN {[price |-> row.price, pickup |-> row.pickup]} ELSE {}

\* An order on its way sees what the option asks from now on as well.
SeesOffer == quote' = [r \in Request |->
    IF quote[r] = Idle THEN Idle
    ELSE [quote[r] EXCEPT !.offered = @ \cup OfferOf(options'[quote[r].option])]]

\* Mutant: the next position is the number of rows.
CountedPosition == Cardinality(OptionRows)

NextPosition == IF OptionRows = {} THEN 0 ELSE Max({options[o].position : o \in OptionRows}) + 1

\* CreateDeliveryOption without a position of its own reads the largest.  An error of the
\* read is dropped, and the option goes to the front.
ReadPosition(r, failed) ==
    /\ adding[r] = Idle /\ NextPosition <= MaxPosition
    /\ adding' = [adding EXCEPT ![r] =
           IF failed THEN [op |-> "adding", position |-> 0, after |-> {}]
           ELSE [op |-> "adding", position |-> NextPosition, after |-> OptionRows]]
    /\ UNCHANGED <<options, born, follows, quote>>

NamePosition(r, p) ==
    /\ adding[r] = Idle
    /\ adding' = [adding EXCEPT ![r] = [op |-> "adding", position |-> p, after |-> {}]]
    /\ UNCHANGED <<options, born, follows, quote>>

\* Collection is free, whatever price is sent along; a store has one such option at most.
\* An option whose position is named, or was not read, follows nothing.
CreateDeliveryOption(r, o, price, pickup) ==
    /\ adding[r] # Idle /\ options[o] = NoRow
    /\ pickup => \A q \in OptionRows : ~options[q].pickup
    /\ options' = [options EXCEPT ![o] =
           [price |-> IF pickup THEN 0 ELSE price, pickup |-> pickup, active |-> TRUE,
            position |-> adding[r].position]]
    /\ born' = Append(born, o)
    /\ follows' = [follows EXCEPT ![o] = adding[r].after]
    /\ adding' = [adding EXCEPT ![r] = Idle]
    /\ SeesOffer

\* A second pickup option breaks the unique index.
CreateFails(r) ==
    /\ adding[r] # Idle
    /\ adding' = [adding EXCEPT ![r] = Idle]
    /\ UNCHANGED <<options, born, follows, quote>>

\* Nothing is promised any longer about where o stands.
Forget(o) ==
    /\ follows' = [q \in Option |-> IF q = o THEN {} ELSE follows[q] \ {o}]
    /\ adding' = [r \in Request |->
           IF adding[r] = Idle THEN Idle ELSE [adding[r] EXCEPT !.after = @ \ {o}]]

\* A patch of one field; the others keep their value.
UpdateDeliveryOption(o, row) ==
    /\ o \in OptionRows /\ row # options[o]
    /\ row.pickup = options[o].pickup
    /\ row.pickup => row.price = 0
    /\ options' = [options EXCEPT ![o] = row]
    /\ IF row.position # options[o].position THEN Forget(o) ELSE UNCHANGED <<follows, adding>>
    /\ SeesOffer
    /\ UNCHANGED born

PriceOption(o, price) == UpdateDeliveryOption(o, [options[o] EXCEPT !.price = price])
SwitchOption(o) == UpdateDeliveryOption(o, [options[o] EXCEPT !.active = ~@])
MoveOption(o, p) == UpdateDeliveryOption(o, [options[o] EXCEPT !.position = p])

DeleteDeliveryOption(o) ==
    /\ o \in OptionRows
    /\ options' = [options EXCEPT ![o] = NoRow]
    /\ \E at \in DOMAIN born : born[at] = o /\ born' = RemoveAt(born, at)
    /\ Forget(o)
    /\ SeesOffer

-----------------------------------------------------------------------------
(* The fee of an order. *)

\* Item by item; one whose product cannot be read counts as physical.
allItemsDigital(items) == items # {} /\ items \subseteq {"digital"}

\* What is all digital bears no fee, but not in a basket of several stores, where the one
\* delivery is charged whatever is in it.
Waived(items, basket) == ~basket /\ allItemsDigital(items)

\* An order that names no option is refused, a digital one too.  A basket may name any
\* option of any of its stores.
AskForOrder(r, o, items, basket) ==
    /\ quote[r] = Idle
    /\ quote' = [quote EXCEPT ![r] =
           [op |-> "placing", option |-> o, digital |-> Waived(items, basket), offered |-> OfferOf(options[o])]]
    /\ UNCHANGED <<options, born, follows, adding>>

Sells(o) == options[o] # NoRow /\ options[o].active

computeDeliveryFeeKobo(r) ==
    /\ quote[r].op = "placing" /\ Sells(quote[r].option)
    /\ LET q == quote[r]
           row == options[q.option]
       IN  quote' = [quote EXCEPT ![r] =
               [op |-> "priced", option |-> q.option, digital |-> q.digital,
                fee |-> IF q.digital THEN 0 ELSE row.price,
                pickup |-> ~q.digital /\ row.pickup, offered |-> q.offered]]
    /\ UNCHANGED <<options, born, follows, adding>>

\* The fee and the pickup are copied onto the order; the table refuses a pickup with a fee.
InsertOrder(r) ==
    /\ quote[r].op = "priced"
    /\ quote[r].pickup => quote[r].fee = 0
    /\ quote' = [quote EXCEPT ![r].op = "placed"]
    /\ UNCHANGED <<options, born, follows, adding>>

\* The order is answered; or there is no such option any more, or another check refuses it.
Answer(r) ==
    /\ quote[r] # Idle
    /\ quote' = [quote EXCEPT ![r] = Idle]
    /\ UNCHANGED <<options, born, follows, adding>>

-----------------------------------------------------------------------------
(* Payment gateways. *)

\* The dashboard's list first inserts a row for each gateway that has none.
ListPaymentGateways(r) ==
    /\ seeding[r] = {}
    /\ seeding' = [seeding EXCEPT ![r] = KnownGateways]
    /\ UNCHANGED <<gateways, choice>>

Seeded(g) == IF gateways[g] # "none" THEN gateways[g] ELSE IF g = Paystack THEN "on" ELSE "off"

\* An insert that fails is passed over.
SeedGateway(r, g, failed) ==
    /\ g \in seeding[r]
    /\ gateways' = IF failed THEN gateways ELSE [gateways EXCEPT ![g] = Seeded(g)]
    /\ seeding' = [seeding EXCEPT ![r] = @ \ {g}]
    /\ UNCHANGED choice

UpsertPaymentGateway(g, set) ==
    /\ gateways' = [gateways EXCEPT ![g] = set]
    /\ choice' = [choice EXCEPT ![g] = set]
    /\ UNCHANGED seeding

\* What the checkout offers: the enabled ones, and Paystack where there is none.
GetPublicGateways ==
    LET enabled == {g \in KnownGateways : gateways[g] = "on"}
    IN  IF enabled = {} THEN {Paystack} ELSE enabled

-----------------------------------------------------------------------------

AddingNext ==
    \/ \E r \in Request, failed \in BOOLEAN : ReadPosition(r, failed)
    \/ \E r \in Request, p \in 0..MaxPosition : NamePosition(r, p)
    \/ \E r \in Request : CreateFails(r)

PlacingNext ==
    \/ \E r \in Request, o \in Option, items \in SUBSET {"digital", "physical"}, basket \in BOOLEAN :
           AskForOrder(r, o, items, basket)
    \/ \E r \in Request : computeDeliveryFeeKobo(r)
    \/ \E r \in Request : InsertOrder(r)
    \/ \E r \in Request : Answer(r)

OptionsNext ==
    \/ AddingNext
    \/ \E r \in Request, o \in Option, price \in Price, pickup \in BOOLEAN :
           CreateDeliveryOption(r, o, price, pickup)
    \/ \E o \in Option, price \in Price : PriceOption(o, price)
    \/ \E o \in Option : SwitchOption(o)
    \/ \E o \in Option, p \in 0..MaxPosition : MoveOption(o, p)
    \/ \E o \in Option : DeleteDeliveryOption(o)

PaymentsNext ==
    \/ \E r \in Request : ListPaymentGateways(r)
    \/ \E r \in Request, g \in KnownGateways, failed \in BOOLEAN : SeedGateway(r, g, failed)
    \/ \E g \in KnownGateways, set \in {"on", "off"} : UpsertPaymentGateway(g, set)

DeliveryNext == OptionsNext \/ PlacingNext

StoreSettingsNext ==
    \/ DeliveryNext /\ UNCHANGED paymentVars
    \/ PaymentsNext /\ UNCHANGED deliveryVars

StoreSettingsSpec == StoreSettingsInit /\ [][StoreSettingsNext]_settingsVars

-----------------------------------------------------------------------------

\* An order bears the price and the kind of one active option as they stood together at a
\* moment of its placing, or no fee where everything in it is digital; none to be collected
\* bears a fee (computeDeliveryFeeKobo against the vendor's edits).
OrderPricedAsOffered ==
    \A r \in Request : quote[r].op = "placed" =>
        IF quote[r].digital
        THEN quote[r].fee = 0 /\ ~quote[r].pickup
        ELSE /\ [price |-> quote[r].fee, pickup |-> quote[r].pickup] \in quote[r].offered
             /\ quote[r].pickup => quote[r].fee = 0

\* "options keep the order the vendor added them in": one that was there when the adding of
\* another began is listed before it, however additions overlap and whatever was deleted
\* meanwhile, unless either was moved or the positions could not be read.
OptionsKeepOrder == \A o \in OptionRows : \A q \in follows[o] : ListedBefore(q, o)

\* What the vendor last set for a gateway stands, whatever the dashboard seeds meanwhile,
\* and a checkout is never without a way to pay.
GatewayChoicesStand ==
    /\ \A g \in KnownGateways : choice[g] # "none" => gateways[g] = choice[g]
    /\ GetPublicGateways # {}

\* The checkout goes by what the vendor has set.
SettingsStand == OrderPricedAsOffered /\ OptionsKeepOrder /\ GatewayChoicesStand

=============================================================================
