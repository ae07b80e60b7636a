-------------------------------- MODULE Shop ---------------------------------
(***************************************************************************)
(* The parts of the platform that share no row with one another: what a    *)
(* vendor's plan and onboarding allow, the lists on a profile, the store   *)
(* the gateway finds for a user, the newsletter, the collections, the      *)
(* search, the lists read by pages, the settings of the checkout, the      *)
(* user's own row, and the processes coming up with their schema.  What    *)
(* two parts do at the same time cannot differ from what each does alone,  *)
(* so a behaviour is of one part.                                          *)
(***************************************************************************)
EXTENDS Plans, Profile, Gateway, Newsletter, Collections, Search,
        Listings, StoreSettings, UserProfile, Startup

CONSTANT
    OnSale          \* bound: the delivery options that orders are placed with

ASSUME ShopAssumption ==
    /\ OnSale \subseteq Option
    /\ Nothing \in Deployments /\ {} \in Earlier

Parts == {"plans", "onboarding", "addresses", "banks", "gateway", "newsletter",
          "collections", "search", "lists", "options", "delivery", "payments", "user", "startup"}

VARIABLE part

shopVars == <<part, onboardingVars, plansVars, profileVars, gatewayVars,
              newsletterVars, collectionsVars, searchVars, listingsVars, settingsVars, userVars, startupVars>>

ShopTypeOK ==
    /\ part \in Parts
    /\ PlansTypeOK
    /\ ProfileTypeOK
    /\ GatewayTypeOK
    /\ NewsletterTypeOK
    /\ CollectionsTypeOK
    /\ SearchTypeOK
    /\ ListingsTypeOK
    /\ StoreSettingsTypeOK
    /\ UserProfileTypeOK
    /\ StartupTypeOK

ShopInit ==
    /\ part \in Parts
    /\ OnboardingInit /\ PlansInit /\ ProfileInit
    /\ GatewayInit /\ NewsletterInit /\ CollectionsInit
    /\ SearchInit /\ ListingsInit /\ StoreSettingsInit /\ UserProfileInit /\ StartupInit
    /\ part # "lists" => list = ListOrders /\ per = DefaultPer /\ page = 1
    /\ part # "startup" => deployed = Nothing /\ applied = {}

VendorIdle == UNCHANGED <<onboardingVars, plansVars>>
PagesIdle == UNCHANGED <<newsletterVars, collectionsVars, searchVars>>
UsersIdle == UNCHANGED <<profileVars, gatewayVars>>
ListsIdle == UNCHANGED listingsVars
SettingsIdle == UNCHANGED <<settingsVars, userVars>>
ProcessesIdle == UNCHANGED startupVars

\* Onboarding with the free plan, the plans with the forms left alone, and the two lists of
\* a profile apart, keep each of them small enough to be searched; so do the delivery
\* options apart from the orders that are placed with them.
PlansPart == PlansNext /\ UsersIdle /\ PagesIdle /\ ListsIdle /\ SettingsIdle
OnboardingPart ==
    /\ \/ OnboardingNext /\ UNCHANGED plansVars
       \/ SelectPlan(Free)
    /\ UsersIdle /\ PagesIdle /\ ListsIdle /\ SettingsIdle

AddressPart == AddressNext /\ UNCHANGED gatewayVars
BankPart == BankNext /\ UNCHANGED gatewayVars
GatewayPart == GatewayNext /\ UNCHANGED profileVars

NewsletterPart == NewsletterNext /\ UNCHANGED <<collectionsVars, searchVars>>
CollectionsPart == CollectionsNext /\ UNCHANGED <<newsletterVars, searchVars>>
SearchPart == SearchNext /\ UNCHANGED <<newsletterVars, collectionsVars>>

\* The order of the options, whatever they cost, while two are added at a time.
OptionsPart ==
    /\ \/ AddingNext
       \/ \E r \in Request, o \in Option : CreateDeliveryOption(r, o, 0, FALSE)
       \/ \E o \in Option, p \in 0..MaxPosition : MoveOption(o, p)
       \/ \E o \in Option : DeleteDeliveryOption(o)
    /\ UNCHANGED <<paymentVars, userVars>>

\* One order at a time against the vendor's edits of the options on sale.
DeliveryPart ==
    /\ \E r \in Request :
         /\ r = CHOOSE q \in Request : TRUE
         /\ \/ NamePosition(r, 0)
            \/ \E o \in OnSale, price \in Price, pickup \in BOOLEAN : CreateDeliveryOption(r, o, price, pickup)
            \/ \E o \in OnSale, price \in Price : PriceOption(o, price)
            \/ \E o \in OnSale : SwitchOption(o)
            \/ \E o \in OnSale : DeleteDeliveryOption(o)
            \/ \E o \in OnSale, items \in SUBSET {"digital", "physical"}, basket \in BOOLEAN :
                   AskForOrder(r, o, items, basket)
            \/ computeDeliveryFeeKobo(r)
            \/ InsertOrder(r)
            \/ Answer(r)
    /\ UNCHANGED <<paymentVars, userVars>>

PaymentsPart == PaymentsNext /\ UNCHANGED <<deliveryVars, userVars>>
UserPart == UserProfileNext /\ UNCHANGED settingsVars

ShopNext ==
    /\ \/ part = "plans" /\ PlansPart
       \/ part = "onboarding" /\ OnboardingPart
       \/ /\ \/ part = "addresses" /\ AddressPart
             \/ part = "banks" /\ BankPart
             \/ part = "gateway" /\ GatewayPart
          /\ VendorIdle /\ PagesIdle /\ ListsIdle /\ SettingsIdle
       \/ /\ \/ part = "newsletter" /\ NewsletterPart
             \/ part = "collections" /\ CollectionsPart
             \/ part = "search" /\ SearchPart
          /\ VendorIdle /\ UsersIdle /\ ListsIdle /\ SettingsIdle
       \/ /\ part = "lists" /\ ListingsNext
          /\ VendorIdle /\ UsersIdle /\ PagesIdle /\ SettingsIdle
       \/ /\ \/ part = "options" /\ OptionsPart
             \/ part = "delivery" /\ DeliveryPart
             \/ part = "payments" /\ PaymentsPart
             \/ part = "user" /\ UserPart
          /\ VendorIdle /\ UsersIdle /\ PagesIdle /\ ListsIdle
       \/ /\ part = "startup" /\ StartupNext
          /\ VendorIdle /\ UsersIdle /\ PagesIdle /\ ListsIdle /\ SettingsIdle
    /\ part # "startup" => ProcessesIdle
    /\ UNCHANGED part

\* The user keeps asking, the storefront answers now and then, the gateway does not
\* restart every time between the answer and its use, and time passes.
GatewayFairness ==
    /\ SF_gatewayVars(part = "gateway" /\ \E r \in Request : Pass(r))
    /\ SF_gatewayVars(part = "gateway" /\ \E r \in Request : Miss(r))
    /\ SF_gatewayVars(part = "gateway" /\ \E r \in Request : FetchFromStorefront(r))
    /\ WF_gatewayVars(part = "gateway" /\ \E r \in Request : KeepAnswer(r))
    /\ SF_gatewayVars(part = "gateway" /\ \E r \in Request : KeepStore(r))
    /\ WF_gatewayVars(part = "gateway" /\ Expire)

\* A container that ended is started again, and a process that runs goes on.
StartupFairness == \A p \in Process : WF_startupVars(part = "startup" /\ Advance(p))

ShopSpec == ShopInit /\ [][ShopNext]_shopVars /\ GatewayFairness /\ StartupFairness

-----------------------------------------------------------------------------

\* What is read in pages or lists: a collection has one list at a time, of which a reader may
\* miss what could not be read, and no page and no listing misses what was there all along.
ListsStand == OneListAtATime /\ PagesMissNothing /\ ListsMissLittle

=============================================================================
