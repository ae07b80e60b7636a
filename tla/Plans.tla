-------------------------------- MODULE Plans --------------------------------
(***************************************************************************)
(* What a vendor's plan lets them have: the subscription they paid for,    *)
(* the products and team members counted against it, and the store         *)
(* settings the free plan does not include.                                *)
(***************************************************************************)
EXTENDS Onboarding, FiniteSetsExt

CONSTANTS
    Plan,
    Free,
    Limit,          \* Limit[p]: how many of each kind plan p allows
    Setting,        \* of a store, not in the free plan: currency, team size, template
    MaxRows         \* bound: rows of a kind explored

Kind == {"product", "member"}
Unlimited == -1

ASSUME PlansAssumption ==
    /\ Free \in Plan
    /\ Limit \in [Plan -> [Kind -> Nat \cup {Unlimited}]]
    /\ Limit[Free]["product"] > 0 /\ Limit[Free]["member"] > 0

VARIABLES
    charged,        \* plans whose price Paystack has taken
    subscription,   \* the vendor_subscriptions row
    rows,           \* rows[k]: products, and members the dashboard's form added
    invited,        \* members the store page's form added
    settings,       \* paid settings the store has
    entry           \* entry[r]: the row request r is adding

plansVars == <<charged, subscription, rows, invited, settings, entry>>

-----------------------------------------------------------------------------

NoPlan == "none"

Entry == {Idle} \cup [op: {"limited", "counted"}, kind: Kind, limit: Nat \cup {Unlimited}]

PlansTypeOK ==
    /\ OnboardingTypeOK
    /\ charged \subseteq Plan
    /\ subscription \in Plan \cup {NoPlan}
    /\ rows \in [Kind -> Nat] /\ invited \in Nat
    /\ settings \subseteq Setting
    /\ entry \in [Request -> Entry]

PlansInit ==
    /\ charged = {} /\ subscription = NoPlan
    /\ rows = [k \in Kind |-> 0] /\ invited = 0
    /\ settings = {}
    /\ entry = [r \in Request |-> Idle]

-----------------------------------------------------------------------------

PlanInForce == IF subscription = NoPlan THEN Free ELSE subscription

\* Paystack takes a plan's price.
Charge(p) ==
    /\ p # Free /\ p \notin charged
    /\ charged' = charged \cup {p}
    /\ UNCHANGED <<onboardingVars, subscription, rows, invited, settings, entry>>

VerifyTransaction(p) == p \in charged

\* One subscription per vendor, replaced by the next.
SelectPlan(p) ==
    /\ p = Free \/ VerifyTransaction(p)
    /\ subscription' = p
    /\ MarkPlanSelected
    /\ UNCHANGED <<charged, rows, invited, settings, entry, kyc, attempts, recent, form, burst, overtaken>>

\* The limit, the count and the insert are statements of their own.
ForStoreID(r, k) ==
    /\ entry[r] = Idle
    /\ entry' = [entry EXCEPT ![r] = [op |-> "limited", kind |-> k, limit |-> Limit[PlanInForce][k]]]
    /\ UNCHANGED <<onboardingVars, charged, subscription, rows, invited, settings>>

Counted(k) == rows[k] + IF k = "member" THEN invited ELSE 0

\* Mutant: up to the limit and one more.
RoomForOneMore(limit, k) == limit = Unlimited \/ Counted(k) <= limit

HasRoom(limit, k) == limit = Unlimited \/ Counted(k) < limit

CountRows(r) ==
    /\ entry[r].op = "limited"
    /\ entry' = [entry EXCEPT ![r] = IF HasRoom(entry[r].limit, entry[r].kind)
                                     THEN [op |-> "counted", kind |-> entry[r].kind, limit |-> entry[r].limit]
                                     ELSE Idle]
    /\ UNCHANGED <<onboardingVars, charged, subscription, rows, invited, settings>>

\* CreateProduct and CreateStaff.
InsertRow(r) ==
    /\ entry[r].op = "counted" /\ rows[entry[r].kind] < MaxRows
    /\ rows' = [rows EXCEPT ![entry[r].kind] = @ + 1]
    /\ entry' = [entry EXCEPT ![r] = Idle]
    /\ UNCHANGED <<onboardingVars, charged, subscription, invited, settings>>

EntryFails(r) ==
    /\ entry[r] # Idle
    /\ entry' = [entry EXCEPT ![r] = Idle]
    /\ UNCHANGED <<onboardingVars, charged, subscription, rows, invited, settings>>

\* The store page's form asks no plan.
InviteStaff ==
    /\ invited < MaxRows
    /\ invited' = invited + 1
    /\ UNCHANGED <<onboardingVars, charged, subscription, rows, settings, entry>>

DeleteRow(k) ==
    /\ rows[k] > 0
    /\ rows' = [rows EXCEPT ![k] = @ - 1]
    /\ UNCHANGED <<onboardingVars, charged, subscription, invited, settings, entry>>

\* Either form's delete takes a member the other one added.
RemoveInvited ==
    /\ invited > 0
    /\ invited' = invited - 1
    /\ UNCHANGED <<onboardingVars, charged, subscription, rows, settings, entry>>

\* CreateStore asks for the first two, UpdateStore for the template.
SaveSetting(s) ==
    /\ PlanInForce # Free
    /\ settings' = settings \cup {s}
    /\ UNCHANGED <<onboardingVars, charged, subscription, rows, invited, entry>>

PlansNext ==
    \/ \E p \in Plan : Charge(p)
    \/ \E p \in Plan : SelectPlan(p)
    \/ \E r \in Request, k \in Kind : ForStoreID(r, k)
    \/ \E r \in Request : CountRows(r)
    \/ \E r \in Request : InsertRow(r)
    \/ \E r \in Request : EntryFails(r)
    \/ InviteStaff
    \/ \E k \in Kind : DeleteRow(k)
    \/ RemoveInvited
    \/ \E s \in Setting : SaveSetting(s)

PlansSpec == PlansInit /\ OnboardingInit /\ [][PlansNext \/ (OnboardingNext /\ UNCHANGED plansVars)]_<<plansVars, onboardingVars>>

-----------------------------------------------------------------------------

\* What was paid for at one time or another, or is free.
Held == charged \cup {Free}

\* A vendor never adds more products, nor more members by the dashboard's form, than the best
\* plan they ever paid for allows, but for one row per request that counted before another's
\* row was there.  Members the store page's form adds stand outside: InviteStaff asks no plan,
\* and there is no limit on them.
PlanLimitsHold ==
    /\ \A k \in Kind :
           \/ \E p \in Held : Limit[p][k] = Unlimited
           \/ \E p \in Held : rows[k] <= Limit[p][k] + Cardinality(Request) - 1
    /\ settings # {} => charged # {}

=============================================================================
