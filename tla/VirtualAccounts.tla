--------------------------- MODULE VirtualAccounts ---------------------------
(***************************************************************************)
(* A vendor's Dedicated Virtual Account: storefront asks identity to       *)
(* provision it when a store is created, identity's hourly sweep retries   *)
(* what that missed, and several of these may work on one vendor at once.  *)
(* Paystack knows a vendor as the customer with their e-mail, so a vendor  *)
(* stands for their customer code here, and an account number is a         *)
(* customer's own.                                                         *)
(***************************************************************************)
CONSTANTS
    Vendor,
    Serial,         \* accounts Paystack may open for one customer
    Worker,         \* goroutines that provision
    Sweeper,        \* the one that runs the sweep
    NoVendor,
    NoNumber

ASSUME VirtualAccountsAssumption ==
    /\ Sweeper \in Worker
    /\ NoVendor \notin Vendor
    /\ NoNumber \notin Vendor \X Serial

VARIABLES
    phone,          \* phone[v]: users.phone is one Paystack takes
    store,          \* store[v]: the vendor's store, by its support phone
    profile,        \* profile[v]: the vendor_profiles row
    told,           \* told[v]: account numbers the vendor has been shown
    sweep,          \* vendors the sweep has listed and not come to
    job             \* job[w]: provisioning under way

vaRows == <<phone, store, profile, told>>
vaVars == <<phone, store, profile, told, sweep, job>>

-----------------------------------------------------------------------------

Number == Vendor \X Serial

Holder(n) == n[1]

NoProfile == [state |-> "none"]

ProfileRow ==
    {NoProfile} \cup [state: {"onboarding"}, customer: Vendor \cup {NoVendor}, number: Number \cup {NoNumber}]

Idle == [step |-> "idle"]

Job ==
    {Idle}
    \cup [step: {"triggered", "asked", "customer", "account"}, vendor: Vendor]
    \cup [step: {"persist", "mail"}, vendor: Vendor, number: Number]

VirtualAccountsTypeOK ==
    /\ phone \in [Vendor -> BOOLEAN]
    /\ store \in [Vendor -> {"none", "silent", "reachable"}]
    /\ profile \in [Vendor -> ProfileRow]
    /\ told \in [Vendor -> SUBSET Number]
    /\ sweep \in SUBSET Vendor
    /\ job \in [Worker -> Job]

VirtualAccountsInit ==
    /\ phone = [v \in Vendor |-> FALSE]
    /\ store = [v \in Vendor |-> "none"]
    /\ profile = [v \in Vendor |-> NoProfile]
    /\ told = [v \in Vendor |-> {}]
    /\ sweep = {}
    /\ job = [w \in Worker |-> Idle]

-----------------------------------------------------------------------------
(* What the vendor does. *)

Onboarding(v) == profile[v].state = "onboarding"
HasStore(v) == store[v] # "none"
OnFile(v) == Onboarding(v) /\ profile[v].number # NoNumber

\* ON CONFLICT (user_id) DO NOTHING.
StartVendorOnboarding(v) ==
    /\ ~Onboarding(v)
    /\ profile' = [profile EXCEPT ![v] = [state |-> "onboarding", customer |-> NoVendor, number |-> NoNumber]]
    /\ UNCHANGED <<phone, store, told, sweep, job>>

UpdateMe(v, usable) ==
    /\ phone' = [phone EXCEPT ![v] = usable]
    /\ UNCHANGED <<store, profile, told, sweep, job>>

\* A goroutine nobody waits for: it may start, or be lost with its process.
TriggerDVAProvisioning(v) ==
    \/ UNCHANGED job
    \/ \E w \in Worker \ {Sweeper} :
           job[w] = Idle /\ job' = [job EXCEPT ![w] = [step |-> "triggered", vendor |-> v]]

\* A second store is not made: the one there is returned, and provisioning tried again.
\* A support phone that is given has been verified.
CreateStore(v, support) ==
    /\ store' = [store EXCEPT ![v] = IF HasStore(v) THEN @ ELSE support]
    /\ TriggerDVAProvisioning(v)
    /\ UNCHANGED <<phone, profile, told, sweep>>

\* An empty support phone skips the check and is stored.
UpdateStore(v, support) ==
    /\ HasStore(v)
    /\ store' = [store EXCEPT ![v] = support]
    /\ UNCHANGED <<phone, profile, told, sweep, job>>

\* Mutant: a row with no number yet is shown too.
ShowWhateverIsOnFile(v) ==
    /\ Onboarding(v)
    /\ told' = [told EXCEPT ![v] = @ \cup {profile[v].number}]
    /\ UNCHANGED <<phone, store, profile, sweep, job>>

\* The vendor's own pages read the row.
GetVendorProfile(v) ==
    /\ OnFile(v)
    /\ told' = [told EXCEPT ![v] = @ \cup {profile[v].number}]
    /\ UNCHANGED <<phone, store, profile, sweep, job>>

-----------------------------------------------------------------------------
(* Provisioning, one call to Paystack or statement at a time. *)

VendorsMissingDVA == {v \in Vendor : Onboarding(v) /\ HasStore(v) /\ ~OnFile(v)}

Advance(w, j) == job' = [job EXCEPT ![w] = j]

\* The list is read once and gone down: every vendor on it is read again when reached.
BackfillMissingDVAs ==
    /\ sweep = {} /\ job[Sweeper] = Idle
    /\ sweep' = VendorsMissingDVA
    /\ UNCHANGED <<vaRows, job>>

BackfillNext(v) ==
    /\ v \in sweep /\ job[Sweeper] = Idle
    /\ sweep' = sweep \ {v}
    /\ Advance(Sweeper, [step |-> "asked", vendor |-> v])
    /\ UNCHANGED vaRows

\* Storefront looks before it asks identity.
AskIdentity(w) ==
    /\ job[w].step = "triggered"
    /\ Advance(w, IF OnFile(job[w].vendor) THEN Idle ELSE [step |-> "asked", vendor |-> job[w].vendor])
    /\ UNCHANGED <<vaRows, sweep>>

\* Mutant: a vendor whose user row has no phone is turned away.
UserPhone(v) == phone[v]

\* users.phone, else the store's support phone.
VendorPhone(v) == phone[v] \/ store[v] = "reachable"

ProvisionVendorDVA(w) ==
    /\ job[w].step = "asked"
    /\ LET v == job[w].vendor
       IN  Advance(w, IF Onboarding(v) /\ ~OnFile(v) /\ VendorPhone(v)
                      THEN [step |-> "customer", vendor |-> v] ELSE Idle)
    /\ UNCHANGED <<vaRows, sweep>>

\* The customer with this e-mail, made now or before.
CreateCustomer(w) ==
    /\ job[w].step = "customer"
    /\ Advance(w, [step |-> "account", vendor |-> job[w].vendor])
    /\ UNCHANGED <<vaRows, sweep>>

\* Paystack opens another account for the customer or returns one it has.
CreateDedicatedAccount(w) ==
    /\ job[w].step = "account"
    /\ \E s \in Serial :
           Advance(w, [step |-> "persist", vendor |-> job[w].vendor, number |-> <<job[w].vendor, s>>])
    /\ UNCHANGED <<vaRows, sweep>>

\* The row is written whatever it holds by now.
UpdateVendorPaystackAccount(w) ==
    /\ job[w].step = "persist"
    /\ profile' = [profile EXCEPT ![job[w].vendor] =
                     [state |-> "onboarding", customer |-> job[w].vendor, number |-> job[w].number]]
    /\ Advance(w, [step |-> "mail", vendor |-> job[w].vendor, number |-> job[w].number])
    /\ UNCHANGED <<phone, store, told, sweep>>

SendAccountReady(w) ==
    /\ job[w].step = "mail"
    /\ told' = [told EXCEPT ![job[w].vendor] = @ \cup {job[w].number}]
    /\ Advance(w, Idle)
    /\ UNCHANGED <<phone, store, profile, sweep>>

\* Paystack, the database or the mail provider refuses, or the 15 s are over.
Fail(w) ==
    /\ job[w] # Idle
    /\ Advance(w, Idle)
    /\ UNCHANGED <<vaRows, sweep>>

\* Identity restarts: what it had under way is gone.
Restart ==
    /\ job' = [w \in Worker |-> IF job[w].step = "triggered" THEN job[w] ELSE Idle]
    /\ sweep' = {}
    /\ UNCHANGED vaRows

Provision(w) ==
    \/ AskIdentity(w) \/ ProvisionVendorDVA(w)
    \/ CreateCustomer(w) \/ CreateDedicatedAccount(w)
    \/ UpdateVendorPaystackAccount(w) \/ SendAccountReady(w)

VirtualAccountsNext ==
    \/ \E v \in Vendor : StartVendorOnboarding(v)
    \/ \E v \in Vendor, usable \in BOOLEAN : UpdateMe(v, usable)
    \/ \E v \in Vendor, support \in {"silent", "reachable"} : CreateStore(v, support)
    \/ \E v \in Vendor, support \in {"silent", "reachable"} : UpdateStore(v, support)
    \/ \E v \in Vendor : GetVendorProfile(v)
    \/ BackfillMissingDVAs
    \/ \E v \in Vendor : BackfillNext(v)
    \/ \E w \in Worker : Provision(w)
    \/ \E w \in Worker : Fail(w)
    \/ Restart

\* The sweep runs every hour and goes down its list; Paystack and the database do not
\* refuse it for ever.
VirtualAccountsFairness ==
    /\ WF_vaVars(BackfillMissingDVAs)
    /\ \A v \in Vendor : SF_vaVars(BackfillNext(v))
    /\ SF_vaVars(ProvisionVendorDVA(Sweeper))
    /\ SF_vaVars(CreateCustomer(Sweeper))
    /\ SF_vaVars(CreateDedicatedAccount(Sweeper))
    /\ SF_vaVars(UpdateVendorPaystackAccount(Sweeper))
    /\ WF_vaVars(Fail(Sweeper))

VirtualAccountsSpec ==
    VirtualAccountsInit /\ [][VirtualAccountsNext]_vaVars /\ VirtualAccountsFairness

-----------------------------------------------------------------------------

\* A vendor with a profile, a store and a phone gets a number, whatever was refused
\* or lost before.
ProvisionedInTheEnd ==
    \A v \in Vendor :
        <>[](Onboarding(v) /\ HasStore(v) /\ (phone[v] \/ store[v] = "reachable")) => <>OnFile(v)

=============================================================================
