-------------------------- MODULE VendorMoneyProofs --------------------------
(***************************************************************************)
(* A bank transfer reaches the vendor who gave the number, for any number  *)
(* of vendors, accounts, workers, transfers and withdrawals.  The          *)
(* argument follows the number: a provisioning job works for a vendor with *)
(* a store and brings back a number of theirs, so a number on file, and a  *)
(* number the vendor was told, belongs to a row whose customer code is     *)
(* theirs alone; what is on file may change afterwards, the code may not.  *)
(***************************************************************************)
EXTENDS VendorMoney, Sums, TLAPS

-----------------------------------------------------------------------------
(* The inductive invariant, by the state it speaks of. *)

TypeInv ==
    /\ store \in [Vendor -> {"none", "silent", "reachable"}]
    /\ profile \in [Vendor -> ProfileRow]
    /\ told \in [Vendor -> SUBSET Number]
    /\ sweep \in SUBSET Vendor
    /\ job \in [Worker -> Job]

\* Only a vendor with a store and a profile is provisioned.
Eligible(v) == HasStore(v) /\ Onboarding(v)

\* The customer code on a row is its vendor's or not there yet.
CodesInv == \A v \in Vendor : Onboarding(v) => profile[v].customer \in {v, NoVendor}

\* A row with a number is one a transfer to that number is credited by.
Served(v) == Eligible(v) /\ profile[v].customer = v

FilesInv == \A v \in Vendor : OnFile(v) => Served(v) /\ profile[v].number \in {v} \X Serial

ToldInv == \A v \in Vendor : \A n \in told[v] : Served(v) /\ n \in {v} \X Serial

SweepInv == \A v \in sweep : Eligible(v)

JobsInv ==
    \A w \in Worker :
        /\ job[w].step \in {"triggered", "asked", "customer", "account", "persist", "mail"} =>
               HasStore(job[w].vendor)
        /\ job[w].step \in {"customer", "account", "persist", "mail"} => Onboarding(job[w].vendor)
        /\ job[w].step \in {"persist", "mail"} => job[w].number \in {job[w].vendor} \X Serial
        /\ job[w].step = "mail" => Served(job[w].vendor)

MoneyTypes == deposit \in [Deposit -> DepositRow] /\ DOMAIN ledger = Reference

PaidInv ==
    \A d \in Deposit :
        /\ deposit[d].state # "none" => deposit[d].number \in told[deposit[d].payee]
        /\ deposit[d].state = "answered" => Booked(d)

CreditedInv ==
    \A d \in Deposit :
        Booked(d) =>
            /\ deposit[d].state # "none"
            /\ ledger[d].store = deposit[d].payee /\ ledger[d].amount = deposit[d].amount
            /\ ledger[d].status = "completed"

AccountsInv == TypeInv /\ CodesInv /\ FilesInv /\ ToldInv /\ SweepInv /\ JobsInv

IInv == AccountsInv /\ MoneyTypes /\ PaidInv /\ CreditedInv

-----------------------------------------------------------------------------

LEMMA InitIInv == MoneyInit => IInv
<1> SUFFICES ASSUME MoneyInit PROVE IInv
  OBVIOUS
<1> USE DEF MoneyInit, VirtualAccountsInit, WalletInit
<1>1. TypeInv
  BY VirtualAccountsAssumption DEF TypeInv, ProfileRow, NoProfile, Job, Idle
<1>2. CodesInv /\ FilesInv
  BY DEF CodesInv, FilesInv, OnFile, Onboarding, NoProfile
<1>3. ToldInv /\ SweepInv
  BY DEF ToldInv, SweepInv
<1>4. JobsInv
  BY DEF JobsInv, Idle
<1>5. MoneyTypes /\ PaidInv /\ CreditedInv
  BY DEF MoneyTypes, DepositRow, PaidInv, CreditedInv, Booked, NoDeposit, NoRow, Reference
<1> QED BY <1>1, <1>2, <1>3, <1>4, <1>5 DEF IInv, AccountsInv

(* What one step of provisioning, or of the vendor, does to the vendor's account. *)

LEMMA AccountsStep == AccountsInv /\ VirtualAccountsNext => AccountsInv'
<1> SUFFICES ASSUME AccountsInv, VirtualAccountsNext PROVE AccountsInv'
  OBVIOUS
<1> USE VirtualAccountsAssumption DEF AccountsInv
<1>1. ASSUME NEW v \in Vendor, StartVendorOnboarding(v) PROVE AccountsInv'
  <2> USE <1>1 DEF StartVendorOnboarding, vaRows, Advance
  <2>1. TypeInv'
    BY DEF TypeInv, ProfileRow, NoProfile, Number, Job, Idle, Onboarding, HasStore, OnFile
  <2>2. CodesInv' /\ FilesInv'
    BY DEF TypeInv, JobsInv, CodesInv, FilesInv, Onboarding, HasStore, OnFile, Eligible, Served
  <2>3. ToldInv'
    BY DEF TypeInv, JobsInv, FilesInv, ToldInv, Onboarding, HasStore, OnFile, Eligible, Served
  <2>4. SweepInv'
    BY DEF TypeInv, SweepInv, JobsInv, Onboarding, HasStore, OnFile, Eligible
  <2>5. JobsInv'
    BY DEF TypeInv, SweepInv, JobsInv, CodesInv, FilesInv, Idle, Onboarding, HasStore, OnFile, Eligible, Served
  <2> QED BY <2>1, <2>2, <2>3, <2>4, <2>5
<1>2. ASSUME NEW v \in Vendor, NEW usable \in BOOLEAN, UpdateMe(v, usable) PROVE AccountsInv'
  <2> USE <1>2 DEF UpdateMe, vaRows, Advance
  <2>1. TypeInv'
    BY DEF TypeInv, ProfileRow, NoProfile, Number, Job, Idle, Onboarding, HasStore, OnFile
  <2>2. CodesInv' /\ FilesInv'
    BY DEF TypeInv, JobsInv, CodesInv, FilesInv, Onboarding, HasStore, OnFile, Eligible, Served
  <2>3. ToldInv'
    BY DEF TypeInv, JobsInv, FilesInv, ToldInv, Onboarding, HasStore, OnFile, Eligible, Served
  <2>4. SweepInv'
    BY DEF TypeInv, SweepInv, JobsInv, Onboarding, HasStore, OnFile, Eligible
  <2>5. JobsInv'
    BY DEF TypeInv, SweepInv, JobsInv, CodesInv, FilesInv, Idle, Onboarding, HasStore, OnFile, Eligible, Served
  <2> QED BY <2>1, <2>2, <2>3, <2>4, <2>5
<1>3. ASSUME NEW v \in Vendor, NEW support \in {"silent", "reachable"}, CreateStore(v, support) PROVE AccountsInv'
  <2> USE <1>3 DEF CreateStore, vaRows, Advance, TriggerDVAProvisioning
  <2>1. TypeInv'
    BY DEF TypeInv, ProfileRow, NoProfile, Number, Job, Idle, Onboarding, HasStore, OnFile
  <2>2. CodesInv' /\ FilesInv'
    BY DEF TypeInv, JobsInv, CodesInv, FilesInv, Onboarding, HasStore, OnFile, Eligible, Served
  <2>3. ToldInv'
    BY DEF TypeInv, JobsInv, FilesInv, ToldInv, Onboarding, HasStore, OnFile, Eligible, Served
  <2>4. SweepInv'
    BY DEF TypeInv, SweepInv, JobsInv, Onboarding, HasStore, OnFile, Eligible
  <2>5. JobsInv'
    BY DEF TypeInv, SweepInv, JobsInv, CodesInv, FilesInv, Idle, Onboarding, HasStore, OnFile, Eligible, Served
  <2> QED BY <2>1, <2>2, <2>3, <2>4, <2>5
<1>4. ASSUME NEW v \in Vendor, NEW support \in {"silent", "reachable"}, UpdateStore(v, support) PROVE AccountsInv'
  <2> USE <1>4 DEF UpdateStore, vaRows, Advance
  <2>1. TypeInv'
    BY DEF TypeInv, ProfileRow, NoProfile, Number, Job, Idle, Onboarding, HasStore, OnFile
  <2>2. CodesInv' /\ FilesInv'
    BY DEF TypeInv, JobsInv, CodesInv, FilesInv, Onboarding, HasStore, OnFile, Eligible, Served
  <2>3. ToldInv'
    BY DEF TypeInv, JobsInv, FilesInv, ToldInv, Onboarding, HasStore, OnFile, Eligible, Served
  <2>4. SweepInv'
    BY DEF TypeInv, SweepInv, JobsInv, Onboarding, HasStore, OnFile, Eligible
  <2>5. JobsInv'
    BY DEF TypeInv, SweepInv, JobsInv, CodesInv, FilesInv, Idle, Onboarding, HasStore, OnFile, Eligible, Served
  <2> QED BY <2>1, <2>2, <2>3, <2>4, <2>5
<1>5. ASSUME NEW v \in Vendor, GetVendorProfile(v) PROVE AccountsInv'
  <2> USE <1>5 DEF GetVendorProfile, vaRows, Advance
  <2>1. TypeInv'
    BY DEF TypeInv, ProfileRow, NoProfile, Number, Job, Idle, Onboarding, HasStore, OnFile
  <2>2. CodesInv' /\ FilesInv'
    BY DEF TypeInv, JobsInv, CodesInv, FilesInv, Onboarding, HasStore, OnFile, Eligible, Served
  <2>3. ToldInv'
    BY DEF TypeInv, JobsInv, FilesInv, ToldInv, Onboarding, HasStore, OnFile, Eligible, Served
  <2>4. SweepInv'
    BY DEF TypeInv, SweepInv, JobsInv, Onboarding, HasStore, OnFile, Eligible
  <2>5. JobsInv'
    BY DEF TypeInv, SweepInv, JobsInv, CodesInv, FilesInv, Idle, Onboarding, HasStore, OnFile, Eligible, Served
  <2> QED BY <2>1, <2>2, <2>3, <2>4, <2>5
<1>6. ASSUME BackfillMissingDVAs PROVE AccountsInv'
  <2> USE <1>6 DEF BackfillMissingDVAs, vaRows, Advance, VendorsMissingDVA
  <2>1. TypeInv'
    BY DEF TypeInv, ProfileRow, NoProfile, Number, Job, Idle, Onboarding, HasStore, OnFile
  <2>2. CodesInv' /\ FilesInv'
    BY DEF TypeInv, JobsInv, CodesInv, FilesInv, Onboarding, HasStore, OnFile, Eligible, Served
  <2>3. ToldInv'
    BY DEF TypeInv, JobsInv, FilesInv, ToldInv, Onboarding, HasStore, OnFile, Eligible, Served
  <2>4. SweepInv'
    BY DEF TypeInv, SweepInv, JobsInv, Onboarding, HasStore, OnFile, Eligible
  <2>5. JobsInv'
    BY DEF TypeInv, SweepInv, JobsInv, CodesInv, FilesInv, Idle, Onboarding, HasStore, OnFile, Eligible, Served
  <2> QED BY <2>1, <2>2, <2>3, <2>4, <2>5
<1>7. ASSUME NEW v \in Vendor, BackfillNext(v) PROVE AccountsInv'
  <2> USE <1>7 DEF BackfillNext, vaRows, Advance
  <2>1. TypeInv'
    BY DEF TypeInv, ProfileRow, NoProfile, Number, Job, Idle, Onboarding, HasStore, OnFile
  <2>2. CodesInv' /\ FilesInv'
    BY DEF TypeInv, JobsInv, CodesInv, FilesInv, Onboarding, HasStore, OnFile, Eligible, Served
  <2>3. ToldInv'
    BY DEF TypeInv, JobsInv, FilesInv, ToldInv, Onboarding, HasStore, OnFile, Eligible, Served
  <2>4. SweepInv'
    BY DEF TypeInv, SweepInv, JobsInv, Onboarding, HasStore, OnFile, Eligible
  <2>5. JobsInv'
    BY DEF TypeInv, SweepInv, JobsInv, CodesInv, FilesInv, Idle, Onboarding, HasStore, OnFile, Eligible, Served
  <2> QED BY <2>1, <2>2, <2>3, <2>4, <2>5
<1>8. ASSUME NEW w \in Worker, AskIdentity(w) PROVE AccountsInv'
  <2> USE <1>8 DEF AskIdentity, vaRows, Advance
  <2>1. TypeInv'
    BY DEF TypeInv, ProfileRow, NoProfile, Number, Job, Idle, Onboarding, HasStore, OnFile
  <2>2. CodesInv' /\ FilesInv'
    BY DEF TypeInv, JobsInv, CodesInv, FilesInv, Onboarding, HasStore, OnFile, Eligible, Served
  <2>3. ToldInv'
    BY DEF TypeInv, JobsInv, FilesInv, ToldInv, Onboarding, HasStore, OnFile, Eligible, Served
  <2>4. SweepInv'
    BY DEF TypeInv, SweepInv, JobsInv, Onboarding, HasStore, OnFile, Eligible
  <2>5. JobsInv'
    BY DEF TypeInv, SweepInv, JobsInv, CodesInv, FilesInv, Idle, Onboarding, HasStore, OnFile, Eligible, Served
  <2> QED BY <2>1, <2>2, <2>3, <2>4, <2>5
<1>9. ASSUME NEW w \in Worker, ProvisionVendorDVA(w) PROVE AccountsInv'
  <2> USE <1>9 DEF ProvisionVendorDVA, vaRows, Advance
  <2>1. TypeInv'
    BY DEF TypeInv, ProfileRow, NoProfile, Number, Job, Idle, Onboarding, HasStore, OnFile
  <2>2. CodesInv' /\ FilesInv'
    BY DEF TypeInv, JobsInv, CodesInv, FilesInv, Onboarding, HasStore, OnFile, Eligible, Served
  <2>3. ToldInv'
    BY DEF TypeInv, JobsInv, FilesInv, ToldInv, Onboarding, HasStore, OnFile, Eligible, Served
  <2>4. SweepInv'
    BY DEF TypeInv, SweepInv, JobsInv, Onboarding, HasStore, OnFile, Eligible
  <2>5. JobsInv'
    BY DEF TypeInv, SweepInv, JobsInv, CodesInv, FilesInv, Idle, Onboarding, HasStore, OnFile, Eligible, Served
  <2> QED BY <2>1, <2>2, <2>3, <2>4, <2>5
<1>10. ASSUME NEW w \in Worker, CreateCustomer(w) PROVE AccountsInv'
  <2> USE <1>10 DEF CreateCustomer, vaRows, Advance
  <2>1. TypeInv'
    BY DEF TypeInv, ProfileRow, NoProfile, Number, Job, Idle, Onboarding, HasStore, OnFile
  <2>2. CodesInv' /\ FilesInv'
    BY DEF TypeInv, JobsInv, CodesInv, FilesInv, Onboarding, HasStore, OnFile, Eligible, Served
  <2>3. ToldInv'
    BY DEF TypeInv, JobsInv, FilesInv, ToldInv, Onboarding, HasStore, OnFile, Eligible, Served
  <2>4. SweepInv'
    BY DEF TypeInv, SweepInv, JobsInv, Onboarding, HasStore, OnFile, Eligible
  <2>5. JobsInv'
    BY DEF TypeInv, SweepInv, JobsInv, CodesInv, FilesInv, Idle, Onboarding, HasStore, OnFile, Eligible, Served
  <2> QED BY <2>1, <2>2, <2>3, <2>4, <2>5
<1>11. ASSUME NEW w \in Worker, CreateDedicatedAccount(w) PROVE AccountsInv'
  <2> USE <1>11 DEF CreateDedicatedAccount, vaRows, Advance
  <2>1. TypeInv'
    BY DEF TypeInv, ProfileRow, NoProfile, Number, Job, Idle, Onboarding, HasStore, OnFile
  <2>2. CodesInv' /\ FilesInv'
    BY DEF TypeInv, JobsInv, CodesInv, FilesInv, Onboarding, HasStore, OnFile, Eligible, Served
  <2>3. ToldInv'
    BY DEF TypeInv, JobsInv, FilesInv, ToldInv, Onboarding, HasStore, OnFile, Eligible, Served
  <2>4. SweepInv'
    BY DEF TypeInv, SweepInv, JobsInv, Onboarding, HasStore, OnFile, Eligible
  <2>5. JobsInv'
    BY DEF TypeInv, SweepInv, JobsInv, CodesInv, FilesInv, Idle, Onboarding, HasStore, OnFile, Eligible, Served
  <2> QED BY <2>1, <2>2, <2>3, <2>4, <2>5
<1>12. ASSUME NEW w \in Worker, UpdateVendorPaystackAccount(w) PROVE AccountsInv'
  <2> USE <1>12 DEF UpdateVendorPaystackAccount, vaRows, Advance
  <2>1. TypeInv'
    BY DEF TypeInv, ProfileRow, NoProfile, Number, Job, Idle, Onboarding, HasStore, OnFile
  <2>2. CodesInv' /\ FilesInv'
    BY DEF TypeInv, JobsInv, CodesInv, FilesInv, Onboarding, HasStore, OnFile, Eligible, Served
  <2>3. ToldInv'
    BY DEF TypeInv, JobsInv, FilesInv, ToldInv, Onboarding, HasStore, OnFile, Eligible, Served
  <2>4. SweepInv'
    BY DEF TypeInv, SweepInv, JobsInv, Onboarding, HasStore, OnFile, Eligible
  <2>5. JobsInv'
    <3>1. PICK v \in Vendor : v = job[w].vendor
      BY DEF TypeInv, Job, Idle
    <3>2. HasStore(v) /\ Served(v)'
      BY <3>1 DEF TypeInv, JobsInv, HasStore, Eligible, Served, Onboarding
    <3>3. \A u \in Vendor : (HasStore(u) => HasStore(u)') /\ (Onboarding(u) => Onboarding(u)')
                            /\ (Served(u) => Served(u)')
      BY <3>1, <3>2 DEF TypeInv, HasStore, Eligible, Served, Onboarding
    <3>4. job'[w].step = "mail" /\ job'[w].vendor = v /\ job'[w].number \in {v} \X Serial
      BY <3>1 DEF TypeInv, JobsInv
    <3>5. \A x \in Worker : x # w => job'[x] = job[x]
      BY DEF TypeInv
    <3>6. \A x \in Worker : job[x].step \in {"triggered", "asked", "customer", "account", "persist", "mail"}
                                => job[x].vendor \in Vendor
      BY DEF TypeInv, Job, Idle
    <3> HIDE <1>12 DEF UpdateVendorPaystackAccount
    <3> QED BY <3>1, <3>2, <3>3, <3>4, <3>5, <3>6 DEF JobsInv, Served, Eligible
  <2> QED BY <2>1, <2>2, <2>3, <2>4, <2>5
<1>13. ASSUME NEW w \in Worker, SendAccountReady(w) PROVE AccountsInv'
  <2> USE <1>13 DEF SendAccountReady, vaRows, Advance
  <2>1. TypeInv'
    BY DEF TypeInv, ProfileRow, NoProfile, Number, Job, Idle, Onboarding, HasStore, OnFile
  <2>2. CodesInv' /\ FilesInv'
    BY DEF TypeInv, JobsInv, CodesInv, FilesInv, Onboarding, HasStore, OnFile, Eligible, Served
  <2>3. ToldInv'
    BY DEF TypeInv, JobsInv, FilesInv, ToldInv, Onboarding, HasStore, OnFile, Eligible, Served
  <2>4. SweepInv'
    BY DEF TypeInv, SweepInv, JobsInv, Onboarding, HasStore, OnFile, Eligible
  <2>5. JobsInv'
    BY DEF TypeInv, SweepInv, JobsInv, CodesInv, FilesInv, Idle, Onboarding, HasStore, OnFile, Eligible, Served
  <2> QED BY <2>1, <2>2, <2>3, <2>4, <2>5
<1>14. ASSUME NEW w \in Worker, Fail(w) PROVE AccountsInv'
  <2> USE <1>14 DEF Fail, vaRows, Advance
  <2>1. TypeInv'
    BY DEF TypeInv, ProfileRow, NoProfile, Number, Job, Idle, Onboarding, HasStore, OnFile
  <2>2. CodesInv' /\ FilesInv'
    BY DEF TypeInv, JobsInv, CodesInv, FilesInv, Onboarding, HasStore, OnFile, Eligible, Served
  <2>3. ToldInv'
    BY DEF TypeInv, JobsInv, FilesInv, ToldInv, Onboarding, HasStore, OnFile, Eligible, Served
  <2>4. SweepInv'
    BY DEF TypeInv, SweepInv, JobsInv, Onboarding, HasStore, OnFile, Eligible
  <2>5. JobsInv'
    BY DEF TypeInv, SweepInv, JobsInv, CodesInv, FilesInv, Idle, Onboarding, HasStore, OnFile, Eligible, Served
  <2> QED BY <2>1, <2>2, <2>3, <2>4, <2>5
<1>15. ASSUME Restart PROVE AccountsInv'
  <2> USE <1>15 DEF Restart, vaRows, Advance
  <2>1. TypeInv'
    BY DEF TypeInv, ProfileRow, NoProfile, Number, Job, Idle, Onboarding, HasStore, OnFile
  <2>2. CodesInv' /\ FilesInv'
    BY DEF TypeInv, JobsInv, CodesInv, FilesInv, Onboarding, HasStore, OnFile, Eligible, Served
  <2>3. ToldInv'
    BY DEF TypeInv, JobsInv, FilesInv, ToldInv, Onboarding, HasStore, OnFile, Eligible, Served
  <2>4. SweepInv'
    BY DEF TypeInv, SweepInv, JobsInv, Onboarding, HasStore, OnFile, Eligible
  <2>5. JobsInv'
    BY DEF TypeInv, SweepInv, JobsInv, CodesInv, FilesInv, Idle, Onboarding, HasStore, OnFile, Eligible, Served
  <2> QED BY <2>1, <2>2, <2>3, <2>4, <2>5
<1> QED
  BY <1>1, <1>2, <1>3, <1>4, <1>5, <1>6, <1>7, <1>8, <1>9, <1>10, <1>11, <1>12, <1>13, <1>14, <1>15 DEF VirtualAccountsNext, Provision

LEMMA AccountsStutter == AccountsInv /\ UNCHANGED vaVars => AccountsInv'
<1> QED
  BY DEF vaVars, AccountsInv, TypeInv, CodesInv, FilesInv, ToldInv, SweepInv, JobsInv, Onboarding, HasStore,
         OnFile, Eligible, Served

-----------------------------------------------------------------------------
(* Transfers and the wallet. *)

LEMMA ToldGrows == AccountsInv /\ VirtualAccountsNext => \A v \in Vendor : told[v] \subseteq told'[v]
<1> SUFFICES ASSUME AccountsInv, VirtualAccountsNext PROVE \A v \in Vendor : told[v] \subseteq told'[v]
  OBVIOUS
<1>1. told \in [Vendor -> SUBSET Number]
  BY DEF AccountsInv, TypeInv
<1>2. CASE told' = told
  BY <1>2
<1>3. CASE \E v \in Vendor : GetVendorProfile(v)
  BY <1>1, <1>3 DEF GetVendorProfile
<1>4. CASE \E w \in Worker : SendAccountReady(w)
  BY <1>1, <1>4 DEF SendAccountReady
<1> QED
  BY <1>2, <1>3, <1>4
     DEF VirtualAccountsNext, Provision, StartVendorOnboarding, UpdateMe, CreateStore, UpdateStore,
         BackfillMissingDVAs, BackfillNext, AskIdentity, ProvisionVendorDVA, CreateCustomer,
         CreateDedicatedAccount, UpdateVendorPaystackAccount, Fail, Restart, vaRows

LEMMA AccountsMoney ==
  IInv /\ VirtualAccountsNext /\ UNCHANGED <<walletVars, deposit>> => MoneyTypes' /\ PaidInv' /\ CreditedInv'
<1> SUFFICES ASSUME IInv, VirtualAccountsNext, UNCHANGED <<walletVars, deposit>>
             PROVE  MoneyTypes' /\ PaidInv' /\ CreditedInv'
  OBVIOUS
<1>1. \A v \in Vendor : told[v] \subseteq told'[v]
  BY ToldGrows DEF IInv
<1>2. \A d \in Deposit : deposit[d].state # "none" => deposit[d].payee \in Vendor
  BY DEF IInv, MoneyTypes, DepositRow, NoDeposit
<1> QED
  BY <1>1, <1>2 DEF IInv, MoneyTypes, PaidInv, CreditedInv, walletVars, Booked

(* The wallet's own handlers touch an order's row or a withdrawal's. *)

LEMMA WalletStep ==
  MoneyTypes /\ WalletNext =>
    DOMAIN ledger' = Reference /\ \A d \in Deposit : ledger'[d] = ledger[d]
<1> SUFFICES ASSUME MoneyTypes, WalletNext
             PROVE  DOMAIN ledger' = Reference /\ \A d \in Deposit : ledger'[d] = ledger[d]
  OBVIOUS
<1> USE WalletAssumption DEF MoneyTypes, Reference
<1>1. ASSUME NEW o \in Order, NEW v \in Store, NEW a \in Kobo, CreditVendor(o, v, a)
      PROVE  DOMAIN ledger' = Reference /\ \A d \in Deposit : ledger'[d] = ledger[d]
  BY <1>1 DEF CreditVendor, InsertCredit
<1>2. ASSUME NEW o \in Order, Release(o) \/ VoidHeld(o) \/ VoidDisputed(o)
      PROVE  DOMAIN ledger' = Reference /\ \A d \in Deposit : ledger'[d] = ledger[d]
  BY <1>2 DEF Release, VoidHeld, VoidDisputed
<1>3. ASSUME NEW w \in Teller, NEW p \in Payout, WithdrawInsert(w, p)
      PROVE  DOMAIN ledger' = Reference /\ \A d \in Deposit : ledger'[d] = ledger[d]
  BY <1>3 DEF WithdrawInsert
<1> QED
  BY <1>1, <1>2, <1>3 DEF WalletNext, WithdrawRead, WithdrawFails

LEMMA WalletMoney ==
  IInv /\ WalletNext /\ UNCHANGED <<vaVars, deposit>> => MoneyTypes' /\ PaidInv' /\ CreditedInv'
BY WalletStep DEF IInv, MoneyTypes, PaidInv, CreditedInv, vaVars, Booked

LEMMA TransferStep ==
  ASSUME IInv, NEW d \in Deposit, NEW v \in Vendor, NEW n \in Number, NEW a \in Kobo, Transfer(d, v, n, a)
  PROVE  MoneyTypes' /\ PaidInv' /\ CreditedInv'
<1> USE DEF IInv, Transfer
<1>1. deposit' = [deposit EXCEPT ![d] = [state |-> "paid", payee |-> v, number |-> n, amount |-> a]]
  OBVIOUS
<1>2. MoneyTypes'
  BY <1>1 DEF MoneyTypes, DepositRow, walletVars
<1>3. PaidInv'
  BY <1>1 DEF MoneyTypes, PaidInv, walletVars, vaVars, Booked
<1>4. CreditedInv'
  BY <1>1 DEF MoneyTypes, CreditedInv, walletVars, Booked
<1> QED BY <1>2, <1>3, <1>4

(* One vendor answers to a number a transfer was made to. *)

LEMMA OnePayee ==
  ASSUME IInv, NEW d \in Deposit, deposit[d].state # "none"
  PROVE  StoresOf(deposit[d].number) = {deposit[d].payee}
<1>1. PICK v \in Vendor : v = deposit[d].payee
  BY DEF IInv, MoneyTypes, DepositRow, NoDeposit
<1>2. PICK n : n = deposit[d].number
  OBVIOUS
<1>3. n \in told[v]
  BY <1>1, <1>2 DEF IInv, PaidInv
<1>4. Served(v) /\ Holder(n) = v
  BY <1>3 DEF IInv, AccountsInv, ToldInv, Holder
<1>5. \A u \in Vendor : Onboarding(u) /\ profile[u].customer = v => u = v
  BY VirtualAccountsAssumption DEF IInv, AccountsInv, CodesInv
<1>6. StoresOf(n) = {v}
  BY <1>4, <1>5 DEF StoresOf, Served, Eligible
<1> QED BY <1>1, <1>2, <1>6

LEMMA WebhookStep ==
  ASSUME IInv, NEW d \in Deposit, HandlePaystackWebhook(d)
  PROVE  MoneyTypes' /\ PaidInv' /\ CreditedInv'
<1> USE WalletAssumption
<1>1. deposit[d].state # "none" /\ deposit' = [deposit EXCEPT ![d].state = "answered"] /\ told' = told
  BY DEF HandlePaystackWebhook, vaVars
<1>2. PICK v \in Vendor : v = deposit[d].payee
  BY <1>1 DEF IInv, MoneyTypes, DepositRow, NoDeposit
<1>3. StoresOf(deposit[d].number) = {v}
  BY <1>1, <1>2, OnePayee
<1>4. InsertCredit(d, v, deposit[d].amount, "completed")
  BY <1>3 DEF HandlePaystackWebhook
<1>5. deposit' \in [Deposit -> DepositRow]
  BY <1>1 DEF IInv, MoneyTypes, DepositRow, NoDeposit
<1>6. \A e \in Deposit : /\ deposit[e].state # "none" =>
                                /\ deposit'[e].state # "none"
                                /\ deposit'[e].payee = deposit[e].payee
                                /\ deposit'[e].number = deposit[e].number
                                /\ deposit'[e].amount = deposit[e].amount
                         /\ e # d => deposit'[e] = deposit[e]
  BY <1>1 DEF IInv, MoneyTypes, DepositRow, NoDeposit
<1>7. /\ DOMAIN ledger' = Reference
      /\ \A e \in Deposit : e # d => ledger'[e] = ledger[e]
      /\ Booked(d) => ledger'[d] = ledger[d]
      /\ ~Booked(d) => /\ ledger'[d].type = "credit" /\ ledger'[d].store = v
                       /\ ledger'[d].amount = deposit[d].amount /\ ledger'[d].status = "completed"
  BY <1>4 DEF InsertCredit, IInv, MoneyTypes, Reference
<1>8. MoneyTypes'
  BY <1>5, <1>7 DEF MoneyTypes
<1>9. PaidInv'
  BY <1>1, <1>6, <1>7 DEF IInv, PaidInv, Booked
<1>10. CreditedInv'
  BY <1>1, <1>2, <1>6, <1>7 DEF IInv, CreditedInv, Booked
<1> QED BY <1>8, <1>9, <1>10

LEMMA WebhookFailsStep ==
  ASSUME IInv, NEW d \in Deposit, WebhookFails(d)
  PROVE  MoneyTypes' /\ PaidInv' /\ CreditedInv'
<1> USE DEF IInv, WebhookFails
<1>1. deposit[d].state = "paid" /\ deposit' = [deposit EXCEPT ![d].state = "dropped"]
  OBVIOUS
<1>2. MoneyTypes'
  BY <1>1 DEF MoneyTypes, DepositRow, NoDeposit, walletVars
<1>3. PaidInv'
  BY <1>1 DEF MoneyTypes, DepositRow, NoDeposit, PaidInv, walletVars, vaVars, Booked
<1>4. CreditedInv'
  BY <1>1 DEF MoneyTypes, DepositRow, NoDeposit, CreditedInv, walletVars, Booked
<1> QED BY <1>2, <1>3, <1>4

-----------------------------------------------------------------------------
(* The inductive step, and the theorem. *)

LEMMA NextIInv == IInv /\ [MoneyNext]_moneyVars => IInv'
<1> SUFFICES ASSUME IInv, [MoneyNext]_moneyVars PROVE IInv'
  OBVIOUS
<1>1. CASE VirtualAccountsNext /\ UNCHANGED <<walletVars, deposit>>
  BY <1>1, AccountsStep, AccountsMoney DEF IInv
<1>2. ASSUME UNCHANGED vaVars PROVE AccountsInv'
  BY <1>2, AccountsStutter DEF IInv
<1>3. CASE WalletNext /\ UNCHANGED <<vaVars, deposit>>
  BY <1>2, <1>3, WalletMoney DEF IInv
<1>4. ASSUME NEW d \in Deposit, NEW v \in Vendor, NEW n \in Number, NEW a \in Kobo, Transfer(d, v, n, a)
      PROVE  IInv'
  BY <1>2, <1>4, TransferStep DEF IInv, Transfer
<1>5. ASSUME NEW d \in Deposit, HandlePaystackWebhook(d) PROVE IInv'
  <2>1. MoneyTypes' /\ PaidInv' /\ CreditedInv'
    BY <1>5, WebhookStep
  <2>2. UNCHANGED vaVars
    BY <1>5 DEF HandlePaystackWebhook
  <2> QED BY <1>2, <2>1, <2>2 DEF IInv
<1>6. ASSUME NEW d \in Deposit, WebhookFails(d) PROVE IInv'
  BY <1>2, <1>6, WebhookFailsStep DEF IInv, WebhookFails
<1>7. CASE UNCHANGED moneyVars
  <2>1. UNCHANGED vaVars /\ UNCHANGED <<walletVars, deposit>>
    BY <1>7 DEF moneyVars
  <2>2. MoneyTypes' /\ PaidInv' /\ CreditedInv'
    BY <2>1 DEF IInv, MoneyTypes, PaidInv, CreditedInv, vaVars, walletVars, Booked
  <2> QED BY <1>2, <2>1, <2>2 DEF IInv
<1> QED
  BY <1>1, <1>3, <1>4, <1>5, <1>6, <1>7 DEF MoneyNext

THEOREM MoneyInvariant == MoneySpec => []IInv
<1> QED BY InitIInv, NextIInv, PTL DEF MoneySpec

\* Whatever provisioning does twice, loses or repeats, a handled transfer is the named
\* vendor's, once and in full.
THEOREM DepositsDoReachVendor == MoneySpec => []DepositsReachVendor
<1>1. IInv => DepositsReachVendor
  BY DEF IInv, PaidInv, CreditedInv, DepositsReachVendor
<1> QED BY <1>1, MoneyInvariant, PTL

-----------------------------------------------------------------------------
(* What a store can have been paid.  The sums of Solvent move by what one  *)
(* row of the ledger moves; the invariant remembers that a released credit *)
(* is marked so and that a withdrawal was read to be covered.              *)

ReleasedInv == \A r \in Reference : Booked(r) /\ ledger[r].type = "credit" /\ ledger[r].status = "completed" => ledger[r].past

DecidedInv == \A w \in Teller : teller[w].op = "paying" => teller[w].amount <= teller[w].read

WalletInv == WalletTypeOK /\ ReleasedInv /\ DecidedInv /\ Solvent

Worth(v) == Balance(v) + SumOver(Overtaken(v)) + SumOver(Reclaimed(v))

Counted(r, S) == IF r \in S THEN Amount[r] ELSE 0

RowWorth(v, r) ==
    Counted(r, RowsOf(v, "credit", "completed")) - Counted(r, RowsOf(v, "debit", "completed"))
        + Counted(r, Overtaken(v)) + Counted(r, Reclaimed(v))

LEMMA FiniteReferences == IsFiniteSet(Reference)
  BY WalletAssumption, FS_Union DEF Reference

LEMMA RowsWithin ==
    ASSUME NEW v
    PROVE  /\ \A type, status : RowsOf(v, type, status) \in SUBSET Reference
           /\ Overtaken(v) \in SUBSET Reference
           /\ Reclaimed(v) \in SUBSET Reference
  BY DEF RowsOf, Overtaken, Reclaimed

LEMMA RowType ==
    ASSUME NEW row \in LedgerRow, row.type # "none"
    PROVE  /\ row.type \in {"credit", "debit"} /\ row.store \in Store /\ row.amount \in Nat \ {0}
           /\ row.amount \in Kobo /\ row.status \in {"pending", "completed", "failed"}
           /\ row.past \in BOOLEAN
<1>1. row # NoRow
  BY DEF NoRow
<1>2. row \in [type: {"credit", "debit"}, store: Store, amount: Kobo,
                status: {"pending", "completed", "failed"}, past: BOOLEAN]
  BY <1>1 DEF LedgerRow
<1>3. QED
  BY <1>2, WalletAssumption

LEMMA AmountsType ==
    ASSUME NEW L \in [Reference -> LedgerRow]
    PROVE  [r \in Reference |-> IF L[r].type # "none" THEN L[r].amount ELSE 0] \in [Reference -> Nat]
<1>1. \A r \in Reference : L[r].type # "none" => L[r].amount \in Nat
  BY RowType
<1>2. QED
  BY <1>1

LEMMA AmountType ==
    /\ WalletTypeOK => Amount \in [Reference -> Nat] /\ Amount \in [Reference -> Int]
    /\ WalletTypeOK' => Amount' \in [Reference -> Nat] /\ Amount' \in [Reference -> Int]
<1>1. WalletTypeOK => Amount \in [Reference -> Nat]
  BY AmountsType DEF WalletTypeOK, Amount, Booked
<1>2. WalletTypeOK' => Amount' \in [Reference -> Nat]
  BY AmountsType DEF WalletTypeOK, Amount, Booked
<1>3. QED
  BY <1>1, <1>2

\* Every sum of a store's rows is a whole number, and none but a balance is negative.
LEMMA SumsOfRows ==
    ASSUME WalletTypeOK, NEW S \in SUBSET Reference
    PROVE  SumOver(S) \in Nat
  BY AmountType, FiniteReferences, SumNat DEF SumOver

\* One row changes, and the sum over a kind of rows by no more than that row.
LEMMA SumOverMoves ==
    ASSUME WalletTypeOK, WalletTypeOK', NEW r \in Reference,
           \A x \in Reference \ {r} : ledger'[x] = ledger[x],
           NEW S \in SUBSET Reference, NEW T \in SUBSET Reference,
           \A x \in Reference \ {r} : x \in S <=> x \in T
    PROVE  SumFunctionOnSet(Amount', T)
             = SumOver(S) - Counted(r, S) + (IF r \in T THEN Amount'[r] ELSE 0)
<1> DEFINE F == Part(Amount, S)
           G == Part(Amount', T)
<1>1. Amount \in [Reference -> Int] /\ Amount' \in [Reference -> Int]
  BY AmountType
<1>2. \A x \in Reference \ {r} : Amount'[x] = Amount[x]
  BY DEF Amount, Booked
<1>3. /\ F \in [Reference -> Int]
      /\ \A x \in Reference : F[x] = IF x \in S THEN Amount[x] ELSE 0
  BY <1>1, PartType
<1>4. /\ G \in [Reference -> Int]
      /\ \A x \in Reference : G[x] = IF x \in T THEN Amount'[x] ELSE 0
  BY <1>1, PartType
<1>5. SumFunctionOnSet(Amount, S) = SumFunctionOnSet(F, Reference)
  BY <1>1, FiniteReferences, SumOfPart
<1>6. SumFunctionOnSet(Amount', T) = SumFunctionOnSet(G, Reference)
  BY <1>1, FiniteReferences, SumOfPart
<1> HIDE DEF F, G
<1>7. \A x \in Reference \ {r} : F[x] = G[x]
  BY <1>2, <1>3, <1>4
<1>8. SumFunctionOnSet(G, Reference) = SumFunctionOnSet(F, Reference) - F[r] + G[r]
  BY <1>3, <1>4, <1>7, FiniteReferences, SumMoves
<1>9. QED
  BY <1>3, <1>4, <1>5, <1>6, <1>8 DEF SumOver, Counted

\* So does what a store is worth.
LEMMA WorthMoves ==
    ASSUME WalletTypeOK, WalletTypeOK', NEW r \in Reference,
           \A x \in Reference \ {r} : ledger'[x] = ledger[x], NEW v \in Store
    PROVE  Worth(v)' = Worth(v) - RowWorth(v, r) + RowWorth(v, r)'
<1>1. ASSUME NEW type, NEW status
      PROVE  SumOver(RowsOf(v, type, status))' =
               SumOver(RowsOf(v, type, status)) - Counted(r, RowsOf(v, type, status))
                 + Counted(r, RowsOf(v, type, status))'
  <2>1. \A x \in Reference \ {r} : x \in RowsOf(v, type, status) <=> x \in RowsOf(v, type, status)'
    BY DEF RowsOf, Booked
  <2>2. RowsOf(v, type, status) \in SUBSET Reference /\ RowsOf(v, type, status)' \in SUBSET Reference
    BY DEF RowsOf
  <2>3. QED
    BY <2>1, <2>2, SumOverMoves DEF SumOver, Counted
<1>2. SumOver(Overtaken(v))' = SumOver(Overtaken(v)) - Counted(r, Overtaken(v)) + Counted(r, Overtaken(v))'
  <2>1. \A x \in Reference \ {r} : x \in Overtaken(v) <=> x \in Overtaken(v)'
    BY DEF Overtaken, RowsOf, Booked
  <2>2. Overtaken(v) \in SUBSET Reference /\ Overtaken(v)' \in SUBSET Reference
    BY DEF Overtaken, RowsOf
  <2>3. QED
    BY <2>1, <2>2, SumOverMoves DEF SumOver, Counted
<1>3. SumOver(Reclaimed(v))' = SumOver(Reclaimed(v)) - Counted(r, Reclaimed(v)) + Counted(r, Reclaimed(v))'
  <2>1. \A x \in Reference \ {r} : x \in Reclaimed(v) <=> x \in Reclaimed(v)'
    BY DEF Reclaimed, RowsOf, Booked
  <2>2. Reclaimed(v) \in SUBSET Reference /\ Reclaimed(v)' \in SUBSET Reference
    BY DEF Reclaimed, RowsOf
  <2>3. QED
    BY <2>1, <2>2, SumOverMoves DEF SumOver, Counted
<1>4. \A S \in SUBSET Reference : SumOver(S) \in Nat
  BY SumsOfRows
<1>5. Amount[r] \in Nat /\ Amount'[r] \in Nat
  BY AmountType
<1>6. /\ SumOver(RowsOf(v, "credit", "completed")) \in Nat
      /\ SumOver(RowsOf(v, "debit", "completed")) \in Nat
      /\ SumOver(Overtaken(v)) \in Nat /\ SumOver(Reclaimed(v)) \in Nat
  BY <1>4, RowsWithin
<1>7. /\ Counted(r, RowsOf(v, "credit", "completed")) \in Nat
      /\ Counted(r, RowsOf(v, "debit", "completed")) \in Nat
      /\ Counted(r, Overtaken(v)) \in Nat /\ Counted(r, Reclaimed(v)) \in Nat
      /\ Counted(r, RowsOf(v, "credit", "completed"))' \in Nat
      /\ Counted(r, RowsOf(v, "debit", "completed"))' \in Nat
      /\ Counted(r, Overtaken(v))' \in Nat /\ Counted(r, Reclaimed(v))' \in Nat
  BY <1>5 DEF Counted
<1>8. QED
  BY <1>1, <1>2, <1>3, <1>6, <1>7 DEF Worth, RowWorth, Balance

\* What one row is worth to a store, by its kind.
RowShare(row, v) ==
    IF row.type = "none" THEN 0
    ELSE IF row.store # v THEN 0
    ELSE IF row.type = "credit"
         THEN IF row.status = "completed" \/ (row.status = "failed" /\ row.past) THEN row.amount ELSE 0
         ELSE IF row.status = "completed" /\ ~row.past THEN 0 - row.amount ELSE 0

LEMMA RowWorthIs ==
    ASSUME NEW v, NEW r \in Reference
    PROVE  /\ WalletTypeOK => RowWorth(v, r) = RowShare(ledger[r], v) /\ RowShare(ledger[r], v) \in Int
           /\ WalletTypeOK' => RowWorth(v, r)' = RowShare(ledger'[r], v) /\ RowShare(ledger'[r], v) \in Int
<1>1. ASSUME WalletTypeOK
      PROVE  RowWorth(v, r) = RowShare(ledger[r], v) /\ RowShare(ledger[r], v) \in Int
  <2>1. Booked(r) => /\ ledger[r].amount \in Nat /\ ledger[r].type \in {"credit", "debit"}
                     /\ ledger[r].status \in {"pending", "completed", "failed"}
                     /\ ledger[r].past \in BOOLEAN
                     /\ Amount[r] = ledger[r].amount
    BY <1>1, RowType DEF WalletTypeOK, Booked, Amount
  <2>2. QED
    BY <2>1 DEF RowWorth, Counted, RowsOf, Overtaken, Reclaimed, RowShare, Booked
<1>2. ASSUME WalletTypeOK'
      PROVE  RowWorth(v, r)' = RowShare(ledger'[r], v) /\ RowShare(ledger'[r], v) \in Int
  <2>1. ledger'[r].type # "none" =>
           /\ ledger'[r].amount \in Nat /\ ledger'[r].type \in {"credit", "debit"}
           /\ ledger'[r].status \in {"pending", "completed", "failed"}
           /\ ledger'[r].past \in BOOLEAN
           /\ Amount'[r] = ledger'[r].amount
    BY <1>2, RowType DEF WalletTypeOK, Booked, Amount
  <2>2. QED
    BY <2>1 DEF RowWorth, Counted, RowsOf, Overtaken, Reclaimed, RowShare, Booked
<1>3. QED
  BY <1>1, <1>2

LEMMA WorthIs ==
    ASSUME WalletTypeOK, NEW v \in Store
    PROVE  Worth(v) \in Int /\ Balance(v) \in Int /\ Balance(v) <= Worth(v)
<1>1. /\ SumOver(RowsOf(v, "credit", "completed")) \in Nat
      /\ SumOver(RowsOf(v, "debit", "completed")) \in Nat
      /\ SumOver(Overtaken(v)) \in Nat /\ SumOver(Reclaimed(v)) \in Nat
  BY RowsWithin, SumsOfRows
<1>2. QED
  BY <1>1 DEF Worth, Balance

\* A row that comes to be worth no less leaves every store solvent.
LEMMA StaysSolvent ==
    ASSUME WalletTypeOK, Solvent, WalletTypeOK', NEW r \in Reference,
           \A x \in Reference \ {r} : ledger'[x] = ledger[x],
           \A v \in Store : RowShare(ledger[r], v) <= RowShare(ledger'[r], v)
    PROVE  Solvent'
<1>1. SUFFICES ASSUME NEW v \in Store PROVE Worth(v)' >= 0
  BY DEF Solvent, Worth
<1>2. Worth(v)' = Worth(v) - RowWorth(v, r) + RowWorth(v, r)'
  BY WorthMoves
<1>3. /\ RowWorth(v, r) = RowShare(ledger[r], v) /\ RowShare(ledger[r], v) \in Int
      /\ RowWorth(v, r)' = RowShare(ledger'[r], v) /\ RowShare(ledger'[r], v) \in Int
  BY RowWorthIs
<1>4. Worth(v) >= 0 /\ Worth(v) \in Int
  BY WorthIs DEF Solvent, Worth
<1>5. QED
  BY <1>2, <1>3, <1>4

LEMMA InsertCreditStep ==
    ASSUME WalletInv, NEW r \in Reference, NEW v \in Store, NEW a \in Kobo,
           NEW status \in {"pending", "completed"}, InsertCredit(r, v, a, status), UNCHANGED teller
    PROVE  WalletInv'
<1> DEFINE row == [type |-> "credit", store |-> v, amount |-> a, status |-> status, past |-> status = "completed"]
<1>1. CASE Booked(r)
  <2>1. ledger' = ledger
    BY <1>1 DEF InsertCredit
  <2>2. QED
    BY <2>1 DEF WalletInv, WalletTypeOK, ReleasedInv, DecidedInv, Solvent, Balance, SumOver, Amount,
                RowsOf, Overtaken, Reclaimed, Booked
<1>2. CASE ~Booked(r)
  <2>1. ledger' = [ledger EXCEPT ![r] = row] /\ row \in LedgerRow
    BY <1>2 DEF InsertCredit, LedgerRow
  <2>2. WalletTypeOK'
    BY <2>1 DEF WalletInv, WalletTypeOK
  <2>3. ledger'[r] = row /\ \A x \in Reference \ {r} : ledger'[x] = ledger[x]
    BY <2>1 DEF WalletInv, WalletTypeOK
  <2>4. ReleasedInv'
    <3>1. row.status = "completed" => row.past
      OBVIOUS
    <3> HIDE DEF row
    <3>2. QED
      BY <2>3, <3>1 DEF WalletInv, ReleasedInv, Booked
  <2>5. DecidedInv'
    BY DEF WalletInv, DecidedInv
  <2>6. \A u \in Store : RowShare(ledger[r], u) <= RowShare(ledger'[r], u)
    <3>1. a \in Nat
      BY WalletAssumption
    <3>2. QED
      BY <1>2, <2>3, <3>1 DEF RowShare, Booked
  <2>7. Solvent'
    BY <2>2, <2>3, <2>6, StaysSolvent DEF WalletInv
  <2>8. QED
    BY <2>2, <2>4, <2>5, <2>7 DEF WalletInv
<1>3. QED
  BY <1>1, <1>2

\* An order's credit is released or voided.
LEMMA CreditMovesStep ==
    ASSUME WalletInv, NEW o \in Order, Release(o) \/ VoidHeld(o) \/ VoidDisputed(o)
    PROVE  WalletInv'
<1>1. o \in Reference /\ Booked(o) /\ ledger \in [Reference -> LedgerRow] /\ UNCHANGED teller
  BY DEF Reference, Release, VoidHeld, VoidDisputed, WalletInv, WalletTypeOK
<1>2. ledger[o] \in [type: {"credit", "debit"}, store: Store, amount: Kobo,
                     status: {"pending", "completed", "failed"}, past: BOOLEAN]
  BY <1>1 DEF LedgerRow, NoRow, Booked
<1>3. \E status \in {"completed", "failed"}, past \in BOOLEAN :
         /\ ledger' = [ledger EXCEPT ![o] = [type |-> ledger[o].type, store |-> ledger[o].store,
                                             amount |-> ledger[o].amount, status |-> status, past |-> past]]
         /\ status = "completed" => past /\ ledger[o].status = "pending"
         /\ status = "failed" => past = ledger[o].past
  <2>1. CASE Release(o)
    <3>1. ledger' = [ledger EXCEPT ![o] = [type |-> ledger[o].type, store |-> ledger[o].store,
                                           amount |-> ledger[o].amount, status |-> "completed", past |-> TRUE]]
      <4> DEFINE kept == [ledger[o] EXCEPT !.status = "completed"]
      <4>1. ledger' = [[ledger EXCEPT ![o] = kept] EXCEPT ![o].past = TRUE]
        BY <2>1 DEF Release
      <4>2. kept = [type |-> ledger[o].type, store |-> ledger[o].store, amount |-> ledger[o].amount,
                    status |-> "completed", past |-> ledger[o].past]
        BY <1>2
      <4> HIDE DEF kept
      <4>3. ledger' = [ledger EXCEPT ![o] = [kept EXCEPT !.past = TRUE]]
        BY <1>1, <4>1
      <4>4. [kept EXCEPT !.past = TRUE] = [type |-> ledger[o].type, store |-> ledger[o].store,
                amount |-> ledger[o].amount, status |-> "completed", past |-> TRUE]
        <5>1. ASSUME NEW b PROVE [kept EXCEPT !.past = b] = [type |-> ledger[o].type, store |-> ledger[o].store,
                amount |-> ledger[o].amount, status |-> "completed", past |-> b]
          BY <4>2
        <5>2. QED
          BY <5>1
      <4>5. QED
        BY <4>3, <4>4
    <3>2. QED
      BY <2>1, <3>1 DEF Release
  <2>2. CASE VoidHeld(o) \/ VoidDisputed(o)
    BY <1>1, <1>2, <2>2 DEF VoidHeld, VoidDisputed
  <2>3. QED
    BY <2>1, <2>2
<1>4. PICK status \in {"completed", "failed"}, past \in BOOLEAN :
         /\ ledger' = [ledger EXCEPT ![o] = [type |-> ledger[o].type, store |-> ledger[o].store,
                                             amount |-> ledger[o].amount, status |-> status, past |-> past]]
         /\ status = "completed" => past /\ ledger[o].status = "pending"
         /\ status = "failed" => past = ledger[o].past
  BY <1>3
<1> DEFINE row == [type |-> ledger[o].type, store |-> ledger[o].store,
                   amount |-> ledger[o].amount, status |-> status, past |-> past]
<1>5. row \in LedgerRow
  BY <1>2 DEF LedgerRow
<1>6. ledger'[o] = row /\ \A x \in Reference \ {o} : ledger'[x] = ledger[x]
  BY <1>1, <1>4
<1>7. WalletTypeOK'
  BY <1>1, <1>4, <1>5 DEF WalletInv, WalletTypeOK
<1>8. ReleasedInv'
  BY <1>4, <1>6 DEF WalletInv, ReleasedInv, Booked
<1>9. DecidedInv'
  BY <1>1 DEF WalletInv, DecidedInv
<1>10. \A u \in Store : RowShare(ledger[o], u) <= RowShare(ledger'[o], u)
  <2>1. ledger[o].amount \in Nat
    BY <1>2, WalletAssumption
  <2>2. ledger[o].type = "credit" /\ ledger[o].status = "completed" => ledger[o].past
    BY <1>1 DEF WalletInv, ReleasedInv
  <2>3. ASSUME NEW u \in Store, ledger[o].type = "credit"
        PROVE  RowShare(ledger[o], u) <= RowShare(ledger'[o], u)
    BY <1>2, <1>4, <1>6, <2>1, <2>2, <2>3 DEF RowShare
  <2>4. ASSUME NEW u \in Store, ledger[o].type = "debit"
        PROVE  RowShare(ledger[o], u) <= RowShare(ledger'[o], u)
    BY <1>2, <1>4, <1>6, <2>1, <2>4 DEF RowShare
  <2>5. QED
    BY <1>2, <2>3, <2>4
<1>11. Solvent'
  BY <1>1, <1>6, <1>7, <1>10, StaysSolvent DEF WalletInv
<1>12. QED
  BY <1>7, <1>8, <1>9, <1>11 DEF WalletInv

LEMMA WithdrawReadStep ==
    ASSUME WalletInv, NEW w \in Teller, NEW v \in Store, NEW a \in Kobo, WithdrawRead(w, v, a)
    PROVE  WalletInv'
<1>1. Balance(v) \in Int /\ a <= Balance(v) /\ ledger' = ledger
  BY WorthIs DEF WalletInv, WithdrawRead
<1>2. WalletTypeOK'
  BY <1>1 DEF WalletInv, WalletTypeOK, WithdrawRead, Withdrawal
<1>3. DecidedInv'
  BY <1>1 DEF WalletInv, WalletTypeOK, DecidedInv, WithdrawRead
<1>4. ReleasedInv' /\ Solvent'
  BY <1>1 DEF WalletInv, ReleasedInv, Solvent, Balance, SumOver, Amount, RowsOf, Overtaken, Reclaimed, Booked
<1>5. QED
  BY <1>2, <1>3, <1>4 DEF WalletInv

\* A withdrawal that was covered when it is booked leaves what it was covered by.
LEMMA WithdrawInsertStep ==
    ASSUME WalletInv, NEW w \in Teller, NEW p \in Payout, WithdrawInsert(w, p)
    PROVE  WalletInv'
<1>1. p \in Reference /\ ledger \in [Reference -> LedgerRow] /\ teller \in [Teller -> Withdrawal]
  BY DEF Reference, WalletInv, WalletTypeOK
<1>2. teller[w].op = "paying" /\ ~Booked(p)
  BY DEF WithdrawInsert
<1>3. teller[w].store \in Store /\ teller[w].amount \in Kobo /\ teller[w].read \in Int
      /\ teller[w].amount <= teller[w].read /\ teller[w].amount \in Nat
  <2>1. teller[w] \in [op: {"paying"}, store: Store, amount: Kobo, read: Int]
    BY <1>1, <1>2 DEF Withdrawal, Away
  <2>2. teller[w].amount <= teller[w].read
    BY <1>2 DEF WalletInv, DecidedInv
  <2>3. QED
    BY <2>1, <2>2, WalletAssumption
<1> DEFINE v == teller[w].store
           row == [type |-> "debit", store |-> v, amount |-> teller[w].amount, status |-> "completed",
                   past |-> Balance(v) < teller[w].read]
<1>4. Balance(v) \in Int /\ Worth(v) \in Int /\ Balance(v) <= Worth(v)
  BY <1>3, WorthIs DEF WalletInv
<1>5. ledger' = [ledger EXCEPT ![p] = row] /\ teller' = [teller EXCEPT ![w] = Away]
  BY DEF WithdrawInsert
<1>6. row \in LedgerRow
  BY <1>3 DEF LedgerRow
<1>7. WalletTypeOK'
  BY <1>1, <1>5, <1>6 DEF WalletTypeOK, Withdrawal
<1>8. ledger'[p] = row /\ \A x \in Reference \ {p} : ledger'[x] = ledger[x]
  BY <1>1, <1>5
<1>9. ReleasedInv'
  BY <1>8 DEF WalletInv, ReleasedInv, Booked
<1>10. DecidedInv'
  BY <1>1, <1>5 DEF WalletInv, DecidedInv, Away
<1>11. RowShare(ledger[p], v) = 0 /\ \A u \in Store : RowShare(ledger[p], u) = 0
  BY <1>2 DEF RowShare, Booked
<1>12. CASE row.past
  <2>1. \A u \in Store : RowShare(ledger'[p], u) = 0
    BY <1>8, <1>12 DEF RowShare
  <2>2. Solvent'
    <3>1. \A u \in Store : RowShare(ledger[p], u) <= RowShare(ledger'[p], u)
      BY <1>11, <2>1
    <3>2. QED
      BY <1>1, <1>7, <1>8, <3>1, StaysSolvent DEF WalletInv
  <2>3. QED
    BY <1>7, <1>9, <1>10, <2>2 DEF WalletInv
<1>13. CASE ~row.past
  <2>1. ASSUME NEW u \in Store PROVE Worth(u)' >= 0
    <3>1. Worth(u)' = Worth(u) - RowWorth(u, p) + RowWorth(u, p)'
      BY <1>1, <1>7, <1>8, WorthMoves DEF WalletInv
    <3>2. RowWorth(u, p) = RowShare(ledger[p], u) /\ RowWorth(u, p)' = RowShare(ledger'[p], u)
      BY <1>1, <1>7, RowWorthIs DEF WalletInv
    <3>3. Worth(u) >= 0 /\ Worth(u) \in Int
      BY WorthIs DEF WalletInv, Solvent, Worth
    <3>4. RowShare(ledger'[p], u) = IF u = v THEN 0 - teller[w].amount ELSE 0
      BY <1>8, <1>13 DEF RowShare
    <3>5. Balance(v) >= teller[w].amount
      <4>1. ~ (Balance(v) < teller[w].read)
        BY <1>13
      <4>2. QED
        BY <1>3, <1>4, <4>1
    <3>6. RowShare(ledger[p], u) = 0
      BY <1>11
    <3>7. CASE u = v
      BY <1>3, <1>4, <3>1, <3>2, <3>4, <3>5, <3>6, <3>7
    <3>8. CASE u # v
      BY <3>1, <3>2, <3>3, <3>4, <3>6, <3>8
    <3>9. QED
      BY <3>7, <3>8
  <2>2. Solvent'
    BY <2>1 DEF Solvent, Worth
  <2>3. QED
    BY <1>7, <1>9, <1>10, <2>2 DEF WalletInv
<1>14. QED
  BY <1>12, <1>13

LEMMA WithdrawFailsStep ==
    ASSUME WalletInv, NEW w \in Teller, WithdrawFails(w)
    PROVE  WalletInv'
<1>1. ledger' = ledger /\ teller' = [teller EXCEPT ![w] = Away]
  BY DEF WithdrawFails
<1>2. WalletTypeOK' /\ DecidedInv'
  BY <1>1 DEF WalletInv, WalletTypeOK, DecidedInv, Withdrawal, Away
<1>3. ReleasedInv' /\ Solvent'
  BY <1>1 DEF WalletInv, ReleasedInv, Solvent, Balance, SumOver, Amount, RowsOf, Overtaken, Reclaimed, Booked
<1>4. QED
  BY <1>2, <1>3 DEF WalletInv

LEMMA WalletNextStep == WalletInv /\ WalletNext => WalletInv'
<1> SUFFICES ASSUME WalletInv, WalletNext PROVE WalletInv'
  OBVIOUS
<1>1. ASSUME NEW o \in Order, NEW v \in Store, NEW a \in Kobo, CreditVendor(o, v, a) PROVE WalletInv'
  BY <1>1, InsertCreditStep DEF CreditVendor, Reference
<1>2. ASSUME NEW o \in Order, Release(o) \/ VoidHeld(o) \/ VoidDisputed(o) PROVE WalletInv'
  BY <1>2, CreditMovesStep
<1>3. ASSUME NEW w \in Teller, NEW v \in Store, NEW a \in Kobo, WithdrawRead(w, v, a) PROVE WalletInv'
  BY <1>3, WithdrawReadStep
<1>4. ASSUME NEW w \in Teller, NEW p \in Payout, WithdrawInsert(w, p) PROVE WalletInv'
  BY <1>4, WithdrawInsertStep
<1>5. ASSUME NEW w \in Teller, WithdrawFails(w) PROVE WalletInv'
  BY <1>5, WithdrawFailsStep
<1> QED
  BY <1>1, <1>2, <1>3, <1>4, <1>5 DEF WalletNext

LEMMA WalletStutter == WalletInv /\ UNCHANGED walletVars => WalletInv'
  BY DEF walletVars, WalletInv, WalletTypeOK, ReleasedInv, DecidedInv, Solvent, Balance, SumOver, Amount,
         RowsOf, Overtaken, Reclaimed, Booked

LEMMA InitWallet == WalletInit => WalletInv
<1> SUFFICES ASSUME WalletInit PROVE WalletInv
  OBVIOUS
<1>1. WalletTypeOK
  BY DEF WalletInit, WalletTypeOK, LedgerRow, Withdrawal
<1>2. \A r \in Reference : ~Booked(r)
  BY DEF WalletInit, Booked, NoRow
<1>3. ReleasedInv /\ DecidedInv
  BY <1>2 DEF ReleasedInv, DecidedInv, WalletInit, Away
<1>4. ASSUME NEW v \in Store
      PROVE  /\ RowsOf(v, "credit", "completed") = {} /\ RowsOf(v, "debit", "completed") = {}
             /\ Overtaken(v) = {} /\ Reclaimed(v) = {}
  BY <1>2 DEF RowsOf, Overtaken, Reclaimed
<1>5. SumOver({}) = 0
  BY SumEmpty DEF SumOver
<1>6. Solvent
  BY <1>4, <1>5 DEF Solvent, Balance
<1>7. QED
  BY <1>1, <1>3, <1>6 DEF WalletInv

THEOREM WalletInvariant == MoneySpec => [](IInv /\ WalletInv)
<1>1. MoneyInit => IInv /\ WalletInv
  BY InitIInv, InitWallet DEF MoneyInit
<1>2. IInv /\ WalletInv /\ [MoneyNext]_moneyVars => (IInv /\ WalletInv)'
  <2> SUFFICES ASSUME IInv, WalletInv, [MoneyNext]_moneyVars PROVE WalletInv'
    BY NextIInv
  <2>1. CASE UNCHANGED walletVars
    BY <2>1, WalletStutter
  <2>2. CASE WalletNext
    BY <2>2, WalletNextStep
  <2>3. ASSUME NEW d \in Deposit, HandlePaystackWebhook(d) PROVE WalletInv'
    <3>1. CASE UNCHANGED ledger
      BY <2>3, <3>1, WalletStutter DEF HandlePaystackWebhook, walletVars
    <3>2. ASSUME NEW v \in StoresOf(deposit[d].number), InsertCredit(d, v, deposit[d].amount, "completed")
          PROVE  WalletInv'
      <4>1. deposit[d].amount \in Kobo
        BY <2>3 DEF HandlePaystackWebhook, IInv, MoneyTypes, DepositRow, NoDeposit
      <4>2. v \in Store /\ d \in Reference /\ UNCHANGED teller
        BY <2>3, MoneyAssumption DEF StoresOf, Reference, HandlePaystackWebhook
      <4>3. QED
        BY <3>2, <4>1, <4>2, InsertCreditStep
    <3>3. QED
      BY <2>3, <3>1, <3>2 DEF HandlePaystackWebhook
  <2>4. QED
    BY <2>1, <2>2, <2>3 DEF MoneyNext, moneyVars, Transfer, WebhookFails
<1>3. QED
  BY <1>1, <1>2, PTL DEF MoneySpec

\* Held money, cancelled orders and repeated notices never overdraw a store; only a
\* withdrawal decided on a balance that fell since, or a credit taken back, does.
THEOREM StoresAreSolvent == MoneySpec => []Solvent
<1>1. WalletInv => Solvent
  BY DEF WalletInv
<1> QED BY <1>1, WalletInvariant, PTL

PhonesInv == phone \in [Vendor -> BOOLEAN]

LEMMA PhonesStay == MoneySpec => []PhonesInv
<1>1. MoneyInit => PhonesInv
  BY DEF MoneyInit, VirtualAccountsInit, PhonesInv
<1>2. PhonesInv /\ [MoneyNext]_moneyVars => PhonesInv'
  <2> SUFFICES ASSUME PhonesInv, [MoneyNext]_moneyVars PROVE PhonesInv'
    OBVIOUS
  <2> USE DEF PhonesInv
  <2>1. CASE UNCHANGED phone
    BY <2>1
  <2>2. ASSUME NEW v \in Vendor, NEW usable \in BOOLEAN, UpdateMe(v, usable) PROVE PhonesInv'
    BY <2>2 DEF UpdateMe
  <2>3. CASE VirtualAccountsNext
    BY <2>1, <2>2, <2>3
       DEF VirtualAccountsNext, StartVendorOnboarding, CreateStore, UpdateStore, GetVendorProfile,
           BackfillMissingDVAs, BackfillNext, Provision, AskIdentity, ProvisionVendorDVA, CreateCustomer,
           CreateDedicatedAccount, UpdateVendorPaystackAccount, SendAccountReady, Fail, Restart, vaRows
  <2>4. QED
    BY <2>1, <2>3 DEF MoneyNext, moneyVars, vaVars, Transfer, WebhookFails, HandlePaystackWebhook
<1>3. QED
  BY <1>1, <1>2, PTL DEF MoneySpec

\* Every row, job and withdrawal in flight has a shape the code gives it.
THEOREM MoneyTypesHold == MoneySpec => []MoneyTypeOK
<1>1. IInv /\ WalletInv /\ PhonesInv => MoneyTypeOK
  BY DEF IInv, AccountsInv, TypeInv, MoneyTypes, WalletInv, PhonesInv, MoneyTypeOK, VirtualAccountsTypeOK
<1> QED BY <1>1, WalletInvariant, PhonesStay, PTL

=============================================================================
