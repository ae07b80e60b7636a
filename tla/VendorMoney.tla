----------------------------- MODULE VendorMoney -----------------------------
(***************************************************************************)
(* Bank transfers: a buyer pays into an account number a vendor has given  *)
(* them, Paystack says so by webhook, at least once, and the orders        *)
(* service credits the store of the vendor with that customer code.        *)
(***************************************************************************)
EXTENDS VirtualAccounts, Wallet

\* stores.vendor_id is unique, and a store stands for its vendor.
ASSUME MoneyAssumption == Store = Vendor

VARIABLE deposit    \* deposit[d]: the transfer, and what became of its webhook

moneyVars == <<vaVars, walletVars, deposit>>

NoDeposit == [state |-> "none"]

DepositRow ==
    {NoDeposit} \cup [state: {"paid", "answered", "dropped"}, payee: Vendor, number: Number, amount: Kobo]

MoneyTypeOK == VirtualAccountsTypeOK /\ WalletTypeOK /\ deposit \in [Deposit -> DepositRow]

MoneyInit == VirtualAccountsInit /\ WalletInit /\ deposit = [d \in Deposit |-> NoDeposit]

-----------------------------------------------------------------------------

\* To a number its vendor was shown, now or long ago.
Transfer(d, v, n, a) ==
    /\ deposit[d].state = "none"
    /\ n \in told[v]
    /\ deposit' = [deposit EXCEPT ![d] = [state |-> "paid", payee |-> v, number |-> n, amount |-> a]]
    /\ UNCHANGED <<vaVars, walletVars>>

\* Mutant: by the account number on file.
StoresOfNumber(n) == {v \in Vendor : OnFile(v) /\ profile[v].number = n /\ HasStore(v)}

\* Vendors with a store whose row has the customer code of this account.
StoresOf(n) == {v \in Vendor : Onboarding(v) /\ profile[v].customer = Holder(n) /\ HasStore(v)}

\* Delivered once or again; with no such store there is nothing to credit.
HandlePaystackWebhook(d) ==
    /\ deposit[d].state # "none"
    /\ LET n == deposit[d].number
       IN  \/ StoresOf(n) = {} /\ UNCHANGED ledger
           \/ \E v \in StoresOf(n) : InsertCredit(d, v, deposit[d].amount, "completed")
    /\ deposit' = [deposit EXCEPT ![d].state = "answered"]
    /\ UNCHANGED <<vaVars, teller>>

\* The database refuses, and Paystack is answered 200 all the same.
WebhookFails(d) ==
    /\ deposit[d].state = "paid"
    /\ deposit' = [deposit EXCEPT ![d].state = "dropped"]
    /\ UNCHANGED <<vaVars, walletVars>>

MoneyNext ==
    \/ VirtualAccountsNext /\ UNCHANGED <<walletVars, deposit>>
    \/ WalletNext /\ UNCHANGED <<vaVars, deposit>>
    \/ \E d \in Deposit, v \in Vendor, n \in Number, a \in Kobo : Transfer(d, v, n, a)
    \/ \E d \in Deposit : HandlePaystackWebhook(d)
    \/ \E d \in Deposit : WebhookFails(d)

MoneySpec == MoneyInit /\ [][MoneyNext]_moneyVars /\ VirtualAccountsFairness

-----------------------------------------------------------------------------

\* A transfer whose webhook was handled is credited to the vendor who gave the number,
\* once and in full, even when provisioning ran twice and another number is on file.
DepositsReachVendor ==
    \A d \in Deposit :
        deposit[d].state = "answered" =>
            /\ Booked(d)
            /\ ledger[d].store = deposit[d].payee /\ ledger[d].amount = deposit[d].amount
            /\ ledger[d].status = "completed"

=============================================================================
