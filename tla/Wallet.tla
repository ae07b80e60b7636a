-------------------------------- MODULE Wallet --------------------------------
(***************************************************************************)
(* A store's wallet: rows of wallet_transactions, of which a balance is    *)
(* the sum.  Rows are keyed by their unique reference: an order's credit,  *)
(* a bank transfer's, or a withdrawal.  What the orders service does to an *)
(* order's credit is the four updates its order handlers make.             *)
(***************************************************************************)
EXTENDS Integers, FiniteSets, Functions

CONSTANTS
    Store,
    Order,
    Deposit,
    Payout,
    Teller,         \* withdrawals in flight
    Kobo

ASSUME WalletAssumption ==
    /\ IsFiniteSet(Order) /\ IsFiniteSet(Deposit) /\ IsFiniteSet(Payout)
    /\ Kobo \subseteq Nat \ {0}
    /\ Order \cap Deposit = {} /\ Order \cap Payout = {} /\ Deposit \cap Payout = {}

VARIABLES
    ledger,         \* ledger[r]: the row with this reference
    teller          \* teller[w]: what a withdrawal in flight has read

walletVars == <<ledger, teller>>

-----------------------------------------------------------------------------

Reference == Order \cup Deposit \cup Payout

NoRow == [type |-> "none"]

\* past: history.  A credit that was once the vendor's to withdraw, or a debit that
\* was decided on a balance that has fallen since.
LedgerRow ==
    {NoRow} \cup [type: {"credit", "debit"}, store: Store, amount: Kobo,
                  status: {"pending", "completed", "failed"}, past: BOOLEAN]

Away == [op |-> "away"]

Withdrawal == {Away} \cup [op: {"paying"}, store: Store, amount: Kobo, read: Int]

WalletTypeOK ==
    /\ ledger \in [Reference -> LedgerRow]
    /\ teller \in [Teller -> Withdrawal]

WalletInit ==
    /\ ledger = [r \in Reference |-> NoRow]
    /\ teller = [w \in Teller |-> Away]

-----------------------------------------------------------------------------

Booked(r) == ledger[r].type # "none"

Amount == [r \in Reference |-> IF Booked(r) THEN ledger[r].amount ELSE 0]

SumOver(S) == SumFunctionOnSet(Amount, S)

RowsOf(v, type, status) ==
    {r \in Reference : Booked(r) /\ ledger[r].store = v /\ ledger[r].type = type /\ ledger[r].status = status}

\* Mutant: money in escrow counts.
BalanceWithHeld(v) ==
    SumOver(RowsOf(v, "credit", "completed") \cup RowsOf(v, "credit", "pending"))
        - SumOver(RowsOf(v, "debit", "completed"))

Balance(v) == SumOver(RowsOf(v, "credit", "completed")) - SumOver(RowsOf(v, "debit", "completed"))

\* ON CONFLICT (reference) DO NOTHING.
InsertCredit(r, v, a, status) ==
    ledger' = IF Booked(r) THEN ledger
              ELSE [ledger EXCEPT ![r] = [type |-> "credit", store |-> v, amount |-> a,
                                          status |-> status, past |-> status = "completed"]]

CreditVendor(o, v, a) == InsertCredit(o, v, a, "pending") /\ UNCHANGED teller

\* Receipt is confirmed, or the escrow ran out.
Release(o) ==
    /\ Booked(o) /\ ledger[o].status = "pending"
    /\ ledger' = [ledger EXCEPT ![o].status = "completed", ![o].past = TRUE]
    /\ UNCHANGED teller

\* The order is cancelled before it was delivered.
VoidHeld(o) ==
    /\ Booked(o) /\ ledger[o].status = "pending"
    /\ ledger' = [ledger EXCEPT ![o].status = "failed"]
    /\ UNCHANGED teller

\* A dispute is refunded, whether or not the credit was released.
VoidDisputed(o) ==
    /\ Booked(o) /\ ledger[o].status \in {"pending", "completed"}
    /\ ledger' = [ledger EXCEPT ![o].status = "failed"]
    /\ UNCHANGED teller

WithdrawRead(w, v, a) ==
    /\ teller[w] = Away
    /\ a <= Balance(v)
    /\ teller' = [teller EXCEPT ![w] = [op |-> "paying", store |-> v, amount |-> a, read |-> Balance(v)]]
    /\ UNCHANGED ledger

WithdrawInsert(w, p) ==
    /\ teller[w].op = "paying" /\ ~Booked(p)
    /\ ledger' = [ledger EXCEPT ![p] = [type |-> "debit", store |-> teller[w].store,
                                        amount |-> teller[w].amount, status |-> "completed",
                                        past |-> Balance(teller[w].store) < teller[w].read]]
    /\ teller' = [teller EXCEPT ![w] = Away]

WithdrawFails(w) ==
    /\ teller[w] # Away
    /\ teller' = [teller EXCEPT ![w] = Away]
    /\ UNCHANGED ledger

WalletNext ==
    \/ \E o \in Order, v \in Store, a \in Kobo : CreditVendor(o, v, a)
    \/ \E o \in Order : Release(o)
    \/ \E o \in Order : VoidHeld(o)
    \/ \E o \in Order : VoidDisputed(o)
    \/ \E w \in Teller, v \in Store, a \in Kobo : WithdrawRead(w, v, a)
    \/ \E w \in Teller, p \in Payout : WithdrawInsert(w, p)
    \/ \E w \in Teller : WithdrawFails(w)

-----------------------------------------------------------------------------

Overtaken(v) == {r \in RowsOf(v, "debit", "completed") : ledger[r].past}
Reclaimed(v) == {r \in RowsOf(v, "credit", "failed") : ledger[r].past}

\* A store is overdrawn by no more than withdrawals decided on a balance that fell before
\* they were booked and credits taken back after their release: held money, cancelled
\* orders and repeated payment notices never cost the platform anything.
Solvent ==
    \A v \in Store : Balance(v) + SumOver(Overtaken(v)) + SumOver(Reclaimed(v)) >= 0

=============================================================================
