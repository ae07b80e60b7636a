------------------------------- MODULE Profile -------------------------------
(***************************************************************************)
(* The lists a user keeps with one of their own marked: a buyer's saved    *)
(* addresses with a default, which the buyer profile names as well, and a  *)
(* vendor's bank accounts with a primary.  Nothing in the database keeps   *)
(* the mark single; every handler looks first and writes afterwards.       *)
(***************************************************************************)
EXTENDS Requests, FiniteSetsExt

CONSTANTS
    Address,
    Bank,
    NoAddress

ASSUME ProfileAssumption == NoAddress \notin Address

VARIABLES
    addresses,      \* buyer_addresses of the profile
    flagged,        \* the ones with is_default
    chosen,         \* buyer_profiles.default_address_id
    banks,          \* vendor_banks
    primary,        \* the ones with is_primary
    edit,           \* edit[r]: what request r has read
    mixedUp         \* history: the lists in which an overtaken request has written, or one that read nothing

profileVars == <<addresses, flagged, chosen, banks, primary, edit, mixedUp>>
addressVars == <<addresses, flagged, chosen>>
bankVars == <<banks, primary>>

-----------------------------------------------------------------------------

Edit ==
    {Idle}
    \cup [op: {"addAddress"}, first: BOOLEAN, late: BOOLEAN]
    \cup [op: {"deleteAddress"}, row: Address, marked: BOOLEAN, late: BOOLEAN]
    \cup [op: {"setDefault"}, row: Address, late: BOOLEAN]
    \cup [op: {"addBank"}, first: BOOLEAN, late: BOOLEAN]
    \cup [op: {"deleteBank", "setPrimary"}, row: Bank, late: BOOLEAN]

AddressEdits == {"addAddress", "deleteAddress", "setDefault"}
BankEdits == {"addBank", "deleteBank", "setPrimary"}

ProfileTypeOK ==
    /\ addresses \subseteq Address /\ flagged \subseteq addresses
    /\ chosen \in Address \cup {NoAddress}
    /\ banks \subseteq Bank /\ primary \subseteq banks
    /\ edit \in [Request -> Edit]
    /\ mixedUp \subseteq {"addresses", "banks"}

ProfileInit ==
    /\ addresses = {} /\ flagged = {} /\ chosen = NoAddress
    /\ banks = {} /\ primary = {}
    /\ edit = [r \in Request |-> Idle]
    /\ mixedUp = {}

-----------------------------------------------------------------------------

Begin(r, e) ==
    /\ edit[r] = Idle
    /\ edit' = [edit EXCEPT ![r] = e]
    /\ UNCHANGED <<addressVars, bankVars, mixedUp>>

\* Whoever has read this list and not written yet is late from now on.
Finish(r, ops) ==
    edit' = [q \in Request |-> IF q = r THEN Idle
                               ELSE IF edit[q].op \in ops THEN [edit[q] EXCEPT !.late = TRUE]
                               ELSE edit[q]]

Mark(r, list) == mixedUp' = IF edit[r].late THEN mixedUp \cup {list} ELSE mixedUp

-----------------------------------------------------------------------------
(* Addresses.  The first one is the default. *)

CountAddressesByProfile(r) == Begin(r, [op |-> "addAddress", first |-> addresses = {}, late |-> FALSE])

CreateAddress(r, a) ==
    /\ edit[r].op = "addAddress" /\ a \notin addresses
    /\ addresses' = addresses \cup {a}
    /\ IF edit[r].first
       THEN flagged' = flagged \cup {a} /\ chosen' = a
       ELSE UNCHANGED <<flagged, chosen>>
    /\ Finish(r, AddressEdits) /\ Mark(r, "addresses")
    /\ UNCHANGED bankVars

GetAddressToDelete(r, a) ==
    a \in addresses /\ Begin(r, [op |-> "deleteAddress", row |-> a, marked |-> a \in flagged, late |-> FALSE])

\* Mutant: the profile is left naming the address.
ForgetNothing(a, marked) == chosen

\* The profile's reference goes with the row: ON DELETE SET NULL.  One that was the
\* default when it was looked up clears the reference whatever it names by now.
ChosenAfterDelete(a, marked) == IF marked \/ chosen = a THEN NoAddress ELSE chosen

DeleteAddress(r) ==
    /\ edit[r].op = "deleteAddress"
    /\ addresses' = addresses \ {edit[r].row}
    /\ flagged' = flagged \ {edit[r].row}
    /\ chosen' = ChosenAfterDelete(edit[r].row, edit[r].marked)
    /\ Finish(r, AddressEdits) /\ Mark(r, "addresses")
    /\ UNCHANGED bankVars

GetAddressToChoose(r, a) ==
    a \in addresses /\ Begin(r, [op |-> "setDefault", row |-> a, late |-> FALSE])

\* One transaction; an address deleted meanwhile breaks it on the foreign key.
SetDefaultAddress(r) ==
    /\ edit[r].op = "setDefault" /\ edit[r].row \in addresses
    /\ flagged' = {edit[r].row} /\ chosen' = edit[r].row
    /\ Finish(r, AddressEdits)
    /\ mixedUp' = mixedUp \ {"addresses"}
    /\ UNCHANGED <<addresses, bankVars>>

-----------------------------------------------------------------------------
(* Bank accounts.  The first one is the primary. *)

CountBanksByVendor(r) == Begin(r, [op |-> "addBank", first |-> banks = {}, late |-> FALSE])

CreateVendorBank(r, b) ==
    /\ edit[r].op = "addBank" /\ b \notin banks
    /\ banks' = banks \cup {b}
    /\ primary' = IF edit[r].first THEN primary \cup {b} ELSE primary
    /\ Finish(r, BankEdits) /\ Mark(r, "banks")
    /\ UNCHANGED addressVars

\* The primary goes last.
MayDelete(b) == b \in primary => banks = {b}

GetBankToDelete(r, b) ==
    /\ b \in banks /\ MayDelete(b)
    /\ Begin(r, [op |-> "deleteBank", row |-> b, late |-> FALSE])

\* The accounts cannot be counted, and the primary is let through.
GetBankUncounted(r, b) ==
    /\ b \in banks /\ ~MayDelete(b)
    /\ Begin(r, [op |-> "deleteBank", row |-> b, late |-> TRUE])

DeleteVendorBank(r) ==
    /\ edit[r].op = "deleteBank"
    /\ banks' = banks \ {edit[r].row} /\ primary' = primary \ {edit[r].row}
    /\ Finish(r, BankEdits) /\ Mark(r, "banks")
    /\ UNCHANGED addressVars

GetBankToPrefer(r, b) == b \in banks /\ Begin(r, [op |-> "setPrimary", row |-> b, late |-> FALSE])

\* One transaction; an account deleted meanwhile leaves none marked.
SetPrimaryVendorBank(r) ==
    /\ edit[r].op = "setPrimary"
    /\ primary' = {edit[r].row} \cap banks
    /\ Finish(r, BankEdits)
    /\ mixedUp' = IF primary' # {} THEN mixedUp \ {"banks"} ELSE mixedUp \cup {"banks"}
    /\ UNCHANGED <<banks, addressVars>>

\* A statement fails and its transaction with it.
EditFails(r) ==
    /\ edit[r] # Idle
    /\ edit' = [edit EXCEPT ![r] = Idle]
    /\ UNCHANGED <<addressVars, bankVars, mixedUp>>

AddressNext ==
    \/ \E r \in Request : CountAddressesByProfile(r)
    \/ \E r \in Request, a \in Address : CreateAddress(r, a)
    \/ \E r \in Request, a \in Address : GetAddressToDelete(r, a)
    \/ \E r \in Request : DeleteAddress(r)
    \/ \E r \in Request, a \in Address : GetAddressToChoose(r, a)
    \/ \E r \in Request : SetDefaultAddress(r)
    \/ \E r \in Request : EditFails(r)

BankNext ==
    \/ \E r \in Request : CountBanksByVendor(r)
    \/ \E r \in Request, b \in Bank : CreateVendorBank(r, b)
    \/ \E r \in Request, b \in Bank : GetBankToDelete(r, b)
    \/ \E r \in Request, b \in Bank : GetBankUncounted(r, b)
    \/ \E r \in Request : DeleteVendorBank(r)
    \/ \E r \in Request, b \in Bank : GetBankToPrefer(r, b)
    \/ \E r \in Request : SetPrimaryVendorBank(r)
    \/ \E r \in Request : EditFails(r)

ProfileNext == AddressNext \/ BankNext

ProfileSpec == ProfileInit /\ [][ProfileNext]_profileVars

-----------------------------------------------------------------------------

\* The address the profile names exists and is flagged, whatever overtakes what; and
\* while no overtaken request has written, no other address is.  None is, when the profile
\* names none: after the default was deleted, too.
DefaultIsFlagged ==
    /\ chosen # NoAddress => chosen \in flagged
    /\ "addresses" \notin mixedUp => flagged = {chosen} \ {NoAddress}

\* A vendor with accounts has one primary, while no overtaken request has written and
\* none that could not count the accounts.
OnePrimary == "banks" \notin mixedUp /\ banks # {} => Cardinality(primary) = 1

\* At most one default address, the one the profile names; one primary bank account.
OneIsMarked == DefaultIsFlagged /\ OnePrimary

=============================================================================
