----------------------------- MODULE ShopProofs ------------------------------
(***************************************************************************)
(* Theorems about the parts of Shop, for any number of requests: the lists *)
(* of a profile, a patch of the user's row, the newsletter, the settings   *)
(* of the checkout, processes that come up with their schema, lists read   *)
(* in pages, collections and searches, and at the end all of them          *)
(* together as Shop composes them.                                         *)
(***************************************************************************)
EXTENDS Shop, PlansProofs, Sums

-----------------------------------------------------------------------------
(* Profile: what is marked in the list of addresses and of bank accounts.  *)
(* The invariant says what a request that nobody overtook still knows when *)
(* it writes.                                                              *)

\* A request that is not late sees the list it read.
EditCurrent(e) ==
    /\ e.op = "addAddress" => e.first = (addresses = {})
    /\ e.op = "deleteAddress" => e.marked = (e.row \in flagged)
    /\ e.op = "addBank" => e.first = (banks = {})
    /\ e.op = "deleteBank" => MayDelete(e.row)

EditsCurrent == \A r \in Request : edit[r] # Idle => edit[r].late \/ EditCurrent(edit[r])

Single(S) == \E x \in S : S = {x}

ProfileInv ==
    /\ ProfileTypeOK
    /\ EditsCurrent
    /\ DefaultIsFlagged
    /\ "banks" \notin mixedUp /\ banks # {} => Single(primary)

-----------------------------------------------------------------------------
(* Rows of edit. *)

LateOf(e) == [e EXCEPT !.late = TRUE]

LEMMA EditFields ==
    ASSUME NEW e \in Edit, e # Idle
    PROVE  /\ e.op \in AddressEdits \cup BankEdits /\ e.late \in BOOLEAN
           /\ e.op \in {"addAddress", "addBank"} => e.first \in BOOLEAN
           /\ e.op \in {"deleteAddress", "setDefault"} => e.row \in Address
           /\ e.op = "deleteAddress" => e.marked \in BOOLEAN
           /\ e.op \in {"deleteBank", "setPrimary"} => e.row \in Bank
  BY DEF Edit, AddressEdits, BankEdits

LEMMA LateFields ==
    ASSUME NEW e \in Edit, e # Idle
    PROVE  /\ LateOf(e) \in Edit /\ LateOf(e) # Idle /\ LateOf(e).late = TRUE
<1>1. CASE e \in [op: {"addAddress"}, first: BOOLEAN, late: BOOLEAN]
  BY <1>1 DEF LateOf, Edit, Idle
<1>2. CASE e \in [op: {"deleteAddress"}, row: Address, marked: BOOLEAN, late: BOOLEAN]
  BY <1>2 DEF LateOf, Edit, Idle
<1>3. CASE e \in [op: {"setDefault"}, row: Address, late: BOOLEAN]
  BY <1>3 DEF LateOf, Edit, Idle
<1>4. CASE e \in [op: {"addBank"}, first: BOOLEAN, late: BOOLEAN]
  BY <1>4 DEF LateOf, Edit, Idle
<1>5. CASE e \in [op: {"deleteBank", "setPrimary"}, row: Bank, late: BOOLEAN]
  BY <1>5 DEF LateOf, Edit, Idle
<1>6. QED
  BY <1>1, <1>2, <1>3, <1>4, <1>5 DEF Edit

LEMMA IdleOp == Idle.op = "idle" /\ Idle \in Edit
  BY DEF Idle, Edit

\* Writing in one list leaves every other request idle, late, or in the other list.
LEMMA Finished ==
    ASSUME ProfileTypeOK, NEW r \in Request, NEW ops \in SUBSET (AddressEdits \cup BankEdits), Finish(r, ops)
    PROVE  /\ edit' \in [Request -> Edit]
           /\ \A q \in Request :
                  edit'[q] # Idle => edit'[q].late \/ (edit'[q] = edit[q] /\ edit[q].op \notin ops)
<1> SUFFICES ASSUME NEW q \in Request
             PROVE  /\ edit'[q] \in Edit
                    /\ edit'[q] # Idle => edit'[q].late \/ (edit'[q] = edit[q] /\ edit[q].op \notin ops)
                    /\ edit' = [p \in Request |-> edit'[p]]
  OBVIOUS
<1>1. edit[q] \in Edit
  BY DEF ProfileTypeOK
<1>2. edit' = [p \in Request |-> IF p = r THEN Idle
                                 ELSE IF edit[p].op \in ops THEN LateOf(edit[p]) ELSE edit[p]]
  BY DEF Finish, LateOf
<1>3. "idle" \notin ops
  BY DEF AddressEdits, BankEdits
<1>4. CASE q = r
  BY <1>2, <1>4, IdleOp
<1>5. CASE q # r /\ edit[q].op \in ops
  <2>1. edit[q] # Idle
    BY <1>3, <1>5, IdleOp
  <2>2. edit'[q] = LateOf(edit[q])
    BY <1>2, <1>5
  <2>3. QED
    BY <1>1, <1>2, <2>1, <2>2, LateFields
<1>6. CASE q # r /\ edit[q].op \notin ops
  BY <1>1, <1>2, <1>6
<1>7. QED
  BY <1>4, <1>5, <1>6

\* A list that nobody writes in keeps what was read of it true.
LEMMA AddressesWritten ==
    ASSUME ProfileTypeOK, EditsCurrent, NEW r \in Request, Finish(r, AddressEdits), UNCHANGED bankVars
    PROVE  edit' \in [Request -> Edit] /\ EditsCurrent'
<1>1. AddressEdits \in SUBSET (AddressEdits \cup BankEdits)
  OBVIOUS
<1>2. SUFFICES ASSUME NEW q \in Request, edit'[q] = edit[q], edit[q] # Idle, edit[q].op \notin AddressEdits,
                      ~edit[q].late
               PROVE  EditCurrent(edit[q])'
  BY <1>1, Finished DEF EditsCurrent
<1>3. EditCurrent(edit[q])
  BY <1>2 DEF EditsCurrent
<1>4. QED
  BY <1>2, <1>3 DEF EditCurrent, AddressEdits, MayDelete, bankVars

LEMMA BanksWritten ==
    ASSUME ProfileTypeOK, EditsCurrent, NEW r \in Request, Finish(r, BankEdits), UNCHANGED addressVars
    PROVE  edit' \in [Request -> Edit] /\ EditsCurrent'
<1>1. BankEdits \in SUBSET (AddressEdits \cup BankEdits)
  OBVIOUS
<1>2. SUFFICES ASSUME NEW q \in Request, edit'[q] = edit[q], edit[q] # Idle, edit[q].op \notin BankEdits,
                      ~edit[q].late
               PROVE  EditCurrent(edit[q])'
  BY <1>1, Finished DEF EditsCurrent
<1>3. EditCurrent(edit[q])
  BY <1>2 DEF EditsCurrent
<1>4. QED
  BY <1>2, <1>3 DEF EditCurrent, BankEdits, MayDelete, addressVars

-----------------------------------------------------------------------------
(* Steps. *)

\* Reading, and giving up.
LEMMA Begins ==
    ASSUME ProfileInv, NEW r \in Request, NEW e \in Edit, Begin(r, e), e = Idle \/ e.late \/ EditCurrent(e)
    PROVE  ProfileInv'
<1>1. /\ edit' = [edit EXCEPT ![r] = e]
      /\ UNCHANGED <<addresses, flagged, chosen, banks, primary, mixedUp>>
  BY DEF Begin, addressVars, bankVars
<1>2. ProfileTypeOK'
  BY <1>1 DEF ProfileInv, ProfileTypeOK
<1>3. EditsCurrent'
  <2>1. SUFFICES ASSUME NEW q \in Request, NEW d, edit'[q] = d, d # Idle
                 PROVE  d.late \/ EditCurrent(d)'
    BY DEF EditsCurrent
  <2>2. d = IF q = r THEN e ELSE edit[q]
    BY <1>1, <2>1 DEF ProfileInv, ProfileTypeOK
  <2>3. d.late \/ EditCurrent(d)
    BY <2>1, <2>2 DEF ProfileInv, EditsCurrent
  <2>4. QED
    BY <1>1, <2>3 DEF EditCurrent, MayDelete
<1>4. QED
  BY <1>1, <1>2, <1>3 DEF ProfileInv, DefaultIsFlagged, Single

LEMMA Reads ==
    ASSUME ProfileInv, NEW r \in Request, NEW a, NEW b,
           \/ CountAddressesByProfile(r) \/ GetAddressToDelete(r, a) \/ GetAddressToChoose(r, a)
           \/ CountBanksByVendor(r) \/ GetBankToDelete(r, b) \/ GetBankUncounted(r, b)
           \/ GetBankToPrefer(r, b) \/ EditFails(r)
    PROVE  ProfileInv'
<1>1. CASE CountAddressesByProfile(r)
  <2>1. PICK e : e = [op |-> "addAddress", first |-> addresses = {}, late |-> FALSE]
    OBVIOUS
  <2>2. e \in Edit /\ EditCurrent(e) /\ Begin(r, e)
    BY <1>1, <2>1 DEF CountAddressesByProfile, Edit, EditCurrent
  <2>3. QED
    BY <2>2, Begins
<1>2. CASE GetAddressToDelete(r, a)
  <2>1. PICK e : e = [op |-> "deleteAddress", row |-> a, marked |-> a \in flagged, late |-> FALSE]
    OBVIOUS
  <2>2. e \in Edit /\ EditCurrent(e) /\ Begin(r, e)
    BY <1>2, <2>1 DEF GetAddressToDelete, Edit, EditCurrent, ProfileInv, ProfileTypeOK
  <2>3. QED
    BY <2>2, Begins
<1>3. CASE GetAddressToChoose(r, a)
  <2>1. PICK e : e = [op |-> "setDefault", row |-> a, late |-> FALSE]
    OBVIOUS
  <2>2. e \in Edit /\ EditCurrent(e) /\ Begin(r, e)
    BY <1>3, <2>1 DEF GetAddressToChoose, Edit, EditCurrent, ProfileInv, ProfileTypeOK
  <2>3. QED
    BY <2>2, Begins
<1>4. CASE CountBanksByVendor(r)
  <2>1. PICK e : e = [op |-> "addBank", first |-> banks = {}, late |-> FALSE]
    OBVIOUS
  <2>2. e \in Edit /\ EditCurrent(e) /\ Begin(r, e)
    BY <1>4, <2>1 DEF CountBanksByVendor, Edit, EditCurrent
  <2>3. QED
    BY <2>2, Begins
<1>5. CASE GetBankToDelete(r, b)
  <2>1. PICK e : e = [op |-> "deleteBank", row |-> b, late |-> FALSE]
    OBVIOUS
  <2>2. e \in Edit /\ EditCurrent(e) /\ Begin(r, e)
    BY <1>5, <2>1 DEF GetBankToDelete, Edit, EditCurrent, ProfileInv, ProfileTypeOK
  <2>3. QED
    BY <2>2, Begins
<1>6. CASE GetBankToPrefer(r, b)
  <2>1. PICK e : e = [op |-> "setPrimary", row |-> b, late |-> FALSE]
    OBVIOUS
  <2>2. e \in Edit /\ EditCurrent(e) /\ Begin(r, e)
    BY <1>6, <2>1 DEF GetBankToPrefer, Edit, EditCurrent, ProfileInv, ProfileTypeOK
  <2>3. QED
    BY <2>2, Begins
<1>7. CASE EditFails(r)
  <2>1. /\ edit' = [edit EXCEPT ![r] = Idle]
        /\ UNCHANGED <<addresses, flagged, chosen, banks, primary, mixedUp>>
    BY <1>7 DEF EditFails, addressVars, bankVars
  <2>2. ProfileTypeOK'
    BY <2>1, IdleOp DEF ProfileInv, ProfileTypeOK
  <2>3. EditsCurrent'
    <3>1. SUFFICES ASSUME NEW q \in Request, NEW d, edit'[q] = d, d # Idle
                   PROVE  d.late \/ EditCurrent(d)'
      BY DEF EditsCurrent
    <3>2. d = edit[q]
      BY <2>1, <3>1 DEF ProfileInv, ProfileTypeOK
    <3>3. QED
      BY <2>1, <3>1, <3>2 DEF ProfileInv, EditsCurrent, EditCurrent, MayDelete
  <2>4. QED
    BY <2>1, <2>2, <2>3 DEF ProfileInv, DefaultIsFlagged, Single
<1>8. CASE GetBankUncounted(r, b)
  <2>1. PICK e : e = [op |-> "deleteBank", row |-> b, late |-> TRUE]
    OBVIOUS
  <2>2. e \in Edit /\ e.late /\ Begin(r, e)
    BY <1>8, <2>1 DEF GetBankUncounted, Edit, ProfileInv, ProfileTypeOK
  <2>3. QED
    BY <2>2, Begins
<1>9. QED
  BY <1>1, <1>2, <1>3, <1>4, <1>5, <1>6, <1>7, <1>8

\* A request that is late leaves its list out of the claim.
LEMMA Marked ==
    ASSUME ProfileTypeOK, NEW r \in Request, NEW which \in {"addresses", "banks"}, Mark(r, which),
           edit[r] # Idle
    PROVE  /\ mixedUp' \subseteq {"addresses", "banks"} /\ mixedUp \subseteq mixedUp'
           /\ \A other \in {"addresses", "banks"} \ {which} : other \in mixedUp' <=> other \in mixedUp
           /\ edit[r].late => which \in mixedUp'
  BY DEF Mark, ProfileTypeOK

LEMMA CreateAddresses ==
    ASSUME ProfileInv, NEW r \in Request, NEW a \in Address, CreateAddress(r, a)
    PROVE  ProfileInv'
<1> USE DEF ProfileInv
<1>1. edit[r] # Idle /\ edit[r] \in Edit
  BY IdleOp DEF CreateAddress, ProfileTypeOK
<1>2. /\ edit[r].op = "addAddress" /\ a \notin addresses /\ addresses' = addresses \cup {a}
      /\ \/ edit[r].first /\ flagged' = flagged \cup {a} /\ chosen' = a
         \/ ~edit[r].first /\ flagged' = flagged /\ chosen' = chosen
      /\ Finish(r, AddressEdits) /\ Mark(r, "addresses")
      /\ banks' = banks /\ primary' = primary /\ UNCHANGED bankVars
  BY DEF CreateAddress, bankVars
<1>3. edit' \in [Request -> Edit] /\ EditsCurrent'
  BY <1>2, AddressesWritten
<1>4. ProfileTypeOK'
  BY <1>1, <1>2, <1>3, Marked DEF ProfileTypeOK
<1>5. chosen' # NoAddress => chosen' \in flagged'
  BY <1>2 DEF DefaultIsFlagged
<1>6. ASSUME "addresses" \notin mixedUp'
      PROVE  flagged' = {chosen'} \ {NoAddress}
  <2>1. ~edit[r].late /\ "addresses" \notin mixedUp
    BY <1>1, <1>2, <1>6, Marked
  <2>2. edit[r].first = (addresses = {}) /\ flagged = {chosen} \ {NoAddress}
    BY <1>1, <1>2, <2>1 DEF EditsCurrent, EditCurrent, DefaultIsFlagged
  <2>3. edit[r].first => flagged = {}
    BY <1>1, <1>2, <2>2, EditFields DEF ProfileTypeOK
  <2>4. QED
    BY <1>2, <2>2, <2>3, ProfileAssumption
<1>7. "banks" \notin mixedUp' /\ banks' # {} => Single(primary')
  BY <1>1, <1>2, Marked
<1>8. QED
  BY <1>3, <1>4, <1>5, <1>6, <1>7 DEF DefaultIsFlagged, Single

LEMMA DeletesAddress ==
    ASSUME ProfileInv, NEW r \in Request, DeleteAddress(r)
    PROVE  ProfileInv'
<1> USE DEF ProfileInv
<1>1. edit[r] # Idle /\ edit[r] \in Edit
  BY IdleOp DEF DeleteAddress, ProfileTypeOK
<1>2. PICK a : a = edit[r].row
  OBVIOUS
<1>3. /\ edit[r].op = "deleteAddress" /\ a \in Address /\ edit[r].marked \in BOOLEAN
      /\ addresses' = addresses \ {a} /\ flagged' = flagged \ {a}
      /\ chosen' = IF edit[r].marked \/ chosen = a THEN NoAddress ELSE chosen
      /\ Finish(r, AddressEdits) /\ Mark(r, "addresses")
      /\ banks' = banks /\ primary' = primary /\ UNCHANGED bankVars
  BY <1>1, <1>2, EditFields DEF DeleteAddress, ChosenAfterDelete, bankVars
<1>4. edit' \in [Request -> Edit] /\ EditsCurrent'
  BY <1>3, AddressesWritten
<1>5. ProfileTypeOK'
  BY <1>1, <1>3, <1>4, Marked DEF ProfileTypeOK
<1>6. chosen' # NoAddress => chosen' \in flagged'
  BY <1>3 DEF DefaultIsFlagged
<1>7. ASSUME "addresses" \notin mixedUp'
      PROVE  flagged' = {chosen'} \ {NoAddress}
  <2>1. ~edit[r].late /\ "addresses" \notin mixedUp
    BY <1>1, <1>3, <1>7, Marked
  <2>2. edit[r].marked = (a \in flagged) /\ flagged = {chosen} \ {NoAddress}
    BY <1>1, <1>2, <1>3, <2>1 DEF EditsCurrent, EditCurrent, DefaultIsFlagged
  <2>3. QED
    BY <1>3, <2>2, ProfileAssumption
<1>8. "banks" \notin mixedUp' /\ banks' # {} => Single(primary')
  BY <1>1, <1>3, Marked
<1>9. QED
  BY <1>4, <1>5, <1>6, <1>7, <1>8 DEF DefaultIsFlagged, Single

LEMMA SetsDefault ==
    ASSUME ProfileInv, NEW r \in Request, SetDefaultAddress(r)
    PROVE  ProfileInv'
<1> USE DEF ProfileInv
<1>1. edit[r] # Idle /\ edit[r] \in Edit
  BY IdleOp DEF SetDefaultAddress, ProfileTypeOK
<1>2. PICK a : a = edit[r].row
  OBVIOUS
<1>3. /\ a \in addresses /\ flagged' = {a} /\ chosen' = a /\ addresses' = addresses
      /\ Finish(r, AddressEdits) /\ mixedUp' = mixedUp \ {"addresses"}
      /\ banks' = banks /\ primary' = primary /\ UNCHANGED bankVars
  BY <1>2 DEF SetDefaultAddress, bankVars
<1>4. edit' \in [Request -> Edit] /\ EditsCurrent'
  BY <1>3, AddressesWritten
<1>5. ProfileTypeOK'
  BY <1>3, <1>4 DEF ProfileTypeOK
<1>6. DefaultIsFlagged'
  BY <1>3, ProfileAssumption DEF DefaultIsFlagged, ProfileTypeOK
<1>7. "banks" \notin mixedUp' /\ banks' # {} => Single(primary')
  BY <1>3
<1>8. QED
  BY <1>4, <1>5, <1>6, <1>7 DEF Single

LEMMA CreatesBank ==
    ASSUME ProfileInv, NEW r \in Request, NEW b \in Bank, CreateVendorBank(r, b)
    PROVE  ProfileInv'
<1> USE DEF ProfileInv
<1>1. edit[r] # Idle /\ edit[r] \in Edit
  BY IdleOp DEF CreateVendorBank, ProfileTypeOK
<1>2. /\ edit[r].op = "addBank" /\ b \notin banks /\ banks' = banks \cup {b}
      /\ primary' = IF edit[r].first THEN primary \cup {b} ELSE primary
      /\ Finish(r, BankEdits) /\ Mark(r, "banks")
      /\ addresses' = addresses /\ flagged' = flagged /\ chosen' = chosen /\ UNCHANGED addressVars
  BY DEF CreateVendorBank, addressVars
<1>3. edit' \in [Request -> Edit] /\ EditsCurrent'
  BY <1>2, BanksWritten
<1>4. ProfileTypeOK'
  BY <1>1, <1>2, <1>3, Marked DEF ProfileTypeOK
<1>5. DefaultIsFlagged'
  BY <1>1, <1>2, Marked DEF DefaultIsFlagged
<1>6. ASSUME "banks" \notin mixedUp'
      PROVE  Single(primary')
  <2>1. ~edit[r].late /\ "banks" \notin mixedUp
    BY <1>1, <1>2, <1>6, Marked
  <2>2. edit[r].first = (banks = {})
    BY <1>1, <1>2, <2>1 DEF EditsCurrent, EditCurrent
  <2>3. CASE banks = {}
    <3>1. primary' = {b}
      BY <1>2, <2>2, <2>3 DEF ProfileTypeOK
    <3>2. QED
      BY <3>1 DEF Single
  <2>4. CASE banks # {}
    BY <1>2, <2>1, <2>2, <2>4
  <2>5. QED
    BY <2>3, <2>4
<1>7. QED
  BY <1>3, <1>4, <1>5, <1>6 DEF Single

LEMMA DeletesBank ==
    ASSUME ProfileInv, NEW r \in Request, DeleteVendorBank(r)
    PROVE  ProfileInv'
<1> USE DEF ProfileInv
<1>1. edit[r] # Idle /\ edit[r] \in Edit
  BY IdleOp DEF DeleteVendorBank, ProfileTypeOK
<1>2. PICK b : b = edit[r].row
  OBVIOUS
<1>3. /\ edit[r].op = "deleteBank" /\ banks' = banks \ {b} /\ primary' = primary \ {b}
      /\ Finish(r, BankEdits) /\ Mark(r, "banks")
      /\ addresses' = addresses /\ flagged' = flagged /\ chosen' = chosen /\ UNCHANGED addressVars
  BY <1>2 DEF DeleteVendorBank, addressVars
<1>4. edit' \in [Request -> Edit] /\ EditsCurrent'
  BY <1>3, BanksWritten
<1>5. ProfileTypeOK'
  BY <1>1, <1>3, <1>4, Marked DEF ProfileTypeOK
<1>6. DefaultIsFlagged'
  BY <1>1, <1>3, Marked DEF DefaultIsFlagged
<1>7. ASSUME "banks" \notin mixedUp', banks' # {}
      PROVE  Single(primary')
  <2>1. ~edit[r].late /\ "banks" \notin mixedUp
    BY <1>1, <1>3, <1>7, Marked
  <2>2. b \in primary => banks = {b}
    BY <1>1, <1>2, <1>3, <2>1 DEF EditsCurrent, EditCurrent, MayDelete
  <2>3. primary' = primary /\ banks # {}
    BY <1>3, <1>7, <2>2
  <2>4. QED
    BY <2>1, <2>3
<1>8. QED
  BY <1>4, <1>5, <1>6, <1>7 DEF Single

LEMMA SetsPrimary ==
    ASSUME ProfileInv, NEW r \in Request, SetPrimaryVendorBank(r)
    PROVE  ProfileInv'
<1> USE DEF ProfileInv
<1>1. edit[r] # Idle /\ edit[r] \in Edit
  BY IdleOp DEF SetPrimaryVendorBank, ProfileTypeOK
<1>2. PICK b : b = edit[r].row
  OBVIOUS
<1>3. /\ primary' = {b} \cap banks /\ banks' = banks
      /\ mixedUp' = IF primary' # {} THEN mixedUp \ {"banks"} ELSE mixedUp \cup {"banks"}
      /\ Finish(r, BankEdits)
      /\ addresses' = addresses /\ flagged' = flagged /\ chosen' = chosen /\ UNCHANGED addressVars
  BY <1>2 DEF SetPrimaryVendorBank, addressVars
<1>4. edit' \in [Request -> Edit] /\ EditsCurrent'
  BY <1>3, BanksWritten
<1>5. ProfileTypeOK'
  BY <1>3, <1>4 DEF ProfileTypeOK
<1>6. DefaultIsFlagged'
  BY <1>3 DEF DefaultIsFlagged
<1>7. "banks" \notin mixedUp' => primary' = {b}
  BY <1>3
<1>8. QED
  BY <1>4, <1>5, <1>6, <1>7 DEF Single

-----------------------------------------------------------------------------

LEMMA ProfileStart == ProfileInit => ProfileInv
  BY IdleOp DEF ProfileInit, ProfileInv, ProfileTypeOK, EditsCurrent, DefaultIsFlagged

LEMMA ProfileStep == ProfileInv /\ [ProfileNext]_profileVars => ProfileInv'
<1> SUFFICES ASSUME ProfileInv, [ProfileNext]_profileVars PROVE ProfileInv'
  OBVIOUS
<1>1. CASE AddressNext
  BY <1>1, Reads, CreateAddresses, DeletesAddress, SetsDefault DEF AddressNext
<1>2. CASE BankNext
  BY <1>2, Reads, CreatesBank, DeletesBank, SetsPrimary DEF BankNext
<1>3. CASE UNCHANGED profileVars
  BY <1>3 DEF profileVars, ProfileInv, ProfileTypeOK, EditsCurrent, EditCurrent, MayDelete, DefaultIsFlagged, Single
<1>4. QED
  BY <1>1, <1>2, <1>3 DEF ProfileNext

\* The types of the two lists, what the requests in flight know of them, and the marks,
\* hold throughout.
THEOREM ProfileInvariant == ProfileSpec => []ProfileInv
<1>1. ProfileInit => ProfileInv
  BY ProfileStart
<1>2. ProfileInv /\ [ProfileNext]_profileVars => ProfileInv'
  BY ProfileStep
<1>3. QED
  BY <1>1, <1>2, PTL DEF ProfileSpec

LEMMA MarksKept == ProfileInv => OneIsMarked
<1> SUFFICES ASSUME ProfileInv PROVE OneIsMarked
  OBVIOUS
<1>1. ASSUME "banks" \notin mixedUp, banks # {}
      PROVE  Cardinality(primary) = 1
  <2>1. PICK b : primary = {b}
    BY <1>1 DEF ProfileInv, Single
  <2>2. QED
    BY <2>1, FS_Singleton
<1>2. QED
  BY <1>1 DEF ProfileInv, OneIsMarked, OnePrimary

\* However requests on a profile overlap, the default address it names is flagged.  While no
\* overtaken request has written, no other address is - none at all once the default one has
\* been deleted, since nothing is promoted to its place -, and of a vendor's bank accounts
\* exactly one is the primary.
THEOREM ListsKeepTheirMark == ProfileSpec => []OneIsMarked
<1>1. ProfileInv => OneIsMarked
  BY MarksKept
<1>2. QED
  BY <1>1, ProfileInvariant, PTL

-----------------------------------------------------------------------------
(* UserProfile: a patch of the user's row is kept.  The invariant says what a *)
(* request in flight still knows of the row: what it read of a column is what *)
(* the column holds, unless others wrote it since or wrote it back; and terms *)
(* it read as accepted are.                                                   *)

Patchers == {r \in Request : patching[r] # Idle}

ReadsHold ==
    \A r \in Patchers :
        /\ \A f \in Field \ (undone \cup patching[r].since) : patching[r].read[f] = user[f]
        /\ patching[r].read[Terms] # Null => user[Terms] = patching[r].read[Terms]

UserInv == UserProfileTypeOK /\ ReadsHold /\ PatchKept

-----------------------------------------------------------------------------

LEMMA PatchingFields ==
    ASSUME NEW d \in Patching, d # Idle
    PROVE  /\ d.op = "patching" /\ d.patch \in Patch
           /\ d.read \in Columns /\ d.since \subseteq Field
  BY DEF Patching, Idle

LEMMA PatchFields ==
    ASSUME NEW patch \in Patch
    PROVE  /\ DOMAIN patch \subseteq Field
           /\ \A f \in DOMAIN patch : patch[f] \in Value
  BY DEF Patch

LEMMA TermsField == Terms \in Field /\ Terms \in Required
  BY UserProfileAssumption

\* Laying a patch over a row gives a row.
LEMMA MergedType ==
    ASSUME NEW current \in Columns, NEW patch \in Patch
    PROVE  mergeUserPatch(current, patch) \in Columns
<1>1. ASSUME NEW f \in Field
      PROVE  (IF f \in DOMAIN patch /\ ~(f = Terms /\ current[Terms] # Null)
              THEN patch[f] ELSE current[f]) \in Value \cup {Null}
  BY PatchFields DEF Columns
<1>2. QED
  BY <1>1 DEF mergeUserPatch, Columns

LEMMA WrittenType ==
    ASSUME NEW row \in Columns, NEW merged \in Columns
    PROVE  /\ updateUserProfile(row, merged) \in Columns
           /\ \A f \in Field \ {Terms} : updateUserProfile(row, merged)[f] = merged[f]
           /\ updateUserProfile(row, merged)[Terms] =
                  IF row[Terms] = Null THEN merged[Terms] ELSE row[Terms]
  BY TermsField DEF updateUserProfile, Columns

-----------------------------------------------------------------------------

LEMMA TypeStep ==
    ASSUME UserProfileTypeOK, UserProfileNext
    PROVE  UserProfileTypeOK'
<1>1. ASSUME NEW r \in Request, NEW patch \in Patch, GetUserByID(r, patch)
      PROVE  UserProfileTypeOK'
  <2>1. [op |-> "patching", patch |-> patch, read |-> user, since |-> {}] \in Patching
    BY DEF Patching, UserProfileTypeOK
  <2>2. QED
    BY <1>1, <2>1 DEF GetUserByID, UserProfileTypeOK
<1>2. ASSUME NEW r \in Request, UpdateMe(r)
      PROVE  UserProfileTypeOK'
  <2> DEFINE patch == patching[r].patch
             merged == mergeUserPatch(patching[r].read, patch)
             given == Asked(patch)
  <2>1. patching[r] \in Patching /\ patching[r] # Idle
    BY <1>2 DEF UpdateMe, UserProfileTypeOK
  <2>2. patch \in Patch /\ merged \in Columns /\ patching[r].since \subseteq Field
    BY <2>1, PatchingFields, MergedType
  <2>3. given \subseteq DOMAIN patch /\ given \subseteq Field
    BY <2>2, PatchFields DEF Asked
  <2>4. user' \in Columns
    BY <1>2, <2>2, WrittenType DEF UpdateMe, UserProfileTypeOK
  <2>5. wanted' \in Columns
    <3>1. ASSUME NEW f \in Field
          PROVE  (IF f \in given THEN patch[f] ELSE wanted[f]) \in Value \cup {Null}
      BY <2>2, <2>3, PatchFields DEF UserProfileTypeOK, Columns
    <3>2. wanted' = [f \in Field |-> IF f \in given THEN patch[f] ELSE wanted[f]]
      BY <1>2 DEF UpdateMe
    <3>3. QED
      BY <3>1, <3>2 DEF Columns
  <2>6. completed' \in BOOLEAN
    BY <1>2 DEF UpdateMe, Complete
  <2>7. undone' \subseteq Field
    BY <1>2, <2>2 DEF UpdateMe, UserProfileTypeOK
  <2>8. patching' \in [Request -> Patching]
    <3>1. ASSUME NEW q \in Request, patching[q] # Idle
          PROVE  [patching[q] EXCEPT !.since = @ \cup given] \in Patching
      BY <3>1, <2>3 DEF UserProfileTypeOK, Patching, Idle
    <3>2. Idle \in Patching
      BY DEF Patching
    <3>3. patching' = [q \in Request |-> IF q = r THEN Idle
                                         ELSE IF patching[q] = Idle THEN Idle
                                         ELSE [patching[q] EXCEPT !.since = @ \cup given]]
      BY <1>2 DEF UpdateMe
    <3>4. QED
      BY <3>1, <3>2, <3>3
  <2>9. QED
    BY <2>4, <2>5, <2>6, <2>7, <2>8 DEF UserProfileTypeOK
<1>3. ASSUME NEW r \in Request, PatchFails(r)
      PROVE  UserProfileTypeOK'
  BY <1>3 DEF PatchFails, UserProfileTypeOK, Patching
<1>4. QED
  BY <1>1, <1>2, <1>3 DEF UserProfileNext

LEMMA ReadingStep ==
    ASSUME UserInv, NEW r \in Request, NEW patch \in Patch, GetUserByID(r, patch)
    PROVE  ReadsHold' /\ PatchKept'
<1>1. UNCHANGED <<user, completed, wanted, undone>>
  BY DEF GetUserByID
<1>2. PatchKept'
  BY <1>1 DEF UserInv, PatchKept, Complete
<1>3. ASSUME NEW q \in Patchers'
      PROVE  \/ q \in Patchers /\ patching'[q] = patching[q]
             \/ patching'[q].read = user /\ patching'[q].since = {}
  <2>1. q \in Request /\ patching' = [patching EXCEPT ![r] =
           [op |-> "patching", patch |-> patch, read |-> user, since |-> {}]]
    BY <1>3 DEF GetUserByID, Patchers
  <2>2. CASE q = r
    BY <2>1, <2>2 DEF UserInv, UserProfileTypeOK
  <2>3. CASE q # r
    BY <1>3, <2>1, <2>3 DEF UserInv, UserProfileTypeOK, Patchers
  <2>4. QED
    BY <2>2, <2>3
<1>4. ReadsHold'
  BY <1>1, <1>3 DEF UserInv, ReadsHold
<1>5. QED
  BY <1>2, <1>4

\* What the update leaves in each column: what was asked of it, or what was there, or what
\* the request had read of a column that is counted as undone from then on.
LEMMA Written ==
    ASSUME UserInv, NEW r \in Request, UpdateMe(r), NEW f \in Field
    PROVE  /\ f \in Asked(patching[r].patch) => user'[f] = patching[r].patch[f]
           /\ f \notin Asked(patching[r].patch) /\ f \notin undone' => user'[f] = user[f]
<1> DEFINE patch == patching[r].patch
           read == patching[r].read
           merged == mergeUserPatch(read, patch)
<1>1. patching[r] \in Patching /\ patching[r] # Idle /\ r \in Patchers
  BY DEF UpdateMe, UserInv, UserProfileTypeOK, Patchers
<1>2. patch \in Patch /\ read \in Columns /\ merged \in Columns
  BY <1>1, PatchingFields, MergedType
<1>3. user \in Columns /\ user' = updateUserProfile(user, merged)
  BY DEF UpdateMe, UserInv, UserProfileTypeOK
<1>4. merged[f] = IF f \in DOMAIN patch /\ ~(f = Terms /\ read[Terms] # Null)
                  THEN patch[f] ELSE read[f]
  BY DEF mergeUserPatch
<1>5. undone' = ((undone \cup patching[r].since) \ Asked(patch)) \ {Terms}
  BY DEF UpdateMe
<1>6. f \in Asked(patch) <=> f \in DOMAIN patch /\ (f # Terms \/ user[Terms] = Null)
  BY DEF Asked
<1>7. CASE f # Terms
  <2>1. user'[f] = merged[f]
    BY <1>2, <1>3, <1>7, WrittenType
  <2>2. CASE f \in Asked(patch)
    BY <1>4, <1>6, <1>7, <2>1, <2>2
  <2>3. ASSUME f \notin Asked(patch), f \notin undone'
        PROVE  user'[f] = user[f]
    <3>1. f \notin undone \cup patching[r].since
      BY <1>5, <1>7, <2>3
    <3>2. read[f] = user[f]
      BY <1>1, <3>1 DEF UserInv, ReadsHold
    <3>3. QED
      BY <1>4, <1>6, <1>7, <2>1, <2>3, <3>2
  <2>4. QED
    BY <2>2, <2>3
<1>8. CASE f = Terms
  <2>1. user'[f] = IF user[Terms] = Null THEN merged[Terms] ELSE user[Terms]
    BY <1>2, <1>3, <1>8, WrittenType
  <2>2. read[Terms] # Null => user[Terms] = read[Terms]
    BY <1>1 DEF UserInv, ReadsHold
  <2>3. QED
    BY <1>4, <1>6, <1>8, <2>1, <2>2
<1>9. QED
  BY <1>7, <1>8

LEMMA UpdateStep ==
    ASSUME UserInv, NEW r \in Request, UpdateMe(r)
    PROVE  ReadsHold' /\ PatchKept'
<1> DEFINE patch == patching[r].patch
           merged == mergeUserPatch(patching[r].read, patch)
           given == Asked(patch)
<1>1. patching[r] \in Patching /\ patching[r] # Idle
  BY DEF UpdateMe, UserInv, UserProfileTypeOK
<1>2. merged \in Columns /\ user \in Columns
  BY <1>1, PatchingFields, MergedType DEF UserInv, UserProfileTypeOK
<1>3. undone' = ((undone \cup patching[r].since) \ given) \ {Terms}
  BY DEF UpdateMe
<1>4. \A f \in Field \ undone : user[f] = wanted[f]
  BY DEF UserInv, PatchKept
<1>5. \A f \in Field \ undone' : user'[f] = wanted'[f]
  <2> SUFFICES ASSUME NEW f \in Field, f \notin undone'
               PROVE  user'[f] = wanted'[f]
    OBVIOUS
  <2>1. wanted'[f] = IF f \in given THEN patch[f] ELSE wanted[f]
    BY DEF UpdateMe
  <2>2. f \notin given => f \notin undone
    BY <1>3, TermsField DEF UserInv, PatchKept
  <2>3. QED
    BY <1>4, <2>1, <2>2, Written
<1>6. completed' => Complete(user')
  <2>1. user' = updateUserProfile(user, merged) /\ completed' = Complete(merged)
    BY DEF UpdateMe
  <2>2. ASSUME Complete(merged), NEW f \in Required
        PROVE  user'[f] # Null
    BY <1>2, <2>1, <2>2, WrittenType, UserProfileAssumption DEF Complete
  <2>3. QED
    BY <2>1, <2>2 DEF Complete
<1>7. PatchKept'
  BY <1>3, <1>5, <1>6 DEF PatchKept, Complete
<1>8. ReadsHold'
  <2> SUFFICES ASSUME NEW q \in Patchers'
               PROVE  /\ \A f \in Field \ (undone' \cup patching'[q].since) :
                             patching'[q].read[f] = user'[f]
                      /\ patching'[q].read[Terms] # Null => user'[Terms] = patching'[q].read[Terms]
    BY DEF ReadsHold
  <2>1. q \in Request /\ q # r /\ patching[q] # Idle
        /\ patching'[q] = [patching[q] EXCEPT !.since = @ \cup given]
    BY DEF UpdateMe, Patchers, UserInv, UserProfileTypeOK
  <2>2. q \in Patchers /\ patching[q] \in Patching
    BY <2>1 DEF Patchers, UserInv, UserProfileTypeOK
  <2>3. patching'[q].read = patching[q].read /\ patching'[q].since = patching[q].since \cup given
    BY <2>1, <2>2 DEF Patching, Idle
  <2>4. ASSUME NEW f \in Field, f \notin undone', f \notin patching'[q].since
        PROVE  patching'[q].read[f] = user'[f]
    <3>1. f \notin given /\ f \notin patching[q].since
      BY <2>3, <2>4
    <3>2. f \notin undone
      BY <1>3, <2>4, <3>1, TermsField DEF UserInv, PatchKept
    <3>3. patching[q].read[f] = user[f]
      BY <2>2, <3>1, <3>2 DEF UserInv, ReadsHold
    <3>4. QED
      BY <2>3, <2>4, <3>1, <3>3, Written
  <2>5. patching[q].read[Terms] # Null => user'[Terms] = patching[q].read[Terms]
    <3>1. ASSUME patching[q].read[Terms] # Null
          PROVE  user[Terms] # Null /\ user[Terms] = patching[q].read[Terms]
      BY <2>2, <3>1 DEF UserInv, ReadsHold
    <3>2. Terms \notin undone'
      BY <1>3
    <3>3. user[Terms] # Null => user'[Terms] = user[Terms]
      BY <3>2, TermsField, Written DEF Asked
    <3>4. QED
      BY <3>1, <3>3
  <2>6. QED
    BY <2>3, <2>4, <2>5
<1>9. QED
  BY <1>7, <1>8

LEMMA FailingStep ==
    ASSUME UserInv, NEW r \in Request, PatchFails(r)
    PROVE  ReadsHold' /\ PatchKept'
<1>1. UNCHANGED <<user, completed, wanted, undone>>
  BY DEF PatchFails
<1>2. PatchKept'
  BY <1>1 DEF UserInv, PatchKept, Complete
<1>3. \A q \in Patchers' : q \in Patchers /\ patching'[q] = patching[q]
  BY DEF PatchFails, Patchers, UserInv, UserProfileTypeOK
<1>4. ReadsHold'
  BY <1>1, <1>3 DEF UserInv, ReadsHold
<1>5. QED
  BY <1>2, <1>4

-----------------------------------------------------------------------------

LEMMA UserStart == UserProfileInit => UserInv
<1> SUFFICES ASSUME UserProfileInit PROVE UserInv
  OBVIOUS
<1>1. UserProfileTypeOK
  BY DEF UserProfileInit, UserProfileTypeOK, Columns, Patching
<1>2. Patchers = {}
  BY DEF UserProfileInit, Patchers
<1>3. QED
  BY <1>1, <1>2 DEF UserInv, ReadsHold, PatchKept, UserProfileInit, Complete

LEMMA UserStep == UserInv /\ [UserProfileNext]_userVars => UserInv'
<1> SUFFICES ASSUME UserInv, [UserProfileNext]_userVars PROVE UserInv'
  OBVIOUS
<1>1. CASE UNCHANGED userVars
  BY <1>1 DEF userVars, UserInv, UserProfileTypeOK, ReadsHold, Patchers, PatchKept, Complete
<1>2. CASE UserProfileNext
  <2>1. UserProfileTypeOK'
    BY <1>2, TypeStep DEF UserInv
  <2>2. ReadsHold' /\ PatchKept'
    BY <1>2, ReadingStep, UpdateStep, FailingStep DEF UserProfileNext
  <2>3. QED
    BY <2>1, <2>2 DEF UserInv
<1>3. QED
  BY <1>1, <1>2

\* What a user last asked of a column stands unless an overtaken request has written it
\* back, the accepted terms are never written back, and no incomplete profile is marked
\* complete, whatever requests read and write meanwhile (UpdateMe, updateUserProfile).
THEOREM PatchesAreKept == UserProfileSpec => []PatchKept
<1>1. UserProfileSpec => []UserInv
  BY UserStart, UserStep, PTL DEF UserProfileSpec
<1>2. UserInv => PatchKept
  BY DEF UserInv
<1>3. QED
  BY <1>1, <1>2, PTL

-----------------------------------------------------------------------------
(* Newsletter: a campaign is mailed once.  The invariant counts, with the  *)
(* copies sent, those still on a list being mailed, and keeps one copy     *)
(* back while a request that nobody overtook has passed the check.         *)

Prepared == {"checked", "loaded"}

\* Sends that have reader x before them.
OnList(x) == {r \in Request : sending[r].op = "mailing" /\ x \in sending[r].to}

Due(x) == mailed[x] + Cardinality(OnList(x))

Unspent ==
    \/ campaign \in {"none", "draft"}
    \/ \E r \in Request : sending[r].op \in Prepared /\ ~sending[r].late

NewsletterInv ==
    /\ NewsletterTypeOK
    /\ \A x \in Reader : Due(x) <= again + 1 /\ (Unspent => Due(x) <= again)

-----------------------------------------------------------------------------

LEMMA SendingFields ==
    ASSUME NEW d \in Sending
    PROVE  /\ d.op \in {"idle", "checked", "loaded", "mailing"}
           /\ d.op \in Prepared => d.late \in BOOLEAN
           /\ d.op \in {"loaded", "mailing"} => d.to \subseteq Reader
           /\ d = Idle <=> d.op = "idle"
  BY DEF Sending, Idle, Prepared

LEMMA IdleSend == Idle \in Sending /\ Idle.op = "idle"
  BY DEF Sending, Idle

LEMMA Tolls ==
    ASSUME NewsletterTypeOK, NEW x \in Reader
    PROVE  /\ IsFiniteSet(OnList(x)) /\ Cardinality(OnList(x)) \in Nat
           /\ Due(x) \in Nat /\ mailed[x] \in Nat /\ again \in Nat
<1>1. OnList(x) \subseteq Request
  BY DEF OnList
<1>2. IsFiniteSet(OnList(x)) /\ Cardinality(OnList(x)) \in Nat
  BY <1>1, RequestAssumption, FS_Subset, FS_CardinalityType
<1>3. QED
  BY <1>2 DEF Due, NewsletterTypeOK

\* Nothing that counts has changed, or only less is due.
LEMMA NoMoreDue ==
    ASSUME NewsletterInv, NewsletterTypeOK', again' = again, mailed' = mailed,
           \A x \in Reader : OnList(x)' \subseteq OnList(x),
           Unspent' => Unspent
    PROVE  NewsletterInv'
<1> SUFFICES ASSUME NEW x \in Reader
             PROVE  Due(x)' <= again' + 1 /\ (Unspent' => Due(x)' <= again')
  BY DEF NewsletterInv
<1>1. PICK S, T : S = OnList(x) /\ T = OnList(x)'
  OBVIOUS
<1>2. IsFiniteSet(S) /\ T \subseteq S
  BY <1>1, Tolls DEF NewsletterInv
<1>3. Cardinality(T) <= Cardinality(S) /\ Cardinality(T) \in Nat /\ Cardinality(S) \in Nat
  BY <1>2, FS_Subset, FS_CardinalityType
<1>4. Due(x) = mailed[x] + Cardinality(S) /\ Due(x)' = mailed'[x] + Cardinality(T)
  BY <1>1 DEF Due
<1>5. mailed[x] \in Nat /\ again \in Nat /\ Due(x) <= again + 1 /\ (Unspent => Due(x) <= again)
  BY Tolls DEF NewsletterInv
<1>6. QED
  BY <1>3, <1>4, <1>5

\* One row of sending is written.
LEMMA RowWritten ==
    ASSUME NewsletterTypeOK, NEW r \in Request, NEW d \in Sending, sending' = [sending EXCEPT ![r] = d]
    PROVE  /\ sending' \in [Request -> Sending]
           /\ \A q \in Request : sending'[q] = IF q = r THEN d ELSE sending[q]
  BY DEF NewsletterTypeOK

LEMMA Readers ==
    ASSUME NewsletterInv, NEW x,
           \/ x \in Reader /\ (SubscribeReader(x) \/ Unsubscribe(x))
           \/ CreateCampaign
    PROVE  NewsletterInv'
<1>1. NewsletterTypeOK' /\ sending' = sending /\ again' = again /\ mailed' = mailed
  BY DEF NewsletterInv, NewsletterTypeOK, SubscribeReader, Unsubscribe, CreateCampaign
<1>2. campaign' \in {"none", "draft"} => campaign \in {"none", "draft"}
  BY DEF SubscribeReader, Unsubscribe, CreateCampaign
<1>3. QED
  BY <1>1, <1>2, NoMoreDue DEF Unspent, OnList

LEMMA Preparing ==
    ASSUME NewsletterInv, NEW r \in Request,
           CheckCampaign(r) \/ LoadSubscribers(r) \/ SendRefused(r)
    PROVE  NewsletterInv'
<1> USE DEF NewsletterInv
<1>1. PICK d \in Sending :
          /\ sending' = [sending EXCEPT ![r] = d] /\ d.op # "mailing"
          /\ d.op \in Prepared /\ ~d.late => Unspent
  <2>1. CASE CheckCampaign(r)
    <3>1. PICK d : d = [op |-> "checked", late |-> FALSE]
      OBVIOUS
    <3>2. d \in Sending /\ d.op # "mailing"
      BY <3>1 DEF Sending
    <3>3. Unspent
      BY <2>1 DEF CheckCampaign, MaySend, Unspent, NewsletterTypeOK
    <3>4. QED
      BY <2>1, <3>1, <3>2, <3>3 DEF CheckCampaign
  <2>2. CASE LoadSubscribers(r)
    <3>1. PICK d : d = [op |-> "loaded", late |-> sending[r].late, to |-> subscribers]
      OBVIOUS
    <3>2. sending[r].op \in Prepared /\ sending[r].late \in BOOLEAN
      BY <2>2, SendingFields DEF LoadSubscribers, NewsletterTypeOK, Prepared
    <3>3. d \in Sending /\ d.op # "mailing"
      BY <3>1, <3>2 DEF Sending, NewsletterTypeOK
    <3>4. ~d.late => Unspent
      BY <3>1, <3>2 DEF Unspent
    <3>5. QED
      BY <2>2, <3>1, <3>3, <3>4 DEF LoadSubscribers
  <2>3. CASE SendRefused(r)
    BY <2>3, IdleSend DEF SendRefused, Prepared
  <2>4. QED
    BY <2>1, <2>2, <2>3
<1>2. UNCHANGED <<subscribers, campaign, mailed, again>>
  BY DEF CheckCampaign, LoadSubscribers, SendRefused
<1>3. /\ sending' \in [Request -> Sending]
      /\ \A q \in Request : sending'[q] = IF q = r THEN d ELSE sending[q]
  BY <1>1, RowWritten
<1>4. NewsletterTypeOK'
  BY <1>2, <1>3 DEF NewsletterTypeOK
<1>5. \A x \in Reader : OnList(x)' \subseteq OnList(x)
  BY <1>1, <1>3 DEF OnList
<1>6. Unspent' => Unspent
  BY <1>1, <1>2, <1>3 DEF Unspent
<1>7. QED
  BY <1>2, <1>4, <1>5, <1>6, NoMoreDue

\* The mark makes one more send due to each reader on the list, and every other request
\* that is prepared late.
LEMMA Marks ==
    ASSUME NewsletterInv, NEW r \in Request, NEW marked \in BOOLEAN, MarkSending(r, marked)
    PROVE  NewsletterInv'
<1> USE DEF NewsletterInv
<1>1. PICK d : d = [op |-> "mailing", to |-> sending[r].to]
  OBVIOUS
<1>2. PICK wasLate \in BOOLEAN : wasLate = sending[r].late
  BY SendingFields DEF MarkSending, NewsletterTypeOK, Prepared
<1>3. sending[r].op = "loaded" /\ sending[r].to \subseteq Reader
  BY SendingFields DEF MarkSending, NewsletterTypeOK
<1>4. d \in Sending /\ d.op = "mailing"
  BY <1>1, <1>3 DEF Sending
<1>5. /\ campaign' = IF marked THEN "sending" ELSE campaign
      /\ again' = again + Toll(wasLate) + Toll(~marked)
      /\ subscribers' = subscribers /\ mailed' = mailed
  BY <1>2 DEF MarkSending
<1>6. sending' = [q \in Request |->
                     IF q = r THEN d
                     ELSE IF sending[q].op \in Prepared THEN [sending[q] EXCEPT !.late = TRUE]
                     ELSE sending[q]]
  BY <1>1 DEF MarkSending, Prepared
<1>7. \A q \in Request :
          /\ sending'[q] \in Sending
          /\ sending'[q].op \in Prepared => sending'[q].late
          /\ q # r => \/ sending'[q] = sending[q]
                      \/ sending'[q].op # "mailing" /\ sending[q].op # "mailing"
  <2> SUFFICES ASSUME NEW q \in Request
               PROVE  /\ sending'[q] \in Sending
                      /\ sending'[q].op \in Prepared => sending'[q].late
                      /\ q # r => \/ sending'[q] = sending[q]
                                  \/ sending'[q].op # "mailing" /\ sending[q].op # "mailing"
    OBVIOUS
  <2>1. CASE q = r
    BY <1>4, <1>6, <2>1 DEF Prepared
  <2>2. CASE q # r /\ sending[q].op \in Prepared
    <3>1. PICK old : old = sending[q]
      OBVIOUS
    <3>2. PICK new : new = [old EXCEPT !.late = TRUE]
      OBVIOUS
    <3>3. old \in [op: {"checked"}, late: BOOLEAN] \cup [op: {"loaded"}, late: BOOLEAN, to: SUBSET Reader]
      BY <2>2, <3>1 DEF NewsletterTypeOK, Sending, Prepared, Idle
    <3>4. new \in Sending /\ new.late /\ new.op = old.op
      BY <3>2, <3>3 DEF Sending
    <3>5. sending'[q] = new
      BY <1>6, <2>2, <3>1, <3>2
    <3>6. QED
      BY <2>2, <3>1, <3>4, <3>5 DEF Prepared
  <2>3. CASE q # r /\ sending[q].op \notin Prepared
    BY <1>6, <2>3 DEF NewsletterTypeOK
  <2>4. QED
    BY <2>1, <2>2, <2>3
<1>8. again' \in Nat /\ again' = again + (IF wasLate THEN 1 ELSE 0) + (IF marked THEN 0 ELSE 1)
  BY <1>5 DEF Toll, NewsletterTypeOK
<1>9. NewsletterTypeOK'
  BY <1>5, <1>6, <1>7, <1>8 DEF NewsletterTypeOK
<1>10. ASSUME NEW x \in Reader
       PROVE  Due(x)' <= again' + 1 /\ (Unspent' => Due(x)' <= again')
  <2>1. PICK S, T : S = OnList(x) /\ T = OnList(x)'
    OBVIOUS
  <2>2. T \subseteq S \cup {r}
    BY <1>6, <1>7, <2>1 DEF OnList
  <2>3. IsFiniteSet(S) /\ IsFiniteSet(S \cup {r}) /\ r \notin S
    BY <1>3, <2>1, Tolls, FS_AddElement DEF OnList
  <2>4. Cardinality(T) <= Cardinality(S) + 1 /\ Cardinality(T) \in Nat /\ Cardinality(S) \in Nat
    BY <2>2, <2>3, FS_AddElement, FS_Subset, FS_CardinalityType
  <2>5. Due(x)' <= Due(x) + 1 /\ Due(x)' \in Int
    BY <1>5, <2>1, <2>4, Tolls DEF Due
  <2>6. Unspent' => ~marked
    <3>1. SUFFICES ASSUME marked PROVE ~Unspent'
      OBVIOUS
    <3>2. campaign' = "sending"
      BY <1>5, <3>1
    <3>3. QED
      BY <1>7, <3>2 DEF Unspent
  <2>7. ~wasLate => Due(x) <= again
    BY <1>2, <1>3 DEF Unspent, Prepared
  <2>8. Due(x) <= again + 1 /\ Due(x) \in Nat /\ again \in Nat
    BY Tolls
  <2>9. QED
    BY <1>8, <2>5, <2>6, <2>7, <2>8
<1>11. QED
  BY <1>9, <1>10

\* A copy sent is one copy less on the list.
LEMMA Mails ==
    ASSUME NewsletterInv, NEW r \in Request, NEW y \in Reader, NEW arrived \in BOOLEAN,
           SendCampaignMail(r, y, arrived)
    PROVE  NewsletterInv'
<1> USE DEF NewsletterInv
<1>1. PICK d : d = [op |-> "mailing", to |-> sending[r].to \ {y}]
  OBVIOUS
<1>2. sending[r].op = "mailing" /\ y \in sending[r].to /\ sending[r].to \subseteq Reader
  BY SendingFields DEF SendCampaignMail, NewsletterTypeOK
<1>3. d \in Sending /\ d.op = "mailing" /\ d.to = sending[r].to \ {y}
  BY <1>1, <1>2 DEF Sending
<1>4. /\ sending' = [sending EXCEPT ![r] = d]
      /\ mailed' = IF arrived THEN [mailed EXCEPT ![y] = @ + 1] ELSE mailed
      /\ UNCHANGED <<subscribers, campaign, again>>
  BY <1>1 DEF SendCampaignMail
<1>5. /\ sending' \in [Request -> Sending]
      /\ \A q \in Request : sending'[q] = IF q = r THEN d ELSE sending[q]
  BY <1>3, <1>4, RowWritten
<1>6. NewsletterTypeOK'
  BY <1>4, <1>5 DEF NewsletterTypeOK
<1>7. Unspent' => Unspent
  BY <1>3, <1>4, <1>5 DEF Unspent, Prepared
<1>8. ASSUME NEW x \in Reader
      PROVE  Due(x)' <= Due(x) /\ Due(x)' \in Int
  <2>1. PICK S, T : S = OnList(x) /\ T = OnList(x)'
    OBVIOUS
  <2>2. IsFiniteSet(S) /\ Cardinality(S) \in Nat /\ mailed[x] \in Nat
    BY <2>1, Tolls
  <2>3. Due(x) = mailed[x] + Cardinality(S) /\ Due(x)' = mailed'[x] + Cardinality(T)
    BY <2>1 DEF Due
  <2>4. CASE x = y
    <3>1. T = S \ {r} /\ r \in S
      BY <1>2, <1>3, <1>5, <2>1, <2>4 DEF OnList
    <3>2. Cardinality(T) = Cardinality(S) - 1
      BY <2>2, <3>1, FS_RemoveElement
    <3>3. mailed'[x] \in {mailed[x], mailed[x] + 1}
      BY <1>4, <2>4 DEF NewsletterTypeOK
    <3>4. QED
      BY <2>2, <2>3, <3>2, <3>3
  <2>5. CASE x # y
    <3>1. T = S
      BY <1>2, <1>3, <1>5, <2>1, <2>5 DEF OnList
    <3>2. mailed'[x] = mailed[x]
      BY <1>4, <2>5 DEF NewsletterTypeOK
    <3>3. QED
      BY <2>2, <2>3, <3>1, <3>2
  <2>6. QED
    BY <2>4, <2>5
<1>9. ASSUME NEW x \in Reader
      PROVE  Due(x)' <= again' + 1 /\ (Unspent' => Due(x)' <= again')
  BY <1>4, <1>7, <1>8, Tolls
<1>10. QED
  BY <1>6, <1>9

LEMMA Ends ==
    ASSUME NewsletterInv, NEW r \in Request, NEW marked \in BOOLEAN, MarkSent(r, marked)
    PROVE  NewsletterInv'
<1> USE DEF NewsletterInv
<1>1. /\ sending' = [sending EXCEPT ![r] = Idle]
      /\ campaign' = IF marked THEN "sent" ELSE campaign
      /\ UNCHANGED <<subscribers, mailed, again>>
  BY DEF MarkSent
<1>2. /\ sending' \in [Request -> Sending]
      /\ \A q \in Request : sending'[q] = IF q = r THEN Idle ELSE sending[q]
  BY <1>1, IdleSend, RowWritten
<1>3. NewsletterTypeOK'
  BY <1>1, <1>2 DEF NewsletterTypeOK
<1>4. Unspent' => Unspent
  BY <1>1, <1>2, IdleSend DEF Unspent, Prepared
<1>5. \A x \in Reader : OnList(x)' \subseteq OnList(x)
  BY <1>2, IdleSend DEF OnList
<1>6. QED
  BY <1>1, <1>3, <1>4, <1>5, NoMoreDue

LEMMA Restarts ==
    ASSUME NewsletterInv, RestartOrders
    PROVE  NewsletterInv'
<1> USE DEF NewsletterInv
<1>1. sending' = [r \in Request |-> Idle] /\ UNCHANGED <<subscribers, campaign, mailed, again>>
  BY DEF RestartOrders
<1>2. NewsletterTypeOK'
  BY <1>1, IdleSend DEF NewsletterTypeOK
<1>3. (Unspent' => Unspent) /\ \A x \in Reader : OnList(x)' \subseteq OnList(x)
  BY <1>1, IdleSend DEF Unspent, Prepared, OnList
<1>4. QED
  BY <1>1, <1>2, <1>3, NoMoreDue

-----------------------------------------------------------------------------

LEMMA NewsletterStart == NewsletterInit => NewsletterInv
<1> SUFFICES ASSUME NewsletterInit PROVE NewsletterInv
  OBVIOUS
<1>1. NewsletterTypeOK
  BY IdleSend DEF NewsletterInit, NewsletterTypeOK
<1>2. ASSUME NEW x \in Reader
      PROVE  Due(x) = 0 /\ again = 0
  <2>1. OnList(x) = {}
    BY IdleSend DEF NewsletterInit, OnList
  <2>2. QED
    BY <2>1, FS_EmptySet DEF Due, NewsletterInit
<1>3. QED
  BY <1>1, <1>2 DEF NewsletterInv

LEMMA NewsletterStep == NewsletterInv /\ [NewsletterNext]_newsletterVars => NewsletterInv'
<1> SUFFICES ASSUME NewsletterInv, [NewsletterNext]_newsletterVars PROVE NewsletterInv'
  OBVIOUS
<1>1. CASE NewsletterNext
  BY <1>1, Readers, Preparing, Marks, Mails, Ends, Restarts DEF NewsletterNext
<1>2. CASE UNCHANGED newsletterVars
  BY <1>2, NoMoreDue DEF newsletterVars, NewsletterInv, NewsletterTypeOK, OnList, Unspent, Prepared
<1>3. QED
  BY <1>1, <1>2

\* The copies a reader was sent and the lists that still name them never add up to more
\* than one, and one for each send the history counts; to none while a send is to come.
THEOREM NewsletterInvariant == NewsletterSpec => []NewsletterInv
<1>1. NewsletterInit => NewsletterInv
  BY NewsletterStart
<1>2. NewsletterInv /\ [NewsletterNext]_newsletterVars => NewsletterInv'
  BY NewsletterStep
<1>3. QED
  BY <1>1, <1>2, PTL DEF NewsletterSpec

LEMMA MailedOnceEach == NewsletterInv => MailedOnce
<1> SUFFICES ASSUME NewsletterInv, NEW x \in Reader PROVE mailed[x] <= 1 + again
  BY DEF MailedOnce
<1>1. Due(x) <= again + 1 /\ mailed[x] \in Nat /\ again \in Nat /\ Cardinality(OnList(x)) \in Nat
  BY Tolls DEF NewsletterInv
<1>2. QED
  BY <1>1 DEF Due

\* A reader is sent a campaign once, whatever requests overlap and wherever the service
\* stops, but for the sends that overtaking or a lost mark let through.
THEOREM CampaignsMailedOnce == NewsletterSpec => []MailedOnce
<1>1. NewsletterInv => MailedOnce
  BY MailedOnceEach
<1>2. QED
  BY <1>1, NewsletterInvariant, PTL

-----------------------------------------------------------------------------
(* The settings of the checkout.  The invariant says what an order on its  *)
(* way knows of its option, and that an option being added, or added, goes *)
(* after those it found.                                                   *)

QuoteSound(q) ==
    /\ q.op = "placing" => OfferOf(options[q.option]) \subseteq q.offered
    /\ q.op \in {"priced", "placed"} =>
           IF q.digital THEN q.fee = 0 /\ ~q.pickup
           ELSE /\ [price |-> q.fee, pickup |-> q.pickup] \in q.offered
                /\ q.pickup => q.fee = 0

PickupFree == \A o \in OptionRows : options[o].pickup => options[o].price = 0

QuotesSound == \A r \in Request : quote[r] # Idle => QuoteSound(quote[r])

Before(q, n) == q \in OptionRows /\ options[q].position < n

PositionsSound ==
    /\ \A o \in Option : \A q \in follows[o] : o \in OptionRows /\ Before(q, options[o].position)
    /\ \A r \in Request : adding[r] # Idle => \A q \in adding[r].after : Before(q, adding[r].position)

ChoicesStand == \A g \in KnownGateways : choice[g] # "none" => gateways[g] = choice[g]

\* The types of what the invariant is about; born only settles ties, which it has none of.
SettingsRows ==
    /\ options \in [Option -> Row \cup {NoRow}]
    /\ follows \in [Option -> SUBSET Option]
    /\ adding \in [Request -> Adding]

SettingsInv ==
    /\ SettingsRows
    /\ quote \in [Request -> Quote]
    /\ gateways \in [KnownGateways -> {"none", "on", "off"}]
    /\ choice \in [KnownGateways -> {"none", "on", "off"}]
    /\ PickupFree
    /\ QuotesSound
    /\ PositionsSound
    /\ ChoicesStand

-----------------------------------------------------------------------------
(* Rows. *)

LEMMA RowsDiffer == NoRow \notin Row
  BY DEF NoRow, Row

LEMMA RowFields ==
    ASSUME SettingsRows, NEW o \in Option
    PROVE  /\ o \in OptionRows => options[o] \in Row /\ options[o].position \in 0..MaxPosition
           /\ o \notin OptionRows => options[o] = NoRow
  BY DEF SettingsRows, OptionRows, Row

LEMMA AddingFields ==
    ASSUME SettingsRows, NEW r \in Request, adding[r] # Idle
    PROVE  /\ adding[r].position \in 0..MaxPosition /\ adding[r].after \subseteq Option
           /\ adding[r] = [op |-> "adding", position |-> adding[r].position, after |-> adding[r].after]
  BY DEF SettingsRows, Adding

LEMMA AddingTypes ==
    ASSUME NEW p \in 0..MaxPosition, NEW S \in SUBSET Option
    PROVE  /\ [op |-> "adding", position |-> p, after |-> S] \in Adding
           /\ [op |-> "adding", position |-> p, after |-> S] # Idle
           /\ Idle \in Adding
  BY DEF Adding, Idle

\* The largest of some positions is one of them.
LEMMA LargestIs ==
    ASSUME NEW S \in SUBSET (0..MaxPosition), S # {}
    PROVE  Max(S) \in S /\ \A y \in S : y <= Max(S)
<1> DEFINE Short == {n \in Nat : \A T \in SUBSET (0..n) : T # {} => \E x \in T : \A y \in T : x >= y}
<1>1. Nat \subseteq Short
  <2>1. 0 \in Short
    <3> SUFFICES ASSUME NEW T \in SUBSET (0..0), T # {} PROVE \E x \in T : \A y \in T : x >= y
      OBVIOUS
    <3>1. \A y \in T : y = 0
      OBVIOUS
    <3>2. PICK x \in T : x = 0
      BY <3>1
    <3>3. \A y \in T : x >= y
      BY <3>1, <3>2
    <3>4. QED
      BY <3>3
  <2>2. ASSUME NEW n \in Nat, n \in Short PROVE n + 1 \in Short
    <3> SUFFICES ASSUME NEW T \in SUBSET (0..(n + 1)), T # {} PROVE \E x \in T : \A y \in T : x >= y
      OBVIOUS
    <3>1. CASE n + 1 \in T
      BY <3>1
    <3>2. CASE n + 1 \notin T
      <4>1. T \in SUBSET (0..n)
        BY <3>2
      <4>2. QED
        BY <2>2, <4>1
    <3>3. QED
      BY <3>1, <3>2
  <2>3. QED
    BY <2>1, <2>2, NaturalsFromZero
<1>2. MaxPosition \in Short
  BY <1>1, StoreSettingsAssumption DEF StoreSettingsAssumption
<1>3. \E x \in S : \A y \in S : x >= y
  BY <1>2
<1>4. Max(S) \in S /\ \A y \in S : Max(S) >= y
  BY <1>3 DEF Max
<1>5. QED
  BY <1>4

\* The next position is past every row there is.
LEMMA NextIsLast ==
    ASSUME SettingsRows, NextPosition <= MaxPosition
    PROVE  /\ NextPosition \in 0..MaxPosition
           /\ \A q \in OptionRows : Before(q, NextPosition)
<1>1. CASE OptionRows = {}
  BY <1>1, StoreSettingsAssumption DEF StoreSettingsAssumption, NextPosition
<1>2. CASE OptionRows # {}
  <2> DEFINE S == {options[o].position : o \in OptionRows}
  <2>1. S \in SUBSET (0..MaxPosition) /\ S # {}
    BY <1>2, RowFields DEF OptionRows
  <2>2. Max(S) \in S /\ \A y \in S : y <= Max(S)
    BY <2>1, LargestIs
  <2>3. NextPosition = Max(S) + 1
    BY <1>2 DEF NextPosition
  <2>4. Max(S) \in Nat /\ \A y \in S : y \in Nat
    BY <2>1, <2>2
  <2>5. NextPosition \in 0..MaxPosition
    BY <2>3, <2>4, StoreSettingsAssumption DEF StoreSettingsAssumption
  <2>6. \A q \in OptionRows : options[q].position \in S
    OBVIOUS
  <2>7. \A q \in OptionRows : options[q].position < NextPosition
    <3> SUFFICES ASSUME NEW q \in OptionRows PROVE options[q].position < NextPosition
      OBVIOUS
    <3>1. PICK y \in S : y = options[q].position
      BY <2>6
    <3> HIDE DEF S
    <3>2. QED
      BY <2>2, <2>3, <2>4, <3>1
  <2>8. QED
    BY <2>5, <2>7 DEF Before
<1>3. QED
  BY <1>1, <1>2

-----------------------------------------------------------------------------
(* The vendor's edits of options: rows and positions. *)

\* Adding an option: its position is read, or named, and then its row inserted.
LEMMA AddingKeeps ==
    ASSUME SettingsInv, NEW r \in Request, NEW new \in Adding,
           adding' = [adding EXCEPT ![r] = new], UNCHANGED <<options, follows>>,
           new # Idle => \A q \in new.after : Before(q, new.position)
    PROVE  SettingsRows' /\ PickupFree' /\ PositionsSound'
<1>1. SettingsRows' /\ adding'[r] = new /\ \A s \in Request : s # r => adding'[s] = adding[s]
  BY DEF SettingsInv, SettingsRows
<1>2. OptionRows' = OptionRows /\ \A q \in Option : options'[q] = options[q]
  BY DEF OptionRows
<1>3. PickupFree'
  BY <1>2 DEF SettingsInv, PickupFree, OptionRows
<1>4. PositionsSound'
  BY <1>1, <1>2 DEF SettingsInv, PositionsSound, Before
<1>5. QED
  BY <1>1, <1>3, <1>4

LEMMA AddingStep ==
    ASSUME SettingsInv, AddingNext
    PROVE  SettingsRows' /\ PickupFree' /\ PositionsSound'
<1>1. CASE \E r \in Request, failed \in BOOLEAN : ReadPosition(r, failed)
  <2>1. PICK r \in Request, failed \in BOOLEAN : ReadPosition(r, failed)
    BY <1>1
  <2>2. NextPosition \in 0..MaxPosition /\ \A q \in OptionRows : Before(q, NextPosition)
    BY <2>1, NextIsLast DEF ReadPosition, SettingsInv
  <2>3. 0 \in 0..MaxPosition /\ OptionRows \in SUBSET Option /\ {} \in SUBSET Option
    BY StoreSettingsAssumption DEF StoreSettingsAssumption, OptionRows
  <2>4. CASE failed
    <3> DEFINE new == [op |-> "adding", position |-> 0, after |-> {}]
    <3>1. new \in Adding /\ new.after = {}
      BY <2>3, AddingTypes
    <3>2. adding' = [adding EXCEPT ![r] = new] /\ UNCHANGED <<options, follows>>
      BY <2>1, <2>4 DEF ReadPosition
    <3> HIDE DEF new
    <3>3. QED
      BY <3>1, <3>2, AddingKeeps
  <2>5. CASE ~failed
    <3> DEFINE new == [op |-> "adding", position |-> NextPosition, after |-> OptionRows]
    <3>1. new \in Adding /\ new.after = OptionRows /\ new.position = NextPosition
      BY <2>2, <2>3, AddingTypes
    <3>2. adding' = [adding EXCEPT ![r] = new] /\ UNCHANGED <<options, follows>>
      BY <2>1, <2>5 DEF ReadPosition
    <3> HIDE DEF new
    <3>3. \A q \in new.after : Before(q, new.position)
      BY <2>2, <3>1
    <3>4. QED
      BY <3>1, <3>2, <3>3, AddingKeeps
  <2>6. QED
    BY <2>4, <2>5
<1>2. CASE \E r \in Request, p \in 0..MaxPosition : NamePosition(r, p)
  <2>1. PICK r \in Request, p \in 0..MaxPosition : NamePosition(r, p)
    BY <1>2
  <2> DEFINE new == [op |-> "adding", position |-> p, after |-> {}]
  <2>2. new \in Adding /\ new.after = {}
    BY AddingTypes
  <2>3. adding' = [adding EXCEPT ![r] = new] /\ UNCHANGED <<options, follows>>
    BY <2>1 DEF NamePosition
  <2> HIDE DEF new
  <2>4. QED
    BY <2>2, <2>3, AddingKeeps
<1>3. CASE \E r \in Request : CreateFails(r)
  <2>1. PICK r \in Request : CreateFails(r)
    BY <1>3
  <2>2. adding' = [adding EXCEPT ![r] = Idle] /\ UNCHANGED <<options, follows>> /\ Idle \in Adding
    BY <2>1 DEF CreateFails, Adding
  <2>3. QED
    BY <2>2, AddingKeeps
<1>4. QED
  BY <1>1, <1>2, <1>3 DEF AddingNext

\* The new row goes where its request found the end.
LEMMA CreateKeeps ==
    ASSUME SettingsInv, NEW r \in Request, NEW o \in Option, NEW price \in Price \cup {0}, NEW pickup \in BOOLEAN,
           CreateDeliveryOption(r, o, price, pickup)
    PROVE  SettingsRows' /\ PickupFree' /\ PositionsSound'
<1> DEFINE row == [price |-> IF pickup THEN 0 ELSE price, pickup |-> pickup, active |-> TRUE,
                   position |-> adding[r].position]
<1>1. /\ adding[r] # Idle /\ options[o] = NoRow
      /\ options' = [options EXCEPT ![o] = row]
      /\ follows' = [follows EXCEPT ![o] = adding[r].after]
      /\ adding' = [adding EXCEPT ![r] = Idle]
  BY DEF CreateDeliveryOption
<1>2. SettingsRows /\ adding[r].position \in 0..MaxPosition /\ adding[r].after \subseteq Option
  BY <1>1, AddingFields DEF SettingsInv
<1>3. row \in Row /\ row.position = adding[r].position /\ (row.pickup => row.price = 0)
  BY <1>2 DEF Row
<1> HIDE DEF row
<1>4. row # NoRow
  BY <1>3, RowsDiffer
<1>5. /\ options'[o] = row /\ \A q \in Option : q # o => options'[q] = options[q]
      /\ follows'[o] = adding[r].after /\ \A q \in Option : q # o => follows'[q] = follows[q]
      /\ adding'[r] = Idle /\ \A s \in Request : s # r => adding'[s] = adding[s]
  BY <1>1, <1>2 DEF SettingsRows
<1>6. SettingsRows'
  BY <1>1, <1>2, <1>3 DEF SettingsRows, Adding
<1>7. OptionRows' = OptionRows \cup {o} /\ o \notin OptionRows
  BY <1>1, <1>4, <1>5 DEF OptionRows
<1>8. PickupFree'
  BY <1>3, <1>5, <1>7 DEF PickupFree, SettingsInv, OptionRows
<1>9. \A q \in adding[r].after : Before(q, options[o].position)'
  <2> SUFFICES ASSUME NEW q \in adding[r].after PROVE Before(q, options[o].position)'
    OBVIOUS
  <2>1. Before(q, adding[r].position) /\ options'[o].position = adding[r].position
    BY <1>1, <1>3, <1>5 DEF SettingsInv, PositionsSound
  <2>2. QED
    BY <1>5, <1>7, <2>1 DEF Before, OptionRows
<1>10. PositionsSound'
  <2>1. ASSUME NEW p \in Option, NEW q \in follows'[p]
        PROVE  p \in OptionRows' /\ Before(q, options[p].position)'
    <3>1. CASE p = o
      BY <1>5, <1>7, <1>9, <2>1, <3>1 DEF Before
    <3>2. CASE p # o
      <4>1. q \in follows[p] /\ p \in OptionRows /\ Before(q, options[p].position) /\ options'[p] = options[p]
        BY <1>5, <2>1, <3>2 DEF SettingsInv, PositionsSound
      <4>2. QED
        BY <1>5, <1>7, <4>1 DEF Before, OptionRows
    <3>3. QED
      BY <3>1, <3>2
  <2>2. ASSUME NEW s \in Request, adding'[s] # Idle, NEW q \in adding'[s].after
        PROVE  Before(q, adding[s].position)'
    <3>1. adding'[s] = adding[s] /\ Before(q, adding[s].position)
      BY <1>5, <2>2 DEF SettingsInv, PositionsSound
    <3>2. QED
      BY <1>5, <1>7, <3>1 DEF Before, OptionRows
  <2>3. QED
    BY <2>1, <2>2 DEF PositionsSound
<1>11. QED
  BY <1>6, <1>8, <1>10

\* Where o stands is forgotten: what it followed and what followed it.
LEMMA ForgetKeeps ==
    ASSUME SettingsInv, NEW o \in Option, NEW row \in Row \cup {NoRow}, options' = [options EXCEPT ![o] = row],
           Forget(o)
    PROVE  SettingsRows' /\ PositionsSound'
<1>1. SettingsRows /\ \A q \in Option : q # o => options'[q] = options[q]
  BY DEF SettingsInv, SettingsRows
<1>2. /\ follows' = [q \in Option |-> IF q = o THEN {} ELSE follows[q] \ {o}]
      /\ adding' = [r \in Request |-> IF adding[r] = Idle THEN Idle ELSE [adding[r] EXCEPT !.after = @ \ {o}]]
  BY DEF Forget
<1>3. ASSUME NEW r \in Request, adding[r] # Idle
      PROVE  /\ adding'[r] = [op |-> "adding", position |-> adding[r].position, after |-> adding[r].after \ {o}]
             /\ adding'[r] \in Adding
             /\ adding'[r].position = adding[r].position /\ adding'[r].after = adding[r].after \ {o}
  <2>1. /\ adding[r].position \in 0..MaxPosition /\ adding[r].after \subseteq Option
        /\ adding[r] = [op |-> "adding", position |-> adding[r].position, after |-> adding[r].after]
    BY <1>1, <1>3, AddingFields
  <2>2. adding'[r] = [adding[r] EXCEPT !.after = @ \ {o}]
    BY <1>2, <1>3
  <2>3. adding'[r] = [op |-> "adding", position |-> adding[r].position, after |-> adding[r].after \ {o}]
    BY <2>1, <2>2
  <2>4. QED
    BY <2>1, <2>3, AddingTypes
<1>4. \A r \in Request : adding[r] = Idle => adding'[r] = Idle
  BY <1>2
<1>5. SettingsRows'
  <2>1. adding' \in [Request -> Adding]
    <3>1. \A r \in Request : adding'[r] \in Adding
      BY <1>3, <1>4 DEF Adding
    <3>2. QED
      BY <1>2, <3>1
  <2>2. follows' \in [Option -> SUBSET Option]
    BY <1>1, <1>2 DEF SettingsRows
  <2>3. QED
    BY <1>1, <2>1, <2>2 DEF SettingsRows
<1>6. \A q \in Option : q # o => (q \in OptionRows' <=> q \in OptionRows)
  BY <1>1 DEF OptionRows
<1>7. PositionsSound'
  <2>1. ASSUME NEW p \in Option, NEW q \in follows'[p]
        PROVE  p \in OptionRows' /\ Before(q, options[p].position)'
    <3>1. p # o /\ q # o /\ q \in follows[p]
      BY <1>2, <2>1
    <3>2. p \in OptionRows /\ Before(q, options[p].position) /\ options'[p] = options[p]
      BY <1>1, <3>1 DEF SettingsInv, PositionsSound
    <3>3. QED
      BY <1>1, <1>6, <3>1, <3>2 DEF Before, OptionRows
  <2>2. ASSUME NEW s \in Request, adding'[s] # Idle, NEW q \in adding'[s].after
        PROVE  Before(q, adding[s].position)'
    <3>1. adding[s] # Idle
      BY <1>4, <2>2
    <3>2. q \in adding[s].after /\ q # o /\ adding'[s].position = adding[s].position
      BY <1>3, <2>2, <3>1
    <3>3. Before(q, adding[s].position)
      BY <3>1, <3>2 DEF SettingsInv, PositionsSound
    <3>4. QED
      BY <1>1, <1>6, <3>2, <3>3 DEF Before, OptionRows
  <2>3. QED
    BY <2>1, <2>2 DEF PositionsSound
<1>8. QED
  BY <1>5, <1>7

\* A patch that moves nothing leaves every position where it is.
LEMMA UpdateKeeps ==
    ASSUME SettingsInv, NEW o \in Option, NEW row \in Row, UpdateDeliveryOption(o, row)
    PROVE  SettingsRows' /\ PickupFree' /\ PositionsSound'
<1>1. o \in OptionRows /\ options' = [options EXCEPT ![o] = row] /\ (row.pickup => row.price = 0)
  BY DEF UpdateDeliveryOption
<1>2. SettingsRows /\ options'[o] = row /\ row # NoRow /\ \A q \in Option : q # o => options'[q] = options[q]
  BY <1>1, RowsDiffer DEF SettingsInv, SettingsRows
<1>3. OptionRows' = OptionRows
  BY <1>1, <1>2 DEF OptionRows
<1>4. PickupFree'
  BY <1>1, <1>2, <1>3 DEF PickupFree, SettingsInv, OptionRows
<1>5. CASE row.position # options[o].position
  <2>1. Forget(o)
    BY <1>5 DEF UpdateDeliveryOption
  <2>2. QED
    BY <1>1, <1>4, <2>1, ForgetKeeps
<1>6. CASE row.position = options[o].position
  <2>1. follows' = follows /\ adding' = adding
    BY <1>6 DEF UpdateDeliveryOption
  <2>2. \A q \in Option : q \in OptionRows => options'[q].position = options[q].position
    BY <1>2, <1>6
  <2>3. SettingsRows'
    BY <1>1, <1>2, <2>1 DEF SettingsRows
  <2>4. PositionsSound'
    BY <1>3, <2>1, <2>2 DEF PositionsSound, SettingsInv, Before, OptionRows
  <2>5. QED
    BY <1>4, <2>3, <2>4
<1>7. QED
  BY <1>5, <1>6

LEMMA EditsKeep ==
    ASSUME SettingsInv, NEW o \in Option,
           \/ \E price \in Price : PriceOption(o, price)
           \/ SwitchOption(o)
           \/ \E p \in 0..MaxPosition : MoveOption(o, p)
           \/ DeleteDeliveryOption(o)
    PROVE  SettingsRows' /\ PickupFree' /\ PositionsSound'
<1>1. CASE \/ \E price \in Price : PriceOption(o, price)
           \/ SwitchOption(o)
           \/ \E p \in 0..MaxPosition : MoveOption(o, p)
  <2>1. options[o] \in Row
    <3>1. o \in OptionRows
      BY <1>1 DEF PriceOption, SwitchOption, MoveOption, UpdateDeliveryOption
    <3>2. QED
      BY <3>1, RowFields DEF SettingsInv
  <2>2. /\ \A price \in Price : [options[o] EXCEPT !.price = price] \in Row
        /\ [options[o] EXCEPT !.active = ~@] \in Row
        /\ \A p \in 0..MaxPosition : [options[o] EXCEPT !.position = p] \in Row
    BY <2>1 DEF Row
  <2>3. QED
    BY <1>1, <2>2, UpdateKeeps DEF PriceOption, SwitchOption, MoveOption
<1>2. CASE DeleteDeliveryOption(o)
  <2>1. options' = [options EXCEPT ![o] = NoRow] /\ Forget(o)
    BY <1>2 DEF DeleteDeliveryOption
  <2>2. SettingsRows' /\ PositionsSound'
    BY <2>1, ForgetKeeps
  <2>3. \A q \in OptionRows' : q \in OptionRows /\ options'[q] = options[q]
    BY <2>1 DEF OptionRows, SettingsInv, SettingsRows
  <2>4. PickupFree'
    BY <2>3 DEF PickupFree, SettingsInv
  <2>5. QED
    BY <2>2, <2>4
<1>3. QED
  BY <1>1, <1>2

-----------------------------------------------------------------------------
(* The fee of an order. *)

LEMMA QuoteFields ==
    ASSUME NEW q \in Quote, q # Idle
    PROVE  /\ q.op \in {"placing", "priced", "placed"} /\ q.option \in Option /\ q.digital \in BOOLEAN
           /\ q.offered \subseteq OfferTerms
           /\ q.op = "placing" => q = [op |-> "placing", option |-> q.option, digital |-> q.digital,
                                       offered |-> q.offered]
           /\ q.op # "placing" => /\ q.fee \in Price \cup {0} /\ q.pickup \in BOOLEAN
                                  /\ q = [op |-> q.op, option |-> q.option, digital |-> q.digital, fee |-> q.fee,
                                          pickup |-> q.pickup, offered |-> q.offered]
  BY DEF Quote, Idle

LEMMA QuoteTypes ==
    ASSUME NEW o \in Option, NEW d \in BOOLEAN, NEW S \in SUBSET OfferTerms, NEW fee \in Price \cup {0},
           NEW pickup \in BOOLEAN
    PROVE  /\ [op |-> "placing", option |-> o, digital |-> d, offered |-> S] \in Quote
           /\ \A op \in {"priced", "placed"} :
                  [op |-> op, option |-> o, digital |-> d, fee |-> fee, pickup |-> pickup, offered |-> S] \in Quote
           /\ Idle \in Quote
  BY DEF Quote

LEMMA OffersAreTerms ==
    ASSUME SettingsRows, NEW o \in Option
    PROVE  OfferOf(options[o]) \in SUBSET OfferTerms
<1>1. options[o] # NoRow => options[o] \in Row
  BY DEF SettingsRows
<1>2. QED
  BY <1>1 DEF OfferOf, OfferTerms, Row

\* An order on its way keeps what it knows when options change.
LEMMA SeesKeeps ==
    ASSUME SettingsInv, SettingsRows', SeesOffer
    PROVE  quote' \in [Request -> Quote] /\ QuotesSound'
<1>1. ASSUME NEW r \in Request, quote[r] # Idle
      PROVE  quote'[r] \in Quote /\ QuoteSound(quote[r])'
  <2> DEFINE q == quote[r]
             fresh == OfferOf(options'[q.option])
  <2>1. q \in Quote /\ q # Idle /\ QuoteSound(q)
    BY <1>1 DEF SettingsInv, QuotesSound
  <2>2. quote'[r] = [q EXCEPT !.offered = @ \cup fresh]
    BY <1>1 DEF SeesOffer
  <2>3. q.option \in Option
    BY <2>1, QuoteFields
  <2>4. fresh \in SUBSET OfferTerms
    BY <2>3, OffersAreTerms DEF SettingsRows, OfferOf, OfferTerms, Row
  <2>5. q.digital \in BOOLEAN /\ q.offered \cup fresh \in SUBSET OfferTerms
    BY <2>1, <2>4, QuoteFields
  <2> HIDE DEF q
  <2>6. CASE q.op = "placing"
    <3>1. quote'[r] = [op |-> "placing", option |-> q.option, digital |-> q.digital, offered |-> q.offered \cup fresh]
      BY <2>1, <2>2, <2>6, QuoteFields
    <3>2. quote'[r].op = "placing" /\ fresh \subseteq quote'[r].offered /\ quote'[r].option = q.option
      BY <3>1
    <3>3. quote'[r] \in Quote
      BY <2>3, <2>5, <3>1 DEF Quote
    <3>4. QED
      BY <3>2, <3>3 DEF QuoteSound, OfferOf
  <2>7. CASE q.op # "placing"
    <3>1. quote'[r] = [op |-> q.op, option |-> q.option, digital |-> q.digital, fee |-> q.fee,
                       pickup |-> q.pickup, offered |-> q.offered \cup fresh]
      BY <2>1, <2>2, <2>7, QuoteFields
    <3>2. q.op \in {"priced", "placed"} /\ q.fee \in Price \cup {0} /\ q.pickup \in BOOLEAN
      BY <2>1, <2>7, QuoteFields
    <3>3. quote'[r] \in Quote /\ quote'[r].op \in {"priced", "placed"}
      BY <2>3, <2>5, <3>1, <3>2 DEF Quote
    <3>4. QED
      BY <2>1, <3>1, <3>3 DEF QuoteSound
  <2>8. QED
    BY <2>6, <2>7
<1>2. ASSUME NEW r \in Request, quote[r] = Idle PROVE quote'[r] = Idle
  BY <1>2 DEF SeesOffer
<1>3. quote' \in [Request -> Quote]
  <2>1. \A r \in Request : quote'[r] \in Quote
    BY <1>1, <1>2 DEF Quote
  <2>2. QED
    BY <2>1 DEF SeesOffer
<1>4. QED
  BY <1>1, <1>2, <1>3 DEF QuotesSound

\* One order steps while the options stand.
LEMMA QuoteKeeps ==
    ASSUME SettingsInv, NEW r \in Request, NEW q \in Quote, quote' = [quote EXCEPT ![r] = q],
           UNCHANGED options, q # Idle => QuoteSound(q)
    PROVE  quote' \in [Request -> Quote] /\ QuotesSound'
<1>1. quote' \in [Request -> Quote] /\ quote'[r] = q /\ \A s \in Request : s # r => quote'[s] = quote[s]
  BY DEF SettingsInv
<1>2. QED
  BY <1>1 DEF SettingsInv, QuotesSound, QuoteSound, OfferOf

LEMMA PlacingStep ==
    ASSUME SettingsInv, PlacingNext
    PROVE  /\ quote' \in [Request -> Quote] /\ QuotesSound'
           /\ UNCHANGED <<options, born, follows, adding>>
<1>1. CASE \E r \in Request, o \in Option, items \in SUBSET {"digital", "physical"}, basket \in BOOLEAN :
               AskForOrder(r, o, items, basket)
  <2>1. PICK r \in Request, o \in Option, items \in SUBSET {"digital", "physical"}, basket \in BOOLEAN :
            AskForOrder(r, o, items, basket)
    BY <1>1
  <2> DEFINE q == [op |-> "placing", option |-> o, digital |-> Waived(items, basket),
                   offered |-> OfferOf(options[o])]
  <2>2. quote' = [quote EXCEPT ![r] = q] /\ UNCHANGED <<options, born, follows, adding>>
    BY <2>1 DEF AskForOrder
  <2>3. OfferOf(options[o]) \in SUBSET OfferTerms /\ Waived(items, basket) \in BOOLEAN
    BY OffersAreTerms DEF SettingsInv, Waived, allItemsDigital
  <2>4. q \in Quote
    BY <2>3 DEF Quote
  <2>5. QuoteSound(q)
    BY DEF QuoteSound
  <2> HIDE DEF q
  <2>6. QED
    BY <2>2, <2>4, <2>5, QuoteKeeps
<1>2. CASE \E r \in Request : computeDeliveryFeeKobo(r)
  <2>1. PICK r \in Request : computeDeliveryFeeKobo(r)
    BY <1>2
  <2> DEFINE old == quote[r]
             row == options[old.option]
             fee == IF old.digital THEN 0 ELSE row.price
             pickup == ~old.digital /\ row.pickup
             q == [op |-> "priced", option |-> old.option, digital |-> old.digital, fee |-> fee,
                   pickup |-> pickup, offered |-> old.offered]
  <2>2. /\ old.op = "placing" /\ row # NoRow /\ row.active
        /\ quote' = [quote EXCEPT ![r] = q] /\ UNCHANGED <<options, born, follows, adding>>
    BY <2>1 DEF computeDeliveryFeeKobo, Sells
  <2>3. old \in Quote /\ old # Idle
    BY <2>2 DEF SettingsInv, Idle
  <2>4. old.option \in Option /\ old.digital \in BOOLEAN /\ old.offered \subseteq OfferTerms /\ QuoteSound(old)
    BY <2>3, QuoteFields DEF SettingsInv, QuotesSound
  <2>5. row \in Row /\ (row.pickup => row.price = 0)
    BY <2>2, <2>4 DEF SettingsInv, SettingsRows, PickupFree, OptionRows
  <2>6. row.price \in Price \cup {0} /\ row.pickup \in BOOLEAN
    BY <2>5 DEF Row
  <2>7. OfferOf(row) \subseteq old.offered
    BY <2>2, <2>4 DEF QuoteSound
  <2>8. [price |-> row.price, pickup |-> row.pickup] \in old.offered
    BY <2>2, <2>7 DEF OfferOf
  <2> HIDE DEF old, row
  <2>9. fee \in Price \cup {0} /\ pickup \in BOOLEAN
    BY <2>4, <2>6
  <2>10. q \in Quote
    BY <2>4, <2>9, QuoteTypes
  <2>11. QuoteSound(q)
    <3>1. old.digital => fee = 0 /\ ~pickup
      OBVIOUS
    <3>2. ~old.digital => fee = row.price /\ pickup = row.pickup
      BY <2>6
    <3> HIDE DEF fee, pickup
    <3>3. ~old.digital => [price |-> fee, pickup |-> pickup] \in old.offered /\ (pickup => fee = 0)
      BY <2>5, <2>8, <3>2
    <3>4. QED
      BY <3>1, <3>3 DEF QuoteSound
  <2> HIDE DEF q
  <2>12. QED
    BY <2>2, <2>10, <2>11, QuoteKeeps
<1>3. CASE \E r \in Request : InsertOrder(r)
  <2>1. PICK r \in Request : InsertOrder(r)
    BY <1>3
  <2> DEFINE old == quote[r]
             q == [old EXCEPT !.op = "placed"]
  <2>2. old.op = "priced" /\ quote' = [quote EXCEPT ![r] = q] /\ UNCHANGED <<options, born, follows, adding>>
    BY <2>1 DEF InsertOrder
  <2>3. old \in Quote /\ old # Idle
    BY <2>2 DEF SettingsInv, Idle
  <2>4. QuoteSound(old)
    BY <2>3 DEF SettingsInv, QuotesSound
  <2> HIDE DEF old
  <2>5. /\ old = [op |-> "priced", option |-> old.option, digital |-> old.digital, fee |-> old.fee,
                  pickup |-> old.pickup, offered |-> old.offered]
        /\ old.option \in Option /\ old.digital \in BOOLEAN /\ old.offered \subseteq OfferTerms
        /\ old.fee \in Price \cup {0} /\ old.pickup \in BOOLEAN
    BY <2>2, <2>3, QuoteFields
  <2>6. q = [op |-> "placed", option |-> old.option, digital |-> old.digital, fee |-> old.fee,
             pickup |-> old.pickup, offered |-> old.offered]
    BY <2>5
  <2>7. q \in Quote
    BY <2>5, <2>6 DEF Quote
  <2>8. QuoteSound(q)
    BY <2>2, <2>4, <2>6 DEF QuoteSound
  <2> HIDE DEF q
  <2>9. QED
    BY <2>2, <2>7, <2>8, QuoteKeeps
<1>4. CASE \E r \in Request : Answer(r)
  <2>1. PICK r \in Request : Answer(r)
    BY <1>4
  <2>2. quote' = [quote EXCEPT ![r] = Idle] /\ UNCHANGED <<options, born, follows, adding>> /\ Idle \in Quote
    BY <2>1 DEF Answer, Quote
  <2>3. QED
    BY <2>2, QuoteKeeps
<1>5. QED
  BY <1>1, <1>2, <1>3, <1>4 DEF PlacingNext

-----------------------------------------------------------------------------
(* Every step. *)

LEMMA OptionsStep ==
    ASSUME SettingsInv, OptionsNext
    PROVE  /\ SettingsRows' /\ PickupFree' /\ PositionsSound'
           /\ quote' \in [Request -> Quote] /\ QuotesSound'
<1>1. SettingsRows' /\ PickupFree' /\ PositionsSound'
  BY AddingStep, CreateKeeps, EditsKeep DEF OptionsNext
<1>2. CASE AddingNext
  <2>1. UNCHANGED <<options, quote>>
    BY <1>2 DEF AddingNext, ReadPosition, NamePosition, CreateFails
  <2>2. QED
    BY <1>1, <2>1 DEF SettingsInv, QuotesSound, QuoteSound, OfferOf
<1>3. CASE ~AddingNext
  <2>1. SeesOffer
    BY <1>3 DEF OptionsNext, CreateDeliveryOption, PriceOption, SwitchOption, MoveOption, UpdateDeliveryOption,
                DeleteDeliveryOption
  <2>2. QED
    BY <1>1, <2>1, SeesKeeps
<1>4. QED
  BY <1>2, <1>3

LEMMA PaymentsStep ==
    ASSUME SettingsInv, PaymentsNext
    PROVE  /\ gateways' \in [KnownGateways -> {"none", "on", "off"}]
           /\ choice' \in [KnownGateways -> {"none", "on", "off"}]
           /\ ChoicesStand'
  BY DEF SettingsInv, PaymentsNext, ListPaymentGateways, SeedGateway, UpsertPaymentGateway, Seeded, ChoicesStand

LEMMA SettingsInit == StoreSettingsInit => SettingsInv
<1> SUFFICES ASSUME StoreSettingsInit PROVE SettingsInv
  OBVIOUS
<1>1. /\ options = [o \in Option |-> NoRow] /\ follows = [o \in Option |-> {}]
      /\ adding = [r \in Request |-> Idle] /\ quote = [r \in Request |-> Idle]
  BY DEF StoreSettingsInit
<1>2. SettingsRows /\ quote \in [Request -> Quote]
  BY <1>1 DEF SettingsRows, Adding, Quote
<1>3. PickupFree /\ PositionsSound /\ QuotesSound
  BY <1>1 DEF PickupFree, PositionsSound, QuotesSound, OptionRows
<1>4. /\ gateways \in [KnownGateways -> {"none", "on", "off"}]
      /\ choice \in [KnownGateways -> {"none", "on", "off"}] /\ ChoicesStand
  BY DEF StoreSettingsInit, ChoicesStand
<1>5. QED
  BY <1>2, <1>3, <1>4 DEF SettingsInv

LEMMA SettingsStep == SettingsInv /\ [StoreSettingsNext]_settingsVars => SettingsInv'
<1> SUFFICES ASSUME SettingsInv, [StoreSettingsNext]_settingsVars PROVE SettingsInv'
  OBVIOUS
<1>1. CASE UNCHANGED deliveryVars
  <2>1. /\ SettingsRows' /\ quote' \in [Request -> Quote] /\ PickupFree' /\ QuotesSound' /\ PositionsSound'
    BY <1>1 DEF deliveryVars, SettingsInv, SettingsRows, PickupFree, QuotesSound, QuoteSound, OfferOf,
                PositionsSound, Before, OptionRows
  <2>2. /\ gateways' \in [KnownGateways -> {"none", "on", "off"}]
        /\ choice' \in [KnownGateways -> {"none", "on", "off"}] /\ ChoicesStand'
    <3>1. CASE PaymentsNext
      BY <3>1, PaymentsStep
    <3>2. CASE UNCHANGED paymentVars
      BY <3>2 DEF paymentVars, SettingsInv, ChoicesStand
    <3>3. QED
      BY <1>1, <3>1, <3>2 DEF StoreSettingsNext, settingsVars
  <2>3. QED
    BY <2>1, <2>2 DEF SettingsInv
<1>2. CASE DeliveryNext /\ UNCHANGED paymentVars
  <2>1. /\ gateways' \in [KnownGateways -> {"none", "on", "off"}]
        /\ choice' \in [KnownGateways -> {"none", "on", "off"}] /\ ChoicesStand'
    BY <1>2 DEF paymentVars, SettingsInv, ChoicesStand
  <2>2. CASE OptionsNext
    BY <2>1, <2>2, OptionsStep DEF SettingsInv
  <2>3. CASE PlacingNext
    <3>1. quote' \in [Request -> Quote] /\ QuotesSound' /\ UNCHANGED <<options, follows, adding>>
      BY <2>3, PlacingStep
    <3>2. SettingsRows' /\ PickupFree' /\ PositionsSound'
      BY <3>1 DEF SettingsInv, SettingsRows, PickupFree, PositionsSound, Before, OptionRows
    <3>3. QED
      BY <2>1, <3>1, <3>2 DEF SettingsInv
  <2>4. QED
    BY <1>2, <2>2, <2>3 DEF DeliveryNext
<1>3. QED
  BY <1>1, <1>2 DEF StoreSettingsNext, settingsVars

\* The inductive invariant of the settings holds in every state.
THEOREM SettingsInvariant == StoreSettingsSpec => []SettingsInv
<1>1. QED
  BY SettingsInit, SettingsStep, PTL DEF StoreSettingsSpec

LEMMA SettingsAgree == SettingsInv => SettingsStand
<1> SUFFICES ASSUME SettingsInv PROVE SettingsStand
  OBVIOUS
<1>1. OrderPricedAsOffered
  <2> SUFFICES ASSUME NEW r \in Request, quote[r].op = "placed" PROVE QuoteSound(quote[r])
    BY DEF OrderPricedAsOffered, QuoteSound
  <2>1. QED
    BY DEF SettingsInv, QuotesSound, Idle
<1>2. OptionsKeepOrder
  BY DEF OptionsKeepOrder, SettingsInv, PositionsSound, Before, ListedBefore, OptionRows
<1>3. GatewayChoicesStand
  BY DEF GatewayChoicesStand, SettingsInv, ChoicesStand, GetPublicGateways
<1>4. QED
  BY <1>1, <1>2, <1>3 DEF SettingsStand

\* An order is priced as its option stood, added options keep their order and the vendor's
\* choice of gateways stands, however edits, reads and orders overlap.
THEOREM SettingsDoStand == StoreSettingsSpec => []SettingsStand
<1>1. SettingsInv => SettingsStand
  BY SettingsAgree
<1>2. QED
  BY <1>1, SettingsInvariant, PTL

-----------------------------------------------------------------------------
(* Starting up.  A process has applied what it is past, and what a file    *)
(* that is applied reads is applied too.  Two processes that are at one    *)
(* file have excused it.                                                   *)

FileSet(q) == {q[i] : i \in DOMAIN q}

\* Whatever serves comes after the schema.
SchemaFirst(stages) ==
    \A k \in DOMAIN stages : stages[k] \in {"loops", "listen"} => \E j \in 1..(k - 1) : stages[j] = "migrate"

Served(s) == s \in Migrating => FilesIn(s) \subseteq applied

StartSound(p) ==
    proc[p].op = "starting" =>
        /\ FileSet(proc[p].files) \subseteq FilesIn(deployed[p])
        /\ FilesIn(deployed[p]) \ FileSet(proc[p].files) \subseteq applied
        /\ deployed[p] \in Migrating => proc[p].files = <<>> \/ SchemaFirst(proc[p].left)
        /\ proc[p].at # "check" => Working(p, proc[p].at)
        /\ proc[p].at = "record" => Next1(p) \in applied

ProcSound(p) ==
    /\ proc[p] # Off => deployed[p] \in Program
    /\ StartSound(p)
    /\ proc[p].op \in {"serving", "draining"} \/ p \in loops => Served(deployed[p])

AtWork(p, f) == (Working(p, "apply") \/ Working(p, "record")) /\ Next1(p) = f

\* Two at one file, or one at a file that was recorded since it looked.
OverlapsExcused ==
    /\ \A p, q \in Process : p # q => \A f \in File : AtWork(p, f) /\ AtWork(q, f) => f \in excused
    /\ \A p \in Process : Working(p, "apply") /\ Next1(p) \in recorded => Next1(p) \in excused

TablesSound ==
    /\ recorded \subseteq applied
    /\ \A f \in applied : NeededBy[f] \subseteq applied
    /\ \A f \in FilesIn("migrate") : f \in applied => f \in recorded
    /\ rerun \subseteq excused \cap Repeatable

StartupInv ==
    /\ StartupTypeOK
    /\ \A p \in Process : ProcSound(p)
    /\ OverlapsExcused
    /\ TablesSound

-----------------------------------------------------------------------------
(* Sequences, and what run() starts with. *)

LEMMA HeadAndTail ==
    ASSUME NEW S, NEW q \in Seq(S), q # <<>>
    PROVE  /\ Head(q) \in S /\ Head(q) = q[1] /\ 1 \in DOMAIN q
           /\ Tail(q) \in Seq(S)
           /\ \A i \in DOMAIN Tail(q) : i \in Nat \ {0} /\ i + 1 \in DOMAIN q /\ Tail(q)[i] = q[i + 1]
           /\ \A i \in DOMAIN q : i # 1 => i - 1 \in DOMAIN Tail(q)
  OBVIOUS

LEMMA FileSetTail ==
    ASSUME NEW q \in Seq(File), q # <<>>
    PROVE  FileSet(q) = {Head(q)} \cup FileSet(Tail(q)) /\ Head(q) \in File
<1>1. \A f \in FileSet(q) : f \in {Head(q)} \cup FileSet(Tail(q))
  <2> SUFFICES ASSUME NEW i \in DOMAIN q PROVE q[i] \in {Head(q)} \cup FileSet(Tail(q))
    BY DEF FileSet
  <2>1. CASE i = 1
    BY <2>1, HeadAndTail
  <2>2. CASE i # 1
    <3>1. i - 1 \in DOMAIN Tail(q) /\ Tail(q)[i - 1] = q[i]
      BY <2>2, HeadAndTail
    <3>2. QED
      BY <3>1 DEF FileSet
  <2>3. QED
    BY <2>1, <2>2
<1>2. \A f \in {Head(q)} \cup FileSet(Tail(q)) : f \in FileSet(q)
  BY HeadAndTail DEF FileSet
<1>3. QED
  BY <1>1, <1>2, HeadAndTail

LEMMA NoFilesLeft == FileSet(<<>>) = {}
  BY DEF FileSet

LEMMA SchemaFirstTail ==
    ASSUME NEW q \in Seq(Stage), q # <<>>, SchemaFirst(q), Head(q) # "migrate"
    PROVE  SchemaFirst(Tail(q)) /\ Head(q) \notin {"loops", "listen"}
<1>1. Head(q) \notin {"loops", "listen"}
  BY HeadAndTail DEF SchemaFirst
<1>2. ASSUME NEW k \in DOMAIN Tail(q), Tail(q)[k] \in {"loops", "listen"}
      PROVE  \E j \in 1..(k - 1) : Tail(q)[j] = "migrate"
  <2>1. k \in Nat \ {0} /\ k + 1 \in DOMAIN q /\ q[k + 1] \in {"loops", "listen"} /\ q[1] # "migrate"
    BY <1>2, HeadAndTail
  <2>2. PICK j \in 1..((k + 1) - 1) : q[j] = "migrate"
    BY <2>1 DEF SchemaFirst
  <2>3. j # 1 /\ j - 1 \in 1..(k - 1) /\ j \in DOMAIN q
    BY <2>1, <2>2
  <2>4. j - 1 \in DOMAIN Tail(q) /\ Tail(q)[j - 1] = q[j]
    <3>1. j - 1 \in DOMAIN Tail(q)
      BY <2>3, HeadAndTail
    <3>2. Tail(q)[j - 1] = q[(j - 1) + 1] /\ j \in Int
      BY <2>3, <3>1, HeadAndTail
    <3>3. QED
      BY <3>1, <3>2
  <2>5. QED
    BY <2>2, <2>3, <2>4
<1>3. QED
  BY <1>1, <1>2 DEF SchemaFirst

LEMMA StepsFacts ==
    ASSUME NEW s \in Program
    PROVE  StepsOf(s) \in Seq(Stage) /\ (s \in Migrating => SchemaFirst(StepsOf(s)))
<1>1. CASE s = "auth"
  BY <1>1 DEF StepsOf, AuthSteps, Stage, Migrating
<1>2. CASE s = "catalogue"
  BY <1>2 DEF StepsOf, CatalogueSteps, Stage, SchemaFirst
<1>3. CASE s = "identity"
  BY <1>3 DEF StepsOf, IdentitySteps, Stage, Migrating
<1>4. CASE s = "orders"
  BY <1>4 DEF StepsOf, OrdersSteps, Stage, SchemaFirst
<1>5. CASE s = "storefront"
  BY <1>5 DEF StepsOf, StorefrontSteps, Stage, SchemaFirst
<1>6. CASE s = "gateway"
  BY <1>6 DEF StepsOf, GatewaySteps, Stage, Migrating
<1>7. CASE s = "migrate"
  BY <1>7 DEF StepsOf, ToolSteps, Stage, SchemaFirst
<1>8. QED
  BY <1>1, <1>2, <1>3, <1>4, <1>5, <1>6, <1>7 DEF Program, Migrating

-----------------------------------------------------------------------------
(* Steps of one process. *)

\* Process p becomes new, and no other changes.
Becomes(p, new) == proc' = [proc EXCEPT ![p] = new] /\ UNCHANGED deployed

LEMMA OthersSound ==
    ASSUME StartupInv, NEW p \in Process, NEW new \in ProcessState, Becomes(p, new),
           applied \subseteq applied', loops' \ {p} \subseteq loops,
           NEW q \in Process, q # p
    PROVE  ProcSound(q)'
<1>1. proc'[q] = proc[q] /\ deployed' = deployed /\ ProcSound(q)
  BY DEF StartupInv, StartupTypeOK, Becomes
<1>2. Served(deployed[q]) => Served(deployed[q])'
  BY <1>1 DEF Served
<1>3. StartSound(q) => StartSound(q)'
  BY <1>1 DEF StartSound, Working, At, Next1
<1>4. q \in loops' => q \in loops
  OBVIOUS
<1>5. QED
  BY <1>1, <1>2, <1>3, <1>4 DEF ProcSound

LEMMA TypeSteps ==
    ASSUME StartupInv, NEW p \in Process, NEW new \in ProcessState, Becomes(p, new),
           applied' \subseteq File, recorded' \subseteq File, rerun' \subseteq File, excused' \subseteq File,
           loops' \subseteq loops \cup {p}, stops' \in 0..MaxStops
    PROVE  StartupTypeOK'
<1>1. proc' \in [Process -> ProcessState]
  BY DEF StartupInv, StartupTypeOK, Becomes
<1>2. deployed' \in Deployments /\ loops' \subseteq Process
  BY DEF StartupInv, StartupTypeOK, Becomes
<1>3. QED
  BY <1>1, <1>2 DEF StartupTypeOK, ProcessState, Starting, Stage

\* A process at work is at its first file.
LEMMA AtWorkIs ==
    ASSUME StartupInv, NEW p \in Process
    PROVE  (Working(p, "apply") \/ Working(p, "record")) <=> proc[p].op = "starting" /\ proc[p].at \in {"apply", "record"}
  BY DEF StartupInv, ProcSound, StartSound, Working, At

\* What p does away from its files keeps the excuses.
LEMMA OverlapsStay ==
    ASSUME StartupInv, NEW p \in Process, NEW new \in ProcessState, Becomes(p, new),
           new.op = "starting" => new.at = "check",
           recorded' = recorded, excused \subseteq excused'
    PROVE  OverlapsExcused'
<1>1. \A q \in Process : q # p => proc'[q] = proc[q]
  BY DEF StartupInv, StartupTypeOK, Becomes
<1>2. ~ Working(p, "apply")' /\ ~ Working(p, "record")'
  BY DEF StartupInv, StartupTypeOK, Becomes, Working, At
<1>3. \A q \in Process : q # p => /\ \A at : Working(q, at)' <=> Working(q, at)
                                  /\ Next1(q)' = Next1(q)
                                  /\ \A f : AtWork(q, f)' <=> AtWork(q, f)
  BY <1>1 DEF Working, At, Next1, AtWork
<1>4. OverlapsExcused
  BY DEF StartupInv
<1>5. QED
  BY <1>2, <1>3, <1>4 DEF OverlapsExcused, AtWork

\* A step of p away from its files.
LEMMA Calm ==
    ASSUME StartupInv, NEW p \in Process, NEW new \in ProcessState, Becomes(p, new),
           new.op = "starting" => new.at = "check",
           SchemaStays, loops' \subseteq loops \cup {p}, stops' \in 0..MaxStops, ProcSound(p)'
    PROVE  StartupInv'
<1>1. StartupTypeOK'
  BY TypeSteps DEF StartupInv, StartupTypeOK, SchemaStays
<1>2. OverlapsExcused'
  BY OverlapsStay DEF SchemaStays
<1>3. \A q \in Process : ProcSound(q)'
  BY OthersSound DEF SchemaStays
<1>4. TablesSound'
  BY DEF StartupInv, TablesSound, SchemaStays, FilesIn
<1>5. QED
  BY <1>1, <1>2, <1>3, <1>4 DEF StartupInv

\* A process that ends leaves nothing behind to be sound.
LEMMA ExitSound ==
    ASSUME StartupInv, NEW p \in Process, Exit(p), UNCHANGED deployed
    PROVE  /\ Becomes(p, Off) /\ Off \in ProcessState /\ Off.op = "off"
           /\ loops' \subseteq loops /\ ProcSound(p)'
  BY DEF StartupInv, StartupTypeOK, Exit, Becomes, ProcessState, Off, ProcSound, StartSound

\* The state a process at a step is in.
LEMMA StartingHas ==
    ASSUME StartupInv, NEW p \in Process, proc[p].op = "starting"
    PROVE  /\ proc[p] \in Starting
           /\ deployed[p] \in Program
  BY DEF StartupInv, StartupTypeOK, ProcessState, Starting, Off, ProcSound

\* A step of run() that is not about files: what is left is what came after it.
LEMMA ProceedSound ==
    ASSUME StartupInv, NEW p \in Process, NEW doing, At(p, doing), doing # "migrate" \/ proc[p].files = <<>>,
           Proceed(p), UNCHANGED deployed, SchemaStays,
           loops' \subseteq loops \cup {p}, p \in loops' => p \in loops \/ doing = "loops"
    PROVE  \E new \in ProcessState :
               Becomes(p, new) /\ (new.op = "starting" => new.at = "check") /\ ProcSound(p)'
<1> DEFINE s == proc[p]
           new == [s EXCEPT !.left = Tail(@)]
<1>1. s \in Starting /\ deployed[p] \in Program /\ s.left # <<>> /\ Head(s.left) = doing /\ s.op = "starting"
  BY StartingHas DEF At
<1>2. Tail(s.left) \in Seq(Stage)
  BY <1>1, HeadAndTail DEF Starting
<1>3. new \in Starting /\ new.op = "starting" /\ new.left = Tail(s.left) /\ new.files = s.files /\ new.at = s.at
  BY <1>1, <1>2 DEF Starting
<1>4. Becomes(p, new) /\ proc'[p] = new
  BY DEF Becomes, Proceed, StartupInv, StartupTypeOK
<1>5. ProcSound(p) /\ StartSound(p)
  BY DEF StartupInv, ProcSound
<1>6. s.at = "check"
  BY <1>1, <1>5 DEF StartSound, Working, At, Starting
<1>7. deployed[p] \in Migrating => s.files = <<>> \/ SchemaFirst(s.left)
  BY <1>1, <1>5 DEF StartSound
<1>8. deployed[p] \in Migrating => s.files = <<>> \/ (SchemaFirst(Tail(s.left)) /\ doing # "loops")
  BY <1>1, <1>7, SchemaFirstTail DEF Starting
<1>9. FileSet(s.files) \subseteq FilesIn(deployed[p]) /\ FilesIn(deployed[p]) \ FileSet(s.files) \subseteq applied
  BY <1>1, <1>5 DEF StartSound
<1>10. StartSound(p)'
  BY <1>3, <1>4, <1>6, <1>8, <1>9 DEF StartSound, SchemaStays
<1>11. p \in loops' => Served(deployed[p])'
  <2>1. CASE p \in loops
    BY <2>1, <1>5 DEF ProcSound, Served, SchemaStays
  <2>2. CASE doing = "loops"
    BY <2>2, <1>8, <1>9, NoFilesLeft DEF Served, SchemaStays
  <2>3. QED
    BY <2>1, <2>2
<1>12. ProcSound(p)'
  BY <1>1, <1>3, <1>4, <1>10, <1>11 DEF ProcSound
<1>13. QED
  BY <1>3, <1>4, <1>6, <1>12 DEF ProcessState

-----------------------------------------------------------------------------
(* Steps at a file. *)

LEMMA WorkingHas ==
    ASSUME StartupInv, NEW p \in Process, NEW at, Working(p, at)
    PROVE  /\ proc[p] \in Starting /\ proc[p].op = "starting" /\ proc[p].at = at
           /\ proc[p].left # <<>> /\ Head(proc[p].left) = "migrate"
           /\ proc[p].files \in Seq(File) /\ proc[p].files # <<>>
           /\ deployed[p] \in Program
           /\ Next1(p) \in File /\ Next1(p) \in FilesIn(deployed[p])
           /\ FileSet(proc[p].files) = {Next1(p)} \cup FileSet(Tail(proc[p].files))
           /\ Tail(proc[p].files) \in Seq(File)
<1>1. proc[p].op = "starting" /\ proc[p].files # <<>> /\ proc[p].at = at
      /\ proc[p].left # <<>> /\ Head(proc[p].left) = "migrate"
  BY DEF Working, At
<1>2. proc[p] \in Starting /\ deployed[p] \in Program
  BY <1>1, StartingHas
<1>3. proc[p].files \in Seq(File)
  BY <1>2 DEF Starting
<1>4. FileSet(proc[p].files) = {Next1(p)} \cup FileSet(Tail(proc[p].files)) /\ Next1(p) \in File
  BY <1>1, <1>3, FileSetTail DEF Next1
<1>5. FileSet(proc[p].files) \subseteq FilesIn(deployed[p])
  BY <1>1 DEF StartupInv, ProcSound, StartSound
<1>6. Tail(proc[p].files) \in Seq(File)
  BY <1>1, <1>3, HeadAndTail
<1>7. QED
  BY <1>1, <1>2, <1>3, <1>4, <1>5, <1>6

\* Past a file that is applied.
LEMMA SkipSound ==
    ASSUME StartupInv, NEW p \in Process, NEW at, Working(p, at), SkipFile(p), UNCHANGED <<deployed, loops>>,
           applied \subseteq applied', Next1(p) \in applied'
    PROVE  \E new \in ProcessState :
               Becomes(p, new) /\ (new.op = "starting" => new.at = "check") /\ ProcSound(p)'
<1> DEFINE s == proc[p]
           new == [s EXCEPT !.files = Tail(@), !.at = "check"]
<1>1. /\ s \in Starting /\ s.op = "starting" /\ Tail(s.files) \in Seq(File) /\ s.files # <<>>
      /\ FileSet(s.files) = {Next1(p)} \cup FileSet(Tail(s.files))
      /\ deployed[p] \in Program
  BY WorkingHas
<1>2. new \in Starting /\ new.op = "starting" /\ new.left = s.left /\ new.files = Tail(s.files) /\ new.at = "check"
  BY <1>1 DEF Starting
<1>3. Becomes(p, new) /\ proc'[p] = new
  BY DEF Becomes, SkipFile, StartupInv, StartupTypeOK
<1>4. ProcSound(p) /\ StartSound(p)
  BY DEF StartupInv, ProcSound
<1>5. /\ FileSet(s.files) \subseteq FilesIn(deployed[p])
      /\ FilesIn(deployed[p]) \ FileSet(s.files) \subseteq applied
      /\ deployed[p] \in Migrating => SchemaFirst(s.left)
  BY <1>1, <1>4 DEF StartSound
<1>6. /\ FileSet(new.files) \subseteq FilesIn(deployed[p])
      /\ FilesIn(deployed[p]) \ FileSet(new.files) \subseteq applied'
  BY <1>1, <1>2, <1>5
<1>7. StartSound(p)'
  BY <1>2, <1>3, <1>5, <1>6 DEF StartSound
<1>8. p \in loops' => Served(deployed[p])'
  BY <1>4 DEF ProcSound, Served
<1>9. ProcSound(p)'
  BY <1>1, <1>2, <1>3, <1>7, <1>8 DEF ProcSound
<1>10. QED
  BY <1>2, <1>3, <1>9 DEF ProcessState

\* On with the same file.
LEMMA OnwardSound ==
    ASSUME StartupInv, NEW p \in Process, NEW at, Working(p, at), NEW next \in {"apply", "record"},
           proc' = [proc EXCEPT ![p].at = next], UNCHANGED <<deployed, loops>>,
           applied \subseteq applied', next = "record" => Next1(p) \in applied'
    PROVE  /\ \E new \in ProcessState : Becomes(p, new)
           /\ ProcSound(p)'
           /\ proc'[p].op = "starting" /\ proc'[p].at = next /\ Next1(p)' = Next1(p)
<1> DEFINE s == proc[p]
           new == [s EXCEPT !.at = next]
<1>1. /\ s \in Starting /\ s.op = "starting" /\ s.files # <<>> /\ s.left # <<>> /\ Head(s.left) = "migrate"
      /\ deployed[p] \in Program
  BY WorkingHas
<1>2. new \in Starting /\ new.op = "starting" /\ new.left = s.left /\ new.files = s.files /\ new.at = next
  BY <1>1 DEF Starting
<1>3. Becomes(p, new) /\ proc'[p] = new
  BY DEF Becomes, StartupInv, StartupTypeOK
<1>4. ProcSound(p) /\ StartSound(p)
  BY DEF StartupInv, ProcSound
<1>5. Working(p, next)' /\ Next1(p)' = Next1(p)
  BY <1>1, <1>2, <1>3 DEF Working, At, Next1
<1>6. StartSound(p)'
  BY <1>1, <1>2, <1>3, <1>4, <1>5 DEF StartSound
<1>7. p \in loops' => Served(deployed[p])'
  BY <1>4 DEF ProcSound, Served
<1>8. ProcSound(p)'
  BY <1>1, <1>2, <1>3, <1>6, <1>7 DEF ProcSound
<1>9. QED
  BY <1>2, <1>3, <1>5, <1>8 DEF ProcessState

\* The others are where they were.
LEMMA OthersStay ==
    ASSUME StartupInv, NEW p \in Process, NEW new \in ProcessState, Becomes(p, new), NEW q \in Process, q # p
    PROVE  /\ \A at : Working(q, at)' <=> Working(q, at)
           /\ Next1(q)' = Next1(q)
           /\ \A f : AtWork(q, f)' <=> AtWork(q, f)
<1>1. proc'[q] = proc[q]
  BY DEF StartupInv, StartupTypeOK, Becomes
<1>2. QED
  BY <1>1 DEF Working, At, Next1, AtWork

-----------------------------------------------------------------------------
(* One lemma per action. *)

LEMMA StopsInRange == StartupInv => stops \in 0..MaxStops /\ (stops < MaxStops => stops + 1 \in 0..MaxStops)
  BY StartupAssumption DEF StartupInv, StartupTypeOK, StartupAssumption

LEMMA LaunchInv == ASSUME StartupInv, NEW p \in Process, Launch(p) PROVE StartupInv'
<1> DEFINE d == deployed[p]
           new == [op |-> "starting", left |-> StepsOf(d), pings |-> 0, files |-> FilesOf[d], at |-> "check"]
<1>1. d \in Program /\ StepsOf(d) \in Seq(Stage) /\ FilesOf[d] \in Seq(File) /\ 0 \in 0..(MaxPings - 1)
  BY StepsFacts, StartupAssumption DEF Launch, StartupAssumption
<1>2. new \in ProcessState /\ new.op = "starting" /\ new.at = "check"
  BY <1>1 DEF ProcessState, Starting
<1>3. Becomes(p, new) /\ proc'[p] = new /\ UNCHANGED <<deployed, loops, stops>> /\ SchemaStays
  BY DEF Launch, Becomes, SchemaStays, StartupInv, StartupTypeOK
<1>4. FileSet(FilesOf[d]) = FilesIn(d)
  BY DEF FileSet, FilesIn
<1>5. StartSound(p)'
  BY <1>1, <1>3, <1>4, StepsFacts DEF StartSound
<1>6. p \in loops' => Served(d)'
  BY <1>3 DEF StartupInv, ProcSound, Served, SchemaStays
<1>7. ProcSound(p)'
  BY <1>1, <1>2, <1>3, <1>5, <1>6 DEF ProcSound
<1>8. QED
  BY <1>2, <1>3, <1>7, Calm, StopsInRange

LEMMA PrepareInv == ASSUME StartupInv, NEW p \in Process, Prepare(p) PROVE StartupInv'
<1>1. PICK doing \in {"config", "keys", "mailer"} : At(p, doing)
  BY DEF Prepare
<1>2. Proceed(p) /\ UNCHANGED <<deployed, loops, stops>> /\ SchemaStays
  BY DEF Prepare
<1>3. PICK new \in ProcessState :
          Becomes(p, new) /\ (new.op = "starting" => new.at = "check") /\ ProcSound(p)'
  BY <1>1, <1>2, ProceedSound
<1>4. QED
  BY <1>2, <1>3, Calm, StopsInRange

LEMMA ConnectInv == ASSUME StartupInv, NEW p \in Process, Connect(p) PROVE StartupInv'
<1>1. At(p, "connect") /\ Proceed(p) /\ UNCHANGED <<deployed, loops, stops>> /\ SchemaStays
  BY DEF Connect
<1>2. PICK new \in ProcessState :
          Becomes(p, new) /\ (new.op = "starting" => new.at = "check") /\ ProcSound(p)'
  BY <1>1, ProceedSound
<1>3. QED
  BY <1>1, <1>2, Calm, StopsInRange

LEMMA StartLoopsInv == ASSUME StartupInv, NEW p \in Process, StartLoops(p) PROVE StartupInv'
<1>1. At(p, "loops") /\ loops' = loops \cup {p} /\ Proceed(p) /\ UNCHANGED <<deployed, stops>> /\ SchemaStays
  BY DEF StartLoops
<1>2. PICK new \in ProcessState :
          Becomes(p, new) /\ (new.op = "starting" => new.at = "check") /\ ProcSound(p)'
  BY <1>1, ProceedSound
<1>3. QED
  BY <1>1, <1>2, Calm, StopsInRange

\* However a process ends away from its files.
LEMMA ExitInv ==
    ASSUME StartupInv, NEW p \in Process, Exit(p), UNCHANGED deployed, SchemaStays, stops' \in 0..MaxStops
    PROVE  StartupInv'
  BY ExitSound, Calm

LEMMA PingFailsInv == ASSUME StartupInv, NEW p \in Process, PingFails(p) PROVE StartupInv'
<1> DEFINE s == proc[p]
           pings == s.pings + 1
           new == [s EXCEPT !.pings = pings]
<1>1. At(p, "connect") /\ stops < MaxStops /\ UNCHANGED deployed /\ SchemaStays
  BY DEF PingFails
<1>2. s \in Starting /\ s.op = "starting" /\ deployed[p] \in Program
  BY <1>1, StartingHas DEF At
<1>3. CASE pings = MaxPings
  BY <1>1, <1>3, ExitInv, StopsInRange DEF PingFails
<1>4. CASE pings # MaxPings
  <2>1. proc' = [proc EXCEPT ![p].pings = pings] /\ UNCHANGED <<loops, stops>>
    BY <1>4 DEF PingFails
  <2>2. s.pings \in 0..(MaxPings - 1) /\ MaxPings \in Nat
    BY <1>2, StartupAssumption DEF Starting, StartupAssumption
  <2>3. pings \in 0..(MaxPings - 1)
    BY <1>4, <2>2
  <2>4. new \in Starting /\ new.op = "starting" /\ new.left = s.left /\ new.files = s.files /\ new.at = s.at
    BY <1>2, <2>3 DEF Starting
  <2>5. Becomes(p, new) /\ proc'[p] = new
    BY <1>1, <2>1 DEF Becomes, StartupInv, StartupTypeOK
  <2>6. ProcSound(p) /\ StartSound(p)
    BY DEF StartupInv, ProcSound
  <2>7. s.at = "check"
    BY <1>1, <1>2, <2>6 DEF StartSound, Working, At, Starting
  <2>8. StartSound(p)'
    BY <1>1, <1>2, <2>4, <2>5, <2>6, <2>7 DEF StartSound, SchemaStays
  <2>9. p \in loops' => Served(deployed[p])'
    BY <1>1, <2>1, <2>6 DEF ProcSound, Served, SchemaStays
  <2>10. ProcSound(p)'
    BY <1>1, <1>2, <2>4, <2>5, <2>8, <2>9 DEF ProcSound
  <2>11. QED
    BY <1>1, <2>1, <2>4, <2>5, <2>7, <2>10, Calm, StopsInRange DEF ProcessState
<1>5. QED
  BY <1>3, <1>4

LEMMA StopInv == ASSUME StartupInv, NEW p \in Process, Stop(p) PROVE StartupInv'
  BY ExitInv, StopsInRange DEF Stop

LEMMA DrainedInv == ASSUME StartupInv, NEW p \in Process, Drained(p) PROVE StartupInv'
  BY ExitInv, StopsInRange DEF Drained

\* A process that serves, drains or is done.
LEMMA PlainState ==
    ASSUME StartupInv, NEW p \in Process, NEW op \in {"serving", "draining", "done"},
           proc' = [proc EXCEPT ![p] = [op |-> op]], UNCHANGED <<deployed, loops>>, SchemaStays,
           stops' \in 0..MaxStops, deployed[p] \in Program, op # "done" => Served(deployed[p])
    PROVE  StartupInv'
<1> DEFINE new == [op |-> op]
<1>1. new \in ProcessState /\ new.op = op /\ Becomes(p, new) /\ proc'[p] = new
  BY DEF ProcessState, Becomes, StartupInv, StartupTypeOK
<1>2. Served(deployed[p]) => Served(deployed[p])'
  BY DEF Served, SchemaStays
<1>3. p \in loops => Served(deployed[p])
  BY DEF StartupInv, ProcSound
<1>4. ProcSound(p)'
  BY <1>1, <1>2, <1>3 DEF ProcSound, StartSound
<1>5. QED
  BY <1>1, <1>4, Calm

LEMMA ListenInv == ASSUME StartupInv, NEW p \in Process, Listen(p) PROVE StartupInv'
<1>1. At(p, "listen") /\ proc[p] \in Starting /\ deployed[p] \in Program /\ StartSound(p)
      /\ proc[p].op = "starting" /\ proc[p].left # <<>> /\ Head(proc[p].left) = "listen"
  BY StartingHas DEF Listen, At, StartupInv, ProcSound
<1>2. deployed[p] \in Migrating => proc[p].files = <<>>
  BY <1>1, SchemaFirstTail DEF StartSound, Starting
<1>3. Served(deployed[p])
  BY <1>1, <1>2, NoFilesLeft DEF StartSound, Served
<1>4. QED
  BY <1>1, <1>3, PlainState, StopsInRange DEF Listen

LEMMA SignalInv == ASSUME StartupInv, NEW p \in Process, Signal(p) PROVE StartupInv'
<1>1. proc[p].op = "serving" /\ ProcSound(p)
  BY DEF Signal, StartupInv
<1>2. deployed[p] \in Program /\ Served(deployed[p])
  BY <1>1 DEF ProcSound, Off
<1>3. QED
  BY <1>2, PlainState, StopsInRange DEF Signal

LEMMA MigratedInv == ASSUME StartupInv, NEW p \in Process, Migrated(p) PROVE StartupInv'
<1>1. At(p, "migrate") /\ proc[p].files = <<>> /\ UNCHANGED <<deployed, loops, stops>> /\ SchemaStays
  BY DEF Migrated
<1>2. CASE deployed[p] = "migrate"
  BY <1>1, <1>2, PlainState, StopsInRange DEF Migrated, Program, Migrating
<1>3. CASE deployed[p] # "migrate"
  <2>1. Proceed(p)
    BY <1>3 DEF Migrated
  <2>2. PICK new \in ProcessState :
            Becomes(p, new) /\ (new.op = "starting" => new.at = "check") /\ ProcSound(p)'
    BY <1>1, <2>1, ProceedSound
  <2>3. QED
    BY <1>1, <2>2, Calm, StopsInRange
<1>4. QED
  BY <1>2, <1>3

LEMMA CheckFileInv == ASSUME StartupInv, NEW p \in Process, NEW failed \in BOOLEAN, CheckFile(p, failed) PROVE StartupInv'
<1> DEFINE f == Next1(p)
<1>1. Working(p, "check") /\ UNCHANGED <<deployed, loops, applied, recorded, rerun>> /\ f \in File
  BY WorkingHas DEF CheckFile
<1>2. stops' \in 0..MaxStops
  BY StopsInRange DEF CheckFile
<1>3. CASE ~failed /\ Skips(f)
  <2>1. SkipFile(p) /\ UNCHANGED excused
    BY <1>3 DEF CheckFile
  <2>2. f \in applied'
    BY <1>1, <1>3 DEF StartupInv, TablesSound, Skips
  <2>3. PICK new \in ProcessState :
            Becomes(p, new) /\ (new.op = "starting" => new.at = "check") /\ ProcSound(p)'
    BY <1>1, <2>1, <2>2, SkipSound
  <2>4. QED
    BY <1>1, <1>2, <2>1, <2>3, Calm DEF SchemaStays
<1>4. CASE ~(~failed /\ Skips(f))
  <2>1. /\ proc' = [proc EXCEPT ![p].at = "apply"]
        /\ excused' = IF failed \/ Busy(f) # {} THEN excused \cup {f} ELSE excused
    BY <1>4 DEF CheckFile
  <2>2. /\ \E new \in ProcessState : Becomes(p, new)
        /\ ProcSound(p)'
        /\ proc'[p].op = "starting" /\ proc'[p].at = "apply" /\ Next1(p)' = f
    BY <1>1, <2>1, OnwardSound
  <2>3. PICK new \in ProcessState : Becomes(p, new)
    BY <2>2
  <2>4. StartupTypeOK'
    BY <1>1, <1>2, <2>1, <2>3, TypeSteps DEF StartupInv, StartupTypeOK
  <2>5. \A q \in Process : ProcSound(q)'
    BY <1>1, <2>2, <2>3, OthersSound
  <2>6. TablesSound'
    BY <1>1, <2>1 DEF StartupInv, TablesSound, FilesIn
  <2>7. \A q \in Process : q # p /\ AtWork(q, f) => f \in excused'
    BY <2>1 DEF Busy, AtWork
  <2>8. f \in recorded => f \in excused'
    BY <1>4, <2>1 DEF Skips
  <2>9. \A g : AtWork(p, g)' => g = f
    BY <2>2 DEF AtWork
  <2>10. \A q \in Process : q # p => /\ \A at : Working(q, at)' <=> Working(q, at)
                                     /\ Next1(q)' = Next1(q)
                                     /\ \A g : AtWork(q, g)' <=> AtWork(q, g)
    BY <2>3, OthersStay
  <2>11. OverlapsExcused'
    <3>1. ASSUME NEW q \in Process, NEW r \in Process, q # r, NEW g \in File, AtWork(q, g)', AtWork(r, g)'
          PROVE  g \in excused'
      <4>1. CASE q = p
        BY <3>1, <4>1, <2>7, <2>9, <2>10
      <4>2. CASE r = p
        BY <3>1, <4>2, <2>7, <2>9, <2>10
      <4>3. CASE q # p /\ r # p
        BY <3>1, <4>3, <2>1, <2>10 DEF StartupInv, OverlapsExcused
      <4>4. QED
        BY <4>1, <4>2, <4>3
    <3>2. ASSUME NEW q \in Process, Working(q, "apply")', Next1(q)' \in recorded'
          PROVE  Next1(q)' \in excused'
      <4>1. CASE q = p
        BY <3>2, <4>1, <1>1, <2>2, <2>8
      <4>2. CASE q # p
        BY <3>2, <4>2, <1>1, <2>1, <2>10 DEF StartupInv, OverlapsExcused
      <4>3. QED
        BY <4>1, <4>2
    <3>3. QED
      BY <3>1, <3>2 DEF OverlapsExcused
  <2>12. QED
    BY <2>4, <2>5, <2>6, <2>11 DEF StartupInv
<1>5. QED
  BY <1>3, <1>4

LEMMA ApplyFileInv == ASSUME StartupInv, NEW p \in Process, ApplyFile(p) PROVE StartupInv'
<1> DEFINE f == Next1(p)
<1>1. /\ Working(p, "apply") /\ UNCHANGED <<deployed, recorded, stops, excused>> /\ deployed[p] # "migrate"
      /\ f \in File /\ f \in FilesIn(deployed[p]) /\ deployed[p] \in Program
  BY WorkingHas DEF ApplyFile
<1>2. CASE ~Runnable(f)
  BY <1>1, <1>2, ExitInv, StopsInRange DEF ApplyFile, SchemaStays
<1>3. CASE Runnable(f)
  <2>1. /\ applied' = applied \cup {f} /\ rerun' = IF f \in recorded THEN rerun \cup {f} ELSE rerun
        /\ proc' = [proc EXCEPT ![p].at = "record"] /\ UNCHANGED loops
    BY <1>3 DEF ApplyFile
  <2>2. /\ \E new \in ProcessState : Becomes(p, new)
        /\ ProcSound(p)'
        /\ proc'[p].op = "starting" /\ proc'[p].at = "record" /\ Next1(p)' = f
    BY <1>1, <2>1, OnwardSound
  <2>3. PICK new \in ProcessState : Becomes(p, new)
    BY <2>2
  <2>4. StartupTypeOK'
    BY <1>1, <2>1, <2>3, StopsInRange, TypeSteps DEF StartupInv, StartupTypeOK
  <2>5. \A q \in Process : ProcSound(q)'
    BY <2>1, <2>2, <2>3, OthersSound
  <2>6. f \in recorded => f \in excused \cap Repeatable
    BY <1>1, <1>3 DEF StartupInv, OverlapsExcused, TablesSound, Runnable
  <2>7. f \notin FilesIn("migrate")
    BY <1>1, StartupAssumption DEF StartupAssumption
  <2>8. TablesSound'
    BY <1>1, <1>3, <2>1, <2>6, <2>7 DEF StartupInv, TablesSound, FilesIn, Runnable
  <2>9. \A q \in Process : q # p => /\ \A at : Working(q, at)' <=> Working(q, at)
                                    /\ Next1(q)' = Next1(q)
                                    /\ \A g : AtWork(q, g)' <=> AtWork(q, g)
    BY <2>3, OthersStay
  <2>10. ~Working(p, "apply")' /\ \A g : AtWork(p, g)' => AtWork(p, g)
    BY <1>1, <2>2 DEF Working, AtWork
  <2>11. OverlapsExcused'
    BY <1>1, <2>9, <2>10 DEF StartupInv, OverlapsExcused
  <2>12. QED
    BY <2>4, <2>5, <2>8, <2>11 DEF StartupInv
<1>4. QED
  BY <1>2, <1>3

\* A file is recorded by the one that is at it: whoever else is at it is excused.
LEMMA RecordedSound ==
    ASSUME StartupInv, NEW p \in Process, NEW at \in {"apply", "record"}, Working(p, at), SkipFile(p),
           UNCHANGED <<deployed, loops, stops, rerun, excused>>,
           recorded' = recorded \cup {Next1(p)}, applied' = applied \cup {Next1(p)}, NeededBy[Next1(p)] \subseteq applied
    PROVE  StartupInv'
<1> DEFINE f == Next1(p)
<1>1. f \in File
  BY WorkingHas
<1>2. PICK new \in ProcessState :
          Becomes(p, new) /\ (new.op = "starting" => new.at = "check") /\ ProcSound(p)'
  BY SkipSound
<1>3. StartupTypeOK'
  BY <1>1, <1>2, StopsInRange, TypeSteps DEF StartupInv, StartupTypeOK
<1>4. \A q \in Process : ProcSound(q)'
  BY <1>2, OthersSound
<1>5. TablesSound'
  BY <1>1 DEF StartupInv, TablesSound, FilesIn
<1>6. \A q \in Process : q # p => /\ \A doing : Working(q, doing)' <=> Working(q, doing)
                                  /\ Next1(q)' = Next1(q)
                                  /\ \A g : AtWork(q, g)' <=> AtWork(q, g)
  BY <1>2, OthersStay
<1>7. ~ Working(p, "apply")' /\ ~ Working(p, "record")'
  BY <1>2 DEF StartupInv, StartupTypeOK, Becomes, Working, At
<1>8. AtWork(p, f)
  BY DEF AtWork
<1>9. \A q \in Process : q # p /\ Working(q, "apply") /\ Next1(q) = f => f \in excused
  BY <1>1, <1>8 DEF StartupInv, OverlapsExcused, AtWork
<1>10. OverlapsExcused'
  BY <1>6, <1>7, <1>9 DEF StartupInv, OverlapsExcused, AtWork
<1>11. QED
  BY <1>3, <1>4, <1>5, <1>10 DEF StartupInv

LEMMA RecordFileInv == ASSUME StartupInv, NEW p \in Process, RecordFile(p) PROVE StartupInv'
<1> DEFINE f == Next1(p)
<1>1. Working(p, "record") /\ UNCHANGED <<deployed, stops, applied, rerun, excused>>
  BY DEF RecordFile
<1>2. CASE deployed[p] = "orders" /\ f \in recorded
  BY <1>1, <1>2, ExitInv, StopsInRange DEF RecordFile, SchemaStays
<1>3. CASE ~(deployed[p] = "orders" /\ f \in recorded)
  <2>1. recorded' = recorded \cup {f} /\ SkipFile(p) /\ UNCHANGED loops
    BY <1>3 DEF RecordFile
  <2>2. f \in applied
    BY <1>1, WorkingHas DEF StartupInv, ProcSound, StartSound
  <2>3. NeededBy[f] \subseteq applied /\ applied' = applied \cup {f}
    BY <1>1, <2>2 DEF StartupInv, TablesSound
  <2>4. QED
    BY <1>1, <2>1, <2>3, RecordedSound
<1>4. QED
  BY <1>2, <1>3

LEMMA ApplyInOneInv == ASSUME StartupInv, NEW p \in Process, ApplyInOne(p) PROVE StartupInv'
<1> DEFINE f == Next1(p)
<1>1. Working(p, "apply") /\ UNCHANGED <<deployed, stops, rerun, excused>>
  BY DEF ApplyInOne
<1>2. CASE Runnable(f) /\ f \notin recorded
  BY <1>1, <1>2, RecordedSound DEF ApplyInOne, Runnable
<1>3. CASE ~(Runnable(f) /\ f \notin recorded)
  BY <1>1, <1>3, ExitInv, StopsInRange DEF ApplyInOne, SchemaStays
<1>4. QED
  BY <1>2, <1>3

-----------------------------------------------------------------------------
(* The theorem. *)

LEMMA StartupBegins == StartupInit => StartupInv
<1> SUFFICES ASSUME StartupInit PROVE StartupInv
  OBVIOUS
<1>1. applied \subseteq File /\ recorded = applied /\ \A f \in applied : NeededBy[f] \subseteq applied
  BY StartupAssumption DEF StartupInit, StartupAssumption
<1>2. StartupTypeOK
  BY <1>1, StartupAssumption DEF StartupInit, StartupTypeOK, StartupAssumption, ProcessState
<1>3. \A p \in Process : proc[p] = Off /\ p \notin loops
  BY DEF StartupInit
<1>4. \A p \in Process : ProcSound(p)
  BY <1>3 DEF ProcSound, StartSound, Off
<1>5. OverlapsExcused
  BY <1>3 DEF OverlapsExcused, AtWork, Working, At, Off
<1>6. TablesSound
  BY <1>1 DEF TablesSound, StartupInit
<1>7. QED
  BY <1>2, <1>4, <1>5, <1>6 DEF StartupInv

LEMMA StartupStep == StartupInv /\ [StartupNext]_startupVars => StartupInv'
<1> SUFFICES ASSUME StartupInv, [StartupNext]_startupVars PROVE StartupInv'
  OBVIOUS
<1>1. ASSUME NEW p \in Process, Advance(p) PROVE StartupInv'
  BY <1>1, LaunchInv, PrepareInv, ConnectInv, StartLoopsInv, ListenInv, DrainedInv, CheckFileInv,
     ApplyFileInv, RecordFileInv, ApplyInOneInv, MigratedInv DEF Advance
<1>2. ASSUME NEW p \in Process, PingFails(p) \/ Stop(p) \/ Signal(p) \/ CheckFile(p, TRUE) PROVE StartupInv'
  BY <1>2, PingFailsInv, StopInv, SignalInv, CheckFileInv
<1>3. CASE UNCHANGED startupVars
  <2>1. UNCHANGED <<deployed, proc, loops, applied, recorded, stops, rerun, excused>>
    BY <1>3 DEF startupVars
  <2>2. StartupTypeOK'
    BY <2>1 DEF StartupInv, StartupTypeOK
  <2>3. \A p \in Process : ProcSound(p)'
    BY <2>1 DEF StartupInv, ProcSound, StartSound, Served, Working, At, Next1
  <2>4. OverlapsExcused'
    BY <2>1 DEF StartupInv, OverlapsExcused, AtWork, Working, At, Next1
  <2>5. TablesSound'
    BY <2>1 DEF StartupInv, TablesSound
  <2>6. QED
    BY <2>2, <2>3, <2>4, <2>5 DEF StartupInv
<1>4. QED
  BY <1>1, <1>2, <1>3 DEF StartupNext

\* What a process is past is applied with all it reads, and two at one file have excused it.
THEOREM StartupInvariant == StartupSpec => []StartupInv
  BY StartupBegins, StartupStep, PTL DEF StartupSpec

LEMMA SchemaAgrees == StartupInv => SchemaStands
  BY DEF StartupInv, ProcSound, Served, TablesSound, SchemaStands, ServesItsSchema, RerunsExplained

\* Whoever takes requests or runs its loops finds the tables of its own files and those they
\* read, and a file is run over what was written since its record only where the lookup
\* failed or two were at it (Migrate, applyMigration).
THEOREM SchemaDoesStand == StartupSpec => []SchemaStands
<1>1. StartupInv => SchemaStands
  BY SchemaAgrees
<1>2. QED
  BY <1>1, StartupInvariant, PTL

-----------------------------------------------------------------------------
(* Lists read in pages.  A row a reader misses stands where the reader has *)
(* been already, and it takes a departure or a move to put it there; and a *)
(* total told short misses no more than the rows that came after it.       *)

\* The rows at the first n places.
AheadIn(s, n) == {s[i] : i \in (1..n) \cap DOMAIN s}

Ahead(n) == AheadIn(entries, n)

\* How far down the list the reader has read.
Reached == IF stage = "read" THEN Offset(page) + per ELSE Offset(page)

\* Rows there from the beginning that stand where the reader has been, and were not shown.
Skipped == (atStart \cap Ahead(Reached)) \ (shown \cup ToSet(got))

\* Only departures and moves put a row where the reader has been.
SkippedFew == stage # "over" => Cardinality(Skipped) <= disturbed

\* What the reader was told falls short of the rows there are by those that came since and
\* those it does not know of.
ToldEnough ==
    stage = "counted" => Counts /\ (~uncounted => Len(entries) <= told + late + Cardinality(twin))

ListingsInv ==
    /\ ListingsTypeOK
    /\ stage # "read" => got = <<>>
    /\ stage = "read" => Counts
    /\ SkippedFew
    /\ ToldEnough
    /\ ListsMissLittle

-----------------------------------------------------------------------------
(* Sequences without repetitions. *)

LEMMA LargerOf ==
    ASSUME NEW a \in Int, NEW b \in Int
    PROVE  /\ Max({a, b}) = IF a >= b THEN a ELSE b
           /\ Min({a, b}) = IF a <= b THEN a ELSE b
<1>1. Max({a, b}) \in {a, b} /\ \A y \in {a, b} : Max({a, b}) >= y
  <2>1. \E x \in {a, b} : \A y \in {a, b} : x >= y
    OBVIOUS
  <2>2. QED
    BY <2>1 DEF Max
<1>2. Min({a, b}) \in {a, b} /\ \A y \in {a, b} : Min({a, b}) <= y
  <2>1. \E x \in {a, b} : \A y \in {a, b} : x <= y
    OBVIOUS
  <2>2. QED
    BY <2>1 DEF Min
<1>3. QED
  BY <1>1, <1>2

\* A sequence without repetitions has as many rows as places.
LEMMA RowsAtPlaces ==
    ASSUME NEW S, NEW s \in Seq(S), IsInjective(s)
    PROVE  IsFiniteSet(ToSet(s)) /\ Cardinality(ToSet(s)) = Len(s)
<1>1. s \in Bijection(1..Len(s), ToSet(s))
  <2>1. s \in [1..Len(s) -> ToSet(s)]
    BY DEF ToSet
  <2>2. \A x \in ToSet(s) : \E i \in 1..Len(s) : s[i] = x
    BY DEF ToSet
  <2>3. s \in Injection(1..Len(s), ToSet(s))
    BY <2>1 DEF Injection, IsInjective
  <2>4. QED
    BY <2>1, <2>2, <2>3 DEF Bijection, Surjection
<1>2. ExistsBijection(1..Len(s), ToSet(s))
  BY <1>1 DEF ExistsBijection
<1>3. Len(s) \in Nat
  OBVIOUS
<1>4. Cardinality(ToSet(s)) = Len(s)
  BY <1>2, <1>3, FS_CountingElements
<1>5. IsFiniteSet(ToSet(s))
  BY <1>2, <1>3, FS_NatBijection
<1>6. QED
  BY <1>4, <1>5

LEMMA JoinedSequences ==
    ASSUME NEW S, NEW a \in Seq(S), NEW b \in Seq(S)
    PROVE  /\ a \o b \in Seq(S) /\ Len(a \o b) = Len(a) + Len(b)
           /\ Len(a) \in Nat /\ Len(b) \in Nat
           /\ \A i \in 1..(Len(a) + Len(b)) : (a \o b)[i] = IF i <= Len(a) THEN a[i] ELSE b[i - Len(a)]
  OBVIOUS

LEMMA RowsOfSequence ==
    ASSUME NEW S, NEW s \in Seq(S)
    PROVE  /\ Len(s) \in Nat /\ DOMAIN s = 1..Len(s)
           /\ \A i \in DOMAIN s : s[i] \in S
           /\ ToSet(s) \subseteq S
           /\ s = <<>> <=> Len(s) = 0
<1>1. \A i \in DOMAIN s : s[i] \in S
  OBVIOUS
<1>2. QED
  BY <1>1 DEF ToSet

LEMMA Slice ==
    ASSUME NEW S, NEW s \in Seq(S), NEW lo \in Nat, NEW hi \in Nat, hi <= Len(s)
    PROVE  /\ SubSeq(s, lo + 1, hi) \in Seq(S)
           /\ Len(SubSeq(s, lo + 1, hi)) = IF lo + 1 <= hi THEN hi - lo ELSE 0
           /\ \A i \in 1..(hi - lo) : SubSeq(s, lo + 1, hi)[i] = s[i + lo]
<1>1. \A i \in (lo + 1)..hi : s[i] \in S
  OBVIOUS
<1>2. Len(SubSeq(s, lo + 1, hi)) = IF lo + 1 <= hi THEN hi - lo ELSE 0
  OBVIOUS
<1>3. \A i \in 1..(hi - lo) : SubSeq(s, lo + 1, hi)[i] = s[i + lo]
  OBVIOUS
<1>4. SubSeq(s, lo + 1, hi) \in Seq(S)
  BY <1>1
<1>5. QED
  BY <1>2, <1>3, <1>4

\* A row more at one place: those behind it move down by one.
LEMMA InsertedAt ==
    ASSUME NEW S, NEW s \in Seq(S), NEW at \in 1..(Len(s) + 1), NEW e \in S
    PROVE  /\ InsertAt(s, at, e) \in Seq(S)
           /\ Len(InsertAt(s, at, e)) = Len(s) + 1
           /\ \A i \in 1..(Len(s) + 1) :
                InsertAt(s, at, e)[i] = IF i < at THEN s[i] ELSE IF i = at THEN e ELSE s[i - 1]
<1> DEFINE a == SubSeq(s, 1, at - 1)
           b == SubSeq(s, at, Len(s))
           ae == a \o <<e>>
<1>1. a \in Seq(S) /\ Len(a) = at - 1 /\ \A i \in 1..(at - 1) : a[i] = s[i]
  OBVIOUS
<1>2. b \in Seq(S) /\ Len(b) = Len(s) - at + 1 /\ \A i \in 1..(Len(s) - at + 1) : b[i] = s[i + at - 1]
  OBVIOUS
<1>3. ae \in Seq(S) /\ Len(ae) = at /\ \A i \in 1..at : ae[i] = IF i < at THEN s[i] ELSE e
  <2> HIDE DEF a
  <2> QED BY <1>1
<1>4. InsertAt(s, at, e) = ae \o b
  BY DEF InsertAt
<1>5. QED
  <2> HIDE DEF ae, b
  <2>1. /\ ae \o b \in Seq(S) /\ Len(ae \o b) = Len(ae) + Len(b)
        /\ \A i \in 1..(Len(ae) + Len(b)) : (ae \o b)[i] = IF i <= Len(ae) THEN ae[i] ELSE b[i - Len(ae)]
    <3>1. ae \in Seq(S) /\ b \in Seq(S)
      BY <1>2, <1>3
    <3>2. QED
      BY <3>1, JoinedSequences
  <2>2. Len(s) \in Nat /\ at \in Nat
    OBVIOUS
  <2>3. ASSUME NEW i \in 1..(Len(s) + 1)
        PROVE  (ae \o b)[i] = IF i < at THEN s[i] ELSE IF i = at THEN e ELSE s[i - 1]
    <3>1. CASE i <= at
      <4>1. i \in 1..at /\ i \in 1..(Len(ae) + Len(b)) /\ i <= Len(ae)
        BY <1>2, <1>3, <2>2, <3>1
      <4>2. (ae \o b)[i] = ae[i]
        BY <2>1, <4>1
      <4>3. ae[i] = IF i < at THEN s[i] ELSE e
        BY <1>3, <4>1
      <4>4. QED
        BY <4>2, <4>3, <3>1
    <3>2. CASE i > at
      <4>1. i - at \in 1..(Len(s) - at + 1) /\ i \in 1..(Len(ae) + Len(b)) /\ ~(i <= Len(ae))
        BY <1>2, <1>3, <2>2, <3>2
      <4>2. (ae \o b)[i] = b[i - at]
        BY <1>3, <2>1, <4>1
      <4>3. b[i - at] = s[(i - at) + at - 1] /\ (i - at) + at - 1 = i - 1
        BY <1>2, <2>2, <4>1
      <4>4. QED
        BY <4>2, <4>3, <3>2
    <3>3. i <= at \/ i > at
      BY <2>2
    <3>4. QED
      BY <3>1, <3>2, <3>3, Zenon
  <2>4. QED
    BY <1>2, <1>3, <1>4, <2>1, <2>2, <2>3

\* A row less: those behind it move up by one.
LEMMA RemovedAt ==
    ASSUME NEW S, NEW s \in Seq(S), NEW at \in 1..Len(s)
    PROVE  /\ RemoveAt(s, at) \in Seq(S)
           /\ Len(RemoveAt(s, at)) = Len(s) - 1
           /\ \A i \in 1..(Len(s) - 1) : RemoveAt(s, at)[i] = IF i < at THEN s[i] ELSE s[i + 1]
<1> DEFINE a == SubSeq(s, 1, at - 1)
           b == SubSeq(s, at + 1, Len(s))
<1>1. a \in Seq(S) /\ Len(a) = at - 1 /\ \A i \in 1..(at - 1) : a[i] = s[i]
  OBVIOUS
<1>2. b \in Seq(S) /\ Len(b) = Len(s) - at /\ \A i \in 1..(Len(s) - at) : b[i] = s[i + at]
  OBVIOUS
<1>3. RemoveAt(s, at) = a \o b
  BY DEF RemoveAt
<1>4. QED
  <2> HIDE DEF a, b
  <2>1. /\ a \o b \in Seq(S) /\ Len(a \o b) = Len(a) + Len(b)
        /\ \A i \in 1..(Len(a) + Len(b)) : (a \o b)[i] = IF i <= Len(a) THEN a[i] ELSE b[i - Len(a)]
    <3>1. a \in Seq(S) /\ b \in Seq(S)
      BY <1>1, <1>2
    <3>2. QED
      BY <3>1, JoinedSequences
  <2>2. Len(s) \in Nat /\ at \in Nat
    OBVIOUS
  <2>3. ASSUME NEW i \in 1..(Len(s) - 1)
        PROVE  (a \o b)[i] = IF i < at THEN s[i] ELSE s[i + 1]
    <3>1. CASE i < at
      <4>1. i \in 1..(at - 1) /\ i \in 1..(Len(a) + Len(b)) /\ i <= Len(a)
        BY <1>1, <1>2, <2>2, <3>1
      <4>2. QED
        BY <1>1, <2>1, <3>1, <4>1
    <3>2. CASE i >= at
      <4>1. i - (at - 1) \in 1..(Len(s) - at) /\ i \in 1..(Len(a) + Len(b)) /\ ~(i <= Len(a))
        BY <1>1, <1>2, <2>2, <3>2
      <4>2. (a \o b)[i] = b[i - (at - 1)]
        BY <1>1, <2>1, <4>1
      <4>3. b[i - (at - 1)] = s[(i - (at - 1)) + at] /\ (i - (at - 1)) + at = i + 1
        BY <1>2, <2>2, <4>1
      <4>4. QED
        BY <4>2, <4>3, <2>2, <3>2
    <3>3. i < at \/ i >= at
      BY <2>2
    <3>4. QED
      BY <3>1, <3>2, <3>3, Zenon
  <2>4. QED
    BY <1>1, <1>2, <1>3, <2>1, <2>2, <2>3

\* Who stands ahead after that.
LEMMA InsertedAhead ==
    ASSUME NEW S, NEW s \in Seq(S), IsInjective(s), NEW at \in 1..(Len(s) + 1), NEW e \in S, NEW n \in Nat
    PROVE  /\ AheadIn(InsertAt(s, at, e), n) \subseteq AheadIn(s, n) \cup {e}
           /\ e \notin ToSet(s) => IsInjective(InsertAt(s, at, e))
<1> DEFINE t == InsertAt(s, at, e)
<1>1. /\ t \in Seq(S) /\ Len(t) = Len(s) + 1
      /\ \A i \in 1..(Len(s) + 1) : t[i] = IF i < at THEN s[i] ELSE IF i = at THEN e ELSE s[i - 1]
  BY InsertedAt
<1> HIDE DEF t
<1>2. Len(s) \in Nat /\ DOMAIN s = 1..Len(s) /\ DOMAIN t = 1..(Len(s) + 1)
  BY <1>1
<1>3. ASSUME NEW i \in DOMAIN t, i # at
      PROVE  LET j == IF i < at THEN i ELSE i - 1 IN j \in DOMAIN s /\ j <= i /\ t[i] = s[j]
  BY <1>1, <1>2, <1>3
<1>4. t[at] = e
  BY <1>1
<1>5. AheadIn(t, n) \subseteq AheadIn(s, n) \cup {e}
  <2> SUFFICES ASSUME NEW i \in (1..n) \cap DOMAIN t PROVE t[i] \in AheadIn(s, n) \cup {e}
    BY DEF AheadIn
  <2>1. CASE i = at
    BY <2>1, <1>4
  <2>2. CASE i # at
    BY <2>2, <1>2, <1>3 DEF AheadIn
  <2>3. QED
    BY <2>1, <2>2
<1>6. ASSUME e \notin ToSet(s), NEW i \in DOMAIN t, NEW j \in DOMAIN t, t[i] = t[j]
      PROVE  i = j
  <2>1. CASE i = at /\ j # at
    BY <1>3, <1>4, <1>6, <2>1 DEF ToSet
  <2>2. CASE i # at /\ j = at
    BY <1>3, <1>4, <1>6, <2>2 DEF ToSet
  <2>3. CASE i # at /\ j # at
    BY <1>2, <1>3, <1>6, <2>3 DEF IsInjective
  <2>4. QED
    BY <2>1, <2>2, <2>3
<1>7. QED
  BY <1>5, <1>6 DEF IsInjective, t

LEMMA RemovedAhead ==
    ASSUME NEW S, NEW s \in Seq(S), IsInjective(s), NEW at \in 1..Len(s), NEW n \in Nat
    PROVE  /\ AheadIn(RemoveAt(s, at), n) \subseteq AheadIn(s, n) \cup {s[n + 1]}
           /\ IsInjective(RemoveAt(s, at))
           /\ s[at] \notin ToSet(RemoveAt(s, at))
<1> DEFINE t == RemoveAt(s, at)
<1>1. /\ t \in Seq(S) /\ Len(t) = Len(s) - 1
      /\ \A i \in 1..(Len(s) - 1) : t[i] = IF i < at THEN s[i] ELSE s[i + 1]
  BY RemovedAt
<1> HIDE DEF t
<1>2. Len(s) \in Nat /\ DOMAIN s = 1..Len(s) /\ DOMAIN t = 1..(Len(s) - 1)
  BY <1>1
<1>3. ASSUME NEW i \in DOMAIN t
      PROVE  LET j == IF i < at THEN i ELSE i + 1 IN j \in DOMAIN s /\ j <= i + 1 /\ t[i] = s[j] /\ j # at
  BY <1>1, <1>2
<1>4. AheadIn(t, n) \subseteq AheadIn(s, n) \cup {s[n + 1]}
  <2> SUFFICES ASSUME NEW i \in (1..n) \cap DOMAIN t PROVE t[i] \in AheadIn(s, n) \cup {s[n + 1]}
    BY DEF AheadIn
  <2> DEFINE j == IF i < at THEN i ELSE i + 1
  <2>1. j \in DOMAIN s /\ j <= i + 1 /\ t[i] = s[j]
    BY <1>3
  <2>2. j = n + 1 \/ j \in 1..n
    BY <1>2, <2>1
  <2>3. QED
    BY <2>1, <2>2 DEF AheadIn
<1>5. IsInjective(t)
  <2> SUFFICES ASSUME NEW i \in DOMAIN t, NEW j \in DOMAIN t, t[i] = t[j] PROVE i = j
    BY DEF IsInjective
  <2>1. QED
    BY <1>2, <1>3 DEF IsInjective
<1>6. s[at] \notin ToSet(t)
  <2> SUFFICES ASSUME NEW i \in DOMAIN t, t[i] = s[at] PROVE FALSE
    BY DEF ToSet
  <2>1. QED
    BY <1>2, <1>3 DEF IsInjective
<1>7. QED
  BY <1>4, <1>5, <1>6 DEF t

LEMMA MovedAhead ==
    ASSUME NEW S, NEW s \in Seq(S), IsInjective(s), NEW from \in 1..Len(s), NEW at \in 1..Len(s), NEW n \in Nat,
           NEW t, t = InsertAt(RemoveAt(s, from), at, s[from])
    PROVE  /\ t \in Seq(S) /\ Len(t) = Len(s)
           /\ IsInjective(t)
           /\ \E x : AheadIn(t, n) \subseteq AheadIn(s, n) \cup {x}
<1> DEFINE u == RemoveAt(s, from)
<1>0. t = InsertAt(u, at, s[from])
  OBVIOUS
<1>1. /\ u \in Seq(S) /\ Len(u) = Len(s) - 1
      /\ \A i \in 1..(Len(s) - 1) : u[i] = IF i < from THEN s[i] ELSE s[i + 1]
  BY RemovedAt
<1>2. IsInjective(u) /\ s[from] \notin ToSet(u)
  BY RemovedAhead
<1>3. Len(s) \in Nat /\ s[from] \in S /\ at \in 1..(Len(u) + 1) /\ DOMAIN s = 1..Len(s)
  BY <1>1
<1> HIDE DEF u
<1>4. /\ t \in Seq(S) /\ Len(t) = Len(u) + 1
      /\ \A i \in 1..(Len(u) + 1) : t[i] = IF i < at THEN u[i] ELSE IF i = at THEN s[from] ELSE u[i - 1]
  <2> DEFINE e == s[from]
  <2>1. u \in Seq(S) /\ e \in S /\ at \in 1..(Len(u) + 1)
    BY <1>1, <1>3
  <2> HIDE DEF e
  <2>2. /\ InsertAt(u, at, e) \in Seq(S) /\ Len(InsertAt(u, at, e)) = Len(u) + 1
        /\ \A i \in 1..(Len(u) + 1) :
              InsertAt(u, at, e)[i] = IF i < at THEN u[i] ELSE IF i = at THEN e ELSE u[i - 1]
    BY <2>1, InsertedAt
  <2>3. QED
    BY <1>0, <2>2 DEF e
<1>5. IsInjective(t)
  BY <1>0, <1>1, <1>2, <1>3, InsertedAhead
<1>6. DOMAIN t = 1..Len(s) /\ Len(t) = Len(s)
  BY <1>1, <1>3, <1>4
<1>7. \E x : AheadIn(t, n) \subseteq AheadIn(s, n) \cup {x}
  <2> DEFINE x == IF from <= n THEN s[n + 1] ELSE s[from]
  <2>1. ASSUME NEW i \in (1..n) \cap DOMAIN t PROVE t[i] \in AheadIn(s, n) \cup {x}
    <3>0. i \in 1..n /\ i \in 1..Len(s) /\ Len(u) + 1 = Len(s) /\ from \in Nat /\ at \in Nat
      BY <1>1, <1>3, <1>6
    <3>1. CASE i = at
      <4>1. t[i] = s[from]
        BY <1>4, <3>0, <3>1
      <4>2. QED
        BY <1>3, <3>0, <4>1 DEF AheadIn
    <3>2. CASE i # at
      <4> DEFINE j == IF i < at THEN i ELSE i - 1
                 k == IF j < from THEN j ELSE j + 1
      <4>1. j \in 1..(Len(s) - 1) /\ t[i] = u[j] /\ j <= i
        BY <1>3, <1>4, <3>0, <3>2
      <4>2. k \in 1..Len(s) /\ u[j] = s[k]
        BY <1>1, <1>3, <3>0, <4>1
      <4>3. k \in 1..n \/ (k = n + 1 /\ from <= n)
        BY <3>0, <4>1, <4>2
      <4>4. QED
        BY <1>3, <4>1, <4>2, <4>3 DEF AheadIn
    <3>3. QED
      BY <3>1, <3>2
  <2>2. AheadIn(t, n) \subseteq AheadIn(s, n) \cup {x}
    BY <2>1 DEF AheadIn
  <2>3. QED
    BY <2>2
<1>8. QED
  BY <1>4, <1>5, <1>6, <1>7

-----------------------------------------------------------------------------
(* Pages. *)

\* A page begins where the one before it ends.
LEMMA PagesMeet ==
    ASSUME ListingsTypeOK
    PROVE  /\ Max({1, page}) \in Nat /\ per \in Nat /\ per >= 1
           /\ Offset(page) \in Nat
           /\ Max({1, page}) * per = Offset(page) + per
           /\ Offset(Max({1, page}) + 1) = Offset(page) + per
<1> DEFINE m == Max({1, page})
<1>1. page \in Nat /\ per \in Nat /\ per >= 1
  BY ListingsAssumption DEF ListingsTypeOK
<1>2. m \in Nat /\ m >= 1
  BY <1>1, LargerOf
<1> HIDE DEF m
<1>3. Max({1, m + 1}) = m + 1
  <2>1. 1 \in Int /\ m + 1 \in Int
    BY <1>2
  <2>2. Max({1, m + 1}) = IF 1 >= m + 1 THEN 1 ELSE m + 1
    BY <2>1, LargerOf
  <2>3. QED
    BY <1>2, <2>2
<1>4. (m - 1) * per \in Nat /\ m * per = (m - 1) * per + per
  BY <1>1, <1>2
<1>5. Offset(page) = (m - 1) * per
  BY DEF Offset, m
<1>6. Offset(m + 1) = ((m + 1) - 1) * per
  BY <1>3 DEF Offset
<1>7. (m + 1) - 1 = m
  BY <1>2
<1>8. QED
  BY <1>1, <1>2, <1>4, <1>5, <1>6, <1>7 DEF m

\* No more rows than numbers, and the count tells all but the twins.
LEMMA RowsThere ==
    ASSUME ListingsTypeOK
    PROVE  /\ entries \in Seq(1..MaxEntries) /\ Len(entries) \in Nat /\ Len(entries) <= MaxEntries
           /\ IsFiniteSet(ToSet(entries)) /\ ToSet(entries) \subseteq 1..MaxEntries
           /\ IsFiniteSet(atStart) /\ IsFiniteSet(twin) /\ Cardinality(twin) \in Nat
           /\ Total \in 0..MaxEntries
           /\ Len(entries) <= Total + Cardinality(twin)
<1>1. IsFiniteSet(1..MaxEntries) /\ Cardinality(1..MaxEntries) = MaxEntries /\ MaxEntries \in Nat
  BY FS_Interval, ListingsAssumption
<1>2. entries \in Seq(1..MaxEntries) /\ IsInjective(entries) /\ Len(entries) \in Nat
  BY DEF ListingsTypeOK
<1>3. IsFiniteSet(ToSet(entries)) /\ Cardinality(ToSet(entries)) = Len(entries)
  BY <1>2, RowsAtPlaces
<1>4. ToSet(entries) \subseteq 1..MaxEntries
  BY <1>2, RowsOfSequence
<1>5. Len(entries) <= MaxEntries
  BY <1>1, <1>3, <1>4, FS_Subset
<1>6. IsFiniteSet(atStart) /\ IsFiniteSet(twin) /\ Cardinality(twin) \in Nat
  BY <1>1, FS_Subset, FS_CardinalityType DEF ListingsTypeOK
<1>7. /\ Cardinality(twin \cap ToSet(entries)) \in Nat
      /\ Cardinality(twin \cap ToSet(entries)) <= Cardinality(twin)
      /\ Cardinality(twin \cap ToSet(entries)) <= Cardinality(ToSet(entries))
  <2>1. /\ IsFiniteSet(twin \cap ToSet(entries))
        /\ Cardinality(twin \cap ToSet(entries)) <= Cardinality(twin)
    BY <1>6, FS_Intersection
  <2>2. Cardinality(twin \cap ToSet(entries)) <= Cardinality(ToSet(entries))
    BY <1>3, FS_Intersection
  <2>3. QED
    BY <2>1, <2>2, FS_CardinalityType
<1>8. QED
  BY <1>1, <1>2, <1>3, <1>4, <1>5, <1>6, <1>7 DEF Total

\* What lies behind the first n places and the k after them has nobody's name.
LEMMA FewBehind ==
    ASSUME ListingsTypeOK, NEW n \in Nat, NEW d \in Nat, NEW k \in Nat, NEW seen,
           Cardinality((atStart \cap Ahead(n)) \ seen) <= d, Len(entries) <= n + k
    PROVE  Cardinality((atStart \cap ToSet(entries)) \ seen) <= d + k
<1> DEFINE A == (atStart \cap Ahead(n)) \ seen
           Rest == {entries[i] : i \in (n + 1)..Len(entries)}
<1>1. entries \in Seq(1..MaxEntries) /\ Len(entries) \in Nat /\ IsFiniteSet(atStart)
  BY RowsThere
<1>2. IsFiniteSet(A) /\ Cardinality(A) \in Nat
  BY <1>1, FS_Subset, FS_CardinalityType
<1>3. IsFiniteSet((n + 1)..Len(entries)) /\ Cardinality((n + 1)..Len(entries)) <= k
  <2>1. n + 1 \in Int /\ Len(entries) \in Int
    BY <1>1
  <2>2. /\ IsFiniteSet((n + 1)..Len(entries))
        /\ Cardinality((n + 1)..Len(entries)) = IF n + 1 > Len(entries) THEN 0 ELSE Len(entries) - (n + 1) + 1
    BY <2>1, FS_Interval
  <2>3. QED
    BY <1>1, <2>2
<1>4. IsFiniteSet(Rest) /\ Cardinality(Rest) <= k /\ Cardinality(Rest) \in Nat
  <2> DEFINE f == [i \in (n + 1)..Len(entries) |-> entries[i]]
  <2>1. f \in Surjection((n + 1)..Len(entries), Rest)
    BY DEF Surjection
  <2>2. IsFiniteSet(Rest) /\ Cardinality(Rest) <= Cardinality((n + 1)..Len(entries))
    BY <1>3, <2>1, FS_Surjection
  <2>3. Cardinality(Rest) \in Nat /\ Cardinality((n + 1)..Len(entries)) \in Nat
    BY <1>3, <2>2, FS_CardinalityType
  <2>4. QED
    BY <1>3, <2>2, <2>3
<1>5. (atStart \cap ToSet(entries)) \ seen \subseteq A \cup Rest
  <2> SUFFICES ASSUME NEW i \in DOMAIN entries PROVE entries[i] \in Ahead(n) \cup Rest
    BY DEF ToSet
  <2>1. i \in 1..n \/ i \in (n + 1)..Len(entries)
    BY <1>1
  <2>2. QED
    BY <2>1 DEF Ahead, AheadIn
<1>6. IsFiniteSet(A \cup Rest) /\ Cardinality(A \cup Rest) <= d + k
  <2> HIDE DEF A, Rest
  <2>1. /\ IsFiniteSet(A \cup Rest)
        /\ Cardinality(A \cup Rest) = Cardinality(A) + Cardinality(Rest) - Cardinality(A \cap Rest)
    BY <1>2, <1>4, FS_Union
  <2>2. Cardinality(A \cap Rest) \in Nat
    BY <1>2, FS_Intersection, FS_CardinalityType
  <2>3. Cardinality(A) <= d
    BY DEF A
  <2>4. QED
    BY <1>2, <1>4, <2>1, <2>2, <2>3
<1>7. QED
  <2>1. Cardinality((atStart \cap ToSet(entries)) \ seen) <= Cardinality(A \cup Rest)
    BY <1>5, <1>6, FS_Subset
  <2>2. Cardinality((atStart \cap ToSet(entries)) \ seen) \in Nat /\ Cardinality(A \cup Rest) \in Nat
    BY <1>1, <1>6, FS_Subset, FS_CardinalityType
  <2>3. QED
    BY <1>6, <2>1, <2>2

\* The page is what stands at its places.
LEMMA RowsOfPage ==
    ASSUME ListingsTypeOK
    PROVE  /\ PageOf(page) \in Seq(1..MaxEntries)
           /\ Ahead(Offset(page) + per) \subseteq Ahead(Offset(page)) \cup ToSet(PageOf(page))
           /\ PageOf(page) = <<>> => Len(entries) <= Offset(page)
           /\ Len(PageOf(page)) < per => Len(entries) <= Offset(page) + per
<1> DEFINE n == Offset(page)
           end == IF Len(entries) <= n + per THEN Len(entries) ELSE n + per
<1>1. n \in Nat /\ per \in Nat /\ per >= 1 /\ entries \in Seq(1..MaxEntries) /\ Len(entries) \in Nat
  BY PagesMeet, RowsThere
<1>2. end \in Nat /\ Min({Len(entries), n + per}) = end
  <2>1. n + per \in Int /\ Len(entries) \in Int
    BY <1>1
  <2> HIDE DEF n
  <2>2. Min({Len(entries), n + per}) = IF Len(entries) <= n + per THEN Len(entries) ELSE n + per
    BY <2>1, LargerOf
  <2>3. QED
    BY <1>1, <2>2
<1> HIDE DEF n
<1>3. PageOf(page) = SubSeq(entries, n + 1, end)
  BY <1>2 DEF PageOf, n
<1>4. /\ SubSeq(entries, n + 1, end) \in Seq(1..MaxEntries)
      /\ Len(SubSeq(entries, n + 1, end)) = IF n + 1 <= end THEN end - n ELSE 0
      /\ \A i \in 1..(end - n) : SubSeq(entries, n + 1, end)[i] = entries[i + n]
  <2>1. end <= Len(entries)
    BY <1>1
  <2> DEFINE Numbers == 1..MaxEntries
  <2>2. entries \in Seq(Numbers)
    BY <1>1
  <2> HIDE DEF end, Numbers
  <2>3. /\ SubSeq(entries, n + 1, end) \in Seq(Numbers)
        /\ Len(SubSeq(entries, n + 1, end)) = IF n + 1 <= end THEN end - n ELSE 0
        /\ \A i \in 1..(end - n) : SubSeq(entries, n + 1, end)[i] = entries[i + n]
    BY <1>1, <1>2, <2>1, <2>2, Slice
  <2>4. QED
    BY <2>3 DEF Numbers
<1>5. Ahead(n + per) \subseteq Ahead(n) \cup ToSet(PageOf(page))
  <2> SUFFICES ASSUME NEW i \in (1..(n + per)) \cap DOMAIN entries
               PROVE  entries[i] \in Ahead(n) \cup ToSet(PageOf(page))
    BY DEF Ahead, AheadIn
  <2>1. CASE i <= n
    BY <1>1, <2>1 DEF Ahead, AheadIn
  <2>2. CASE i > n
    <3>1. i \in Nat /\ n < i /\ i <= n + per /\ i <= Len(entries)
      BY <1>1, <2>2
    <3>2. i <= end /\ end \in Nat
      BY <1>1, <3>1
    <3> DEFINE there == PageOf(page)
    <3>3. there \in Seq(1..MaxEntries) /\ Len(there) = (IF n + 1 <= end THEN end - n ELSE 0)
          /\ \A j \in 1..(end - n) : there[j] = entries[j + n]
      BY <1>3, <1>4
    <3> HIDE DEF end, there
    <3>4. i - n \in 1..(end - n) /\ Len(there) = end - n /\ (i - n) + n = i
      BY <1>1, <3>1, <3>2, <3>3
    <3>5. i - n \in DOMAIN there
      BY <3>3, <3>4
    <3>6. there[i - n] = entries[i]
      BY <3>3, <3>4
    <3>7. QED
      BY <3>5, <3>6 DEF ToSet, there
  <2>3. QED
    BY <1>1, <2>1, <2>2
<1>6. PageOf(page) = <<>> => Len(entries) <= n
  <2>1. PageOf(page) = <<>> => Len(PageOf(page)) = 0
    OBVIOUS
  <2>2. QED
    BY <1>1, <1>3, <1>4, <2>1
<1>7. Len(PageOf(page)) < per => Len(entries) <= n + per
  BY <1>1, <1>3, <1>4
<1>8. PageOf(page) \in Seq(1..MaxEntries)
  BY <1>3, <1>4
<1>9. QED
  BY <1>5, <1>6, <1>7, <1>8 DEF n

-----------------------------------------------------------------------------
(* The rows change under the reader. *)

LEMMA ReachedNat == ASSUME ListingsTypeOK PROVE Reached \in Nat
  BY PagesMeet DEF Reached

\* Rows that gain at most one at the places read: a departure or a move.
LEMMA OneMoreSkipped ==
    ASSUME ListingsInv, NEW x, stage # "over",
           entries' \in Seq(1..MaxEntries), IsInjective(entries'), Len(entries') <= Len(entries),
           Ahead(Reached)' \subseteq Ahead(Reached) \cup {x},
           disturbed < MaxChange, disturbed' = disturbed + 1,
           UNCHANGED <<list, per, twin, page, stage, told, got, more, shown, atStart, late, uncounted>>
    PROVE  ListingsInv'
<1>1. ListingsTypeOK'
  BY ListingsAssumption DEF ListingsInv, ListingsTypeOK
<1>2. Cardinality(Skipped') <= disturbed'
  <2>1. IsFiniteSet(atStart)
    BY RowsThere DEF ListingsInv
  <2>2. IsFiniteSet(Skipped) /\ Cardinality(Skipped) \in Nat
    BY <2>1, FS_Subset, FS_CardinalityType DEF Skipped
  <2>3. Skipped' \subseteq Skipped \cup {x}
    BY DEF Skipped
  <2>4. /\ IsFiniteSet(Skipped \cup {x})
        /\ Cardinality(Skipped \cup {x}) <= Cardinality(Skipped) + 1
    <3>1. /\ IsFiniteSet(Skipped \cup {x})
          /\ Cardinality(Skipped \cup {x}) = IF x \in Skipped THEN Cardinality(Skipped) ELSE Cardinality(Skipped) + 1
      BY <2>2, FS_AddElement, Zenon
    <3>2. QED
      BY <2>2, <3>1
  <2>5. Cardinality(Skipped') <= Cardinality(Skipped \cup {x}) /\ IsFiniteSet(Skipped')
    BY <2>3, <2>4, FS_Subset
  <2>6. Cardinality(Skipped') \in Nat /\ Cardinality(Skipped \cup {x}) \in Nat
    BY <2>4, <2>5, FS_CardinalityType
  <2>7. Cardinality(Skipped) <= disturbed /\ disturbed \in Int
    BY DEF ListingsInv, SkippedFew, ListingsTypeOK
  <2>8. QED
    BY <2>2, <2>4, <2>5, <2>6, <2>7
<1>3. ToldEnough'
  <2>1. Len(entries) \in Nat /\ Cardinality(twin) \in Nat /\ told \in Int /\ late \in Int
    BY RowsThere DEF ListingsInv, ListingsTypeOK
  <2>2. Len(entries') \in Nat
    OBVIOUS
  <2>3. Counts' = Counts
    BY DEF Counts
  <2>4. QED
    BY <2>1, <2>2, <2>3 DEF ListingsInv, ToldEnough
<1>4. QED
  BY <1>1, <1>2, <1>3 DEF ListingsInv, SkippedFew, ListsMissLittle, Counts

LEMMA RowLeavesInv ==
    ASSUME ListingsInv, NEW at \in DOMAIN entries, RowLeaves(at)
    PROVE  ListingsInv'
<1>1. /\ entries \in Seq(1..MaxEntries) /\ IsInjective(entries) /\ at \in 1..Len(entries)
      /\ entries' = RemoveAt(entries, at)
      /\ Len(entries) \in Nat
  BY DEF RowLeaves, ListingsInv, ListingsTypeOK
<1> DEFINE Numbers == 1..MaxEntries
           n == Reached
<1>2. n \in Nat
  BY ReachedNat DEF ListingsInv
<1>3. entries \in Seq(Numbers)
  BY <1>1
<1> HIDE DEF Numbers, n
<1>4. entries' \in Seq(Numbers) /\ Len(entries') = Len(entries) - 1
  BY <1>1, <1>3, RemovedAt
<1>5. IsInjective(entries') /\ AheadIn(entries', n) \subseteq AheadIn(entries, n) \cup {entries[n + 1]}
  BY <1>1, <1>2, <1>3, RemovedAhead
<1>6. Reached' = n
  BY DEF RowLeaves, Reached, Offset, n
<1>7. Ahead(Reached)' \subseteq Ahead(Reached) \cup {entries[n + 1]}
  BY <1>5, <1>6 DEF Ahead, n
<1>8. Len(entries') <= Len(entries) /\ entries' \in Seq(1..MaxEntries)
  BY <1>1, <1>4 DEF Numbers
<1>9. QED
  BY <1>5, <1>7, <1>8, OneMoreSkipped DEF RowLeaves

LEMMA RowMovesInv ==
    ASSUME ListingsInv, NEW from \in DOMAIN entries, NEW at \in DOMAIN entries, RowMoves(from, at)
    PROVE  ListingsInv'
<1>1. /\ entries \in Seq(1..MaxEntries) /\ IsInjective(entries) /\ at \in 1..Len(entries) /\ from \in 1..Len(entries)
      /\ entries' = InsertAt(RemoveAt(entries, from), at, entries[from])
      /\ Len(entries) \in Nat
  BY DEF RowMoves, ListingsInv, ListingsTypeOK
<1> DEFINE Numbers == 1..MaxEntries
           n == Reached
<1>2. n \in Nat
  BY ReachedNat DEF ListingsInv
<1>3. entries \in Seq(Numbers)
  BY <1>1
<1> HIDE DEF Numbers, n
<1>4. /\ entries' \in Seq(Numbers) /\ Len(entries') = Len(entries)
      /\ IsInjective(entries')
      /\ \E x : AheadIn(entries', n) \subseteq AheadIn(entries, n) \cup {x}
  <2> DEFINE t == InsertAt(RemoveAt(entries, from), at, entries[from])
  <2>1. \A u : u = t => /\ u \in Seq(Numbers) /\ Len(u) = Len(entries)
                        /\ IsInjective(u)
                        /\ \E x : AheadIn(u, n) \subseteq AheadIn(entries, n) \cup {x}
    BY <1>1, <1>2, <1>3, MovedAhead
  <2> HIDE DEF t
  <2>2. entries' = t
    BY <1>1 DEF t
  <2>3. QED
    BY <2>1, <2>2
<1>5. PICK x : AheadIn(entries', n) \subseteq AheadIn(entries, n) \cup {x}
  BY <1>4
<1>6. Reached' = n
  BY DEF RowMoves, Reached, Offset, n
<1>7. Ahead(Reached)' \subseteq Ahead(Reached) \cup {x}
  BY <1>5, <1>6 DEF Ahead, n
<1>8. Len(entries') <= Len(entries) /\ entries' \in Seq(1..MaxEntries)
  BY <1>1, <1>4 DEF Numbers
<1>9. QED
  BY <1>4, <1>7, <1>8, OneMoreSkipped DEF RowMoves

\* A row that comes was not there from the beginning.
LEMMA RowComesInv ==
    ASSUME ListingsInv, NEW i \in 1..MaxEntries, NEW at \in 1..(Len(entries) + 1), NEW isTwin \in BOOLEAN,
           RowComes(i, at, isTwin)
    PROVE  ListingsInv'
<1>1. /\ entries \in Seq(1..MaxEntries) /\ IsInjective(entries) /\ Len(entries) \in Nat
      /\ entries' = InsertAt(entries, at, i)
      /\ i \notin atStart /\ i \notin ToSet(entries)
  BY RowsThere DEF RowComes, Known, ListingsInv, ListingsTypeOK
<1> DEFINE Numbers == 1..MaxEntries
           n == Reached
<1>2. n \in Nat
  BY ReachedNat DEF ListingsInv
<1>3. entries \in Seq(Numbers) /\ i \in Numbers
  BY <1>1
<1> HIDE DEF Numbers, n
<1>4. entries' \in Seq(Numbers) /\ Len(entries') = Len(entries) + 1
  BY <1>1, <1>3, InsertedAt
<1>5. IsInjective(entries') /\ AheadIn(entries', n) \subseteq AheadIn(entries, n) \cup {i}
  BY <1>1, <1>2, <1>3, InsertedAhead
<1>6. Reached' = n
  BY DEF RowComes, Reached, Offset, n
<1>7. twin' \subseteq 1..MaxEntries /\ twin \subseteq twin'
  BY DEF RowComes, ListingsInv, ListingsTypeOK
<1>8. ListingsTypeOK'
  <2>1. entries' \in Seq(1..MaxEntries)
    BY <1>4 DEF Numbers
  <2>2. late' \in Nat
    BY DEF RowComes, ListingsInv, ListingsTypeOK
  <2>3. QED
    BY <1>5, <1>7, <2>1, <2>2 DEF RowComes, ListingsInv, ListingsTypeOK
<1>9. Cardinality(Skipped') <= disturbed'
  <2>1. IsFiniteSet(atStart)
    BY RowsThere DEF ListingsInv
  <2>2. IsFiniteSet(Skipped)
    BY <2>1, FS_Subset DEF Skipped
  <2>3. Skipped' \subseteq Skipped
    BY <1>1, <1>5, <1>6 DEF Skipped, Ahead, RowComes, n
  <2>4. Cardinality(Skipped') <= Cardinality(Skipped) /\ Cardinality(Skipped) \in Nat /\ Cardinality(Skipped') \in Nat
    BY <2>2, <2>3, FS_Subset, FS_CardinalityType
  <2>5. Cardinality(Skipped) <= disturbed /\ disturbed \in Int /\ disturbed' = disturbed
    BY DEF ListingsInv, SkippedFew, ListingsTypeOK, RowComes
  <2>6. QED
    BY <2>4, <2>5
<1>10. ToldEnough'
  <2>1. Cardinality(twin) \in Nat /\ Cardinality(twin') \in Nat /\ Cardinality(twin) <= Cardinality(twin')
    <3>1. IsFiniteSet(twin')
      <4>1. IsFiniteSet(1..MaxEntries)
        BY FS_Interval, ListingsAssumption
      <4>2. QED
        BY <1>7, <4>1, FS_Subset
    <3>2. QED
      BY <1>7, <3>1, FS_Subset, FS_CardinalityType
  <2>2. told \in Int /\ late \in Int
    BY DEF ListingsInv, ListingsTypeOK
  <2>3. stage = "counted" => late' = late + 1
    BY DEF RowComes
  <2>4. /\ told' = told /\ uncounted' = uncounted /\ stage' = stage
        /\ Counts' = Counts
    BY DEF RowComes, Counts
  <2>5. QED
    BY <1>1, <1>4, <2>1, <2>2, <2>3, <2>4 DEF ListingsInv, ToldEnough
<1>11. QED
  BY <1>8, <1>9, <1>10 DEF ListingsInv, SkippedFew, ListsMissLittle, Counts, RowComes

-----------------------------------------------------------------------------
(* The reader reads, and turns the page. *)

\* What the page brought covers the places read; on the last page, what the reader was told
\* covers nearly all the rows there are.
LEMMA TurnInv ==
    ASSUME ListingsInv, NEW count \in Int, NEW rowsGot \in Seq(1..MaxEntries), NEW extra \in BOOLEAN,
           Turn(count, rowsGot, extra), stage # "over",
           uncounted' \in BOOLEAN,
           Cardinality((atStart \cap Ahead(Offset(page) + per)) \ (shown \cup ToSet(rowsGot))) <= disturbed,
           IsLast(count, rowsGot, extra) /\ ~uncounted'
               => Len(entries) <= Offset(page) + per + late + Cardinality(twin)
    PROVE  ListingsInv'
<1>1. /\ Max({1, page}) \in Nat /\ per \in Nat /\ Offset(page) \in Nat
      /\ Offset(Max({1, page}) + 1) = Offset(page) + per
  BY PagesMeet DEF ListingsInv
<1>2. /\ UNCHANGED <<list, per, entries, twin, atStart, disturbed>>
      /\ shown' = shown \cup ToSet(rowsGot)
      /\ told' = 0 /\ got' = <<>> /\ more' = FALSE
  BY DEF Turn
<1>3. \/ IsLast(count, rowsGot, extra) /\ stage' = "over" /\ page' = page /\ late' = late
      \/ stage' = "asks" /\ page' = Max({1, page}) + 1 /\ late' = 0
  BY DEF Turn
<1>4. page' \in Nat /\ late' \in Nat /\ stage' \in {"asks", "over"}
  BY <1>1, <1>3 DEF ListingsInv, ListingsTypeOK
<1>5. ListingsTypeOK'
  <2>1. shown' \subseteq 1..MaxEntries
    <3>1. ToSet(rowsGot) \subseteq 1..MaxEntries
      BY RowsOfSequence
    <3>2. QED
      BY <1>2, <3>1 DEF ListingsInv, ListingsTypeOK
  <2>2. got' \in Seq(1..MaxEntries) /\ told' \in 0..MaxEntries
    BY <1>2, ListingsAssumption
  <2>3. QED
    BY <1>2, <1>4, <2>1, <2>2 DEF ListingsInv, ListingsTypeOK
<1>6. ToSet(<<>>) = {}
  BY DEF ToSet
<1>7. CASE stage' = "asks"
  <2>1. page' = Max({1, page}) + 1
    BY <1>3, <1>7
  <2>2. Offset(page)' = Offset(Max({1, page}) + 1)
    BY <1>2, <2>1 DEF Offset
  <2>3. Reached' = Offset(page) + per
    BY <1>1, <1>7, <2>2 DEF Reached
  <2>4. Skipped' = (atStart \cap Ahead(Offset(page) + per)) \ (shown \cup ToSet(rowsGot))
    BY <1>2, <1>6, <2>3 DEF Skipped, Ahead
  <2>5. SkippedFew'
    BY <1>2, <2>4 DEF SkippedFew
  <2>6. QED
    BY <1>2, <1>5, <1>7, <2>5 DEF ListingsInv, ToldEnough, ListsMissLittle
<1>8. CASE stage' = "over"
  <2>1. ListsMissLittle'
    <3> SUFFICES ASSUME ~uncounted'
                 PROVE  Cardinality(NotShown') <= disturbed' + late' + Cardinality(twin')
      BY DEF ListsMissLittle
    <3>1. IsLast(count, rowsGot, extra) /\ late' = late
      BY <1>3, <1>8
    <3>2. Len(entries) <= Offset(page) + per + late + Cardinality(twin)
      BY <3>1
    <3> DEFINE n == Offset(page) + per
               k == late + Cardinality(twin)
               seen == shown \cup ToSet(rowsGot)
    <3>3. /\ n \in Nat /\ k \in Nat /\ disturbed \in Nat /\ late \in Nat /\ Cardinality(twin) \in Nat
          /\ Len(entries) <= n + k
      <4>1. late \in Nat /\ disturbed \in Nat
        BY DEF ListingsInv, ListingsTypeOK
      <4>2. Cardinality(twin) \in Nat /\ Len(entries) \in Nat
        BY RowsThere DEF ListingsInv
      <4>3. QED
        BY <1>1, <3>2, <4>1, <4>2
    <3>4. Cardinality((atStart \cap Ahead(n)) \ seen) <= disturbed
      OBVIOUS
    <3> HIDE DEF n, k, seen
    <3>5. Cardinality((atStart \cap ToSet(entries)) \ seen) <= disturbed + k
      BY <3>3, <3>4, FewBehind DEF ListingsInv
    <3>6. NotShown' = (atStart \cap ToSet(entries)) \ seen
      BY <1>2 DEF NotShown, seen
    <3>7. disturbed + k = disturbed' + late' + Cardinality(twin')
      BY <1>2, <3>1, <3>3 DEF k
    <3>8. QED
      BY <3>5, <3>6, <3>7
  <2>2. QED
    BY <1>2, <1>5, <1>8, <2>1 DEF ListingsInv, SkippedFew, ToldEnough
<1>9. QED
  BY <1>4, <1>7, <1>8

\* The page just read leaves nobody out at the places it covers.
LEMMA PageCovers ==
    ASSUME ListingsInv, stage \in {"asks", "counted"}
    PROVE  Cardinality((atStart \cap Ahead(Offset(page) + per)) \ (shown \cup ToSet(PageOf(page)))) <= disturbed
<1> DEFINE S == (atStart \cap Ahead(Offset(page) + per)) \ (shown \cup ToSet(PageOf(page)))
<1>1. ToSet(<<>>) = {}
  BY DEF ToSet
<1>2. S \subseteq Skipped
  BY <1>1, RowsOfPage DEF ListingsInv, Skipped, Reached
<1>3. IsFiniteSet(Skipped)
  BY RowsThere, FS_Subset DEF ListingsInv, Skipped
<1>4. Cardinality(S) <= Cardinality(Skipped) /\ Cardinality(S) \in Nat /\ Cardinality(Skipped) \in Nat
  BY <1>2, <1>3, FS_Subset, FS_CardinalityType
<1>5. Cardinality(Skipped) <= disturbed /\ disturbed \in Int
  BY DEF ListingsInv, SkippedFew, ListingsTypeOK
<1>6. QED
  BY <1>4, <1>5

\* A list tells its end in one way.
LEMMA OneWayToEnd ==
    ASSUME ListingsTypeOK
    PROVE  ~(Counts /\ "extra row" \in list) /\ ~(Counts /\ "paged" \in list) /\ ~("extra row" \in list /\ "paged" \in list)
  BY DEF ListingsTypeOK, Counts, Lists, ListOrders, ListOrdersByStatus, ListAbandonedCarts, ListCustomers,
         ListSubscribers, ListStoreOffers, ListProducts, SearchProducts, searchProducts, searchVendors,
         listBatches, listDisputes, directoryCustomers, directoryVendors, listErrors, fetchSuccessful

LEMMA LastPage ==
    ASSUME ListingsTypeOK, NEW count, NEW rowsGot, NEW extra, IsLast(count, rowsGot, extra)
    PROVE  /\ Counts => Max({1, page}) * per >= count
           /\ ~Counts => \/ ~extra
                         \/ Max({1, page}) * per >= Len(entries)
                         \/ rowsGot = <<>>
                         \/ Len(rowsGot) < per
<1>1. CASE Counts
  BY <1>1, OneWayToEnd DEF IsLast
<1>2. CASE ~Counts /\ "extra row" \in list
  BY <1>2, OneWayToEnd DEF IsLast
<1>3. CASE ~Counts /\ "paged" \in list
  BY <1>3, OneWayToEnd DEF IsLast
<1>4. CASE ~Counts /\ "extra row" \notin list /\ "paged" \notin list
  BY <1>4 DEF IsLast
<1>5. QED
  BY <1>1, <1>2, <1>3, <1>4

LEMMA CountEntriesInv ==
    ASSUME ListingsInv, NEW count \in 0..MaxEntries, CountEntries(count), uncounted' \in BOOLEAN,
           ~uncounted' => ~uncounted /\ Len(entries) <= count + Cardinality(twin)
    PROVE  ListingsInv'
<1>0. /\ Cardinality(twin) \in Nat /\ Len(entries) \in Nat /\ late \in Nat /\ count \in Nat
      /\ Offset(page) \in Nat /\ per \in Nat /\ Max({1, page}) * per = Offset(page) + per
  BY RowsThere, PagesMeet, ListingsAssumption DEF ListingsInv, ListingsTypeOK
<1>1. CASE /\ stage = "asks" /\ list \cap {"counted before", "counted beside"} # {}
           /\ stage' = "counted" /\ told' = count
           /\ UNCHANGED <<list, per, entries, twin, page, got, more, shown, atStart, disturbed, late>>
  <2>1. ListingsTypeOK'
    BY <1>1 DEF ListingsInv, ListingsTypeOK
  <2>2. Reached' = Reached
    BY <1>1 DEF Reached, Offset
  <2>3. SkippedFew'
    BY <1>1, <2>2 DEF SkippedFew, Skipped, Ahead, ListingsInv
  <2>4. Counts'
    BY <1>1 DEF Counts
  <2>5. ASSUME ~uncounted' PROVE Len(entries') <= told' + late' + Cardinality(twin')
    <3>1. Len(entries) <= count + Cardinality(twin)
      BY <2>5
    <3>2. Len(entries) <= count + late + Cardinality(twin)
      BY <1>0, <3>1
    <3>3. QED
      BY <1>1, <3>2
  <2>6. QED
    BY <1>1, <2>1, <2>3, <2>4, <2>5 DEF ListingsInv, ToldEnough, ListsMissLittle
<1>2. CASE stage = "read" /\ Turn(count, got, more)
  <2>1. Cardinality((atStart \cap Ahead(Offset(page) + per)) \ (shown \cup ToSet(got))) <= disturbed
    BY <1>2 DEF ListingsInv, SkippedFew, Skipped, Reached
  <2>2. ASSUME IsLast(count, got, more), ~uncounted'
        PROVE  Len(entries) <= Offset(page) + per + late + Cardinality(twin)
    <3>1. Max({1, page}) * per >= count
      BY <1>2, <2>2, LastPage DEF ListingsInv
    <3>2. Len(entries) <= count + Cardinality(twin)
      BY <2>2
    <3>3. Offset(page) + per >= count
      BY <1>0, <3>1
    <3> HIDE DEF Offset
    <3>4. QED
      BY <1>0, <3>2, <3>3
  <2>3. count \in Int /\ got \in Seq(1..MaxEntries) /\ more \in BOOLEAN
    BY <1>0 DEF ListingsInv, ListingsTypeOK
  <2>4. QED
    BY <1>2, <2>1, <2>2, <2>3, TurnInv
<1>3. QED
  BY <1>1, <1>2 DEF CountEntries

LEMMA ReadPageInv ==
    ASSUME ListingsInv, ReadPage
    PROVE  ListingsInv'
<1> DEFINE extra == Len(entries) > Offset(page) + per
<1>0. /\ Cardinality(twin) \in Nat /\ Len(entries) \in Nat /\ late \in Nat /\ told \in Int
      /\ Offset(page) \in Nat /\ per \in Nat /\ Max({1, page}) * per = Offset(page) + per
      /\ extra \in BOOLEAN /\ uncounted' \in BOOLEAN /\ uncounted' = uncounted
  <2>1. Cardinality(twin) \in Nat /\ Len(entries) \in Nat
    BY RowsThere DEF ListingsInv
  <2>2. Offset(page) \in Nat /\ per \in Nat /\ Max({1, page}) * per = Offset(page) + per
    BY PagesMeet DEF ListingsInv
  <2>3. late \in Nat /\ told \in Int /\ uncounted' \in BOOLEAN /\ uncounted' = uncounted
    <3>1. late \in Nat /\ told \in Int /\ uncounted \in BOOLEAN
      BY DEF ListingsInv, ListingsTypeOK
    <3>2. uncounted' = uncounted
      BY DEF ReadPage
    <3>3. QED
      BY <3>1, <3>2
  <2>4. QED
    BY <2>1, <2>2, <2>3
<1>1. /\ PageOf(page) \in Seq(1..MaxEntries)
      /\ PageOf(page) = <<>> => Len(entries) <= Offset(page)
      /\ Len(PageOf(page)) < per => Len(entries) <= Offset(page) + per
  BY RowsOfPage DEF ListingsInv
<1>2. CASE stage = "counted" /\ Turn(told, PageOf(page), extra)
  <2>1. ASSUME IsLast(told, PageOf(page), extra), ~uncounted'
        PROVE  Len(entries) <= Offset(page) + per + late + Cardinality(twin)
    <3>1. Counts /\ Len(entries) <= told + late + Cardinality(twin)
      BY <1>0, <1>2, <2>1 DEF ListingsInv, ToldEnough
    <3>2. Max({1, page}) * per >= told
      BY <2>1, <3>1, LastPage DEF ListingsInv
    <3>3. Offset(page) + per >= told
      BY <1>0, <3>2
    <3>4. QED
      BY <1>0, <3>1, <3>3
  <2>2. QED
    BY <1>0, <1>1, <1>2, <2>1, PageCovers, TurnInv
<1>3. CASE stage = "asks" /\ ~Counts /\ Turn(told, PageOf(page), extra)
  <2>1. ASSUME IsLast(told, PageOf(page), extra)
        PROVE  Len(entries) <= Offset(page) + per + late + Cardinality(twin)
    <3>1. \/ ~extra
          \/ Max({1, page}) * per >= Len(entries)
          \/ PageOf(page) = <<>>
          \/ Len(PageOf(page)) < per
      BY <1>3, <2>1, LastPage DEF ListingsInv
    <3>2. Len(entries) <= Offset(page) + per
      BY <1>0, <1>1, <3>1
    <3>3. QED
      BY <1>0, <3>2
  <2>2. QED
    BY <1>0, <1>1, <1>3, <2>1, PageCovers, TurnInv
<1>4. CASE /\ stage = "asks" /\ list \cap {"counted beside", "counted after"} # {}
           /\ stage' = "read" /\ got' = PageOf(page) /\ more' = extra
           /\ UNCHANGED <<list, per, entries, twin, page, told, shown, atStart, disturbed, late>>
  <2>1. ListingsTypeOK'
    BY <1>0, <1>1, <1>4 DEF ListingsInv, ListingsTypeOK
  <2>2. Reached' = Offset(page) + per
    BY <1>4 DEF Reached, Offset
  <2>3. Skipped' = (atStart \cap Ahead(Offset(page) + per)) \ (shown \cup ToSet(PageOf(page)))
    BY <1>4, <2>2 DEF Skipped, Ahead
  <2>4. SkippedFew'
    BY <1>4, <2>3, PageCovers DEF SkippedFew
  <2>5. Counts'
    BY <1>4 DEF Counts
  <2>6. QED
    BY <1>4, <2>1, <2>4, <2>5 DEF ListingsInv, ToldEnough, ListsMissLittle
<1>5. QED
  BY <1>2, <1>3, <1>4 DEF ReadPage

LEMMA NothingInScopeInv ==
    ASSUME ListingsInv, NothingInScope
    PROVE  ListingsInv'
<1>1. NotShown' = {}
  BY DEF NothingInScope, NotShown
<1>2. Cardinality({}) = 0
  BY FS_EmptySet
<1>3. disturbed \in Nat /\ late \in Nat /\ Cardinality(twin) \in Nat
  BY RowsThere DEF ListingsInv, ListingsTypeOK
<1>4. ListsMissLittle'
  BY <1>1, <1>2, <1>3 DEF ListsMissLittle, NothingInScope
<1>5. QED
  BY <1>4 DEF ListingsInv, ListingsTypeOK, SkippedFew, ToldEnough, NothingInScope

LEMMA ListingsStep ==
    ASSUME ListingsInv, [ListingsNext]_listingsVars
    PROVE  ListingsInv'
<1>1. ASSUME CountMatches PROVE ListingsInv'
  <2>1. Total \in 0..MaxEntries /\ Len(entries) <= Total + Cardinality(twin)
    BY RowsThere DEF ListingsInv
  <2>2. CountEntries(Total) /\ uncounted' = uncounted /\ uncounted \in BOOLEAN
    BY <1>1 DEF CountMatches, ListingsInv, ListingsTypeOK
  <2>3. QED
    BY <2>1, <2>2, CountEntriesInv
<1>2. ASSUME CountFails PROVE ListingsInv'
  <2>1. CountEntries(0) /\ uncounted' = TRUE
    BY <1>2 DEF CountFails
  <2>2. 0 \in 0..MaxEntries
    BY ListingsAssumption
  <2>3. QED
    BY <2>1, <2>2, CountEntriesInv
<1>3. CASE UNCHANGED listingsVars
  <2>1. Reached' = Reached /\ Counts' = Counts
    BY <1>3 DEF listingsVars, Reached, Offset, Counts
  <2>2. Skipped' = Skipped /\ NotShown' = NotShown
    BY <1>3, <2>1 DEF listingsVars, Skipped, Ahead, NotShown
  <2>3. QED
    BY <1>3, <2>1, <2>2 DEF listingsVars, ListingsInv, ListingsTypeOK, SkippedFew, ToldEnough, ListsMissLittle
<1>4. QED
  BY <1>1, <1>2, <1>3, RowComesInv, RowLeavesInv, RowMovesInv, ReadPageInv, NothingInScopeInv DEF ListingsNext

LEMMA PageSizes == ASSUME ListingsInit PROVE per \in 1..MaxPer
<1>1. PICK size \in 0..(MaxPer + 1) : per = PerPage(size)
  BY DEF ListingsInit
<1>2. MaxPer \in Nat /\ MaxPer >= 1 /\ size \in Int /\ DefaultPer \in 1..MaxPer
  BY ListingsAssumption
<1>3. clampPaging(size) \in 1..MaxPer
  <2> DEFINE a == Max({1, size})
  <2>1. a = IF 1 >= size THEN 1 ELSE size
    BY <1>2, LargerOf
  <2> HIDE DEF a
  <2>2. a \in Int /\ MaxPer \in Int
    BY <1>2, <2>1
  <2>3. Min({MaxPer, a}) = IF MaxPer <= a THEN MaxPer ELSE a
    BY <2>2, LargerOf
  <2>4. QED
    BY <1>2, <2>1, <2>3 DEF clampPaging, a
<1>4. QED
  BY <1>1, <1>2, <1>3 DEF PerPage, GoPer

LEMMA ListingsStart ==
    ASSUME ListingsInit
    PROVE  ListingsInv
<1>1. /\ FirstEntries \in Nat /\ MaxEntries \in Nat /\ FirstEntries <= MaxEntries /\ MaxChange \in Nat
  BY ListingsAssumption
<1>2. entries \in Seq(1..MaxEntries) /\ IsInjective(entries)
  BY <1>1 DEF ListingsInit, IsInjective
<1>3. ListingsTypeOK
  <2>1. atStart \subseteq 1..MaxEntries /\ page \in Nat
    BY <1>1 DEF ListingsInit
  <2>2. /\ told \in 0..MaxEntries /\ disturbed \in 0..MaxChange /\ late \in Nat
        /\ got \in Seq(1..MaxEntries) /\ twin = {} /\ shown = {}
    BY <1>1 DEF ListingsInit
  <2>3. list \in Lists /\ stage = "asks" /\ more = FALSE /\ uncounted = FALSE
    BY DEF ListingsInit
  <2>4. QED
    BY <1>2, <2>1, <2>2, <2>3, PageSizes DEF ListingsTypeOK
<1>4. Skipped = {}
  <2>1. Max({1, page}) = 1
    BY LargerOf DEF ListingsInit
  <2>2. per \in Nat
    BY PagesMeet, <1>3
  <2>3. Offset(page) = 0
    BY <2>1, <2>2 DEF Offset
  <2>4. Reached = 0
    BY <2>3 DEF Reached, ListingsInit
  <2>5. QED
    BY <2>4 DEF Skipped, Ahead, AheadIn
<1>5. Cardinality(Skipped) = 0
  BY <1>4, FS_EmptySet
<1>6. QED
  BY <1>1, <1>3, <1>5 DEF ListingsInv, SkippedFew, ToldEnough, ListsMissLittle, ListingsInit

-----------------------------------------------------------------------------
(* Collections.  A save nobody overlapped has found every row and puts its *)
(* list by first mentions; so the rows are those of one list.              *)

\* position puts the products of list where it first names them.
PutInOrder(place, want, n) ==
    \A p \in Product :
        IF place[p] = 0
        THEN \A i \in DOMAIN want : i <= n => want[i] # p
        ELSE /\ place[p] \in DOMAIN want /\ place[p] <= n /\ want[place[p]] = p
             /\ \A i \in DOMAIN want : want[i] = p => place[p] <= i

\* A save nobody overlapped has found every row there is, and put what it has tried.
SaveSound(r) ==
    LET s == saving[r]
    IN  /\ Rows(s.put) \subseteq products
        /\ collection # "there" => Rows(s.put) = {}
        /\ s.done <= Len(s.want)
        /\ ~s.gone => s.done = 0 /\ s.put = NoRows
        /\ ~s.late => Rows(position) \subseteq s.sees /\ PutInOrder(s.put, s.want, s.done)

\* The rows of the last list saved, but for what is no longer sold.
RowsOfOneList ==
    ~mixed /\ collection = "there" =>
        \A p \in products :
            IF position[p] = 0
            THEN \A i \in DOMAIN asked : asked[i] # p
            ELSE /\ position[p] \in DOMAIN asked /\ asked[position[p]] = p
                 /\ \A i \in DOMAIN asked : asked[i] = p => position[p] <= i

CollectionsInv ==
    /\ CollectionsTypeOK
    /\ collection = "none" => asked = <<>> /\ \A r \in Request : saving[r] = Idle
    /\ \A r \in Request : saving[r] # Idle => SaveSound(r)
    /\ RowsOfOneList

-----------------------------------------------------------------------------

SavingRow == [op: {"saving"}, want: List, sees: SUBSET Product, gone: BOOLEAN,
              put: [Product -> Nat], done: Nat, late: BOOLEAN]

LEMMA SavingRows ==
    ASSUME CollectionsTypeOK, NEW r \in Request, saving[r] # Idle
    PROVE  /\ saving[r] \in SavingRow
           /\ saving[r].want \in Seq(Product) /\ Len(saving[r].want) \in Nat
           /\ DOMAIN saving[r].want = 1..Len(saving[r].want)
<1>1. saving[r] \in SavingRow
  BY DEF CollectionsTypeOK, Saving, SavingRow
<1>2. saving[r].want \in Seq(Product)
  BY <1>1, CollectionsAssumption DEF SavingRow
<1>3. QED
  BY <1>1, <1>2

LEMMA CollectionsStart == ASSUME CollectionsInit PROVE CollectionsInv
<1>1. CollectionsTypeOK
  BY DEF CollectionsInit, CollectionsTypeOK, Saving, Rows, NoRows
<1>2. QED
  BY <1>1 DEF CollectionsInit, CollectionsInv, RowsOfOneList

LEMMA CreateCollectionInv == ASSUME CollectionsInv, CreateCollection PROVE CollectionsInv'
<1>1. CollectionsTypeOK'
  BY DEF CreateCollection, CollectionsInv, CollectionsTypeOK, Rows
<1>2. RowsOfOneList'
  <2>1. asked = <<>> /\ Rows(position) = {} /\ products \subseteq Product
    BY DEF CreateCollection, CollectionsInv, CollectionsTypeOK
  <2>2. \A p \in products : position[p] = 0
    BY <2>1 DEF Rows
  <2>3. QED
    BY <2>1, <2>2 DEF CreateCollection, RowsOfOneList
<1>3. QED
  BY <1>1, <1>2 DEF CreateCollection, CollectionsInv

LEMMA PublishCollectionInv ==
    ASSUME CollectionsInv, NEW publish \in BOOLEAN, PublishCollection(publish)
    PROVE  CollectionsInv'
  BY DEF PublishCollection, CollectionsInv, CollectionsTypeOK, SaveSound, Rows, NoRows, RowsOfOneList, PutInOrder

LEMMA DeleteStartsInv ==
    ASSUME CollectionsInv, NEW r \in Request, NEW want \in List, DeleteStarts(r, want)
    PROVE  CollectionsInv'
<1> DEFINE row == [op |-> "saving", want |-> want, sees |-> SeesRows, gone |-> FALSE,
                   put |-> NoRows, done |-> 0, late |-> FALSE]
<1>1. /\ UNCHANGED <<products, collection, published, position, asked, mixed>>
      /\ collection = "there" /\ saving' = [saving EXCEPT ![r] = row]
  BY DEF DeleteStarts
<1>2. row \in SavingRow /\ row # Idle
  BY DEF SavingRow, SeesRows, Rows, NoRows, Idle
<1>3. CollectionsTypeOK'
  BY <1>1, <1>2 DEF CollectionsInv, CollectionsTypeOK, Saving, SavingRow, Rows
<1>4. saving'[r] = row /\ \A q \in Request \ {r} : saving'[q] = saving[q]
  BY <1>1 DEF CollectionsInv, CollectionsTypeOK
<1>5. SaveSound(r)'
  <2>1. want \in Seq(Product) /\ Len(want) \in Nat /\ DOMAIN want = 1..Len(want)
    BY CollectionsAssumption
  <2>2. PutInOrder(NoRows, want, 0)
    BY <2>1 DEF PutInOrder, NoRows
  <2>3. Rows(NoRows) = {}
    BY DEF Rows, NoRows
  <2>4. /\ row.want = want /\ row.sees = Rows(position) /\ row.gone = FALSE /\ row.put = NoRows
        /\ row.done = 0 /\ row.late = FALSE
    BY DEF SeesRows
  <2> HIDE DEF row
  <2>5. QED
    BY <1>1, <1>4, <2>1, <2>2, <2>3, <2>4 DEF SaveSound, Rows, PutInOrder, NoRows
<1>6. ASSUME NEW q \in Request, saving'[q] # Idle PROVE SaveSound(q)'
  <2>1. CASE q = r
    BY <1>5, <2>1
  <2>2. CASE q # r
    BY <1>1, <1>4, <1>6, <2>2 DEF CollectionsInv, SaveSound, Rows, PutInOrder, NoRows
  <2>3. QED
    BY <2>1, <2>2
<1>7. QED
  BY <1>1, <1>3, <1>6 DEF CollectionsInv, RowsOfOneList

LEMMA DeleteEndsInv ==
    ASSUME CollectionsInv, NEW r \in Request, DeleteEnds(r)
    PROVE  CollectionsInv'
<1> DEFINE row == [saving[r] EXCEPT !.gone = TRUE, !.sees = @ \cap Rows(position)]
<1>1. /\ UNCHANGED <<products, collection, published, position, asked, mixed>>
      /\ saving[r] # Idle /\ saving' = [saving EXCEPT ![r] = row]
  BY DEF DeleteEnds, CollectionsInv, CollectionsTypeOK
<1>2. saving[r] \in SavingRow
  BY <1>1, SavingRows DEF CollectionsInv
<1>3. row \in SavingRow /\ row # Idle
  BY <1>2 DEF SavingRow, Rows, Idle
<1>4. CollectionsTypeOK'
  BY <1>1, <1>3 DEF CollectionsInv, CollectionsTypeOK, Saving, SavingRow, Rows
<1>5. saving'[r] = row /\ \A q \in Request \ {r} : saving'[q] = saving[q]
  BY <1>1 DEF CollectionsInv, CollectionsTypeOK
<1>6. SaveSound(r)'
  <2>1. /\ row.want = saving[r].want /\ row.sees = saving[r].sees \cap Rows(position) /\ row.gone = TRUE
        /\ row.put = saving[r].put /\ row.done = saving[r].done /\ row.late = saving[r].late
    BY <1>2 DEF SavingRow
  <2>2. SaveSound(r)
    BY <1>1 DEF CollectionsInv
  <2> HIDE DEF row
  <2>3. QED
    BY <1>1, <1>5, <2>1, <2>2 DEF SaveSound, Rows, PutInOrder, NoRows
<1>7. ASSUME NEW q \in Request, saving'[q] # Idle PROVE SaveSound(q)'
  <2>1. CASE q = r
    BY <1>6, <2>1
  <2>2. CASE q # r
    BY <1>1, <1>5, <1>7, <2>2 DEF CollectionsInv, SaveSound, Rows, PutInOrder, NoRows
  <2>3. QED
    BY <2>1, <2>2
<1>8. QED
  BY <1>1, <1>4, <1>7 DEF CollectionsInv, RowsOfOneList

LEMMA InsertNextInv ==
    ASSUME CollectionsInv, NEW r \in Request, InsertNext(r)
    PROVE  CollectionsInv'
<1> DEFINE i == saving[r].done + 1
           p == saving[r].want[i]
           at == IF There(r, p) THEN saving[r].put[p] ELSE i
           row == [saving[r] EXCEPT !.done = i, !.put[p] = at]
<1>1. /\ UNCHANGED <<products, collection, published, position, asked, mixed>>
      /\ saving[r] # Idle /\ saving[r].gone /\ saving[r].done < Len(saving[r].want)
      /\ p \in products /\ collection = "there"
  BY DEF InsertNext
<1>2. /\ saving[r] \in SavingRow /\ Len(saving[r].want) \in Nat
      /\ DOMAIN saving[r].want = 1..Len(saving[r].want)
  BY <1>1, SavingRows DEF CollectionsInv
<1>3. i \in Nat /\ i \in DOMAIN saving[r].want /\ i # 0 /\ p \in Product /\ i <= Len(saving[r].want)
  BY <1>1, <1>2 DEF CollectionsInv, CollectionsTypeOK, SavingRow
<1>4. saving' = [saving EXCEPT ![r] = row]
  BY <1>2, <1>3 DEF InsertNext, CollectionsInv, CollectionsTypeOK, SavingRow
<1>5. at \in Nat
  BY <1>2, <1>3 DEF SavingRow
<1>6. /\ row \in SavingRow /\ row # Idle
      /\ row.want = saving[r].want /\ row.sees = saving[r].sees /\ row.gone = TRUE
      /\ row.done = i /\ row.late = saving[r].late
      /\ row.put = [saving[r].put EXCEPT ![p] = at]
  BY <1>1, <1>2, <1>3, <1>5 DEF SavingRow, Idle
<1> HIDE DEF row
<1>7. CollectionsTypeOK'
  BY <1>1, <1>4, <1>6 DEF CollectionsInv, CollectionsTypeOK, Saving, SavingRow, Rows
<1>8. saving'[r] = row /\ \A q \in Request \ {r} : saving'[q] = saving[q]
  BY <1>4 DEF CollectionsInv, CollectionsTypeOK
<1>9. SaveSound(r)
  BY <1>1 DEF CollectionsInv
<1>10. ~saving[r].late => PutInOrder(row.put, saving[r].want, i)
  <2> SUFFICES ASSUME ~saving[r].late PROVE PutInOrder(row.put, saving[r].want, i)
    OBVIOUS
  <2>1. Rows(position) \subseteq saving[r].sees /\ PutInOrder(saving[r].put, saving[r].want, saving[r].done)
    BY <1>9 DEF SaveSound
  <2>2. at = IF saving[r].put[p] # 0 THEN saving[r].put[p] ELSE i
    BY <1>3, <2>1 DEF There, Rows
  <2>3. saving[r].put \in [Product -> Nat] /\ saving[r].done \in Nat
    BY <1>2 DEF SavingRow
  <2>4. ASSUME NEW q \in Product
        PROVE  IF row.put[q] = 0
               THEN \A k \in DOMAIN saving[r].want : k <= i => saving[r].want[k] # q
               ELSE /\ row.put[q] \in DOMAIN saving[r].want /\ row.put[q] <= i /\ saving[r].want[row.put[q]] = q
                    /\ \A k \in DOMAIN saving[r].want : saving[r].want[k] = q => row.put[q] <= k
    <3>0. \A k \in DOMAIN saving[r].want : k \in Nat /\ (k <= i => k <= saving[r].done \/ k = i)
      BY <1>2, <2>3
    <3>1. CASE q # p
      <4>1. row.put[q] = saving[r].put[q]
        BY <1>6, <2>3, <3>1
      <4>2. CASE saving[r].put[q] = 0
        BY <2>1, <3>0, <3>1, <4>1, <4>2 DEF PutInOrder
      <4>3. CASE saving[r].put[q] # 0
        BY <1>3, <2>1, <2>3, <4>1, <4>3 DEF PutInOrder
      <4>4. QED
        BY <4>2, <4>3
    <3>2. CASE q = p /\ saving[r].put[p] # 0
      <4>1. row.put[q] = saving[r].put[p]
        BY <1>6, <2>2, <2>3, <3>2
      <4>2. QED
        BY <1>3, <2>1, <2>3, <3>2, <4>1 DEF PutInOrder
    <3>3. CASE q = p /\ saving[r].put[p] = 0
      <4>1. row.put[q] = i
        BY <1>6, <2>2, <2>3, <3>3
      <4>2. \A k \in DOMAIN saving[r].want : k <= saving[r].done => saving[r].want[k] # p
        BY <1>3, <2>1, <3>3 DEF PutInOrder
      <4>3. \A k \in DOMAIN saving[r].want : saving[r].want[k] = p => i <= k
        BY <1>2, <2>3, <4>2
      <4>4. QED
        BY <1>3, <3>3, <4>1, <4>3
    <3>4. QED
      BY <3>1, <3>2, <3>3
  <2>5. QED
    BY <2>4 DEF PutInOrder
<1>11. SaveSound(r)'
  <2>1. Rows(row.put) \subseteq products
    BY <1>1, <1>2, <1>3, <1>6, <1>9 DEF SaveSound, Rows, SavingRow
  <2>2. /\ Rows(position)' = Rows(position)
        /\ products' = products /\ collection' = "there" /\ saving'[r] = row
    BY <1>1, <1>8 DEF Rows
  <2>3. ~row.late => Rows(position) \subseteq row.sees /\ PutInOrder(row.put, row.want, row.done)
    BY <1>6, <1>9, <1>10 DEF SaveSound
  <2>4. row.done <= Len(row.want) /\ row.gone
    BY <1>3, <1>6
  <2>5. QED
    BY <1>1, <2>1, <2>2, <2>3, <2>4 DEF SaveSound, Rows, PutInOrder
<1>12. ASSUME NEW q \in Request, saving'[q] # Idle PROVE SaveSound(q)'
  <2>1. CASE q = r
    BY <1>11, <2>1
  <2>2. CASE q # r
    BY <1>1, <1>8, <1>12, <2>2 DEF CollectionsInv, SaveSound, Rows, PutInOrder, NoRows
  <2>3. QED
    BY <2>1, <2>2
<1>13. QED
  BY <1>1, <1>7, <1>12 DEF CollectionsInv, RowsOfOneList

LEMMA CommitInv ==
    ASSUME CollectionsInv, NEW r \in Request, Commit(r)
    PROVE  CollectionsInv'
<1> DEFINE s == saving[r]
<1>1. /\ UNCHANGED <<products, collection, published>>
      /\ s # Idle /\ s.gone /\ s.done = Len(s.want)
      /\ position' = [p \in Product |-> IF s.put[p] # 0 THEN s.put[p] ELSE IF p \in s.sees THEN 0 ELSE position[p]]
      /\ asked' = s.want /\ mixed' = s.late
      /\ saving' = [q \in Request |-> IF q = r \/ saving[q] = Idle THEN Idle
                                  ELSE [saving[q] EXCEPT !.late = TRUE, !.sees = @ \ s.sees]]
  BY DEF Commit
<1>2. /\ s \in SavingRow /\ Len(s.want) \in Nat /\ DOMAIN s.want = 1..Len(s.want)
  BY <1>1, SavingRows DEF CollectionsInv
<1>3. SaveSound(r)
  BY <1>1 DEF CollectionsInv
<1>4. position' \in [Product -> Nat]
  BY <1>1, <1>2 DEF CollectionsInv, CollectionsTypeOK, SavingRow
<1>5. \A p \in Product : position'[p] = IF s.put[p] # 0 THEN s.put[p] ELSE IF p \in s.sees THEN 0 ELSE position[p]
  BY <1>1
<1>6. Rows(position') \subseteq Rows(s.put) \cup Rows(position)
  BY <1>5 DEF Rows
<1>7. Rows(position') \subseteq products /\ (collection # "there" => Rows(position') = {})
  BY <1>3, <1>6 DEF CollectionsInv, CollectionsTypeOK, SaveSound
<1>8. saving' \in [Request -> Saving]
  <2> SUFFICES ASSUME NEW q \in Request PROVE saving'[q] \in Saving
    BY <1>1
  <2>1. CASE q = r \/ saving[q] = Idle
    BY <1>1, <2>1 DEF Saving
  <2>2. CASE ~(q = r \/ saving[q] = Idle)
    <3>1. saving[q] \in SavingRow
      BY <2>2, SavingRows DEF CollectionsInv
    <3>2. saving'[q] = [saving[q] EXCEPT !.late = TRUE, !.sees = @ \ s.sees]
      BY <1>1, <2>2
    <3>3. saving'[q] \in SavingRow
      BY <3>1, <3>2 DEF SavingRow
    <3>4. QED
      BY <3>3 DEF Saving, SavingRow
  <2>3. QED
    BY <2>1, <2>2
<1>9. CollectionsTypeOK'
  <2>1. asked' \in List /\ mixed' \in BOOLEAN
    BY <1>1, <1>2 DEF SavingRow
  <2>2. QED
    BY <1>1, <1>4, <1>7, <1>8, <2>1 DEF CollectionsInv, CollectionsTypeOK
<1>10. ASSUME NEW q \in Request, saving'[q] # Idle PROVE SaveSound(q)'
  <2>1. q # r /\ saving[q] # Idle /\ saving'[q] = [saving[q] EXCEPT !.late = TRUE, !.sees = @ \ s.sees]
    BY <1>1, <1>10
  <2>2. saving[q] \in SavingRow /\ SaveSound(q)
    BY <2>1, SavingRows DEF CollectionsInv
  <2>3. /\ saving'[q].put = saving[q].put /\ saving'[q].want = saving[q].want /\ saving'[q].done = saving[q].done
        /\ saving'[q].gone = saving[q].gone /\ saving'[q].late = TRUE
    BY <2>1, <2>2 DEF SavingRow
  <2>4. QED
    BY <1>1, <2>2, <2>3 DEF SaveSound, Rows, NoRows
<1>11. RowsOfOneList'
  <2> SUFFICES ASSUME ~s.late, NEW p \in products
               PROVE  IF position'[p] = 0
                      THEN \A i \in DOMAIN s.want : s.want[i] # p
                      ELSE /\ position'[p] \in DOMAIN s.want /\ s.want[position'[p]] = p
                           /\ \A i \in DOMAIN s.want : s.want[i] = p => position'[p] <= i
    BY <1>1 DEF RowsOfOneList
  <2>1. p \in Product
    BY DEF CollectionsInv, CollectionsTypeOK
  <2>2. Rows(position) \subseteq s.sees /\ PutInOrder(s.put, s.want, Len(s.want))
    BY <1>1, <1>3 DEF SaveSound
  <2>3. position'[p] = s.put[p]
    BY <1>2, <1>5, <2>1, <2>2 DEF Rows, SavingRow
  <2> HIDE DEF s
  <2>4. \A i \in DOMAIN s.want : i <= Len(s.want)
    BY <1>2
  <2>5. QED
    BY <1>2, <2>1, <2>2, <2>3, <2>4 DEF PutInOrder
<1>12. collection # "none"
  BY <1>1 DEF CollectionsInv
<1>13. QED
  BY <1>1, <1>9, <1>10, <1>11, <1>12 DEF CollectionsInv

LEMMA SaveFailsInv ==
    ASSUME CollectionsInv, NEW r \in Request, SaveFails(r)
    PROVE  CollectionsInv'
<1>1. /\ UNCHANGED <<products, collection, published, position, asked, mixed>>
      /\ saving' = [saving EXCEPT ![r] = Idle]
      /\ saving'[r] = Idle /\ \A q \in Request \ {r} : saving'[q] = saving[q]
  BY DEF SaveFails, CollectionsInv, CollectionsTypeOK
<1>2. CollectionsTypeOK'
  BY <1>1 DEF CollectionsInv, CollectionsTypeOK, Saving, Rows
<1>3. ASSUME NEW q \in Request, saving'[q] # Idle PROVE SaveSound(q)'
  <2>1. q # r /\ saving'[q] = saving[q] /\ saving[q] # Idle
    BY <1>1, <1>3
  <2>2. QED
    BY <1>1, <2>1 DEF CollectionsInv, SaveSound, Rows, PutInOrder, NoRows
<1>4. QED
  BY <1>1, <1>2, <1>3 DEF CollectionsInv, RowsOfOneList

\* A product somebody is adding waits for them.
LEMMA DeleteProductInv ==
    ASSUME CollectionsInv, NEW p \in Product, DeleteProduct(p)
    PROVE  CollectionsInv'
<1>1. /\ UNCHANGED <<collection, published, saving, asked, mixed>>
      /\ products' = products \ {p} /\ \A r \in Request : p \notin Locked(r)
      /\ position' = [position EXCEPT ![p] = 0]
  BY DEF DeleteProduct
<1>2. /\ position' \in [Product -> Nat] /\ position'[p] = 0
      /\ \A q \in Product \ {p} : position'[q] = position[q]
      /\ Rows(position') = Rows(position) \ {p}
  BY <1>1 DEF CollectionsInv, CollectionsTypeOK, Rows
<1>3. CollectionsTypeOK'
  BY <1>1, <1>2 DEF CollectionsInv, CollectionsTypeOK
<1>4. ASSUME NEW r \in Request, saving'[r] # Idle PROVE SaveSound(r)'
  <2>1. saving[r] # Idle /\ saving'[r] = saving[r]
    BY <1>1, <1>4
  <2>2. SaveSound(r) /\ p \notin Rows(saving[r].put)
    BY <1>1, <2>1 DEF CollectionsInv, Locked
  <2>3. Rows(position)' \subseteq Rows(position)
    BY <1>2 DEF Rows
  <2>4. QED
    BY <1>1, <2>1, <2>2, <2>3 DEF SaveSound, Rows, PutInOrder, NoRows
<1>5. RowsOfOneList'
  BY <1>1, <1>2 DEF CollectionsInv, CollectionsTypeOK, RowsOfOneList
<1>6. QED
  BY <1>1, <1>3, <1>4, <1>5 DEF CollectionsInv

LEMMA DeleteCollectionInv ==
    ASSUME CollectionsInv, DeleteCollection
    PROVE  CollectionsInv'
<1>1. /\ UNCHANGED <<products, saving, mixed>>
      /\ collection' = "deleted" /\ published' = FALSE
      /\ position' = NoRows /\ asked' = <<>> /\ \A r \in Request : Locked(r) = {}
  BY DEF DeleteCollection
<1>2. Rows(NoRows) = {} /\ NoRows \in [Product -> Nat]
  BY DEF Rows, NoRows
<1>3. CollectionsTypeOK'
  BY <1>1, <1>2 DEF CollectionsInv, CollectionsTypeOK
<1>4. ASSUME NEW r \in Request, saving'[r] # Idle PROVE SaveSound(r)'
  <2>1. saving[r] # Idle /\ saving'[r] = saving[r]
    BY <1>1, <1>4
  <2>2. SaveSound(r) /\ Rows(saving[r].put) = {}
    BY <1>1, <2>1 DEF CollectionsInv, Locked
  <2>3. QED
    BY <1>1, <1>2, <2>1, <2>2 DEF SaveSound, Rows, PutInOrder, NoRows
<1>5. QED
  BY <1>1, <1>3, <1>4 DEF CollectionsInv, RowsOfOneList

LEMMA CollectionsStep ==
    ASSUME CollectionsInv, [CollectionsNext]_collectionsVars
    PROVE  CollectionsInv'
<1>1. CASE UNCHANGED collectionsVars
  BY <1>1 DEF collectionsVars, CollectionsInv, CollectionsTypeOK, SaveSound, RowsOfOneList, Rows, PutInOrder, NoRows
<1>2. QED
  BY <1>1, CreateCollectionInv, PublishCollectionInv, DeleteStartsInv, DeleteEndsInv, InsertNextInv, CommitInv,
     SaveFailsInv, DeleteProductInv, DeleteCollectionInv DEF CollectionsNext

-----------------------------------------------------------------------------

\* As many places as members: every order of a finite set names them all.
LEMMA OrdersAreWhole ==
    ASSUME NEW S, IsFiniteSet(S), NEW ids \in SetToSeqs(S)
    PROVE  /\ ToSet(ids) = S /\ DOMAIN ids = 1..Cardinality(S)
           /\ \A i, j \in DOMAIN ids : i # j => ids[i] # ids[j]
<1> DEFINE n == Cardinality(S)
<1>1. n \in Nat
  BY FS_CardinalityType
<1>2. ids \in [1..n -> S] /\ \A i, j \in 1..n : i # j => ids[i] # ids[j]
  BY DEF SetToSeqs
<1>3. ids \in Injection(1..n, S)
  BY <1>2 DEF Injection, IsInjective
<1>4. Cardinality(1..n) = n
  BY <1>1, FS_Interval
<1>5. ids \in Surjection(1..n, S)
  BY <1>3, <1>4, FS_Injection
<1>6. ToSet(ids) = S
  BY <1>2, <1>5 DEF Surjection, ToSet
<1>7. QED
  BY <1>2, <1>6

LEMMA ListOfOneRequest == ASSUME CollectionsInv PROVE OneListAtATime
<1> SUFFICES ASSUME collection = "there", ~mixed, NEW lost \in SUBSET Rows(position),
                    NEW ids \in CollectionProductIDs(Rows(position) \ lost)
             PROVE  Follows(ids, asked, lost)
  <2> SUFFICES ASSUME ~mixed, NEW reply \in ListCollections
               PROVE  Follows(reply.productIDs, asked, reply.lost)
    BY DEF OneListAtATime
  <2>1. PICK lost \in SUBSET Rows(position) :
           reply \in {[published |-> published, productIDs |-> ids, lost |-> lost] :
                          ids \in CollectionProductIDs(Rows(position) \ lost)}
    BY DEF ListCollections
  <2>2. PICK ids \in CollectionProductIDs(Rows(position) \ lost) : reply.productIDs = ids /\ reply.lost = lost
    BY <2>1
  <2>3. collection = "there"
    BY DEF ListCollections
  <2>4. QED
    BY <2>2, <2>3
<1>1. asked \in Seq(Product) /\ Len(asked) \in Nat /\ DOMAIN asked = 1..Len(asked)
  <2>1. asked \in List \cup {<<>>}
    BY DEF CollectionsInv, CollectionsTypeOK
  <2>2. asked \in Seq(Product)
    <3>1. CASE asked = <<>>
      BY <3>1
    <3>2. CASE asked \in List
      BY <3>2, CollectionsAssumption, Zenon
    <3>3. QED
      BY <2>1, <3>1, <3>2
  <2>3. QED
    BY <2>2
<1>2. position \in [Product -> Nat] /\ Rows(position) \subseteq products /\ products \subseteq Product
  BY DEF CollectionsInv, CollectionsTypeOK
<1>3. \A p \in products :
         IF position[p] = 0
         THEN \A i \in DOMAIN asked : asked[i] # p
         ELSE /\ position[p] \in DOMAIN asked /\ asked[position[p]] = p
              /\ \A i \in DOMAIN asked : asked[i] = p => position[p] <= i
  BY DEF CollectionsInv, RowsOfOneList
<1>4. Rows(position) = ToSet(asked) \cap products
  BY <1>2, <1>3 DEF Rows, ToSet
<1>5. IsFiniteSet(Rows(position) \ lost)
  <2>1. asked \in Surjection(1..Len(asked), ToSet(asked))
    BY <1>1 DEF Surjection, ToSet
  <2>2. IsFiniteSet(1..Len(asked))
    BY <1>1, FS_Interval
  <2>3. IsFiniteSet(ToSet(asked))
    BY <2>1, <2>2, FS_Surjection
  <2>4. QED
    BY <1>4, <2>3, FS_Subset
<1>6. /\ ToSet(ids) = Rows(position) \ lost
      /\ \A i, j \in DOMAIN ids : i # j => ids[i] # ids[j]
      /\ DOMAIN ids = 1..Cardinality(Rows(position) \ lost)
  BY <1>5, OrdersAreWhole DEF CollectionProductIDs
<1>7. ASSUME NEW i \in DOMAIN ids, NEW j \in DOMAIN ids, i < j
      PROVE  Precedes(asked, ids[i], ids[j])
  <2>1. ids[i] \in Rows(position) /\ ids[j] \in Rows(position)
    BY <1>6 DEF ToSet
  <2>2. ids[i] # ids[j] /\ position[ids[i]] <= position[ids[j]]
    <3>1. i # j
      BY <1>6, <1>7
    <3>2. QED
      BY <1>6, <1>7, <3>1 DEF CollectionProductIDs
  <2> DEFINE k == position[ids[i]]
             l == position[ids[j]]
  <2>3. /\ k \in DOMAIN asked /\ asked[k] = ids[i]
        /\ l \in DOMAIN asked /\ asked[l] = ids[j]
        /\ \A m \in DOMAIN asked : asked[m] = ids[j] => l <= m
    BY <1>2, <1>3, <2>1 DEF Rows
  <2>4. k < l
    BY <1>1, <2>2, <2>3
  <2> HIDE DEF k, l
  <2>5. \A m \in DOMAIN asked : asked[m] = ids[j] => k < m
    BY <1>1, <2>3, <2>4
  <2>6. QED
    BY <2>3, <2>5 DEF Precedes
<1>8. QED
  BY <1>4, <1>6, <1>7 DEF Follows

-----------------------------------------------------------------------------
(* A search, page by page.  Two answers to one query differ by ties alone, *)
(* and what can stand where the shopper has been was shown or slipped.     *)

\* Whatever may stand where the shopper has been was shown, or slipped.
AheadAccounted == walk.op # "over" => MaybeAhead \subseteq walk.seen \cup slipped

SearchInv ==
    /\ SearchTypeOK
    /\ walk.op = "none" => walk = NoWalk
    /\ AheadAccounted
    /\ PagesMissNothing

-----------------------------------------------------------------------------

LEMMA ActiveFinite ==
    ASSUME SearchTypeOK
    PROVE  /\ IsFiniteSet(Active) /\ Active \subseteq Shop
           /\ \A vendor : IsFiniteSet(Hits(vendor)) /\ Hits(vendor) \subseteq Active
<1>1. opened \in Seq(Shop) /\ IsInjective(opened)
  BY DEF SearchTypeOK
<1>2. Active = ToSet(opened)
  BY DEF Active, Range, ToSet
<1>3. IsFiniteSet(Active) /\ Active \subseteq Shop
  BY <1>1, <1>2, RowsAtPlaces, RowsOfSequence
<1>4. ASSUME NEW vendor PROVE IsFiniteSet(Hits(vendor)) /\ Hits(vendor) \subseteq Active
  <2>1. Hits(vendor) \subseteq Active
    BY DEF Hits
  <2>2. QED
    BY <1>3, <2>1, FS_Subset
<1>5. QED
  BY <1>3, <1>4

\* An answer is an order of all that the query hits.
LEMMA AnswersWhole ==
    ASSUME SearchTypeOK, NEW vendor, NEW hits \in Answers(vendor)
    PROVE  /\ hits \in Seq(Hits(vendor)) /\ Len(hits) \in Nat
           /\ DOMAIN hits = 1..Len(hits) /\ Len(hits) = Cardinality(Hits(vendor))
           /\ Range(hits) = Hits(vendor)
           /\ \A i, j \in DOMAIN hits : i # j => hits[i] # hits[j]
<1>1. IsFiniteSet(Hits(vendor)) /\ Cardinality(Hits(vendor)) \in Nat
  BY ActiveFinite, FS_CardinalityType
<1>2. hits \in SetToSeqs(Hits(vendor))
  BY DEF Answers
<1>3. /\ ToSet(hits) = Hits(vendor) /\ DOMAIN hits = 1..Cardinality(Hits(vendor))
      /\ \A i, j \in DOMAIN hits : i # j => hits[i] # hits[j]
  BY <1>1, <1>2, OrdersAreWhole
<1>4. hits \in [1..Cardinality(Hits(vendor)) -> Hits(vendor)]
  BY <1>2 DEF SetToSeqs
<1>5. hits \in Seq(Hits(vendor)) /\ Len(hits) = Cardinality(Hits(vendor))
  BY <1>1, <1>4
<1>6. QED
  BY <1>1, <1>3, <1>5 DEF Range, ToSet

\* The first k of a sequence.
FirstOf(hits, k) == {hits[i] : i \in (1..k) \cap DOMAIN hits}

LEMMA FirstSlice ==
    ASSUME NEW S, NEW s \in Seq(S), NEW n \in Nat
    PROVE  Range(SubSeq(s, 1, Least(Len(s), n))) = FirstOf(s, n)
<1> DEFINE hi == Least(Len(s), n)
           t == SubSeq(s, 1, hi)
<1>1. Len(s) \in Nat /\ DOMAIN s = 1..Len(s)
  OBVIOUS
<1>2. hi \in Nat /\ hi <= Len(s) /\ hi <= n /\ (hi >= Len(s) \/ hi >= n)
  BY <1>1 DEF Least
<1> HIDE DEF hi
<1>3. Len(t) = hi /\ DOMAIN t = 1..hi /\ \A i \in 1..hi : t[i] = s[i]
  BY <1>1, <1>2
<1>4. (1..n) \cap DOMAIN s = 1..hi
  <2>1. \A i : i \in 1..n /\ i \in 1..Len(s) <=> i \in 1..hi
    BY <1>1, <1>2
  <2>2. QED
    BY <1>1, <2>1
<1> HIDE DEF t
<1>5. Range(t) = FirstOf(s, n)
  BY <1>3, <1>4 DEF Range, FirstOf
<1>6. QED
  BY <1>5 DEF t, hi

\* The first n of a sequence, as a sequence.
LEMMA Shortened ==
    ASSUME NEW S, NEW s \in Seq(S), NEW n \in Nat
    PROVE  LET t == SubSeq(s, 1, Least(Len(s), n))
           IN  /\ t \in Seq(S) /\ Len(t) \in Nat /\ Len(t) <= Len(s) /\ Len(t) <= n
               /\ Len(t) >= Len(s) \/ Len(t) >= n
               /\ \A i \in 1..Len(t) : t[i] = s[i]
<1> DEFINE hi == Least(Len(s), n)
<1>1. Len(s) \in Nat
  OBVIOUS
<1>2. hi \in Nat /\ hi <= Len(s) /\ hi <= n /\ (hi >= Len(s) \/ hi >= n)
  BY <1>1 DEF Least
<1> HIDE DEF hi
<1>3. /\ SubSeq(s, 1, hi) \in Seq(S) /\ Len(SubSeq(s, 1, hi)) = hi
      /\ \A i \in 1..hi : SubSeq(s, 1, hi)[i] = s[i]
  BY <1>1, <1>2
<1>4. QED
  BY <1>1, <1>2, <1>3 DEF hi

\* A page of z rows from place o on, and the row past it.
LEMMA PageSlices ==
    ASSUME NEW S, NEW s \in Seq(S), NEW o \in Nat, NEW z \in Nat, z >= 1
    PROVE  LET found == SubSeq(s, o + 1, Least(Len(s), o + (z + 1)))
               answer == SubSeq(found, 1, Least(Len(found), z))
           IN  /\ Len(answer) \in Nat /\ Range(answer) \subseteq S
               /\ FirstOf(s, o + Len(answer)) \subseteq FirstOf(s, o) \cup Range(answer)
               /\ Len(found) \in Nat
               /\ Len(found) <= z => Range(s) \subseteq FirstOf(s, o) \cup Range(answer)
               /\ Len(found) > z => Len(s) >= 2
<1> DEFINE hi == Least(Len(s), o + (z + 1))
           found == SubSeq(s, o + 1, hi)
           p == SubSeq(found, 1, Least(Len(found), z))
           m == Len(p)
<1>1. Len(s) \in Nat /\ DOMAIN s = 1..Len(s) /\ \A i \in DOMAIN s : s[i] \in S
  BY RowsOfSequence
<1>2. hi \in Nat /\ hi <= Len(s) /\ hi <= o + (z + 1) /\ (hi >= Len(s) \/ hi >= o + (z + 1))
  BY <1>1 DEF Least
<1> HIDE DEF hi
<1>3. /\ found \in Seq(S)
      /\ Len(found) = IF o + 1 <= hi THEN hi - o ELSE 0
      /\ \A i \in 1..(hi - o) : found[i] = s[i + o]
  BY <1>1, <1>2, Slice
<1> HIDE DEF found
<1>4. Len(found) \in Nat
  BY <1>3
<1>5. /\ p \in Seq(S) /\ m \in Nat /\ m <= Len(found) /\ m <= z /\ (m >= Len(found) \/ m >= z)
      /\ \A i \in 1..m : p[i] = found[i]
  BY <1>3, Shortened
<1>6. DOMAIN p = 1..m /\ Range(p) \subseteq S
  <2> HIDE DEF p
  <2>1. DOMAIN p = 1..m /\ \A i \in DOMAIN p : p[i] \in S
    BY <1>5, RowsOfSequence
  <2>2. QED
    BY <2>1 DEF Range
<1> HIDE DEF p, m
<1>7. ASSUME NEW i \in 1..m
      PROVE  p[i] = s[i + o]
  <2>1. i \in 1..(hi - o)
    BY <1>2, <1>3, <1>5
  <2>2. QED
    BY <1>3, <1>5, <2>1
<1>8. ASSUME NEW i \in DOMAIN s, i <= o + m PROVE s[i] \in FirstOf(s, o) \cup Range(p)
  <2>1. CASE i <= o
    BY <1>1, <2>1 DEF FirstOf
  <2>2. CASE i > o
    <3>1. i - o \in 1..m /\ (i - o) + o = i
      BY <1>1, <1>5, <1>8, <2>2
    <3>2. p[i - o] = s[i]
      BY <1>7, <3>1
    <3>3. QED
      BY <1>6, <3>1, <3>2 DEF Range
  <2>3. i <= o \/ i > o
    BY <1>1
  <2>4. QED
    BY <2>1, <2>2, <2>3
<1>9. FirstOf(s, o + m) \subseteq FirstOf(s, o) \cup Range(p)
  <2> SUFFICES ASSUME NEW i \in (1..(o + m)) \cap DOMAIN s PROVE s[i] \in FirstOf(s, o) \cup Range(p)
    BY DEF FirstOf
  <2>1. QED
    BY <1>8
<1>10. ASSUME Len(found) <= z PROVE Range(s) \subseteq FirstOf(s, o) \cup Range(p)
  <2>1. m >= Len(found) /\ hi >= Len(s)
    BY <1>2, <1>3, <1>4, <1>5, <1>10
  <2>2. \A i \in DOMAIN s : i <= o + m
    BY <1>1, <1>2, <1>3, <1>5, <2>1
  <2>3. QED
    BY <1>8, <2>2 DEF Range
<1>11. Len(found) > z => Len(s) >= 2
  BY <1>1, <1>2, <1>3
<1>12. QED
  BY <1>4, <1>5, <1>6, <1>9, <1>10, <1>11 DEF m, p, found, hi

\* Two orders of one set: whoever comes among the first of one only has somebody of the
\* other's first behind it.
LEMMA SwappedPlaces ==
    ASSUME NEW S, IsFiniteSet(S), NEW f \in SetToSeqs(S), NEW g \in SetToSeqs(S), NEW k \in Nat,
           NEW s \in FirstOf(g, k), s \notin FirstOf(f, k)
    PROVE  \E t \in FirstOf(f, k) : t \notin FirstOf(g, k)
<1> SUFFICES ASSUME FirstOf(f, k) \subseteq FirstOf(g, k) PROVE FALSE
  OBVIOUS
<1> DEFINE n == Cardinality(S)
           m == Least(n, k)
<1>1. n \in Nat /\ m \in Nat /\ (1..k) \cap (1..n) = 1..m
  BY FS_CardinalityType DEF Least
<1>2. ASSUME NEW h \in SetToSeqs(S)
      PROVE  IsFiniteSet(FirstOf(h, k)) /\ Cardinality(FirstOf(h, k)) = m
  <2>1. DOMAIN h = 1..n /\ \A i, j \in DOMAIN h : i # j => h[i] # h[j]
    BY OrdersAreWhole
  <2> DEFINE b == [i \in 1..m |-> h[i]]
  <2>2. b \in Bijection(1..m, FirstOf(h, k))
    <3>1. FirstOf(h, k) = {h[i] : i \in 1..m}
      BY <1>1, <2>1 DEF FirstOf
    <3>2. \A i, j \in 1..m : i # j => h[i] # h[j]
      BY <1>1, <2>1
    <3>3. b \in Injection(1..m, FirstOf(h, k))
      BY <3>1, <3>2 DEF Injection, IsInjective
    <3>4. b \in Surjection(1..m, FirstOf(h, k))
      BY <3>1 DEF Surjection
    <3>5. QED
      BY <3>3, <3>4 DEF Bijection
  <2>3. ExistsBijection(1..m, FirstOf(h, k))
    BY <2>2 DEF ExistsBijection
  <2>4. QED
    BY <1>1, <2>3, FS_CountingElements, FS_NatBijection
<1>3. /\ IsFiniteSet(FirstOf(g, k))
      /\ Cardinality(FirstOf(g, k)) = Cardinality(FirstOf(f, k))
  BY <1>2
<1>4. FirstOf(g, k) = FirstOf(f, k)
  BY <1>3, FS_Subset
<1>5. QED
  BY <1>4

LEMMA NewerIsStrict ==
    ASSUME SearchTypeOK, NEW s, NEW t, Newer(s, t), Newer(t, s)
    PROVE  FALSE
<1>1. opened \in Seq(Shop) /\ IsInjective(opened) /\ Len(opened) \in Nat /\ DOMAIN opened = 1..Len(opened)
  BY DEF SearchTypeOK
<1>2. PICK i \in DOMAIN opened, j \in DOMAIN opened : i < j /\ opened[i] = s /\ opened[j] = t
  BY DEF Newer
<1>3. PICK k \in DOMAIN opened, l \in DOMAIN opened : k < l /\ opened[k] = t /\ opened[l] = s
  BY DEF Newer
<1>4. i = l /\ j = k
  BY <1>1, <1>2, <1>3 DEF IsInjective
<1>5. QED
  BY <1>1, <1>2, <1>3, <1>4

\* What another answer puts among the first k, and this one does not, is no nearer than another.
LEMMA OtherAnswer ==
    ASSUME SearchTypeOK, NEW vendor, NEW f \in Answers(vendor), NEW g \in Answers(vendor), NEW k \in Nat
    PROVE  FirstOf(g, k) \subseteq FirstOf(f, k) \cup Tied(vendor)
<1> SUFFICES ASSUME NEW s \in FirstOf(g, k), s \notin FirstOf(f, k) PROVE s \in Tied(vendor)
  OBVIOUS
<1>1. IsFiniteSet(Hits(vendor)) /\ f \in SetToSeqs(Hits(vendor)) /\ g \in SetToSeqs(Hits(vendor))
  BY ActiveFinite DEF Answers
<1>2. PICK t \in FirstOf(f, k) : t \notin FirstOf(g, k)
  BY <1>1, SwappedPlaces
<1>3. /\ DOMAIN f = 1..Len(f) /\ Len(f) \in Nat /\ Range(f) = Hits(vendor)
      /\ DOMAIN g = 1..Len(g) /\ Len(g) \in Nat /\ Range(g) = Hits(vendor)
  BY AnswersWhole
<1>4. s \in Hits(vendor) /\ t \in Hits(vendor)
  BY <1>2, <1>3 DEF FirstOf, Range
<1>5. PICK a \in DOMAIN f, b \in DOMAIN f : a < b /\ f[a] = t /\ f[b] = s
  <2>1. PICK a \in DOMAIN f : a <= k /\ f[a] = t
    BY <1>2, <1>3 DEF FirstOf
  <2>2. PICK b \in DOMAIN f : f[b] = s
    BY <1>3, <1>4 DEF Range
  <2>3. b > k
    BY <1>3, <2>2 DEF FirstOf
  <2>4. a < b
    BY <1>3, <2>1, <2>3
  <2>5. QED
    BY <2>1, <2>2, <2>4
<1>6. PICK c \in DOMAIN g, d \in DOMAIN g : c < d /\ g[c] = s /\ g[d] = t
  <2>1. PICK c \in DOMAIN g : c <= k /\ g[c] = s
    BY <1>3 DEF FirstOf
  <2>2. PICK d \in DOMAIN g : g[d] = t
    BY <1>3, <1>4 DEF Range
  <2>3. d > k
    BY <1>2, <1>3, <2>2 DEF FirstOf
  <2>4. c < d
    BY <1>3, <2>1, <2>3
  <2>5. QED
    BY <2>1, <2>2, <2>4
<1>7. CASE MatchType(vendor) = "distance"
  <2>1. traits[t].distance <= traits[s].distance
    BY <1>5, <1>7 DEF Answers
  <2>2. traits[s].distance <= traits[t].distance
    BY <1>6, <1>7 DEF Answers
  <2>3. traits[s].distance \in Nat /\ traits[t].distance \in Nat
    <3>1. s \in Shop /\ t \in Shop
      BY <1>4, ActiveFinite
    <3>2. traits[s] \in Traits \cup {Blank} /\ traits[t] \in Traits \cup {Blank}
      BY <3>1 DEF SearchTypeOK
    <3>3. \A x \in Traits \cup {Blank} : x.distance \in Nat
      BY SearchAssumption DEF Blank
    <3>4. QED
      BY <3>2, <3>3
  <2>4. s # t /\ traits[s].distance = traits[t].distance
    BY <1>2, <2>1, <2>2, <2>3
  <2>5. QED
    BY <1>4, <1>7, <2>4 DEF Tied
<1>8. CASE MatchType(vendor) # "distance"
  <2>1. Newer(t, s)
    BY <1>5, <1>8 DEF Answers
  <2>2. Newer(s, t)
    BY <1>6, <1>8 DEF Answers
  <2>3. QED
    BY <2>1, <2>2, NewerIsStrict
<1>9. QED
  BY <1>7, <1>8

-----------------------------------------------------------------------------

LEMMA OffsetNat == ASSUME SearchTypeOK PROVE walk.offset \in Nat
  BY DEF SearchTypeOK, NoWalk

LEMMA GoneByFirst ==
    ASSUME SearchTypeOK, NEW vendor, NEW hits \in Answers(vendor)
    PROVE  GoneBy(hits) = FirstOf(hits, walk.offset)
<1> DEFINE H == Hits(vendor)
           n == walk.offset
<1>1. hits \in Seq(H) /\ n \in Nat
  BY AnswersWhole, OffsetNat
<1> HIDE DEF H, n
<1>2. Range(SubSeq(hits, 1, Least(Len(hits), n))) = FirstOf(hits, n)
  BY <1>1, FirstSlice
<1>3. QED
  BY <1>2 DEF GoneBy, n

\* Nobody who is closed stands ahead, and before the first page nobody does.
LEMMA MaybeAheadActive ==
    SearchTypeOK => MaybeAhead \subseteq Shop /\ (walk.offset = 0 => MaybeAhead = {})
<1> SUFFICES ASSUME SearchTypeOK, NEW vendor, NEW hits \in Answers(vendor)
             PROVE  GoneBy(hits) \subseteq Shop /\ (walk.offset = 0 => GoneBy(hits) = {})
  BY DEF MaybeAhead, Places
<1>1. GoneBy(hits) = FirstOf(hits, walk.offset)
  BY GoneByFirst
<1>2. Hits(vendor) \subseteq Shop
  BY ActiveFinite
<1>3. \A i \in DOMAIN hits : hits[i] \in Hits(vendor)
  BY AnswersWhole DEF Range
<1>4. QED
  BY <1>1, <1>2, <1>3 DEF FirstOf

LEMMA SearchStoresInv ==
    ASSUME SearchInv, NEW limit \in Limits, SearchStores(limit)
    PROVE  SearchInv'
<1>1. PICK vendor \in OneOf(MatchVendor) : \E hits \in Answers(vendor) :
           LET size == ClampedLimit(limit)
               found == SubSeq(hits, walk.offset + 1, Least(Len(hits), walk.offset + RowsRead(size)))
               page_x == SubSeq(found, 1, Least(Len(found), size))
           IN  /\ walk' = [op |-> IF Len(found) > size THEN "more" ELSE "over", limit |-> limit,
                           offset |-> walk.offset + Len(page_x), seen |-> walk.seen \cup Range(page_x)]
               /\ slipped' = slipped \cup Tied(vendor)
  BY DEF SearchStores
<1>2. PICK hits \in Answers(vendor) :
           LET size == ClampedLimit(limit)
               found == SubSeq(hits, walk.offset + 1, Least(Len(hits), walk.offset + RowsRead(size)))
               page_x == SubSeq(found, 1, Least(Len(found), size))
           IN  /\ walk' = [op |-> IF Len(found) > size THEN "more" ELSE "over", limit |-> limit,
                           offset |-> walk.offset + Len(page_x), seen |-> walk.seen \cup Range(page_x)]
               /\ slipped' = slipped \cup Tied(vendor)
  BY <1>1
<1> DEFINE z == ClampedLimit(limit)
           o == walk.offset
           found == SubSeq(hits, o + 1, Least(Len(hits), o + (z + 1)))
           answer == SubSeq(found, 1, Least(Len(found), z))
           H == Hits(vendor)
<1>3. /\ UNCHANGED <<query, traits, opened>>
      /\ walk.op # "over"
  BY DEF SearchStores
<1>4. /\ walk' = [op |-> IF Len(found) > z THEN "more" ELSE "over", limit |-> limit,
                  offset |-> o + Len(answer), seen |-> walk.seen \cup Range(answer)]
      /\ slipped' = slipped \cup Tied(vendor)
  BY <1>2 DEF RowsRead
<1>5. z \in Nat /\ z >= 1 /\ o \in Nat
  <2>1. limit \in Int /\ MaxLimit \in Nat /\ DefaultLimit \in Nat /\ DefaultLimit >= 1
    BY SearchAssumption
  <2>2. z \in Nat /\ z >= 1
    BY <2>1 DEF ClampedLimit
  <2>3. QED
    BY <2>2, OffsetNat DEF SearchInv
<1>6. /\ hits \in Seq(H) /\ Range(hits) = H /\ Len(hits) = Cardinality(H)
      /\ H \subseteq Shop /\ IsFiniteSet(H)
  BY AnswersWhole, ActiveFinite DEF SearchInv
<1> HIDE DEF z, o, H
<1>7. /\ Len(answer) \in Nat /\ Range(answer) \subseteq H
      /\ FirstOf(hits, o + Len(answer)) \subseteq FirstOf(hits, o) \cup Range(answer)
      /\ Len(found) \in Nat
      /\ Len(found) <= z => Range(hits) \subseteq FirstOf(hits, o) \cup Range(answer)
      /\ Len(found) > z => Len(hits) >= 2
  BY <1>5, <1>6, PageSlices
<1> HIDE DEF found, answer
<1>8. FirstOf(hits, o) \subseteq walk.seen \cup slipped
  <2>1. GoneBy(hits) \subseteq MaybeAhead
    BY DEF MaybeAhead, Places
  <2>2. GoneBy(hits) = FirstOf(hits, o)
    BY GoneByFirst DEF SearchInv, o
  <2>3. QED
    BY <1>3, <2>1, <2>2 DEF SearchInv, AheadAccounted
<1>9. /\ walk'.op \in {"more", "over"} /\ (walk'.op = "more" <=> Len(found) > z)
      /\ walk'.offset = o + Len(answer) /\ walk'.seen = walk.seen \cup Range(answer)
  BY <1>4
<1>10. SearchTypeOK'
  <2>1. walk.seen \subseteq Shop
    BY DEF SearchInv, SearchTypeOK, NoWalk
  <2>2. walk' \in [op: {"none", "more", "over"}, limit: Limits, offset: Nat, seen: SUBSET Shop]
    BY <1>4, <1>5, <1>6, <1>7, <2>1
  <2>3. Tied(vendor) \subseteq Shop
    BY ActiveFinite DEF Tied, SearchInv
  <2>4. QED
    BY <1>3, <1>4, <2>2, <2>3 DEF SearchInv, SearchTypeOK
\* What the query finds does not depend on the walk.
<1>11. /\ MatchVendor' = MatchVendor
       /\ \A v : Hits(v)' = Hits(v) /\ Answers(v)' = Answers(v)
  BY <1>3 DEF MatchVendor, Called, Active, Longest, Hits, InPlace, InSubject, MatchType, Answers, Newer
<1>12. PagesMissNothing'
  <2> SUFFICES ASSUME walk'.op = "over" PROVE Hits(vendor)' \subseteq walk'.seen \cup slipped'
    BY <1>11 DEF PagesMissNothing, OneOf
  <2>1. Len(found) <= z
    BY <1>5, <1>7, <1>9
  <2>2. H \subseteq FirstOf(hits, o) \cup Range(answer)
    BY <1>6, <1>7, <2>1
  <2>3. QED
    BY <1>4, <1>8, <1>9, <1>11, <2>2 DEF H
<1>13. AheadAccounted'
  <2> SUFFICES ASSUME walk'.op = "more" PROVE MaybeAhead' \subseteq walk'.seen \cup slipped'
    BY <1>9 DEF AheadAccounted
  <2>1. vendor = {} /\ OneOf(MatchVendor) = {{}}
    <3>1. CASE MatchVendor = {}
      BY <3>1 DEF OneOf
    <3>2. CASE MatchVendor # {}
      <4>1. PICK s \in MatchVendor : vendor = {s}
        BY <3>2 DEF OneOf
      <4>2. H \subseteq {s}
        BY <4>1 DEF H, Hits, InPlace, MatchType
      <4>3. IsFiniteSet({s}) /\ Cardinality({s}) = 1
        BY FS_Singleton
      <4>4. Cardinality(H) <= 1
        BY <4>2, <4>3, FS_Subset
      <4>5. Len(hits) >= 2 /\ Len(hits) = Cardinality(H) /\ Cardinality(H) \in Nat
        BY <1>6, <1>7, <1>9, FS_CardinalityType
      <4>6. QED
        BY <4>4, <4>5
    <3>3. QED
      BY <3>1, <3>2
  <2>2. ASSUME NEW other \in Answers(vendor)
        PROVE  GoneBy(other)' \subseteq walk'.seen \cup slipped'
    <3> DEFINE k == o + Len(answer)
    <3>1. k \in Nat
      BY <1>5, <1>7
    <3>2. GoneBy(other)' = FirstOf(other, k)
      <4>1. other \in Seq(H)
        BY AnswersWhole DEF SearchInv, H
      <4>2. Range(SubSeq(other, 1, Least(Len(other), k))) = FirstOf(other, k)
        BY <3>1, <4>1, FirstSlice
      <4>3. QED
        BY <1>9, <4>2 DEF GoneBy
    <3>3. FirstOf(other, k) \subseteq FirstOf(hits, k) \cup Tied(vendor)
      BY <3>1, OtherAnswer DEF SearchInv
    <3>4. QED
      BY <1>4, <1>7, <1>8, <1>9, <3>2, <3>3
  <2>3. Places' = Answers(vendor)
    BY <1>11, <2>1 DEF Places
  <2>4. QED
    BY <2>2, <2>3 DEF MaybeAhead
<1>14. QED
  BY <1>9, <1>10, <1>12, <1>13 DEF SearchInv

LEMMA SearchForInv ==
    ASSUME SearchInv, NEW q \in Query, SearchFor(q)
    PROVE  SearchInv'
<1>1. /\ query' = q /\ walk' = NoWalk /\ slipped' = {}
      /\ UNCHANGED <<traits, opened>>
  BY DEF SearchFor
<1>2. SearchTypeOK'
  BY <1>1 DEF SearchInv, SearchTypeOK
<1>3. walk'.op = "none" /\ walk'.offset = 0
  BY <1>1 DEF NoWalk
<1>4. MaybeAhead' = {}
  <2> SUFFICES ASSUME NEW vendor, NEW hits \in Answers(vendor)' PROVE GoneBy(hits)' = {}
    BY DEF MaybeAhead, Places
  <2> DEFINE H == Hits(vendor)'
             n == Cardinality(H)
  <2>1. hits \in [1..n -> H]
    BY DEF Answers, SetToSeqs
  <2>2. n \in Nat
    <3>1. IsFiniteSet(Active)
      BY ActiveFinite DEF SearchInv
    <3>2. H \subseteq Active
      BY <1>1 DEF Hits, Active
    <3>3. QED
      BY <3>1, <3>2, FS_Subset, FS_CardinalityType
  <2> HIDE DEF H, n
  <2>3. hits \in Seq(H)
    BY <2>1, <2>2
  <2>4. Range(SubSeq(hits, 1, Least(Len(hits), 0))) = FirstOf(hits, 0)
    BY <2>3, FirstSlice
  <2>5. FirstOf(hits, 0) = {}
    BY DEF FirstOf
  <2>6. QED
    BY <1>3, <2>4, <2>5 DEF GoneBy
<1>5. QED
  BY <1>1, <1>2, <1>3, <1>4 DEF SearchInv, AheadAccounted, PagesMissNothing

\* What comes to stand where the shopper has been is recorded as it does.
LEMMA SlipInv ==
    ASSUME SearchInv, Slip, UNCHANGED <<query, walk>>, walk.op # "over",
           traits' \in [Shop -> Traits \cup {Blank}], opened' \in Seq(Shop), IsInjective(opened')
    PROVE  SearchInv'
<1>1. slipped' = slipped \cup ((MaybeAhead' \ SurelyAhead) \ walk.seen)
  BY DEF Slip
<1>2. MaybeAhead' \subseteq Shop
  <2> SUFFICES ASSUME NEW vendor, NEW hits \in Answers(vendor)' PROVE GoneBy(hits)' \subseteq Shop
    BY DEF MaybeAhead, Places
  <2>1. ToSet(opened') \subseteq Shop
    BY RowsOfSequence
  <2>2. Hits(vendor)' \subseteq Shop
    BY <2>1 DEF Hits, Active, Range, ToSet
  <2> DEFINE H == Hits(vendor)'
             n == Cardinality(H)
             k == walk'.offset
  <2>3. hits \in [1..n -> H]
    BY DEF Answers, SetToSeqs
  <2>4. k \in Nat
    BY OffsetNat DEF SearchInv
  <2>5. n \in Nat
    <3>1. IsFiniteSet(ToSet(opened'))
      BY RowsAtPlaces
    <3>2. H \subseteq ToSet(opened')
      BY DEF Hits, Active, Range, ToSet
    <3>3. QED
      BY <3>1, <3>2, FS_Subset, FS_CardinalityType
  <2>6. H \subseteq Shop
    BY <2>2
  <2> HIDE DEF H, n, k
  <2>7. hits \in Seq(H)
    BY <2>3, <2>5
  <2>8. Range(SubSeq(hits, 1, Least(Len(hits), k))) = FirstOf(hits, k)
    BY <2>4, <2>7, FirstSlice
  <2>9. GoneBy(hits)' \subseteq H
    BY <2>3, <2>8 DEF GoneBy, FirstOf, k
  <2>10. QED
    BY <2>6, <2>9
<1>3. slipped' \subseteq Shop
  BY <1>1, <1>2 DEF SearchInv, SearchTypeOK
<1>4. SearchTypeOK'
  BY <1>3 DEF SearchInv, SearchTypeOK
<1>5. SurelyAhead \subseteq walk.seen \cup slipped
  BY DEF SurelyAhead, SearchInv, AheadAccounted
<1>6. MaybeAhead' \subseteq walk'.seen \cup slipped'
  BY <1>1, <1>5
<1>7. QED
  BY <1>4, <1>6 DEF SearchInv, AheadAccounted, PagesMissNothing

LEMMA SearchStep ==
    ASSUME SearchInv, [SearchNext]_searchVars
    PROVE  SearchInv'
<1>0. /\ opened \in Seq(Shop) /\ IsInjective(opened) /\ Len(opened) \in Nat /\ DOMAIN opened = 1..Len(opened)
      /\ traits \in [Shop -> Traits \cup {Blank}]
  BY DEF SearchInv, SearchTypeOK
<1>1. ASSUME NEW s \in Shop, NEW t \in Traits, OpenStore(s, t) PROVE SearchInv'
  <2>1. opened' = <<s>> \o opened /\ s \notin ToSet(opened)
    BY <1>1 DEF OpenStore, Active, Range, ToSet
  <2>2. opened' \in Seq(Shop) /\ Len(opened') = Len(opened) + 1
        /\ \A i \in 1..(Len(opened) + 1) : opened'[i] = IF i = 1 THEN s ELSE opened[i - 1]
    BY <1>0, <2>1
  <2>3. IsInjective(opened')
    <3> SUFFICES ASSUME NEW i \in DOMAIN opened', NEW j \in DOMAIN opened', opened'[i] = opened'[j] PROVE i = j
      BY DEF IsInjective
    <3>1. i \in 1..(Len(opened) + 1) /\ j \in 1..(Len(opened) + 1)
      BY <2>2
    <3>2. \A k \in 1..(Len(opened) + 1) : k # 1 => k - 1 \in DOMAIN opened
      BY <1>0
    <3>3. CASE i = 1 /\ j # 1
      BY <2>1, <2>2, <3>1, <3>2, <3>3 DEF ToSet
    <3>4. CASE i # 1 /\ j = 1
      BY <2>1, <2>2, <3>1, <3>2, <3>4 DEF ToSet
    <3>5. CASE i # 1 /\ j # 1
      <4>1. i - 1 = j - 1
        <5>1. i - 1 \in DOMAIN opened /\ j - 1 \in DOMAIN opened
          BY <3>1, <3>2, <3>5
        <5>2. opened[i - 1] = opened[j - 1]
          BY <2>2, <3>1, <3>5
        <5> DEFINE a == i - 1
                   b == j - 1
        <5> HIDE DEF a, b
        <5>3. a = b
          BY <1>0, <5>1, <5>2 DEF IsInjective, a, b
        <5>4. QED
          BY <5>3 DEF a, b
      <4>2. QED
        BY <3>1, <4>1
    <3>6. QED
      BY <3>3, <3>4, <3>5
  <2>4. traits' \in [Shop -> Traits \cup {Blank}] /\ walk.op # "over" /\ Slip /\ UNCHANGED <<query, walk>>
    BY <1>0, <1>1 DEF OpenStore
  <2>5. QED
    BY <2>2, <2>3, <2>4, SlipInv
<1>2. ASSUME NEW s \in Shop, NEW t \in Traits, UpdateStore(s, t) PROVE SearchInv'
  <2>1. /\ traits' \in [Shop -> Traits \cup {Blank}] /\ walk.op # "over" /\ Slip
        /\ UNCHANGED <<query, walk>> /\ opened' = opened
    BY <1>0, <1>2 DEF UpdateStore
  <2>2. QED
    BY <1>0, <2>1, SlipInv
<1>3. ASSUME NEW s \in Shop, DeactivateStore(s) PROVE SearchInv'
  <2>1. PICK at \in DOMAIN opened : opened' = RemoveAt(opened, at)
    BY <1>3 DEF DeactivateStore
  <2>2. opened' \in Seq(Shop)
    BY <1>0, <2>1, RemovedAt
  <2>3. IsInjective(opened')
    BY <1>0, <2>1, RemovedAhead
  <2>4. traits' \in [Shop -> Traits \cup {Blank}] /\ walk.op # "over" /\ Slip /\ UNCHANGED <<query, walk>>
    BY <1>0, <1>3 DEF DeactivateStore
  <2>5. QED
    BY <2>2, <2>3, <2>4, SlipInv
<1>4. CASE UNCHANGED searchVars
  <2>1. MaybeAhead' = MaybeAhead /\ MatchVendor' = MatchVendor /\ \A v : Hits(v)' = Hits(v)
    BY <1>4 DEF searchVars, MaybeAhead, Places, GoneBy, MatchVendor, Called, Active, Longest, Hits, InPlace,
                InSubject, MatchType, Answers, Newer
  <2>2. QED
    BY <1>4, <2>1 DEF searchVars, SearchInv, SearchTypeOK, AheadAccounted, PagesMissNothing
<1>5. QED
  BY <1>1, <1>2, <1>3, <1>4, SearchStoresInv, SearchForInv DEF SearchNext

LEMMA SearchStart == ASSUME SearchInit PROVE SearchInv
<1>1. SearchTypeOK
  BY DEF SearchInit, SearchTypeOK, IsInjective
<1>2. walk = NoWalk /\ walk.op = "none" /\ walk.offset = 0
  BY DEF SearchInit, NoWalk
<1>3. MaybeAhead = {}
  BY <1>1, <1>2, MaybeAheadActive
<1>4. QED
  BY <1>1, <1>2, <1>3 DEF SearchInv, AheadAccounted, PagesMissNothing

-----------------------------------------------------------------------------
(* The store the gateway finds: an answer that names it was given by a     *)
(* storefront that had it.                                                 *)

GatewayInv ==
    /\ GatewayTypeOK
    /\ \A r \in Request : lookup[r].op = "fetched" /\ lookup[r].answer = "found" => owner

LEMMA LookupFields ==
    ASSUME NEW d \in Lookup
    PROVE  /\ d.op \in {"idle", "fetching", "fetched"}
           /\ d.op = "fetched" => d.answer \in {"found", "none"}
           /\ d.op = "idle" <=> d = Idle
  BY DEF Lookup, Idle

LEMMA GatewayStart == GatewayInit => GatewayInv
<1> SUFFICES ASSUME GatewayInit PROVE GatewayInv
  OBVIOUS
<1>1. Idle \in Lookup /\ Idle.op # "fetched"
  BY DEF Lookup, Idle
<1>2. \A r \in Request : lookup[r] = Idle
  BY DEF GatewayInit
<1>3. GatewayTypeOK
  BY <1>1 DEF GatewayInit, GatewayTypeOK, StoreEntry
<1>4. QED
  BY <1>1, <1>2, <1>3 DEF GatewayInv

LEMMA GatewayStep == GatewayInv /\ [GatewayNext]_gatewayVars => GatewayInv'
<1> SUFFICES ASSUME GatewayInv, [GatewayNext]_gatewayVars PROVE GatewayInv'
  OBVIOUS
<1>1. /\ owner \in BOOLEAN /\ bearer \in BOOLEAN /\ served \in BOOLEAN
      /\ cache \in StoreEntry /\ lookup \in [Request -> Lookup]
      /\ ~owner => ~bearer /\ ~served /\ cache # "found"
      /\ \A r \in Request : lookup[r].op = "fetched" /\ lookup[r].answer = "found" => owner
  BY DEF GatewayInv, GatewayTypeOK
<1>2. /\ Idle \in Lookup /\ [op |-> "fetching"] \in Lookup
      /\ \A answer \in {"found", "none"} : [op |-> "fetched", answer |-> answer] \in Lookup
      /\ Idle.op # "fetched"
  BY DEF Lookup, Idle
<1>3. CASE CreateStore
  BY <1>1, <1>3 DEF CreateStore, GatewayInv, GatewayTypeOK
<1>4. ASSUME NEW queried \in BOOLEAN, IssueAccessToken(queried) PROVE GatewayInv'
  BY <1>1, <1>4 DEF IssueAccessToken, GatewayInv, GatewayTypeOK
<1>5. ASSUME NEW r \in Request, Pass(r) PROVE GatewayInv'
  BY <1>1, <1>5 DEF Pass, GatewayInv, GatewayTypeOK
<1>6. ASSUME NEW r \in Request, NEW d \in Lookup, lookup' = [lookup EXCEPT ![r] = d],
             d.op = "fetched" /\ d.answer = "found" => owner
      PROVE  /\ lookup' \in [Request -> Lookup]
             /\ \A q \in Request : lookup'[q].op = "fetched" /\ lookup'[q].answer = "found" => owner
  BY <1>1, <1>6
<1>7. ASSUME NEW r \in Request, Miss(r) \/ FetchFromStorefront(r) \/ FetchFails(r) PROVE GatewayInv'
  <2>1. UNCHANGED <<owner, bearer, cache, served>>
    BY <1>7 DEF Miss, FetchFromStorefront, FetchFails
  <2>2. \E d \in Lookup : lookup' = [lookup EXCEPT ![r] = d] /\ (d.op = "fetched" /\ d.answer = "found" => owner)
    BY <1>2, <1>7 DEF Miss, FetchFromStorefront, FetchFails
  <2>3. QED
    BY <1>1, <1>6, <2>1, <2>2 DEF GatewayInv, GatewayTypeOK
<1>8. ASSUME NEW r \in Request, KeepAnswer(r) PROVE GatewayInv'
  <2>1. lookup[r].op = "fetched" /\ lookup[r].answer \in {"found", "none"} /\ (lookup[r].answer = "found" => owner)
    BY <1>1, <1>8, LookupFields DEF KeepAnswer
  <2>2. /\ cache' = lookup[r].answer /\ served' = (lookup[r].answer = "found")
        /\ lookup' = [lookup EXCEPT ![r] = Idle] /\ owner' = owner /\ bearer' = bearer
    BY <1>8 DEF KeepAnswer
  <2>3. lookup' \in [Request -> Lookup]
        /\ \A q \in Request : lookup'[q].op = "fetched" /\ lookup'[q].answer = "found" => owner
    BY <1>2, <1>6, <2>2
  <2>4. QED
    BY <1>1, <2>1, <2>2, <2>3 DEF GatewayInv, GatewayTypeOK, StoreEntry
<1>9. CASE Expire
  BY <1>1, <1>9 DEF Expire, GatewayInv, GatewayTypeOK, StoreEntry
<1>10. CASE RestartGateway
  BY <1>1, <1>2, <1>10 DEF RestartGateway, GatewayInv, GatewayTypeOK, StoreEntry
<1>11. CASE UNCHANGED gatewayVars
  BY <1>1, <1>11 DEF gatewayVars, GatewayInv, GatewayTypeOK
<1>12. QED
  BY <1>3, <1>4, <1>5, <1>7, <1>8, <1>9, <1>10, <1>11 DEF GatewayNext

-----------------------------------------------------------------------------
(* The options in the order they were added: every one there, each once. *)

BornSound ==
    /\ born \in Seq(Option) /\ ToSet(born) = OptionRows /\ IsInjective(born)
    /\ seeding \in [Request -> SUBSET KnownGateways]

LEMMA RowsStay ==
    ASSUME BornSound, UNCHANGED <<options, born, seeding>>
    PROVE  BornSound'
  BY DEF BornSound, OptionRows

LEMMA BornAdds ==
    ASSUME SettingsInv, BornSound, NEW r \in Request, NEW o \in Option, NEW price \in Price \cup {0}, NEW pickup \in BOOLEAN,
           CreateDeliveryOption(r, o, price, pickup), UNCHANGED seeding
    PROVE  BornSound'
<1> DEFINE row == [price |-> IF pickup THEN 0 ELSE price, pickup |-> pickup, active |-> TRUE,
                   position |-> adding[r].position]
<1>1. /\ options[o] = NoRow /\ options' = [options EXCEPT ![o] = row] /\ born' = Append(born, o)
      /\ adding[r] # Idle /\ SettingsRows
  BY DEF CreateDeliveryOption, SettingsInv
<1>2. row \in Row
  BY <1>1, AddingFields DEF Row
<1>3. row # NoRow
  BY <1>2, RowsDiffer
<1> HIDE DEF row
<1>4. OptionRows' = OptionRows \cup {o} /\ o \notin OptionRows
  BY <1>1, <1>3 DEF OptionRows, SettingsRows
<1>5. born \in Seq(Option) /\ Len(born) \in Nat /\ DOMAIN born = 1..Len(born) /\ o \notin ToSet(born)
  BY <1>4 DEF BornSound
<1>6. /\ born' \in Seq(Option) /\ DOMAIN born' = 1..(Len(born) + 1)
      /\ \A i \in 1..(Len(born) + 1) : born'[i] = IF i = Len(born) + 1 THEN o ELSE born[i]
  BY <1>1, <1>5
<1>7. \A i \in 1..(Len(born) + 1) : i # Len(born) + 1 => i \in DOMAIN born
  BY <1>5
<1>8. Len(born) + 1 \in 1..(Len(born) + 1) /\ \A i \in DOMAIN born : i \in 1..(Len(born) + 1) /\ i # Len(born) + 1
  BY <1>5
<1>9. ToSet(born') = ToSet(born) \cup {o}
  BY <1>6, <1>7, <1>8 DEF ToSet
<1>10. IsInjective(born')
  BY <1>5, <1>6, <1>7 DEF IsInjective, BornSound, ToSet
<1>11. QED
  BY <1>4, <1>6, <1>9, <1>10 DEF BornSound

LEMMA BornLoses ==
    ASSUME SettingsInv, BornSound, NEW o \in Option, DeleteDeliveryOption(o), UNCHANGED seeding
    PROVE  BornSound'
<1>1. options' = [options EXCEPT ![o] = NoRow]
  BY DEF DeleteDeliveryOption
<1>2. PICK at \in DOMAIN born : born[at] = o /\ born' = RemoveAt(born, at)
  BY DEF DeleteDeliveryOption
<1>3. born \in Seq(Option) /\ IsInjective(born) /\ at \in 1..Len(born)
  BY <1>2 DEF BornSound
<1>4. OptionRows' = OptionRows \ {o}
  BY <1>1 DEF OptionRows, SettingsInv, SettingsRows
<1>5. born' \in Seq(Option)
  BY <1>2, <1>3, RemovedAt
<1>6. IsInjective(born') /\ ToSet(born') = ToSet(born) \ {born[at]}
  <2>1. IsInjective(born') /\ born[at] \notin ToSet(born')
    BY <1>2, <1>3, RemovedAhead, 0 \in Nat
  <2>2. /\ Len(born) \in Nat /\ DOMAIN born = 1..Len(born) /\ DOMAIN born' = 1..(Len(born) - 1)
        /\ \A i \in 1..(Len(born) - 1) : born'[i] = IF i < at THEN born[i] ELSE born[i + 1]
    BY <1>2, <1>3, RemovedAt
  <2>3. ToSet(born') \subseteq ToSet(born)
    <3>1. \A i \in 1..(Len(born) - 1) : i \in 1..Len(born) /\ i + 1 \in 1..Len(born)
      BY <2>2
    <3>2. QED
      BY <2>2, <3>1 DEF ToSet
  <2>4. ASSUME NEW i \in 1..Len(born), i # at PROVE born[i] \in ToSet(born')
    <3>1. CASE i < at
      <4>1. i \in 1..(Len(born) - 1)
        BY <1>3, <2>2, <3>1
      <4>2. QED
        BY <2>2, <3>1, <4>1 DEF ToSet
    <3>2. CASE i > at
      <4>1. i - 1 \in 1..(Len(born) - 1) /\ ~(i - 1 < at) /\ (i - 1) + 1 = i
        BY <1>3, <2>2, <3>2
      <4>2. born'[i - 1] = born[i]
        BY <2>2, <4>1
      <4>3. QED
        BY <2>2, <4>1, <4>2 DEF ToSet
    <3>3. QED
      BY <1>3, <2>4, <3>1, <3>2
  <2>5. QED
    BY <2>1, <2>2, <2>3, <2>4 DEF ToSet
<1>7. QED
  BY <1>2, <1>4, <1>5, <1>6 DEF BornSound

\* The parts of Shop add options for nothing where only their order is looked at.
AddsFree ==
    /\ \E r \in Request, o \in Option : CreateDeliveryOption(r, o, 0, FALSE)
    /\ UNCHANGED paymentVars

LEMMA AddsFreeStep ==
    ASSUME SettingsInv, AddsFree
    PROVE  SettingsInv'
<1>1. PICK r \in Request, o \in Option : CreateDeliveryOption(r, o, 0, FALSE)
  BY DEF AddsFree
<1>2. SettingsRows' /\ PickupFree' /\ PositionsSound'
  BY <1>1, CreateKeeps
<1>3. SeesOffer
  BY <1>1 DEF CreateDeliveryOption
<1>4. quote' \in [Request -> Quote] /\ QuotesSound'
  BY <1>2, <1>3, SeesKeeps
<1>5. UNCHANGED <<gateways, choice>>
  BY DEF AddsFree, paymentVars
<1>6. QED
  BY <1>2, <1>4, <1>5 DEF SettingsInv, ChoicesStand

LEMMA RowsChange ==
    ASSUME SettingsInv, BornSound, UNCHANGED seeding, NEW o \in Option,
           \/ \E price \in Price : PriceOption(o, price)
           \/ SwitchOption(o)
           \/ \E p \in 0..MaxPosition : MoveOption(o, p)
    PROVE  BornSound'
<1>1. o \in OptionRows /\ born' = born
  BY DEF PriceOption, SwitchOption, MoveOption, UpdateDeliveryOption
<1>2. options[o] \in Row
  BY <1>1, RowFields DEF SettingsInv
<1>3. /\ \A price \in Price : [options[o] EXCEPT !.price = price] \in Row
      /\ [options[o] EXCEPT !.active = ~@] \in Row
      /\ \A p \in 0..MaxPosition : [options[o] EXCEPT !.position = p] \in Row
  BY <1>2 DEF Row
<1>4. PICK row \in Row : options' = [options EXCEPT ![o] = row]
  BY <1>3 DEF PriceOption, SwitchOption, MoveOption, UpdateDeliveryOption
<1>5. row # NoRow
  BY RowsDiffer
<1>6. OptionRows' = OptionRows
  BY <1>1, <1>4, <1>5 DEF OptionRows, SettingsInv, SettingsRows
<1>7. QED
  BY <1>1, <1>6 DEF BornSound

LEMMA BornStep ==
    ASSUME SettingsInv, BornSound, [StoreSettingsNext \/ AddsFree]_settingsVars
    PROVE  BornSound'
<1>1. CASE AddsFree
  <2>1. UNCHANGED seeding
    BY <1>1 DEF AddsFree, paymentVars
  <2>2. QED
    BY <1>1, <2>1, BornAdds DEF AddsFree
<1>2. CASE OptionsNext /\ UNCHANGED paymentVars
  <2>1. UNCHANGED seeding
    BY <1>2 DEF paymentVars
  <2>2. CASE AddingNext
    <3>1. UNCHANGED <<options, born>>
      BY <2>2 DEF AddingNext, ReadPosition, NamePosition, CreateFails
    <3>2. QED
      BY <2>1, <3>1, RowsStay
  <2>3. QED
    BY <1>2, <2>1, <2>2, BornAdds, RowsChange, BornLoses DEF OptionsNext
<1>3. CASE PlacingNext /\ UNCHANGED paymentVars
  <2>1. UNCHANGED <<options, born, seeding>>
    BY <1>3 DEF PlacingNext, AskForOrder, computeDeliveryFeeKobo, InsertOrder, Answer, paymentVars
  <2>2. QED
    BY <2>1, RowsStay
<1>4. CASE PaymentsNext /\ UNCHANGED deliveryVars
  <2>1. UNCHANGED <<options, born>>
    BY <1>4 DEF deliveryVars
  <2>2. seeding' \in [Request -> SUBSET KnownGateways]
    BY <1>4 DEF BornSound, PaymentsNext, ListPaymentGateways, SeedGateway, UpsertPaymentGateway
  <2>3. QED
    BY <2>1, <2>2 DEF BornSound, OptionRows
<1>5. CASE UNCHANGED settingsVars
  BY <1>5, RowsStay DEF settingsVars, deliveryVars, paymentVars
<1>6. QED
  BY <1>1, <1>2, <1>3, <1>4, <1>5 DEF StoreSettingsNext, DeliveryNext

-----------------------------------------------------------------------------
(* The parts together: whichever is at work, each of them takes a step of  *)
(* its own or none.                                                        *)

ShopInv ==
    /\ part \in Parts
    /\ PlansInv
    /\ ProfileInv
    /\ GatewayInv
    /\ NewsletterInv
    /\ CollectionsInv
    /\ SearchInv
    /\ ListingsInv
    /\ SettingsInv /\ BornSound
    /\ UserInv
    /\ StartupInv

LEMMA VendorMoves ==
    ASSUME [ShopNext]_shopVars
    PROVE  [PlansNext \/ (OnboardingNext /\ UNCHANGED plansVars)]_<<plansVars, onboardingVars>>
<1>1. CASE PlansPart
  BY <1>1 DEF PlansPart
<1>2. CASE OnboardingPart
  BY <1>2, PlansAssumption DEF OnboardingPart, PlansNext
<1>3. CASE VendorIdle
  BY <1>3 DEF VendorIdle
<1>4. CASE UNCHANGED shopVars
  BY <1>4 DEF shopVars
<1>5. QED
  BY <1>1, <1>2, <1>3, <1>4 DEF ShopNext

LEMMA UserMoves ==
    ASSUME [ShopNext]_shopVars
    PROVE  [ProfileNext]_profileVars /\ [GatewayNext]_gatewayVars
<1>1. CASE UsersIdle
  BY <1>1 DEF UsersIdle
<1>2. CASE AddressPart \/ BankPart \/ GatewayPart
  BY <1>2 DEF AddressPart, BankPart, GatewayPart, ProfileNext
<1>3. CASE UNCHANGED shopVars
  BY <1>3 DEF shopVars
<1>4. QED
  BY <1>1, <1>2, <1>3 DEF ShopNext, PlansPart, OnboardingPart

LEMMA PageMoves ==
    ASSUME [ShopNext]_shopVars
    PROVE  /\ [NewsletterNext]_newsletterVars /\ [CollectionsNext]_collectionsVars
           /\ [SearchNext]_searchVars /\ [ListingsNext]_listingsVars
<1>1. CASE PagesIdle /\ ListsIdle
  BY <1>1 DEF PagesIdle, ListsIdle
<1>2. CASE (NewsletterPart \/ CollectionsPart \/ SearchPart) /\ ListsIdle
  BY <1>2 DEF NewsletterPart, CollectionsPart, SearchPart, ListsIdle
<1>3. CASE ListingsNext /\ PagesIdle
  BY <1>3 DEF PagesIdle
<1>4. CASE UNCHANGED shopVars
  BY <1>4 DEF shopVars
<1>5. QED
  BY <1>1, <1>2, <1>3, <1>4 DEF ShopNext, PlansPart, OnboardingPart

LEMMA SettingsMoves ==
    ASSUME [ShopNext]_shopVars
    PROVE  /\ [StoreSettingsNext \/ AddsFree]_settingsVars
           /\ [UserProfileNext]_userVars /\ [StartupNext]_startupVars
<1>1. CASE SettingsIdle
  <2>1. UNCHANGED settingsVars /\ UNCHANGED userVars
    BY <1>1 DEF SettingsIdle
  <2>2. [StartupNext]_startupVars
    BY DEF ShopNext, ProcessesIdle, shopVars
  <2>3. QED
    BY <2>1, <2>2
<1>2. CASE part # "startup" /\ (OptionsPart \/ DeliveryPart \/ PaymentsPart \/ UserPart) /\ ProcessesIdle
  <2>1. UNCHANGED startupVars
    BY <1>2 DEF ProcessesIdle
  <2>2. CASE OptionsPart
    <3>1. UNCHANGED userVars /\ UNCHANGED paymentVars
      BY <2>2 DEF OptionsPart
    <3>2. OptionsNext \/ AddsFree
      BY <2>2, <3>1 DEF OptionsPart, OptionsNext, AddsFree
    <3>3. QED
      BY <2>1, <3>1, <3>2 DEF StoreSettingsNext, DeliveryNext
  <2>3. CASE DeliveryPart
    <3>1. UNCHANGED userVars /\ UNCHANGED paymentVars
      BY <2>3 DEF DeliveryPart
    <3>2. OnSale \subseteq Option
      BY ShopAssumption
    <3>3. ASSUME NEW r \in Request, NamePosition(r, 0) PROVE OptionsNext
      <4>1. 0 \in 0..MaxPosition
        BY StoreSettingsAssumption
      <4>2. QED
        BY <3>3, <4>1 DEF OptionsNext, AddingNext
    <3>4. OptionsNext \/ PlacingNext
      BY <2>3, <3>2, <3>3 DEF DeliveryPart, OptionsNext, PlacingNext
    <3>5. QED
      BY <2>1, <3>1, <3>4 DEF StoreSettingsNext, DeliveryNext
  <2>4. CASE PaymentsPart
    BY <2>1, <2>4 DEF PaymentsPart, StoreSettingsNext
  <2>5. CASE UserPart
    BY <2>1, <2>5 DEF UserPart
  <2>6. QED
    BY <1>2, <2>2, <2>3, <2>4, <2>5
<1>3. CASE UNCHANGED shopVars
  BY <1>3 DEF shopVars
<1>4. QED
  BY <1>1, <1>2, <1>3 DEF ShopNext, PlansPart, OnboardingPart

LEMMA ShopStart == ShopInit => ShopInv
<1> SUFFICES ASSUME ShopInit PROVE ShopInv
  OBVIOUS
<1>1. PlansInv /\ ProfileInv /\ GatewayInv /\ NewsletterInv
  BY PlansStart, ProfileStart, GatewayStart, NewsletterStart DEF ShopInit
<1>2. CollectionsInv /\ SearchInv /\ ListingsInv
  BY CollectionsStart, SearchStart, ListingsStart DEF ShopInit
<1>3. SettingsInv /\ UserInv /\ StartupInv
  BY SettingsInit, UserStart, StartupBegins DEF ShopInit
<1>4. BornSound
  <2>1. born = <<>> /\ options = [o \in Option |-> NoRow] /\ seeding = [r \in Request |-> {}]
    BY DEF ShopInit, StoreSettingsInit
  <2>2. OptionRows = {}
    BY <2>1 DEF OptionRows
  <2>3. QED
    BY <2>1, <2>2 DEF BornSound, ToSet, IsInjective
<1>5. QED
  BY <1>1, <1>2, <1>3, <1>4 DEF ShopInv, ShopInit

LEMMA ShopStep == ShopInv /\ [ShopNext]_shopVars => ShopInv'
<1> SUFFICES ASSUME ShopInv, [ShopNext]_shopVars PROVE ShopInv'
  OBVIOUS
<1>1. PlansInv'
  BY VendorMoves, PlansStep DEF ShopInv
<1>2. ProfileInv' /\ GatewayInv'
  BY UserMoves, ProfileStep, GatewayStep DEF ShopInv
<1>3. NewsletterInv' /\ CollectionsInv' /\ SearchInv' /\ ListingsInv'
  BY PageMoves, NewsletterStep, CollectionsStep, SearchStep, ListingsStep DEF ShopInv
<1>4. SettingsInv' /\ BornSound'
  BY SettingsMoves, SettingsStep, AddsFreeStep, BornStep DEF ShopInv
<1>5. UserInv' /\ StartupInv'
  BY SettingsMoves, UserStep, StartupStep DEF ShopInv
<1>6. part' \in Parts
  BY DEF ShopInv, ShopNext, shopVars
<1>7. QED
  BY <1>1, <1>2, <1>3, <1>4, <1>5, <1>6 DEF ShopInv

\* Every part keeps its own invariant while the others are at work.
THEOREM ShopInvariant == ShopSpec => []ShopInv
<1>1. QED
  BY ShopStart, ShopStep, PTL DEF ShopSpec

\* The rows and requests of every part keep their types, in whatever part a step is taken.
THEOREM ShopTypesHold == ShopSpec => []ShopTypeOK
<1>1. ShopInv => ShopTypeOK
  <2> SUFFICES ASSUME ShopInv PROVE ShopTypeOK
    OBVIOUS
  <2>1. PlansTypeOK /\ ProfileTypeOK /\ GatewayTypeOK /\ NewsletterTypeOK
    BY DEF ShopInv, PlansInv, ProfileInv, GatewayInv, NewsletterInv
  <2>2. CollectionsTypeOK /\ SearchTypeOK /\ ListingsTypeOK
    BY DEF ShopInv, CollectionsInv, SearchInv, ListingsInv
  <2>3. StoreSettingsTypeOK
    BY DEF ShopInv, SettingsInv, SettingsRows, BornSound, StoreSettingsTypeOK
  <2>4. UserProfileTypeOK /\ StartupTypeOK
    BY DEF ShopInv, UserInv, StartupInv
  <2>5. QED
    BY <2>1, <2>2, <2>3, <2>4 DEF ShopInv, ShopTypeOK
<1>2. QED
  BY <1>1, ShopInvariant, PTL

\* A collection lists the products of one request in its order - all that are still sold, but
\* for rows that could not be read, and unless two requests saved it at once -, the last page
\* of a search has shown what answers the query, and a reader who has come to the end of a list
\* has seen what was there all along, but for what the rows and requests in between explain.
THEOREM ListsDoStand == ShopSpec => []ListsStand
<1>1. ShopInv => ListsStand
  <2> SUFFICES ASSUME ShopInv PROVE ListsStand
    OBVIOUS
  <2>1. OneListAtATime
    BY ListOfOneRequest DEF ShopInv
  <2>2. PagesMissNothing /\ ListsMissLittle
    BY DEF ShopInv, SearchInv, ListingsInv
  <2>3. QED
    BY <2>1, <2>2 DEF ListsStand
<1>2. QED
  BY <1>1, ShopInvariant, PTL

\* What is proved of each part alone holds of it in Shop: a plan's limits, the day's attempts,
\* the marked rows, a campaign mailed once, the settings, the user's row and the schema.
THEOREM PartsKeepTheirWord ==
    ShopSpec => [](PlanLimitsHold /\ AttemptsLimited /\ OneIsMarked /\ MailedOnce
                   /\ SettingsStand /\ PatchKept /\ SchemaStands)
<1>1. ShopInv => PlanLimitsHold /\ AttemptsLimited /\ OneIsMarked /\ MailedOnce
                 /\ SettingsStand /\ PatchKept /\ SchemaStands
  <2> SUFFICES ASSUME ShopInv PROVE PlanLimitsHold /\ AttemptsLimited /\ OneIsMarked /\ MailedOnce
                                    /\ SettingsStand /\ PatchKept /\ SchemaStands
    OBVIOUS
  <2>1. PlanLimitsHold /\ AttemptsLimited
    BY LimitsKept DEF ShopInv, PlansInv, OnboardingInv
  <2>2. OneIsMarked /\ MailedOnce /\ SettingsStand /\ PatchKept /\ SchemaStands
    BY MarksKept, MailedOnceEach, SettingsAgree, SchemaAgrees DEF ShopInv, UserInv
  <2>3. QED
    BY <2>1, <2>2
<1>2. QED
  BY <1>1, ShopInvariant, PTL

\* And no step of any part takes onboarding back, but for a form that was read earlier.
THEOREM ShopGoesForward == ShopSpec => StepsGoForward
<1>1. ASSUME ShopInv, [ShopNext]_shopVars
      PROVE  [ \/ Rank[step'] >= Rank[step]
               \/ \E r \in Request : form[r].op = "business" /\ form[r].read # step /\ form'[r] = Idle ]_step
  BY <1>1, VendorMoves, StepsForward DEF ShopInv
<1>2. QED
  BY <1>1, ShopInvariant, PTL DEF ShopSpec, StepsGoForward

=============================================================================
