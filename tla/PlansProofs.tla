----------------------------- MODULE PlansProofs -----------------------------
(***************************************************************************)
(* What a vendor's onboarding and plan keep to, for any number of requests *)
(* and any plans: the attempts at verification, the direction of the       *)
(* onboarding step, and the rows a plan allows.                            *)
(***************************************************************************)
EXTENDS Plans, FiniteSetTheorems, TLAPS

-----------------------------------------------------------------------------
(* Onboarding. *)

\* What a form knows when it is written: the step it was read at, and, when no attempt was
\* recorded since, that there is room for one or that the window is over.
FormSound(f) ==
    /\ f.op = "business" => f.target = advanceStep(f.read, "business_details")
    /\ f.op = "allowed" => f.late \/ IF f.expired THEN ~recent ELSE attempts < MaxAttempts

FormsSound == \A r \in Request : FormSound(form[r])

\* Within a day the attempts recorded account for those made, three for each let in on
\* another count.
Within == burst <= (IF attempts < MaxAttempts THEN attempts ELSE MaxAttempts) + MaxAttempts * overtaken

OnboardingInv ==
    /\ OnboardingTypeOK
    /\ FormsSound
    /\ Within
    /\ ~recent => burst <= overtaken
    /\ AttemptsLimited

LEMMA DayWithinLimit ==
    ASSUME NEW a \in Nat, NEW b \in Nat, NEW o \in Nat, b <= (IF a < 3 THEN a ELSE 3) + 3 * o
    PROVE  b <= 3 * (1 + o)
<1>1. 3 * (1 + o) = 3 + 3 * o
  OBVIOUS
<1>2. b <= 3 + 3 * o
  OBVIOUS
<1>3. QED
  BY <1>1, <1>2

LEMMA FormFields ==
    ASSUME NEW f \in Form
    PROVE  /\ f.op \in {"idle", "business", "allowed", "verifying"}
           /\ f.op = "business" => f.read \in Step /\ f.target \in Step
           /\ f.op = "allowed" => f.expired \in BOOLEAN /\ f.late \in BOOLEAN
           /\ f = Idle <=> f.op = "idle"
  BY DEF Form, Idle

LEMMA IdleForm == Idle \in Form /\ Idle.op = "idle"
  BY DEF Form, Idle

LEMMA Ranks ==
    /\ Step = {"account_created", "plan_selected", "business_details", "kyc_submitted"}
    /\ Rank["account_created"] = 0 /\ Rank["plan_selected"] = 1
    /\ Rank["business_details"] = 2 /\ Rank["kyc_submitted"] = 3
  BY DEF Step, Rank

LEMMA AdvanceForward ==
    ASSUME NEW s \in Step
    PROVE  /\ advanceStep(s, "business_details") \in Step
           /\ Rank[advanceStep(s, "business_details")] >= Rank[s]
<1>1. StepOrder(s) \in Int /\ StepOrder("business_details") = 2
  BY Ranks DEF StepOrder
<1>2. QED
  BY <1>1, Ranks, SMTT(30) DEF advanceStep, StepOrder

\* A row of form is written and the counters are left alone.
LEMMA FormWritten ==
    ASSUME OnboardingInv, NEW r \in Request, NEW f \in Form, FormSound(f),
           form' = [form EXCEPT ![r] = f], step' \in Step, kyc' \in {"none", "pending", "verified"},
           UNCHANGED <<attempts, recent, burst, overtaken>>
    PROVE  OnboardingInv'
<1> USE DEF OnboardingInv
<1>1. OnboardingTypeOK'
  BY DEF OnboardingTypeOK
<1>2. FormsSound'
  <2> SUFFICES ASSUME NEW q \in Request, NEW d, form'[q] = d PROVE FormSound(d)'
    BY DEF FormsSound
  <2>1. d = IF q = r THEN f ELSE form[q]
    BY DEF OnboardingTypeOK
  <2>2. FormSound(d)
    BY <2>1 DEF FormsSound
  <2>3. QED
    BY <2>2 DEF FormSound
<1>3. QED
  BY <1>1, <1>2 DEF Within, AttemptsLimited

LEMMA FormSteps ==
    ASSUME OnboardingInv, NEW r \in Request,
           \/ UpdateVendorBusinessRead(r) \/ UpdateVendorBusinessWrite(r) \/ SubmitVendorKYCRead(r)
           \/ FormFails(r) \/ \E status \in {"pending", "verified"} : UpdateVendorKYC(r, status)
    PROVE  OnboardingInv'
<1> USE DEF OnboardingInv, OnboardingTypeOK
<1>1. CASE UpdateVendorBusinessRead(r)
  <2>1. PICK f : f = [op |-> "business", read |-> step, target |-> advanceStep(step, "business_details")]
    OBVIOUS
  <2>2. f \in Form /\ FormSound(f)
    BY <2>1, AdvanceForward DEF Form, FormSound
  <2>3. QED
    BY <1>1, <2>1, <2>2, FormWritten DEF UpdateVendorBusinessRead
<1>2. CASE UpdateVendorBusinessWrite(r)
  <2>1. form[r].target \in Step
    BY <1>2, FormFields DEF UpdateVendorBusinessWrite
  <2>2. FormSound(Idle)
    BY IdleForm DEF FormSound
  <2>3. QED
    BY <1>2, <2>1, <2>2, IdleForm, FormWritten DEF UpdateVendorBusinessWrite
<1>3. CASE SubmitVendorKYCRead(r)
  <2>1. PICK f : f = [op |-> "allowed", expired |-> attempts >= MaxAttempts, late |-> FALSE]
    OBVIOUS
  <2>2. f \in Form
    BY <2>1 DEF Form
  <2>3. FormSound(f)
    <3>1. f.op = "allowed" /\ f.expired = (attempts >= MaxAttempts)
      BY <2>1
    <3>2. attempts < MaxAttempts \/ (attempts >= MaxAttempts /\ ~recent)
      BY <1>3 DEF SubmitVendorKYCRead, MayTry, MaxAttempts
    <3>3. attempts < MaxAttempts => ~(attempts >= MaxAttempts)
      BY DEF MaxAttempts
    <3>4. QED
      BY <3>1, <3>2, <3>3 DEF FormSound
  <2>4. QED
    BY <1>3, <2>1, <2>2, <2>3, FormWritten DEF SubmitVendorKYCRead
<1>4. CASE FormFails(r)
  <2>1. FormSound(Idle)
    BY IdleForm DEF FormSound
  <2>2. QED
    BY <1>4, <2>1, IdleForm, FormWritten DEF FormFails
<1>5. CASE \E status \in {"pending", "verified"} : UpdateVendorKYC(r, status)
  <2>1. FormSound(Idle)
    BY IdleForm DEF FormSound
  <2>2. QED
    BY <1>5, <2>1, IdleForm, Ranks, FormWritten DEF UpdateVendorKYC
<1>6. QED
  BY <1>1, <1>2, <1>3, <1>4, <1>5

LEMMA Resets ==
    ASSUME OnboardingInv, NEW r \in Request, ResetAttempts(r)
    PROVE  OnboardingInv'
<1> USE DEF OnboardingInv, OnboardingTypeOK
<1>1. PICK f : f = [op |-> "allowed", expired |-> FALSE, late |-> FALSE]
  OBVIOUS
<1>2. /\ form' = [form EXCEPT ![r] = f] /\ f \in Form /\ attempts' = 0
      /\ UNCHANGED <<step, kyc, recent, burst>>
  BY <1>1 DEF ResetAttempts, Form
<1>3. PICK late \in BOOLEAN : late = form[r].late
  BY FormFields DEF ResetAttempts
<1>4. /\ overtaken' = overtaken + (IF late THEN 1 ELSE 0)
      /\ late \/ ~recent
  BY <1>3 DEF ResetAttempts, FormsSound, FormSound
<1>5. OnboardingTypeOK'
  BY <1>2, <1>4
<1>6. FormsSound'
  <2> SUFFICES ASSUME NEW q \in Request, NEW d, form'[q] = d PROVE FormSound(d)'
    BY DEF FormsSound
  <2>1. d = IF q = r THEN f ELSE form[q]
    BY <1>2
  <2>2. d.op = "business" => d.target = advanceStep(d.read, "business_details")
    BY <1>1, <2>1 DEF FormsSound, FormSound
  <2>3. d.op = "allowed" => d.late \/ (d.expired => ~recent)
    BY <1>1, <2>1 DEF FormsSound, FormSound
  <2>4. QED
    BY <1>2, <2>2, <2>3 DEF FormSound, MaxAttempts
<1>7. Within' /\ (~recent' => burst' <= overtaken')
  BY <1>2, <1>4 DEF Within, MaxAttempts
<1>8. AttemptsLimited'
  BY <1>2, <1>4 DEF AttemptsLimited, MaxAttempts
<1>9. QED
  BY <1>5, <1>6, <1>7, <1>8

LEMMA Records ==
    ASSUME OnboardingInv, NEW r \in Request, RecordAttempt(r)
    PROVE  OnboardingInv'
<1> USE DEF OnboardingInv, OnboardingTypeOK
<1>1. PICK late \in BOOLEAN : late = form[r].late
  BY FormFields DEF RecordAttempt
<1>2. /\ form[r].op = "allowed" /\ ~form[r].expired
      /\ attempts' = attempts + 1 /\ recent' = TRUE
      /\ burst' = burst + 1
      /\ overtaken' = overtaken + (IF late THEN 1 ELSE 0)
      /\ UNCHANGED <<step, kyc>>
  BY <1>1 DEF RecordAttempt
<1>3. late \/ attempts < MaxAttempts
  BY <1>1, <1>2 DEF FormsSound, FormSound
<1>4. \A q \in Request :
          form'[q] \in Form /\ FormSound(form[q])
          /\ (\/ form'[q] = form[q] /\ form[q].op # "allowed"
              \/ form'[q].op = "verifying"
              \/ form'[q].op = "allowed" /\ form'[q].late)
  <2> SUFFICES ASSUME NEW q \in Request
               PROVE  form'[q] \in Form /\ FormSound(form[q])
                      /\ (\/ form'[q] = form[q] /\ form[q].op # "allowed"
                          \/ form'[q].op = "verifying"
                          \/ form'[q].op = "allowed" /\ form'[q].late)
    OBVIOUS
  <2>1. FormSound(form[q]) /\ form[q] \in Form
    BY DEF FormsSound
  <2>2. PICK v : v = [op |-> "verifying"]
    OBVIOUS
  <2>3. PICK a : a = [op |-> "allowed", expired |-> form[q].expired, late |-> TRUE]
    OBVIOUS
  <2>4. form'[q] = IF q = r THEN v ELSE IF form[q].op = "allowed" THEN a ELSE form[q]
    BY <2>2, <2>3 DEF RecordAttempt
  <2>5. v \in Form /\ v.op = "verifying"
    BY <2>2 DEF Form
  <2>6. form[q].op = "allowed" => a \in Form /\ a.op = "allowed" /\ a.late
    BY <2>1, <2>3, FormFields DEF Form
  <2>7. QED
    BY <2>1, <2>4, <2>5, <2>6
<1>5. form' \in [Request -> Form]
  BY <1>4 DEF RecordAttempt
<1>6. OnboardingTypeOK'
  BY <1>2, <1>5
<1>7. FormsSound'
  <2> SUFFICES ASSUME NEW q \in Request, NEW d, form'[q] = d PROVE FormSound(d)'
    BY DEF FormsSound
  <2>1. \/ d = form[q] /\ d.op # "allowed"
        \/ d.op = "verifying"
        \/ d.op = "allowed" /\ d.late
    BY <1>4
  <2>2. QED
    BY <1>4, <2>1 DEF FormSound
<1>8. Within'
  BY <1>2, <1>3 DEF Within, MaxAttempts
<1>9. AttemptsLimited'
  <2>1. attempts' \in Nat /\ burst' \in Nat /\ overtaken' \in Nat
    BY <1>6
  <2>2. Within' => AttemptsLimited'
    BY <2>1, DayWithinLimit DEF Within, AttemptsLimited, MaxAttempts
  <2>3. QED
    BY <1>8, <2>2
<1>10. QED
  BY <1>2, <1>6, <1>7, <1>8, <1>9

\* A statement on the counter fails and the request goes on.
LEMMA Uncounted ==
    ASSUME OnboardingInv, NEW r \in Request,
           SubmitVendorKYCUnread(r) \/ ResetFails(r) \/ RecordFails(r)
    PROVE  OnboardingInv'
<1>1. CASE SubmitVendorKYCUnread(r) \/ ResetFails(r)
  <2>1. PICK f : f = [op |-> "allowed", expired |-> FALSE, late |-> TRUE]
    OBVIOUS
  <2>2. f \in Form /\ FormSound(f)
    BY <2>1 DEF Form, FormSound
  <2>3. QED
    BY <1>1, <2>1, <2>2, FormWritten DEF SubmitVendorKYCUnread, ResetFails, OnboardingInv, OnboardingTypeOK
<1>2. CASE RecordFails(r)
  <2>1. PICK f : f = [op |-> "verifying"]
    OBVIOUS
  <2>2. f \in Form /\ FormSound(f)
    BY <2>1 DEF Form, FormSound
  <2>3. /\ form' = [form EXCEPT ![r] = f]
        /\ burst' = burst + 1 /\ overtaken' = overtaken + 1
        /\ UNCHANGED <<step, kyc, attempts, recent>>
    BY <1>2, <2>1 DEF RecordFails
  <2>4. OnboardingTypeOK'
    BY <2>2, <2>3 DEF OnboardingInv, OnboardingTypeOK
  <2>5. FormsSound'
    <3> SUFFICES ASSUME NEW q \in Request, NEW d, form'[q] = d PROVE FormSound(d)'
      BY DEF FormsSound
    <3>1. FormSound(d)
      BY <2>2, <2>3 DEF OnboardingInv, OnboardingTypeOK, FormsSound
    <3>2. QED
      BY <2>3, <3>1 DEF FormSound
  <2>6. /\ attempts \in Nat /\ burst \in Nat /\ overtaken \in Nat
        /\ Within /\ (~recent => burst <= overtaken) /\ AttemptsLimited
    BY DEF OnboardingInv, OnboardingTypeOK
  <2>7. Within' /\ (~recent' => burst' <= overtaken') /\ AttemptsLimited'
    BY <2>3, <2>6 DEF Within, AttemptsLimited, MaxAttempts
  <2>8. QED
    BY <2>4, <2>5, <2>7 DEF OnboardingInv
<1>3. QED
  BY <1>1, <1>2

LEMMA OnboardingStep ==
    ASSUME OnboardingInv, OnboardingNext
    PROVE  OnboardingInv'
<1>1. ASSUME DayPasses
      PROVE  OnboardingInv'
  <2>1. recent' = FALSE /\ burst' = 0 /\ overtaken' = 0 /\ UNCHANGED <<step, kyc, attempts, form>>
    BY <1>1 DEF DayPasses
  <2>2. FormsSound'
    <3> SUFFICES ASSUME NEW q \in Request, NEW d, form'[q] = d PROVE FormSound(d)'
      BY DEF FormsSound
    <3>1. FormSound(d)
      BY <2>1 DEF OnboardingInv, FormsSound
    <3>2. QED
      BY <2>1, <3>1 DEF FormSound
  <2>3. attempts' \in Nat /\ OnboardingTypeOK'
    BY <2>1 DEF OnboardingInv, OnboardingTypeOK
  <2>4. Within' /\ AttemptsLimited'
    BY <2>1, <2>3 DEF Within, AttemptsLimited, MaxAttempts
  <2>5. QED
    BY <2>1, <2>2, <2>3, <2>4 DEF OnboardingInv
<1>2. QED
  BY <1>1, FormSteps, Resets, Records, Uncounted DEF OnboardingNext

-----------------------------------------------------------------------------
(* Plans. *)

\* Requests that counted and have not inserted.
Entering(k) == {r \in Request : entry[r].op = "counted" /\ entry[r].kind = k}

RoomFor(k) ==
    \/ \E p \in Held : Limit[p][k] = Unlimited
    \/ \E p \in Held : rows[k] + Cardinality(Entering(k)) <= Limit[p][k] + Cardinality(Request) - 1

\* The limit a request has read is one of a plan the vendor holds.
EntrySound(e) == e.op = "limited" => \E p \in Held : e.limit = Limit[p][e.kind]

EntriesSound == \A r \in Request : EntrySound(entry[r])

PlansInv ==
    /\ OnboardingInv
    /\ PlansTypeOK
    /\ subscription \in Held \cup {NoPlan}
    /\ EntriesSound
    /\ \A k \in Kind : RoomFor(k)
    /\ settings # {} => charged # {}

LEMMA EntryFields ==
    ASSUME NEW e \in Entry
    PROVE  /\ e.op \in {"idle", "limited", "counted"}
           /\ e.op # "idle" => e.kind \in Kind /\ e.limit \in Nat \cup {Unlimited}
           /\ e = Idle <=> e.op = "idle"
  BY DEF Entry, Idle

LEMMA IdleEntry == Idle \in Entry /\ Idle.op = "idle"
  BY DEF Entry, Idle

LEMMA LimitType ==
    ASSUME NEW p \in Plan, NEW k \in Kind
    PROVE  Limit[p][k] \in Nat \cup {Unlimited} /\ Limit[p][k] \in Int
  BY PlansAssumption DEF Unlimited

LEMMA HeldPlans ==
    ASSUME PlansTypeOK
    PROVE  Free \in Held /\ Held \subseteq Plan
  BY PlansAssumption DEF Held, PlansTypeOK

LEMMA InForce ==
    ASSUME PlansInv
    PROVE  PlanInForce \in Held
  BY HeldPlans DEF PlansInv, PlanInForce

LEMMA EnteringFinite ==
    ASSUME NEW k
    PROVE  /\ IsFiniteSet(Entering(k)) /\ Cardinality(Entering(k)) \in Nat
           /\ Cardinality(Request) \in Nat /\ Cardinality(Entering(k)) <= Cardinality(Request)
<1>1. Entering(k) \subseteq Request
  BY DEF Entering
<1>2. QED
  BY <1>1, RequestAssumption, FS_Subset, FS_CardinalityType

\* Rows there or on the way have not become more.
LEMMA RoomKept ==
    ASSUME PlansInv, NEW k \in Kind, charged \subseteq charged',
           rows[k]' \in Int, Cardinality(Entering(k))' \in Int,
           rows[k]' + Cardinality(Entering(k))' <= rows[k] + Cardinality(Entering(k))
    PROVE  RoomFor(k)'
<1>1. Held \subseteq Held' /\ Held \subseteq Plan
  BY HeldPlans DEF Held, PlansInv
<1>2. RoomFor(k) /\ rows[k] \in Nat
  BY DEF PlansInv, PlansTypeOK
<1>3. CASE \E p \in Held : Limit[p][k] = Unlimited
  BY <1>1, <1>3 DEF RoomFor
<1>4. ASSUME NEW p \in Held, rows[k] + Cardinality(Entering(k)) <= Limit[p][k] + Cardinality(Request) - 1
      PROVE  RoomFor(k)'
  <2>1. p \in Held' /\ Limit[p][k] \in Int
    BY <1>1, <1>4, LimitType
  <2>2. rows[k]' + Cardinality(Entering(k))' <= Limit[p][k] + Cardinality(Request) - 1
    BY <1>2, <1>4, <2>1, EnteringFinite
  <2>3. QED
    BY <2>1, <2>2 DEF RoomFor
<1>5. QED
  BY <1>2, <1>3, <1>4 DEF RoomFor

\* A row of entry is written.
LEMMA EntryWritten ==
    ASSUME PlansTypeOK, NEW r \in Request, NEW e \in Entry, EntrySound(e), EntriesSound,
           entry' = [entry EXCEPT ![r] = e], charged' = charged
    PROVE  /\ entry' \in [Request -> Entry] /\ EntriesSound'
           /\ e.op # "counted" => \A k \in Kind : Entering(k)' = Entering(k) \ {r}
<1>1. \A q \in Request : entry'[q] = IF q = r THEN e ELSE entry[q]
  BY DEF PlansTypeOK
<1>2. entry' \in [Request -> Entry]
  BY DEF PlansTypeOK
<1>3. EntriesSound'
  <2> SUFFICES ASSUME NEW q \in Request, NEW d, entry'[q] = d PROVE EntrySound(d)'
    BY DEF EntriesSound
  <2>1. EntrySound(d)
    BY <1>1 DEF EntriesSound
  <2>2. QED
    BY <2>1 DEF EntrySound, Held
<1>4. e.op # "counted" => \A k \in Kind : Entering(k)' = Entering(k) \ {r}
  BY <1>1 DEF Entering
<1>5. QED
  BY <1>2, <1>3, <1>4

\* Nothing is read or entered, and no plan is lost.
LEMMA EntriesKept ==
    ASSUME PlansInv, OnboardingInv', PlansTypeOK', entry' = entry, charged \subseteq charged',
           subscription' \in Held' \cup {NoPlan}, settings' # {} => charged' # {},
           \A k \in Kind : rows[k]' <= rows[k]
    PROVE  PlansInv'
<1>1. Held \subseteq Held'
  BY DEF Held
<1>2. EntriesSound'
  <2> SUFFICES ASSUME NEW q \in Request, NEW d, entry'[q] = d PROVE EntrySound(d)'
    BY DEF EntriesSound
  <2>1. EntrySound(d)
    BY DEF PlansInv, EntriesSound
  <2>2. QED
    BY <1>1, <2>1 DEF EntrySound
<1>3. ASSUME NEW k \in Kind
      PROVE  RoomFor(k)'
  <2>1. Cardinality(Entering(k))' = Cardinality(Entering(k))
    BY DEF Entering
  <2>2. rows[k]' \in Nat /\ rows[k] \in Nat
    BY DEF PlansInv, PlansTypeOK
  <2>3. QED
    BY <2>1, <2>2, RoomKept, EnteringFinite
<1>4. QED
  BY <1>2, <1>3 DEF PlansInv

LEMMA StepMarked ==
    ASSUME OnboardingInv, step' \in Step, UNCHANGED <<kyc, attempts, recent, form, burst, overtaken>>
    PROVE  OnboardingInv'
<1>1. FormsSound'
  <2> SUFFICES ASSUME NEW q \in Request, NEW d, form'[q] = d PROVE FormSound(d)'
    BY DEF FormsSound
  <2>1. FormSound(d)
    BY DEF OnboardingInv, FormsSound
  <2>2. QED
    BY <2>1 DEF FormSound
<1>2. QED
  BY <1>1 DEF OnboardingInv, OnboardingTypeOK, Within, AttemptsLimited

LEMMA Untouched ==
    ASSUME PlansInv, UNCHANGED onboardingVars
    PROVE  OnboardingInv'
<1>1. step' \in Step
  BY DEF PlansInv, OnboardingInv, OnboardingTypeOK, onboardingVars
<1>2. QED
  BY <1>1, StepMarked DEF PlansInv, onboardingVars

LEMMA PlanSteps ==
    ASSUME PlansInv, NEW p \in Plan, Charge(p) \/ SelectPlan(p)
    PROVE  PlansInv'
<1> USE DEF PlansTypeOK
<1>1. CASE Charge(p)
  <2>1. /\ charged' = charged \cup {p} /\ subscription' = subscription
        /\ UNCHANGED <<onboardingVars, rows, invited, settings, entry>>
    BY <1>1 DEF Charge
  <2>2. OnboardingInv'
    BY <2>1, Untouched
  <2>3. PlansTypeOK'
    BY <2>1, <2>2 DEF PlansInv, OnboardingInv
  <2>4. \A k \in Kind : rows[k]' <= rows[k]
    BY <2>1 DEF PlansInv
  <2>5. subscription' \in Held' \cup {NoPlan} /\ (settings' # {} => charged' # {})
    BY <2>1 DEF PlansInv, Held
  <2>6. QED
    BY <2>1, <2>2, <2>3, <2>4, <2>5, EntriesKept
<1>2. CASE SelectPlan(p)
  <2>1. /\ p \in Held /\ subscription' = p /\ MarkPlanSelected
        /\ UNCHANGED <<charged, rows, invited, settings, entry, kyc, attempts, recent, form, burst, overtaken>>
    BY <1>2 DEF SelectPlan, VerifyTransaction, Held
  <2>2. step' \in Step
    BY <2>1, Ranks DEF MarkPlanSelected, PlansInv, OnboardingInv, OnboardingTypeOK
  <2>3. OnboardingInv'
    BY <2>1, <2>2, StepMarked DEF PlansInv
  <2>4. PlansTypeOK'
    BY <2>1, <2>3 DEF PlansInv, OnboardingInv
  <2>5. \A k \in Kind : rows[k]' <= rows[k]
    BY <2>1 DEF PlansInv
  <2>6. subscription' \in Held' \cup {NoPlan} /\ (settings' # {} => charged' # {})
    BY <2>1 DEF PlansInv, Held
  <2>7. QED
    BY <2>1, <2>3, <2>4, <2>5, <2>6, EntriesKept
<1>3. QED
  BY <1>1, <1>2

\* Members and settings come and go without an entry.
LEMMA LooseRows ==
    ASSUME PlansInv, NEW k, NEW s,
           \/ InviteStaff \/ RemoveInvited
           \/ k \in Kind /\ DeleteRow(k)
           \/ s \in Setting /\ SaveSetting(s)
    PROVE  PlansInv'
<1>1. /\ UNCHANGED <<onboardingVars, charged, subscription, entry>>
      /\ invited' \in Nat /\ rows' \in [Kind -> Nat] /\ \A kk \in Kind : rows'[kk] <= rows[kk]
      /\ settings' \subseteq Setting /\ (settings' # {} => charged # {})
  <2>1. CASE InviteStaff \/ RemoveInvited
    BY <2>1 DEF InviteStaff, RemoveInvited, PlansInv, PlansTypeOK
  <2>2. CASE k \in Kind /\ DeleteRow(k)
    BY <2>2 DEF DeleteRow, PlansInv, PlansTypeOK
  <2>3. CASE s \in Setting /\ SaveSetting(s)
    <3>1. PlanInForce \in charged
      BY <2>3, InForce DEF SaveSetting, Held
    <3>2. QED
      BY <2>3, <3>1 DEF SaveSetting, PlansInv, PlansTypeOK
  <2>4. QED
    BY <2>1, <2>2, <2>3
<1>2. OnboardingInv'
  BY <1>1, Untouched
<1>3. PlansTypeOK'
  BY <1>1, <1>2 DEF PlansInv, PlansTypeOK, OnboardingInv
<1>4. subscription' \in Held' \cup {NoPlan}
  BY <1>1 DEF PlansInv, Held
<1>5. QED
  BY <1>1, <1>2, <1>3, <1>4, EntriesKept

\* A request reads the limit of a plan the vendor holds, or gives up.
LEMMA EntryBegins ==
    ASSUME PlansInv, NEW r \in Request, NEW k,
           \/ k \in Kind /\ ForStoreID(r, k)
           \/ EntryFails(r)
    PROVE  PlansInv'
<1>1. PICK e \in Entry : entry' = [entry EXCEPT ![r] = e] /\ e.op # "counted" /\ EntrySound(e)
  <2>1. CASE k \in Kind /\ ForStoreID(r, k)
    <3>1. PICK e : e = [op |-> "limited", kind |-> k, limit |-> Limit[PlanInForce][k]]
      OBVIOUS
    <3>2. PlanInForce \in Held /\ PlanInForce \in Plan
      BY InForce, HeldPlans DEF PlansInv
    <3>3. e \in Entry
      BY <2>1, <3>1, <3>2, LimitType DEF Entry
    <3>4. EntrySound(e) /\ e.op # "counted"
      BY <3>1, <3>2 DEF EntrySound
    <3>5. QED
      BY <2>1, <3>1, <3>3, <3>4 DEF ForStoreID
  <2>2. CASE EntryFails(r)
    BY <2>2, IdleEntry DEF EntryFails, EntrySound
  <2>3. QED
    BY <2>1, <2>2
<1>2. UNCHANGED <<onboardingVars, charged, subscription, rows, invited, settings>>
  BY DEF ForStoreID, EntryFails
<1>3. entry' \in [Request -> Entry] /\ EntriesSound' /\ \A kk \in Kind : Entering(kk)' = Entering(kk) \ {r}
  BY <1>1, <1>2, EntryWritten DEF PlansInv
<1>4. OnboardingInv'
  BY <1>2, Untouched
<1>5. PlansTypeOK'
  BY <1>2, <1>3, <1>4 DEF PlansInv, PlansTypeOK, OnboardingInv
<1>6. ASSUME NEW kk \in Kind
      PROVE  RoomFor(kk)'
  <2>1. PICK S, T : S = Entering(kk) /\ T = Entering(kk)'
    OBVIOUS
  <2>2. T \subseteq S /\ IsFiniteSet(S)
    BY <1>3, <2>1, EnteringFinite
  <2>3. Cardinality(T) <= Cardinality(S) /\ Cardinality(T) \in Nat /\ Cardinality(S) \in Nat
    BY <2>2, FS_Subset, FS_CardinalityType
  <2>4. rows[kk]' = rows[kk] /\ rows[kk] \in Nat
    BY <1>2 DEF PlansInv, PlansTypeOK
  <2>5. QED
    BY <1>2, <2>1, <2>3, <2>4, RoomKept
<1>7. QED
  BY <1>2, <1>3, <1>4, <1>5, <1>6 DEF PlansInv, Held

\* Who finds room found fewer rows than the plan allows, and only the other requests can
\* have found the same.
LEMMA Counting ==
    ASSUME PlansInv, NEW r \in Request, CountRows(r)
    PROVE  PlansInv'
<1>1. PICK k \in Kind, q \in Held : entry[r].kind = k /\ entry[r].limit = Limit[q][k]
  BY EntryFields, IdleEntry DEF CountRows, PlansInv, PlansTypeOK, EntriesSound, EntrySound
<1>2. PICK full : full = [op |-> "counted", kind |-> k, limit |-> entry[r].limit]
  OBVIOUS
<1>3. entry[r].op = "limited" /\ entry[r].limit \in Nat \cup {Unlimited}
  BY EntryFields DEF CountRows, PlansInv, PlansTypeOK
<1>4. full \in Entry /\ full.op = "counted" /\ full.kind = k
  BY <1>2, <1>3 DEF Entry
<1>5. PICK e \in {full, Idle} :
          /\ entry' = [entry EXCEPT ![r] = e]
          /\ e = full => HasRoom(entry[r].limit, k)
  <2>1. entry' = [entry EXCEPT ![r] = IF HasRoom(entry[r].limit, k) THEN full ELSE Idle]
    BY <1>1, <1>2 DEF CountRows
  <2>2. Idle # full
    BY <1>4, IdleEntry
  <2>3. CASE HasRoom(entry[r].limit, k)
    BY <2>1, <2>3
  <2>4. CASE ~HasRoom(entry[r].limit, k)
    BY <2>1, <2>2, <2>4
  <2>5. QED
    BY <2>3, <2>4
<1>6. e \in Entry /\ EntrySound(e)
  BY <1>4, IdleEntry DEF EntrySound
<1>7. UNCHANGED <<onboardingVars, charged, subscription, rows, invited, settings>>
  BY DEF CountRows
<1>8. /\ entry' \in [Request -> Entry] /\ EntriesSound'
      /\ e.op # "counted" => \A kk \in Kind : Entering(kk)' = Entering(kk) \ {r}
  BY <1>5, <1>6, <1>7, EntryWritten DEF PlansInv
<1>9. OnboardingInv'
  BY <1>7, Untouched
<1>10. PlansTypeOK'
  BY <1>7, <1>8, <1>9 DEF PlansInv, PlansTypeOK, OnboardingInv
<1>11. Held' = Held
  BY <1>7 DEF Held
<1>12. ASSUME NEW kk \in Kind
       PROVE  RoomFor(kk)'
  <2>1. rows[kk]' = rows[kk] /\ rows[kk] \in Nat
    BY <1>7 DEF PlansInv, PlansTypeOK
  <2>2. CASE e = full /\ kk = k
    <3>1. entry[r].limit = Unlimited \/ Counted(k) < entry[r].limit
      BY <1>5, <2>2 DEF HasRoom
    <3>2. CASE entry[r].limit = Unlimited
      BY <1>1, <1>11, <2>2, <3>2 DEF RoomFor
    <3>3. CASE Counted(k) < entry[r].limit
      <4>1. rows[k] < Limit[q][k] /\ Limit[q][k] \in Int
        <5>1. invited \in Nat /\ rows[k] \in Nat
          BY <2>1, <2>2 DEF PlansInv, PlansTypeOK
        <5>2. Limit[q][k] \in Int
          BY LimitType, HeldPlans DEF PlansInv
        <5>3. QED
          BY <1>1, <3>3, <5>1, <5>2 DEF Counted
      <4>2. PICK c \in Nat : c = Cardinality(Entering(k)') /\ c <= Cardinality(Request)
        <5>1. Entering(k)' \subseteq Request
          BY DEF Entering
        <5>2. QED
          BY <5>1, RequestAssumption, FS_Subset, FS_CardinalityType
      <4>3. Cardinality(Request) \in Nat
        BY EnteringFinite
      <4>4. rows[kk]' + Cardinality(Entering(kk)') <= Limit[q][kk] + Cardinality(Request) - 1
        BY <2>1, <2>2, <4>1, <4>2, <4>3
      <4>5. QED
        BY <1>11, <4>4 DEF RoomFor
    <3>4. QED
      BY <3>1, <3>2, <3>3
  <2>3. CASE e # full \/ kk # k
    <3>1. PICK S, T : S = Entering(kk) /\ T = Entering(kk)'
      OBVIOUS
    <3>2. T \subseteq S /\ IsFiniteSet(S)
      <4>1. \A x \in Request : entry'[x] = IF x = r THEN e ELSE entry[x]
        BY <1>5 DEF PlansInv, PlansTypeOK
      <4>2. ~(e.op = "counted" /\ e.kind = kk)
        BY <1>4, <2>3, IdleEntry
      <4>3. QED
        BY <3>1, <4>1, <4>2, EnteringFinite DEF Entering
    <3>3. Cardinality(T) <= Cardinality(S) /\ Cardinality(T) \in Nat /\ Cardinality(S) \in Nat
      BY <3>2, FS_Subset, FS_CardinalityType
    <3>4. QED
      BY <1>7, <2>1, <3>1, <3>3, RoomKept
  <2>4. QED
    BY <2>2, <2>3
<1>13. QED
  BY <1>7, <1>8, <1>9, <1>10, <1>11, <1>12 DEF PlansInv

\* A row inserted is one less on the way.
LEMMA Inserting ==
    ASSUME PlansInv, NEW r \in Request, InsertRow(r)
    PROVE  PlansInv'
<1>1. PICK k \in Kind : entry[r].op = "counted" /\ entry[r].kind = k
  BY EntryFields DEF InsertRow, PlansInv, PlansTypeOK
<1>2. /\ rows' = [rows EXCEPT ![k] = @ + 1] /\ entry' = [entry EXCEPT ![r] = Idle]
      /\ charged' = charged /\ UNCHANGED <<onboardingVars, subscription, invited, settings>>
  BY <1>1 DEF InsertRow
<1>3. /\ entry' \in [Request -> Entry] /\ EntriesSound'
      /\ \A kk \in Kind : Entering(kk)' = Entering(kk) \ {r}
  BY <1>2, IdleEntry, EntryWritten DEF PlansInv, EntrySound
<1>4. OnboardingInv'
  BY <1>2, Untouched
<1>5. PlansTypeOK'
  BY <1>2, <1>3, <1>4 DEF PlansInv, PlansTypeOK, OnboardingInv
<1>6. ASSUME NEW kk \in Kind
      PROVE  RoomFor(kk)'
  <2>1. PICK S, T : S = Entering(kk) /\ T = Entering(kk)'
    OBVIOUS
  <2>2. T = S \ {r} /\ IsFiniteSet(S) /\ Cardinality(S) \in Nat
    BY <1>3, <2>1, EnteringFinite
  <2>3. Cardinality(T) = IF r \in S THEN Cardinality(S) - 1 ELSE Cardinality(S)
    BY <2>2, FS_RemoveElement
  <2>4. r \in S <=> kk = k
    BY <1>1, <2>1 DEF Entering
  <2>5. rows[kk]' = IF kk = k THEN rows[kk] + 1 ELSE rows[kk]
    BY <1>2 DEF PlansInv, PlansTypeOK
  <2>6. rows[kk] \in Nat
    BY DEF PlansInv, PlansTypeOK
  <2>7. rows[kk]' + Cardinality(T) = rows[kk] + Cardinality(S) /\ Cardinality(T) \in Int
    BY <2>2, <2>3, <2>4, <2>5, <2>6
  <2>8. rows[kk]' \in Int
    BY <2>5, <2>6
  <2>9. charged \subseteq charged'
    BY <1>2
  <2>10. /\ Cardinality(Entering(kk))' \in Int
         /\ rows[kk]' + Cardinality(Entering(kk))' <= rows[kk] + Cardinality(Entering(kk))
    BY <2>1, <2>2, <2>6, <2>7
  <2>11. QED
    BY <2>8, <2>9, <2>10, RoomKept
<1>7. QED
  BY <1>2, <1>3, <1>4, <1>5, <1>6 DEF PlansInv, Held

-----------------------------------------------------------------------------
(* Theorems. *)

LEMMA PlansStart ==
    ASSUME PlansInit, OnboardingInit
    PROVE  PlansInv
<1>1. OnboardingTypeOK
  BY IdleForm, Ranks DEF OnboardingInit, OnboardingTypeOK
<1>2. OnboardingInv
  BY <1>1, IdleForm DEF OnboardingInv, OnboardingInit, FormsSound, FormSound, Within, AttemptsLimited, MaxAttempts
<1>3. PlansTypeOK /\ EntriesSound
  BY <1>1, IdleEntry DEF PlansInit, PlansTypeOK, EntriesSound, EntrySound
<1>4. ASSUME NEW k \in Kind
      PROVE  RoomFor(k)
  <2>1. Entering(k) = {}
    BY IdleEntry DEF PlansInit, Entering
  <2>2. Cardinality(Entering(k)) = 0 /\ Cardinality(Request) \in Nat
    BY <2>1, FS_EmptySet, EnteringFinite
  <2>3. rows[k] = 0 /\ Limit[Free][k] \in Int /\ Limit[Free][k] > 0
    BY PlansAssumption, LimitType DEF PlansInit, Kind
  <2>4. rows[k] + Cardinality(Entering(k)) <= Limit[Free][k] + Cardinality(Request) - 1
    BY <2>2, <2>3
  <2>5. QED
    BY <1>3, <2>4, HeldPlans DEF RoomFor
<1>5. QED
  BY <1>2, <1>3, <1>4 DEF PlansInv, PlansInit

LEMMA PlansStep ==
    ASSUME PlansInv,
           [PlansNext \/ (OnboardingNext /\ UNCHANGED plansVars)]_<<plansVars, onboardingVars>>
    PROVE  PlansInv'
<1>1. CASE PlansNext
  BY <1>1, PlanSteps, LooseRows, EntryBegins, Counting, Inserting DEF PlansNext
<1>2. ASSUME OnboardingInv', UNCHANGED plansVars
      PROVE  PlansInv'
  <2>1. UNCHANGED <<charged, subscription, rows, invited, settings, entry>>
    BY <1>2 DEF plansVars
  <2>2. PlansTypeOK' /\ \A k \in Kind : rows[k]' <= rows[k]
    BY <1>2, <2>1 DEF PlansInv, PlansTypeOK, OnboardingInv
  <2>3. subscription' \in Held' \cup {NoPlan} /\ (settings' # {} => charged' # {})
    BY <2>1 DEF PlansInv, Held
  <2>4. QED
    BY <1>2, <2>1, <2>2, <2>3, EntriesKept
<1>3. CASE OnboardingNext /\ UNCHANGED plansVars
  BY <1>2, <1>3, OnboardingStep DEF PlansInv
<1>4. CASE UNCHANGED <<plansVars, onboardingVars>>
  BY <1>2, <1>4, Untouched
<1>5. QED
  BY <1>1, <1>3, <1>4

\* The types of onboarding and plans, what the forms and entries in flight know, and room
\* for the rows on the way, hold throughout.
THEOREM PlansInvariant == PlansSpec => []PlansInv
<1>1. PlansInit /\ OnboardingInit => PlansInv
  BY PlansStart
<1>2. /\ PlansInv
      /\ [PlansNext \/ (OnboardingNext /\ UNCHANGED plansVars)]_<<plansVars, onboardingVars>>
      => PlansInv'
  BY PlansStep
<1>3. QED
  BY <1>1, <1>2, PTL DEF PlansSpec

\* No vendor tries their identity more than three times a day, but for the forms let in on
\* another count than the row's: each of those is worth one more round.
THEOREM AttemptsAreLimited == PlansSpec => []AttemptsLimited
<1>1. PlansInv => AttemptsLimited
  BY DEF PlansInv, OnboardingInv
<1>2. QED
  BY <1>1, PlansInvariant, PTL

LEMMA LimitsKept == PlansInv => PlanLimitsHold
<1> SUFFICES ASSUME PlansInv PROVE PlanLimitsHold
  OBVIOUS
<1>1. ASSUME NEW k \in Kind, NEW p \in Held,
             rows[k] + Cardinality(Entering(k)) <= Limit[p][k] + Cardinality(Request) - 1
      PROVE  rows[k] <= Limit[p][k] + Cardinality(Request) - 1
  <2>1. rows[k] \in Nat /\ Limit[p][k] \in Int
    BY LimitType, HeldPlans DEF PlansInv, PlansTypeOK
  <2>2. QED
    BY <1>1, <2>1, EnteringFinite
<1>2. \A k \in Kind : RoomFor(k)
  BY DEF PlansInv
<1>3. QED
  BY <1>1, <1>2 DEF PlanLimitsHold, RoomFor, PlansInv

\* No vendor has more products, or more members added by the dashboard's form, than the best
\* plan they paid for allows and one for each other request, and none has a paid setting
\* without having paid.  What the store page's form adds is not bounded.
THEOREM PlansAreKept == PlansSpec => []PlanLimitsHold
<1>1. PlansInv => PlanLimitsHold
  BY LimitsKept
<1>2. QED
  BY <1>1, PlansInvariant, PTL

LEMMA StepsForward ==
    ASSUME PlansInv,
           [PlansNext \/ (OnboardingNext /\ UNCHANGED plansVars)]_<<plansVars, onboardingVars>>
    PROVE  [ \/ Rank[step'] >= Rank[step]
             \/ \E r \in Request : form[r].op = "business" /\ form[r].read # step /\ form'[r] = Idle ]_step
<1> DEFINE Forward == Rank[step'] >= Rank[step]
           Overwritten == \E r \in Request : form[r].op = "business" /\ form[r].read # step /\ form'[r] = Idle
<1> SUFFICES Forward \/ Overwritten \/ UNCHANGED step
  OBVIOUS
<1>1. step \in Step /\ form \in [Request -> Form]
  BY DEF PlansInv, OnboardingInv, OnboardingTypeOK
<1>2. ASSUME NEW r \in Request, UpdateVendorBusinessWrite(r)
      PROVE  Forward \/ Overwritten
  <2>1. form[r].op = "business" /\ form'[r] = Idle /\ step' = form[r].target
    BY <1>1, <1>2 DEF UpdateVendorBusinessWrite
  <2>2. form[r].target = advanceStep(form[r].read, "business_details")
    BY <2>1 DEF PlansInv, OnboardingInv, FormsSound, FormSound
  <2>3. CASE form[r].read = step
    BY <1>1, <2>1, <2>2, <2>3, AdvanceForward
  <2>4. CASE form[r].read # step
    BY <2>1, <2>4
  <2>5. QED
    BY <2>3, <2>4
<1>3. ASSUME NEW r \in Request, NEW status \in {"pending", "verified"}, UpdateVendorKYC(r, status)
      PROVE  Forward
  BY <1>1, <1>3, Ranks DEF UpdateVendorKYC
<1>4. ASSUME NEW p \in Plan, SelectPlan(p)
      PROVE  Forward
  BY <1>1, <1>4, Ranks DEF SelectPlan, MarkPlanSelected
<1>5. CASE OnboardingNext
  <2>1. ASSUME NEW r \in Request,
               \/ UpdateVendorBusinessRead(r) \/ SubmitVendorKYCRead(r) \/ ResetAttempts(r)
               \/ SubmitVendorKYCUnread(r) \/ ResetFails(r) \/ RecordAttempt(r) \/ RecordFails(r)
               \/ FormFails(r)
        PROVE  UNCHANGED step
    BY <2>1 DEF UpdateVendorBusinessRead, SubmitVendorKYCRead, SubmitVendorKYCUnread, ResetAttempts,
                ResetFails, RecordAttempt, RecordFails, FormFails
  <2>2. DayPasses => UNCHANGED step
    BY DEF DayPasses
  <2>3. QED
    BY <1>2, <1>3, <1>5, <2>1, <2>2 DEF OnboardingNext
<1>6. CASE PlansNext
  <2>1. ASSUME NEW r \in Request, NEW k, NEW p, NEW s,
               \/ Charge(p) \/ ForStoreID(r, k) \/ CountRows(r) \/ InsertRow(r) \/ EntryFails(r)
               \/ DeleteRow(k) \/ SaveSetting(s)
        PROVE  UNCHANGED step
    BY <2>1 DEF Charge, ForStoreID, CountRows, InsertRow, EntryFails, DeleteRow, SaveSetting, onboardingVars
  <2>2. ASSUME NEW k, NEW p, NEW s,
               \/ Charge(p) \/ InviteStaff \/ RemoveInvited \/ DeleteRow(k) \/ SaveSetting(s)
        PROVE  UNCHANGED step
    BY <2>2 DEF Charge, InviteStaff, RemoveInvited, DeleteRow, SaveSetting, onboardingVars
  <2>3. QED
    BY <1>4, <1>6, <2>1, <2>2 DEF PlansNext
<1>7. CASE UNCHANGED <<plansVars, onboardingVars>>
  BY <1>7 DEF onboardingVars
<1>8. QED
  BY <1>5, <1>6, <1>7

\* Onboarding goes back only by a business form that was read at another step than the one
\* it overwrites.
THEOREM OnboardingGoesForward == PlansSpec => StepsGoForward
<1>1. ASSUME PlansInv,
             [PlansNext \/ (OnboardingNext /\ UNCHANGED plansVars)]_<<plansVars, onboardingVars>>
      PROVE  [ \/ Rank[step'] >= Rank[step]
               \/ \E r \in Request : form[r].op = "business" /\ form[r].read # step /\ form'[r] = Idle ]_step
  BY <1>1, StepsForward
<1>2. QED
  BY <1>1, PlansInvariant, PTL DEF PlansSpec, StepsGoForward

=============================================================================
