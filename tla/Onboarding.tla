----------------------------- MODULE Onboarding ------------------------------
(***************************************************************************)
(* A vendor's way through onboarding: the resumable step on their profile  *)
(* and the verification of their identity, which may be tried three times  *)
(* a day.                                                                  *)
(***************************************************************************)
EXTENDS Requests

CONSTANT MaxBurst       \* bound: attempts explored without a day's pause, and on record

VARIABLES
    step,           \* vendor_profiles.onboarding_step
    kyc,            \* kyc_status
    attempts,       \* kyc_attempts
    recent,         \* kyc_last_attempt_at is within 24 hours
    form,           \* form[r]: the form request r is handling
    burst,          \* history: attempts since the last day without one on record
    overtaken       \* history: of those, the ones let in on another count than the row's

onboardingVars == <<step, kyc, attempts, recent, form, burst, overtaken>>

-----------------------------------------------------------------------------

Rank == [account_created |-> 0, plan_selected |-> 1, business_details |-> 2, kyc_submitted |-> 3]

Step == DOMAIN Rank

MaxAttempts == 3

Form ==
    {Idle}
    \cup [op: {"business"}, read: Step, target: Step]
    \cup [op: {"allowed"}, expired: BOOLEAN, late: BOOLEAN]
    \cup [op: {"verifying"}]

OnboardingTypeOK ==
    /\ step \in Step
    /\ kyc \in {"none", "pending", "verified"}
    /\ attempts \in Nat
    /\ recent \in BOOLEAN
    /\ form \in [Request -> Form]
    /\ burst \in Nat /\ overtaken \in Nat

OnboardingInit ==
    /\ step = "account_created" /\ kyc = "none"
    /\ attempts = 0 /\ recent = FALSE
    /\ form = [r \in Request |-> Idle]
    /\ burst = 0 /\ overtaken = 0

-----------------------------------------------------------------------------

\* The map has no plan_selected: Go reads 0 for it, the rank of account_created.
StepOrder(s) == IF s = "plan_selected" THEN 0 ELSE Rank[s]

\* Mutant: the form's own step is written.
AlwaysTarget(current, target) == target

advanceStep(current, target) == IF StepOrder(current) < StepOrder(target) THEN target ELSE current

\* SelectPlan's second statement; its error is dropped.
MarkPlanSelected == step' \in {step, IF step = "account_created" THEN "plan_selected" ELSE step}

UpdateVendorBusinessRead(r) ==
    /\ form[r] = Idle
    /\ form' = [form EXCEPT ![r] = [op |-> "business", read |-> step,
                                    target |-> advanceStep(step, "business_details")]]
    /\ UNCHANGED <<step, kyc, attempts, recent, burst, overtaken>>

UpdateVendorBusinessWrite(r) ==
    /\ form[r].op = "business"
    /\ step' = form[r].target
    /\ form' = [form EXCEPT ![r] = Idle]
    /\ UNCHANGED <<kyc, attempts, recent, burst, overtaken>>

\* Mutant: one attempt more.
MayTryOnceMore == attempts <= MaxAttempts \/ ~recent

\* Refused with three attempts recorded, until a day after the last.
MayTry == attempts < MaxAttempts \/ ~recent

SubmitVendorKYCRead(r) ==
    /\ form[r] = Idle
    /\ MayTry
    /\ form' = [form EXCEPT ![r] = [op |-> "allowed", expired |-> attempts >= MaxAttempts, late |-> FALSE]]
    /\ UNCHANGED <<step, kyc, attempts, recent, burst, overtaken>>

\* The counter cannot be read. The error is dropped and the vendor taken to have none.
SubmitVendorKYCUnread(r) ==
    /\ form[r] = Idle
    /\ form' = [form EXCEPT ![r] = [op |-> "allowed", expired |-> FALSE, late |-> TRUE]]
    /\ UNCHANGED <<step, kyc, attempts, recent, burst, overtaken>>

\* The window is over: the counter starts again.
ResetAttempts(r) ==
    /\ form[r].op = "allowed" /\ form[r].expired
    /\ attempts' = 0
    /\ overtaken' = overtaken + (IF form[r].late THEN 1 ELSE 0)
    /\ form' = [form EXCEPT ![r] = [op |-> "allowed", expired |-> FALSE, late |-> FALSE]]
    /\ UNCHANGED <<step, kyc, recent, burst>>

\* Nor is it looked at whether the counter was written.
ResetFails(r) ==
    /\ form[r].op = "allowed" /\ form[r].expired
    /\ form' = [form EXCEPT ![r] = [op |-> "allowed", expired |-> FALSE, late |-> TRUE]]
    /\ UNCHANGED <<step, kyc, attempts, recent, burst, overtaken>>

RecordAttempt(r) ==
    /\ form[r].op = "allowed" /\ ~form[r].expired
    /\ burst < MaxBurst /\ attempts < MaxBurst
    /\ attempts' = attempts + 1
    /\ recent' = TRUE
    /\ burst' = burst + 1
    /\ overtaken' = overtaken + (IF form[r].late THEN 1 ELSE 0)
    /\ form' = [q \in Request |-> IF q = r THEN [op |-> "verifying"]
                                  ELSE IF form[q].op = "allowed"
                                  THEN [op |-> "allowed", expired |-> form[q].expired, late |-> TRUE]
                                  ELSE form[q]]
    /\ UNCHANGED <<step, kyc>>

RecordFails(r) ==
    /\ form[r].op = "allowed" /\ ~form[r].expired
    /\ burst < MaxBurst
    /\ burst' = burst + 1 /\ overtaken' = overtaken + 1
    /\ form' = [form EXCEPT ![r] = [op |-> "verifying"]]
    /\ UNCHANGED <<step, kyc, attempts, recent>>

\* Smile ID matched, or did not, or could not be asked: the last two wait for a human.
UpdateVendorKYC(r, status) ==
    /\ form[r].op = "verifying"
    /\ kyc' = status
    /\ step' = "kyc_submitted"
    /\ form' = [form EXCEPT ![r] = Idle]
    /\ UNCHANGED <<attempts, recent, burst, overtaken>>

\* Another statement fails, or the process stops.
FormFails(r) ==
    /\ form[r] # Idle
    /\ form' = [form EXCEPT ![r] = Idle]
    /\ UNCHANGED <<step, kyc, attempts, recent, burst, overtaken>>

\* A day passes without an attempt on record.
DayPasses ==
    /\ recent
    /\ recent' = FALSE
    /\ burst' = 0 /\ overtaken' = 0
    /\ UNCHANGED <<step, kyc, attempts, form>>

OnboardingNext ==
    \/ \E r \in Request : UpdateVendorBusinessRead(r)
    \/ \E r \in Request : UpdateVendorBusinessWrite(r)
    \/ \E r \in Request : SubmitVendorKYCRead(r)
    \/ \E r \in Request : SubmitVendorKYCUnread(r)
    \/ \E r \in Request : ResetAttempts(r)
    \/ \E r \in Request : ResetFails(r)
    \/ \E r \in Request : RecordAttempt(r)
    \/ \E r \in Request : RecordFails(r)
    \/ \E r \in Request, status \in {"pending", "verified"} : UpdateVendorKYC(r, status)
    \/ \E r \in Request : FormFails(r)
    \/ DayPasses

-----------------------------------------------------------------------------

\* A day's attempts at verification stay within the limit, but for requests let in on a
\* count that is not the row's, because another request was counted after it was read or
\* the counter was not read or written: each of those is worth one more round.
AttemptsLimited == burst <= MaxAttempts * (1 + overtaken)

\* Onboarding goes back only by a form that was read at an earlier step.
StepsGoForward ==
    [][ \/ Rank[step'] >= Rank[step]
        \/ \E r \in Request : form[r].op = "business" /\ form[r].read # step /\ form'[r] = Idle ]_step

=============================================================================
