----------------------------- MODULE Newsletter ------------------------------
(***************************************************************************)
(* A campaign to the subscribers of a store's newsletter: the request      *)
(* checks the status, loads the list, marks the campaign and answers; a    *)
(* goroutine then mails the list one by one and marks the campaign again.  *)
(***************************************************************************)
EXTENDS Requests

CONSTANTS
    Reader,
    MaxAgain        \* bound: sends that an unlucky order lets through

VARIABLES
    subscribers,    \* those who have not unsubscribed
    campaign,       \* email_campaigns.status
    sending,        \* sending[r]: the send request r has begun
    mailed,         \* mailed[x]: copies reader x was sent
    again           \* history: sends that overtaking, or a lost mark, let through

newsletterVars == <<subscribers, campaign, sending, mailed, again>>

-----------------------------------------------------------------------------

Sending ==
    {Idle}
    \cup [op: {"checked"}, late: BOOLEAN]
    \cup [op: {"loaded"}, late: BOOLEAN, to: SUBSET Reader]
    \cup [op: {"mailing"}, to: SUBSET Reader]

NewsletterTypeOK ==
    /\ subscribers \subseteq Reader
    /\ campaign \in {"none", "draft", "sending", "sent"}
    /\ sending \in [Request -> Sending]
    /\ mailed \in [Reader -> Nat] /\ again \in Nat

NewsletterInit ==
    /\ subscribers = {} /\ campaign = "none"
    /\ sending = [r \in Request |-> Idle]
    /\ mailed = [x \in Reader |-> 0] /\ again = 0

-----------------------------------------------------------------------------

SubscribeReader(x) ==
    /\ x \notin subscribers
    /\ subscribers' = subscribers \cup {x}
    /\ UNCHANGED <<campaign, sending, mailed, again>>

Unsubscribe(x) ==
    /\ x \in subscribers
    /\ subscribers' = subscribers \ {x}
    /\ UNCHANGED <<campaign, sending, mailed, again>>

CreateCampaign ==
    /\ campaign = "none"
    /\ campaign' = "draft"
    /\ UNCHANGED <<subscribers, sending, mailed, again>>

\* Mutant: only a campaign that has been sent is refused.
MayStart == campaign # "sent"

MaySend == campaign \notin {"sent", "sending"}

CheckCampaign(r) ==
    /\ sending[r] = Idle /\ campaign # "none"
    /\ MaySend
    /\ sending' = [sending EXCEPT ![r] = [op |-> "checked", late |-> FALSE]]
    /\ UNCHANGED <<subscribers, campaign, mailed, again>>

LoadSubscribers(r) ==
    /\ sending[r].op = "checked" /\ subscribers # {}
    /\ sending' = [sending EXCEPT ![r] = [op |-> "loaded", late |-> sending[r].late, to |-> subscribers]]
    /\ UNCHANGED <<subscribers, campaign, mailed, again>>

\* No subscribers, or a statement fails.
SendRefused(r) ==
    /\ sending[r].op \in {"checked", "loaded"}
    /\ sending' = [sending EXCEPT ![r] = Idle]
    /\ UNCHANGED <<subscribers, campaign, mailed, again>>

Toll(late) == IF late THEN 1 ELSE 0

\* The mark asks nothing of the status, and its error is dropped.
MarkSending(r, marked) ==
    LET extra == again + Toll(sending[r].late) + Toll(~marked)
    IN  /\ sending[r].op = "loaded" /\ extra <= MaxAgain
        /\ campaign' = IF marked THEN "sending" ELSE campaign
        /\ again' = extra
        /\ sending' = [q \in Request |->
                          IF q = r THEN [op |-> "mailing", to |-> sending[r].to]
                          ELSE IF sending[q].op \in {"checked", "loaded"} THEN [sending[q] EXCEPT !.late = TRUE]
                          ELSE sending[q]]
        /\ UNCHANGED <<subscribers, mailed>>

\* A mail that fails is counted and not tried again.
SendCampaignMail(r, x, arrived) ==
    /\ sending[r].op = "mailing" /\ x \in sending[r].to
    /\ mailed' = IF arrived THEN [mailed EXCEPT ![x] = @ + 1] ELSE mailed
    /\ sending' = [sending EXCEPT ![r] = [op |-> "mailing", to |-> sending[r].to \ {x}]]
    /\ UNCHANGED <<subscribers, campaign, again>>

MarkSent(r, marked) ==
    /\ sending[r].op = "mailing" /\ sending[r].to = {}
    /\ campaign' = IF marked THEN "sent" ELSE campaign
    /\ sending' = [sending EXCEPT ![r] = Idle]
    /\ UNCHANGED <<subscribers, mailed, again>>

\* What was being mailed is not taken up again.
RestartOrders ==
    /\ \E r \in Request : sending[r] # Idle
    /\ sending' = [r \in Request |-> Idle]
    /\ UNCHANGED <<subscribers, campaign, mailed, again>>

NewsletterNext ==
    \/ \E x \in Reader : SubscribeReader(x)
    \/ \E x \in Reader : Unsubscribe(x)
    \/ CreateCampaign
    \/ \E r \in Request : CheckCampaign(r)
    \/ \E r \in Request : LoadSubscribers(r)
    \/ \E r \in Request : SendRefused(r)
    \/ \E r \in Request, marked \in BOOLEAN : MarkSending(r, marked)
    \/ \E r \in Request, x \in Reader, arrived \in BOOLEAN : SendCampaignMail(r, x, arrived)
    \/ \E r \in Request, marked \in BOOLEAN : MarkSent(r, marked)
    \/ RestartOrders

NewsletterSpec == NewsletterInit /\ [][NewsletterNext]_newsletterVars

-----------------------------------------------------------------------------

\* A subscriber is sent a campaign once, but for sends that passed the check before
\* another one's mark was there, or because a mark was lost.
MailedOnce == \A x \in Reader : mailed[x] <= 1 + again

=============================================================================
