------------------------------- MODULE Accounts -------------------------------
(***************************************************************************)
(* The auth service: accounts, the one-time codes that open a session or   *)
(* reset a password, and refresh tokens.  The tokens a login leads to are  *)
(* a family, named here by its first token.  A request reads a row without *)
(* a lock, decides, and writes in a later transaction, so two requests may *)
(* decide on the same row.                                                 *)
(***************************************************************************)
EXTENDS Integers, FiniteSets

CONSTANTS
    User,           \* accounts, by e-mail
    GoogleSub,      \* accounts at Google
    AppleSub,       \* accounts at Apple
    Token,          \* rows of refresh_tokens, numbered as they are issued
    Code,           \* rows of otp_sessions
    Worker,
    MaxOTPAttempts,
    NoUser

ASSUME AccountsAssumption ==
    /\ MaxOTPAttempts \in Nat \ {0}
    /\ IsFiniteSet(Worker)
    /\ Token \subseteq Nat
    /\ NoUser \notin User

VARIABLES
    users,          \* users[u]: the version of its password hash, 0 for NULL
    identities,     \* identities[s]: the account a provider account is linked to
    codes,          \* codes[c]: the otp_sessions row
    tokens,         \* tokens[t]: the refresh_tokens row
    ended,          \* families a logout, a reset or a reuse was meant to end
    request         \* request[w]: what a request in flight has read

rows == <<users, identities, codes, tokens, ended>>
accountVars == <<users, identities, codes, tokens, ended, request>>

-----------------------------------------------------------------------------

NoRow == [state |-> "none"]

\* hash: 0 for an account without a password; bcrypt salts, so no hash comes twice.
UserRow == {NoRow} \cup [state: {"active"}, hash: Nat]

\* uses: history, how many requests the code has served.
CodeRow ==
    {NoRow} \cup [state: {"sent"}, user: User, purpose: {"login", "reset"},
                  attempts: Nat, used: BOOLEAN, expired: BOOLEAN, uses: Nat]

\* overtaken: history, the request had read a password that has changed since, or a
\* parent token that is revoked since.
TokenRow ==
    {NoRow} \cup [state: {"issued"}, user: User, family: Token,
                  revoked: BOOLEAN, expired: BOOLEAN, overtaken: BOOLEAN]

Idle == [op |-> "idle"]

Request ==
    {Idle}
    \cup [op: {"login"}, user: User, hash: Nat]
    \cup [op: {"guess", "verified"}, code: Code]
    \cup [op: {"rotate"}, token: Token]

AccountsTypeOK ==
    /\ users \in [User -> UserRow]
    /\ identities \in [GoogleSub \cup AppleSub -> User \cup {NoUser}]
    /\ codes \in [Code -> CodeRow]
    /\ tokens \in [Token -> TokenRow]
    /\ ended \in SUBSET Token
    /\ request \in [Worker -> Request]

AccountsInit ==
    /\ users = [u \in User |-> NoRow]
    /\ identities = [s \in GoogleSub \cup AppleSub |-> NoUser]
    /\ codes = [c \in Code |-> NoRow]
    /\ tokens = [t \in Token |-> NoRow]
    /\ ended = {}
    /\ request = [w \in Worker |-> Idle]

-----------------------------------------------------------------------------
(* Rows. *)

Exists(u) == users[u].state = "active"
Issued(t) == tokens[t].state = "issued"
Sent(c) == codes[c].state = "sent"

NextRow(t) == ~Issued(t) /\ \A s \in Token : s < t => Issued(s)

Live(t) == Issued(t) /\ ~tokens[t].revoked /\ ~tokens[t].expired

FamilyTokens(f) == {t \in Token : Issued(t) /\ tokens[t].family = f}

\* An account that is not there is created, one that is keeps its password.
UpsertUserByEmail(u) ==
    users' = [users EXCEPT ![u] = IF Exists(u) THEN @ ELSE [state |-> "active", hash |-> 0]]

SetPasswordHash(u, h) == users' = [users EXCEPT ![u] = [state |-> "active", hash |-> h]]

Revoked(row) == [row EXCEPT !.revoked = TRUE]

\* tokens with those in S revoked and t issued.
WithRevoked(S) == [t \in Token |-> IF t \in S THEN Revoked(tokens[t]) ELSE tokens[t]]

\* Mutant: the family names the account.
NewTokenOfUser(u, f, late) ==
    [state |-> "issued", user |-> u, family |-> u,
     revoked |-> FALSE, expired |-> FALSE, overtaken |-> late]

NewToken(u, f, late) ==
    [state |-> "issued", user |-> u, family |-> f,
     revoked |-> FALSE, expired |-> FALSE, overtaken |-> late]

\* A session opened now: the first token of a family of its own.
OpenSession(u, t) ==
    /\ NextRow(t)
    /\ tokens' = [tokens EXCEPT ![t] = NewToken(u, t, FALSE)]
    /\ UNCHANGED ended

\* Mutant: only the token presented again is revoked.
RevokePresented(f) == UNCHANGED tokens /\ ended' = ended \cup {f}

RevokeTokenFamily(f) ==
    /\ tokens' = WithRevoked({t \in FamilyTokens(f) : ~tokens[t].revoked})
    /\ ended' = ended \cup {f}

TokensOf(u) == {t \in Token : Issued(t) /\ tokens[t].user = u}

RevokeAllRefreshTokensForUser(u) ==
    /\ tokens' = WithRevoked({t \in TokensOf(u) : ~tokens[t].revoked})
    /\ ended' = ended \cup {tokens[t].family : t \in TokensOf(u)}

Start(w, r) == request[w] = Idle /\ request' = [request EXCEPT ![w] = r]

Finish(w) == request' = [request EXCEPT ![w] = Idle]

-----------------------------------------------------------------------------
(* Signing in. *)

\* A taken e-mail violates the unique key and the transaction is rolled back.
Register(u, t) ==
    /\ ~Exists(u)
    /\ SetPasswordHash(u, 1)
    /\ OpenSession(u, t)
    /\ UNCHANGED <<identities, codes, request>>

\* The right password: a wrong one changes nothing.
LoginRead(w, u) ==
    /\ Exists(u) /\ users[u].hash # 0
    /\ Start(w, [op |-> "login", user |-> u, hash |-> users[u].hash])
    /\ UNCHANGED rows

LoginCommit(w, t) ==
    /\ request[w].op = "login"
    /\ NextRow(t)
    /\ LET u    == request[w].user
           late == users[u].hash # request[w].hash
       IN  /\ tokens' = [tokens EXCEPT ![t] = NewToken(u, t, late)]
           /\ ended' = IF late THEN ended \cup {t} ELSE ended
    /\ Finish(w)
    /\ UNCHANGED <<users, identities, codes>>

\* auth_identities: one account per provider account, one provider account per account.
Link(Subs, s, u) ==
    \/ identities[s] # NoUser /\ UNCHANGED identities
    \/ /\ identities[s] = NoUser
       /\ \A r \in Subs : identities[r] # u
       /\ identities' = [identities EXCEPT ![s] = u]

\* The session is for the account with the address the provider names.
AuthGoogle(s, u, t) ==
    /\ s \in GoogleSub
    /\ UpsertUserByEmail(u)
    /\ Link(GoogleSub, s, u)
    /\ OpenSession(u, t)
    /\ UNCHANGED <<codes, request>>

AuthApple(s, u, t) ==
    /\ s \in AppleSub
    /\ Link(AppleSub, s, u)
    /\ UpsertUserByEmail(u)
    /\ OpenSession(u, t)
    /\ UNCHANGED <<codes, request>>

-----------------------------------------------------------------------------
(* One-time codes. *)

NewCode(u, purpose) ==
    [state |-> "sent", user |-> u, purpose |-> purpose,
     attempts |-> 0, used |-> FALSE, expired |-> FALSE, uses |-> 0]

CreateOTPSession(c, u, purpose) ==
    /\ ~Sent(c)
    /\ codes' = [codes EXCEPT ![c] = NewCode(u, purpose)]
    /\ UNCHANGED <<users, identities, tokens, ended, request>>

RequestOTP(c, u) == CreateOTPSession(c, u, "login")

\* Without an account that has a password, nothing is stored and nothing sent.
RequestPasswordReset(c, u) ==
    /\ Exists(u) /\ users[u].hash # 0
    /\ CreateOTPSession(c, u, "reset")

\* Mutant: the attempts are not looked at.
ValidUnlessUsed(c) == ~codes[c].used /\ ~codes[c].expired

ValidateForVerification(c) ==
    ~codes[c].used /\ ~codes[c].expired /\ codes[c].attempts < MaxOTPAttempts

ReadCode(w, c, purpose) ==
    /\ Sent(c) /\ codes[c].purpose = purpose
    /\ ValidateForVerification(c)
    /\ Start(w, [op |-> "guess", code |-> c])
    /\ UNCHANGED rows

VerifyOTPRead(w, c) == ReadCode(w, c, "login")
ResetPasswordRead(w, c) == ReadCode(w, c, "reset")

Guessed(row) == [row EXCEPT !.attempts = @ + 1]

Spent(row) == [row EXCEPT !.used = TRUE, !.uses = @ + 1]

\* The attempt is counted by a statement of its own before the code is compared:
\* right says how that turns out.
IncrementOTPAttempts(w, right) ==
    /\ request[w].op = "guess"
    /\ codes' = [codes EXCEPT ![request[w].code] = Guessed(@)]
    /\ request' = [request EXCEPT ![w] =
                     IF right THEN [op |-> "verified", code |-> request[w].code] ELSE Idle]
    /\ UNCHANGED <<users, identities, tokens, ended>>

MarkOTPSessionUsed(c) == codes' = [codes EXCEPT ![c] = Spent(@)]

VerifyOTPCommit(w, t) ==
    /\ request[w].op = "verified"
    /\ LET c == request[w].code
       IN  /\ codes[c].purpose = "login"
           /\ UpsertUserByEmail(codes[c].user)
           /\ MarkOTPSessionUsed(c)
           /\ OpenSession(codes[c].user, t)
    /\ Finish(w)
    /\ UNCHANGED identities

ResetPasswordCommit(w) ==
    /\ request[w].op = "verified"
    /\ LET c == request[w].code
           u == codes[c].user
       IN  /\ codes[c].purpose = "reset" /\ Exists(u)
           /\ SetPasswordHash(u, users[u].hash + 1)
           /\ MarkOTPSessionUsed(c)
           /\ RevokeAllRefreshTokensForUser(u)
    /\ Finish(w)
    /\ UNCHANGED identities

-----------------------------------------------------------------------------
(* Refresh tokens. *)

RefreshRead(w, t) ==
    /\ Live(t)
    /\ Start(w, [op |-> "rotate", token |-> t])
    /\ UNCHANGED rows

\* A revoked token presented again, by whoever, or by the gateway's retry of a request
\* whose answer was lost.  A revocation that fails is not looked at and changes nothing.
RefreshReuse(t) ==
    /\ Issued(t) /\ tokens[t].revoked
    /\ RevokeTokenFamily(tokens[t].family)
    /\ UNCHANGED <<users, identities, codes, request>>

RefreshCommit(w, t) ==
    /\ request[w].op = "rotate"
    /\ NextRow(t)
    /\ LET p == request[w].token
       IN  tokens' = [tokens EXCEPT
                        ![p] = Revoked(@),
                        ![t] = NewToken(tokens[p].user, tokens[p].family, tokens[p].revoked)]
    /\ Finish(w)
    /\ UNCHANGED <<users, identities, codes, ended>>

\* Logging out ends the family when the token presented is the one in use.
Logout(t) ==
    /\ Issued(t)
    /\ tokens' = WithRevoked({t})
    /\ ended' = IF Live(t) THEN ended \cup {tokens[t].family} ELSE ended
    /\ UNCHANGED <<users, identities, codes, request>>

-----------------------------------------------------------------------------
(* Time and failures. *)

Stale(row) == [row EXCEPT !.expired = TRUE]

TokenExpires(t) ==
    /\ Live(t)
    /\ tokens' = [tokens EXCEPT ![t] = Stale(@)]
    /\ UNCHANGED <<users, identities, codes, ended, request>>

CodeExpires(c) ==
    /\ Sent(c) /\ ~codes[c].expired
    /\ codes' = [codes EXCEPT ![c] = Stale(@)]
    /\ UNCHANGED <<users, identities, tokens, ended, request>>

\* A statement fails, the client goes away, or the service restarts.
Fail(w) ==
    /\ request[w] # Idle
    /\ Finish(w)
    /\ UNCHANGED rows

AccountsNext ==
    \/ \E u \in User, t \in Token : Register(u, t)
    \/ \E w \in Worker, u \in User : LoginRead(w, u)
    \/ \E w \in Worker, t \in Token : LoginCommit(w, t)
    \/ \E s \in GoogleSub, u \in User, t \in Token : AuthGoogle(s, u, t)
    \/ \E s \in AppleSub, u \in User, t \in Token : AuthApple(s, u, t)
    \/ \E c \in Code, u \in User : RequestOTP(c, u)
    \/ \E c \in Code, u \in User : RequestPasswordReset(c, u)
    \/ \E w \in Worker, c \in Code : VerifyOTPRead(w, c)
    \/ \E w \in Worker, c \in Code : ResetPasswordRead(w, c)
    \/ \E w \in Worker, right \in BOOLEAN : IncrementOTPAttempts(w, right)
    \/ \E w \in Worker, t \in Token : VerifyOTPCommit(w, t)
    \/ \E w \in Worker : ResetPasswordCommit(w)
    \/ \E w \in Worker, t \in Token : RefreshRead(w, t)
    \/ \E t \in Token : RefreshReuse(t)
    \/ \E w \in Worker, t \in Token : RefreshCommit(w, t)
    \/ \E t \in Token : Logout(t)
    \/ \E t \in Token : TokenExpires(t)
    \/ \E c \in Code : CodeExpires(c)
    \/ \E w \in Worker : Fail(w)

AccountsSpec == AccountsInit /\ [][AccountsNext]_accountVars

-----------------------------------------------------------------------------

Disturbed(f) == \E t \in FamilyTokens(f) : tokens[t].overtaken

LiveIn(f) == {t \in FamilyTokens(f) : Live(t)}

\* A rotation replaces its token, and a reset, a reuse and a logout end what they
\* mean to end: a family has one live token until it is ended and none from then on.
\* Only a request overtaken between its read and its commit can leave more.
SessionsEnd ==
    \A f \in Token :
        ~Disturbed(f) =>
            /\ \A s \in LiveIn(f) : \A t \in LiveIn(f) : s = t
            /\ f \in ended => LiveIn(f) = {}

\* However requests overlap, a code is guessed at fewer than MaxOTPAttempts times plus
\* once per other request in flight, and serves at most one request of each worker.
CodesGuarded ==
    \A c \in Code :
        Sent(c) =>
            /\ codes[c].attempts < MaxOTPAttempts + Cardinality(Worker)
            /\ codes[c].uses <= Cardinality(Worker)

=============================================================================
