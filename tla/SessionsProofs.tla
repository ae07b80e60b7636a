---------------------------- MODULE SessionsProofs ----------------------------
(***************************************************************************)
(* Theorems about what is held open for a client.  Accounts: types, the    *)
(* guard on one-time codes, and that sessions end, for any number of       *)
(* accounts, tokens, codes and requests.  Live events: nothing is lost     *)
(* between the list and the stream, for any number of events and any       *)
(* length of the list and of a client's channel.                           *)
(***************************************************************************)
EXTENDS Sessions, FiniteSetTheorems, SequenceTheorems, TLAPS

IssuedRow == [state: {"issued"}, user: User, family: Token,
              revoked: BOOLEAN, expired: BOOLEAN, overtaken: BOOLEAN]

SentRow == [state: {"sent"}, user: User, purpose: {"login", "reset"},
            attempts: Nat, used: BOOLEAN, expired: BOOLEAN, uses: Nat]

-----------------------------------------------------------------------------
(* Rows and requests. *)

LEMMA TokenCases ==
    ASSUME AccountsTypeOK, NEW t \in Token
    PROVE  /\ Issued(t) => tokens[t] \in IssuedRow
           /\ ~Issued(t) => tokens[t] = NoRow
  BY DEF AccountsTypeOK, Issued, TokenRow, IssuedRow, NoRow

LEMMA CodeCases ==
    ASSUME AccountsTypeOK, NEW c \in Code
    PROVE  /\ Sent(c) => codes[c] \in SentRow
           /\ ~Sent(c) => codes[c] = NoRow
  BY DEF AccountsTypeOK, Sent, CodeRow, SentRow, NoRow

LEMMA UserCases ==
    ASSUME AccountsTypeOK, NEW u \in User, Exists(u)
    PROVE  users[u].hash \in Nat
  BY DEF AccountsTypeOK, Exists, UserRow, NoRow

LEMMA RequestCases ==
    ASSUME AccountsTypeOK, NEW w \in Worker
    PROVE  /\ request[w].op = "login" => request[w].user \in User /\ request[w].hash \in Nat
           /\ request[w].op \in {"guess", "verified"} => request[w].code \in Code
           /\ request[w].op = "rotate" => request[w].token \in Token
  BY DEF AccountsTypeOK, Request, Idle

LEMMA RevokedFields ==
    ASSUME NEW r \in IssuedRow
    PROVE  /\ Revoked(r) \in IssuedRow
           /\ Revoked(r).state = "issued" /\ Revoked(r).revoked = TRUE
           /\ Revoked(r).user = r.user /\ Revoked(r).family = r.family /\ Revoked(r).overtaken = r.overtaken
  BY DEF IssuedRow, Revoked

LEMMA NewTokenFields ==
    ASSUME NEW u \in User, NEW f \in Token, NEW late \in BOOLEAN
    PROVE  /\ NewToken(u, f, late) \in IssuedRow
           /\ NewToken(u, f, late).state = "issued"
           /\ NewToken(u, f, late).user = u
           /\ NewToken(u, f, late).family = f
           /\ NewToken(u, f, late).overtaken = late
           /\ NewToken(u, f, late).revoked = FALSE
  BY DEF IssuedRow, NewToken

LEMMA CodeFields ==
    ASSUME NEW r \in SentRow
    PROVE  /\ Guessed(r) \in SentRow
           /\ Guessed(r).attempts = r.attempts + 1 /\ Guessed(r).used = r.used /\ Guessed(r).uses = r.uses
           /\ Spent(r) \in SentRow
           /\ Spent(r).attempts = r.attempts /\ Spent(r).used = TRUE /\ Spent(r).uses = r.uses + 1
           /\ Stale(r) \in SentRow
           /\ Stale(r).attempts = r.attempts /\ Stale(r).used = r.used /\ Stale(r).uses = r.uses
<1>1. r.attempts + 1 \in Nat /\ r.uses + 1 \in Nat
  BY DEF SentRow
<1>2. /\ Guessed(r) \in SentRow
      /\ Guessed(r).attempts = r.attempts + 1 /\ Guessed(r).used = r.used /\ Guessed(r).uses = r.uses
  BY <1>1 DEF SentRow, Guessed
<1>3. /\ Spent(r) \in SentRow
      /\ Spent(r).attempts = r.attempts /\ Spent(r).used = TRUE /\ Spent(r).uses = r.uses + 1
  BY <1>1 DEF SentRow, Spent
<1>4. /\ Stale(r) \in SentRow
      /\ Stale(r).attempts = r.attempts /\ Stale(r).used = r.used /\ Stale(r).uses = r.uses
  BY DEF SentRow, Stale
<1>5. QED
  BY <1>2, <1>3, <1>4

LEMMA NewCodeFields ==
    ASSUME NEW u \in User, NEW p \in {"login", "reset"}
    PROVE  /\ NewCode(u, p) \in SentRow
           /\ NewCode(u, p).state = "sent"
           /\ NewCode(u, p).attempts = 0 /\ NewCode(u, p).used = FALSE /\ NewCode(u, p).uses = 0
  BY DEF SentRow, NewCode

LEMMA StaleTokenFields ==
    ASSUME NEW r \in IssuedRow
    PROVE  /\ Stale(r) \in IssuedRow
           /\ Stale(r).state = "issued"
           /\ Stale(r).user = r.user /\ Stale(r).family = r.family
           /\ Stale(r).overtaken = r.overtaken /\ Stale(r).revoked = r.revoked
  BY DEF IssuedRow, Stale

LEMMA WithRevokedType ==
    ASSUME AccountsTypeOK, NEW S, \A t \in S : t \in Token /\ Issued(t)
    PROVE  WithRevoked(S) \in [Token -> TokenRow]
<1> SUFFICES ASSUME NEW t \in Token
             PROVE  (IF t \in S THEN Revoked(tokens[t]) ELSE tokens[t]) \in TokenRow
  BY DEF WithRevoked
<1>1. IssuedRow \subseteq TokenRow
  BY DEF IssuedRow, TokenRow
<1>2. CASE t \in S
  BY <1>1, <1>2, TokenCases, RevokedFields
<1>3. CASE t \notin S
  BY <1>3 DEF AccountsTypeOK
<1>4. QED
  BY <1>2, <1>3

-----------------------------------------------------------------------------
(* Types. *)

\* What a request in flight has read is still there: rows are never deleted.
RequestsSound ==
    \A w \in Worker :
        /\ request[w].op \in {"guess", "verified"} => Sent(request[w].code)
        /\ request[w].op = "rotate" => Issued(request[w].token)

LEMMA StartType ==
    ASSUME AccountsTypeOK, NEW w \in Worker, NEW r \in Request,
           Start(w, r) \/ request' = [request EXCEPT ![w] = r]
    PROVE  request' \in [Worker -> Request]
  BY DEF AccountsTypeOK, Start

LEMMA FinishType ==
    ASSUME AccountsTypeOK, NEW w \in Worker, Finish(w)
    PROVE  request' \in [Worker -> Request]
  BY DEF AccountsTypeOK, Finish, Request

LEMMA OpenSessionType ==
    ASSUME AccountsTypeOK, NEW u \in User, NEW t \in Token, OpenSession(u, t)
    PROVE  tokens' \in [Token -> TokenRow] /\ ended' \in SUBSET Token
<1>1. NewToken(u, t, FALSE) \in TokenRow
  BY NewTokenFields DEF IssuedRow, TokenRow
<1>2. QED
  BY <1>1 DEF AccountsTypeOK, OpenSession

LEMMA UpsertType ==
    ASSUME AccountsTypeOK, NEW u \in User, UpsertUserByEmail(u)
    PROVE  users' \in [User -> UserRow]
  BY DEF AccountsTypeOK, UpsertUserByEmail, UserRow

LEMMA SetPasswordType ==
    ASSUME AccountsTypeOK, NEW u \in User, NEW h \in Nat, SetPasswordHash(u, h)
    PROVE  users' \in [User -> UserRow]
  BY DEF AccountsTypeOK, SetPasswordHash, UserRow

LEMMA LinkType ==
    ASSUME AccountsTypeOK, NEW S \in SUBSET (GoogleSub \cup AppleSub), NEW s \in S, NEW u \in User, Link(S, s, u)
    PROVE  identities' \in [GoogleSub \cup AppleSub -> User \cup {NoUser}]
  BY DEF AccountsTypeOK, Link

LEMMA CodeUpdateType ==
    ASSUME AccountsTypeOK, NEW c \in Code, NEW r \in SentRow, codes' = [codes EXCEPT ![c] = r]
    PROVE  codes' \in [Code -> CodeRow]
  BY DEF AccountsTypeOK, SentRow, CodeRow

LEMMA TokenUpdateType ==
    ASSUME AccountsTypeOK, NEW t \in Token, NEW r \in IssuedRow, tokens' = [tokens EXCEPT ![t] = r]
    PROVE  tokens' \in [Token -> TokenRow]
  BY DEF AccountsTypeOK, IssuedRow, TokenRow

\* One lemma for the actions that open a session from no request in flight.
LEMMA SignInTypes ==
    ASSUME AccountsTypeOK, NEW u \in User, NEW t \in Token, NEW s,
           Register(u, t) \/ AuthGoogle(s, u, t) \/ AuthApple(s, u, t)
    PROVE  AccountsTypeOK'
<1>1. tokens' \in [Token -> TokenRow] /\ ended' \in SUBSET Token
  BY OpenSessionType DEF Register, AuthGoogle, AuthApple
<1>2. users' \in [User -> UserRow]
  BY SetPasswordType, UpsertType DEF Register, AuthGoogle, AuthApple
<1>3. identities' \in [GoogleSub \cup AppleSub -> User \cup {NoUser}]
  <2>1. GoogleSub \in SUBSET (GoogleSub \cup AppleSub) /\ AppleSub \in SUBSET (GoogleSub \cup AppleSub)
    OBVIOUS
  <2>2. CASE Register(u, t)
    BY <2>2 DEF Register, AccountsTypeOK
  <2>3. CASE AuthGoogle(s, u, t)
    <3>1. s \in GoogleSub /\ Link(GoogleSub, s, u)
      BY <2>3 DEF AuthGoogle
    <3>2. QED
      BY <2>1, <3>1, LinkType
  <2>4. CASE AuthApple(s, u, t)
    <3>1. s \in AppleSub /\ Link(AppleSub, s, u)
      BY <2>4 DEF AuthApple
    <3>2. QED
      BY <2>1, <3>1, LinkType
  <2>5. QED
    BY <2>2, <2>3, <2>4
<1>4. UNCHANGED <<codes, request>>
  BY DEF Register, AuthGoogle, AuthApple
<1>5. QED
  BY <1>1, <1>2, <1>3, <1>4 DEF AccountsTypeOK

LEMMA ReadTypes ==
    ASSUME AccountsTypeOK, NEW w \in Worker, NEW u, NEW c, NEW t,
           \/ u \in User /\ LoginRead(w, u)
           \/ c \in Code /\ (VerifyOTPRead(w, c) \/ ResetPasswordRead(w, c))
           \/ t \in Token /\ RefreshRead(w, t)
           \/ Fail(w)
    PROVE  AccountsTypeOK'
<1>1. request' \in [Worker -> Request]
  <2>1. CASE u \in User /\ LoginRead(w, u)
    <3>1. users[u].hash \in Nat
      BY <2>1, UserCases DEF LoginRead
    <3>2. [op |-> "login", user |-> u, hash |-> users[u].hash] \in Request
      BY <2>1, <3>1 DEF Request
    <3>3. QED
      BY <2>1, <3>2, StartType DEF LoginRead
  <2>2. CASE c \in Code /\ (VerifyOTPRead(w, c) \/ ResetPasswordRead(w, c))
    <3>1. [op |-> "guess", code |-> c] \in Request
      BY <2>2 DEF Request
    <3>2. QED
      BY <2>2, <3>1, StartType DEF VerifyOTPRead, ResetPasswordRead, ReadCode
  <2>3. CASE t \in Token /\ RefreshRead(w, t)
    <3>1. [op |-> "rotate", token |-> t] \in Request
      BY <2>3 DEF Request
    <3>2. QED
      BY <2>3, <3>1, StartType DEF RefreshRead
  <2>4. CASE Fail(w)
    BY <2>4, FinishType DEF Fail
  <2>5. QED
    BY <2>1, <2>2, <2>3, <2>4
<1>2. UNCHANGED rows
  BY DEF LoginRead, VerifyOTPRead, ResetPasswordRead, ReadCode, RefreshRead, Fail
<1>3. QED
  BY <1>1, <1>2 DEF AccountsTypeOK, rows

LEMMA CodeTypes ==
    ASSUME AccountsTypeOK, RequestsSound,
           NEW w, NEW c, NEW u, NEW right \in BOOLEAN,
           \/ c \in Code /\ u \in User /\ (RequestOTP(c, u) \/ RequestPasswordReset(c, u))
           \/ w \in Worker /\ IncrementOTPAttempts(w, right)
           \/ c \in Code /\ CodeExpires(c)
    PROVE  AccountsTypeOK'
<1>1. CASE c \in Code /\ u \in User /\ (RequestOTP(c, u) \/ RequestPasswordReset(c, u))
  <2>1. PICK p \in {"login", "reset"} : CreateOTPSession(c, u, p)
    BY <1>1 DEF RequestOTP, RequestPasswordReset
  <2>2. codes' = [codes EXCEPT ![c] = NewCode(u, p)]
    BY <2>1 DEF CreateOTPSession
  <2>3. codes' \in [Code -> CodeRow]
    BY <1>1, <2>2, NewCodeFields, CodeUpdateType
  <2>4. QED
    BY <2>1, <2>3 DEF CreateOTPSession, AccountsTypeOK
<1>2. CASE w \in Worker /\ IncrementOTPAttempts(w, right)
  <2> DEFINE d == request[w].code
  <2>1. d \in Code /\ codes[d] \in SentRow
    BY <1>2, RequestCases, CodeCases DEF IncrementOTPAttempts, RequestsSound
  <2>2. codes' = [codes EXCEPT ![d] = Guessed(codes[d])]
    BY <1>2 DEF IncrementOTPAttempts
  <2>3. codes' \in [Code -> CodeRow]
    BY <2>1, <2>2, CodeFields, CodeUpdateType
  <2>4. (IF right THEN [op |-> "verified", code |-> d] ELSE Idle) \in Request
    BY <2>1 DEF Request
  <2>5. request' \in [Worker -> Request]
    BY <1>2, <2>4 DEF IncrementOTPAttempts, AccountsTypeOK
  <2>6. QED
    BY <1>2, <2>3, <2>5 DEF IncrementOTPAttempts, AccountsTypeOK
<1>3. CASE c \in Code /\ CodeExpires(c)
  <2>1. codes[c] \in SentRow /\ codes' = [codes EXCEPT ![c] = Stale(codes[c])]
    BY <1>3, CodeCases DEF CodeExpires
  <2>2. codes' \in [Code -> CodeRow]
    BY <1>3, <2>1, CodeFields, CodeUpdateType
  <2>3. QED
    BY <1>3, <2>2 DEF CodeExpires, AccountsTypeOK
<1>4. QED
  BY <1>1, <1>2, <1>3

-----------------------------------------------------------------------------
(* Families. *)

\* Token t could still be rotated, expired or not.
Held(t, f) == Issued(t) /\ tokens[t].family = f /\ tokens[t].revoked = FALSE

FamilyNamed(t) ==
    \E f \in Token : /\ tokens[t].family = f
                     /\ Issued(f) /\ tokens[f].family = f /\ tokens[f].user = tokens[t].user

\* A family is named by a token of the same account that is a family's first.
FamiliesSound ==
    /\ \A f \in ended : Issued(f)
    /\ \A t \in Token : Issued(t) => FamilyNamed(t)

\* SessionsEnd without the clock: what has not been revoked, whether or not it expired.
EndInv ==
    \A f \in Token :
        \/ Disturbed(f)
        \/ /\ \A s, t \in Token : Held(s, f) /\ Held(t, f) => s = t
           /\ f \in ended => \A t \in Token : ~Held(t, f)

LEMMA Revocation ==
    ASSUME AccountsTypeOK, FamiliesSound, EndInv,
           NEW S \in SUBSET Token, \A t \in S : Issued(t),
           NEW E \in SUBSET Token, \A f \in E : Issued(f),
           \A f \in E : Disturbed(f) \/ \A t \in Token : Held(t, f) => t \in S,
           tokens' = WithRevoked(S), ended' = ended \cup E
    PROVE  FamiliesSound' /\ EndInv'
<1>1. \A t \in Token :
        /\ Issued(t)' <=> Issued(t)
        /\ Issued(t) => /\ tokens'[t].user = tokens[t].user
                        /\ tokens'[t].family = tokens[t].family
                        /\ tokens'[t].overtaken = tokens[t].overtaken
                        /\ tokens'[t].revoked = IF t \in S THEN TRUE ELSE tokens[t].revoked
  <2> SUFFICES ASSUME NEW t \in Token
               PROVE  /\ Issued(t)' <=> Issued(t)
                      /\ Issued(t) => /\ tokens'[t].user = tokens[t].user
                                      /\ tokens'[t].family = tokens[t].family
                                      /\ tokens'[t].overtaken = tokens[t].overtaken
                                      /\ tokens'[t].revoked = IF t \in S THEN TRUE ELSE tokens[t].revoked
    OBVIOUS
  <2>1. tokens'[t] = IF t \in S THEN Revoked(tokens[t]) ELSE tokens[t]
    BY DEF WithRevoked
  <2>2. CASE t \in S
    <3>1. Issued(t) /\ tokens'[t] = Revoked(tokens[t])
      BY <2>1, <2>2
    <3>2. tokens[t] \in IssuedRow
      BY <3>1, TokenCases
    <3>3. /\ Revoked(tokens[t]).state = "issued" /\ Revoked(tokens[t]).revoked = TRUE
          /\ Revoked(tokens[t]).user = tokens[t].user /\ Revoked(tokens[t]).family = tokens[t].family
          /\ Revoked(tokens[t]).overtaken = tokens[t].overtaken
      BY <3>2, RevokedFields
    <3>4. QED
      BY <2>2, <3>1, <3>3 DEF Issued
  <2>3. CASE t \notin S
    BY <2>1, <2>3 DEF Issued
  <2>4. QED
    BY <2>2, <2>3
<1>2. \A t \in Token : Issued(t) => tokens[t].family \in Token
  BY TokenCases DEF IssuedRow
<1>3. FamiliesSound'
  <2>1. \A f \in ended' : Issued(f)'
    BY <1>1 DEF FamiliesSound, AccountsTypeOK
  <2>2. ASSUME NEW t \in Token, Issued(t)'
        PROVE  FamilyNamed(t)'
    <3>1. Issued(t)
      BY <1>1, <2>2
    <3>2. PICK f \in Token : /\ tokens[t].family = f
                             /\ Issued(f) /\ tokens[f].family = f /\ tokens[f].user = tokens[t].user
      BY <3>1 DEF FamiliesSound, FamilyNamed
    <3>3. tokens'[t].family = f /\ tokens'[t].user = tokens[t].user
      BY <1>1, <3>1, <3>2
    <3>4. Issued(f)' /\ tokens'[f].family = f /\ tokens'[f].user = tokens[t].user
      BY <1>1, <3>2
    <3>5. QED
      BY <3>3, <3>4 DEF FamilyNamed
  <2>3. QED
    BY <2>1, <2>2 DEF FamiliesSound
<1>4. \A f \in Token : Disturbed(f) => Disturbed(f)'
  BY <1>1 DEF Disturbed, FamilyTokens
<1>5. \A t, f \in Token : Held(t, f)' => Held(t, f) /\ t \notin S
  BY <1>1 DEF Held
<1>6. EndInv'
  BY <1>4, <1>5 DEF EndInv
<1>7. QED
  BY <1>3, <1>6

\* A session of its own: its first token names the family, which ends at once
\* when the password it was opened with is no longer the account's.
LEMMA NewFamily ==
    ASSUME AccountsTypeOK, FamiliesSound, EndInv,
           NEW u \in User, NEW t \in Token, ~Issued(t), NEW late \in BOOLEAN,
           tokens' = [tokens EXCEPT ![t] = NewToken(u, t, late)],
           ended' = IF late THEN ended \cup {t} ELSE ended
    PROVE  FamiliesSound' /\ EndInv'
<1>1. tokens'[t] = NewToken(u, t, late) /\ \A s \in Token \ {t} : tokens'[s] = tokens[s]
  BY DEF AccountsTypeOK
<1>2. Issued(t)' /\ tokens'[t].family = t /\ tokens'[t].user = u /\ tokens'[t].overtaken = late
  BY <1>1 DEF Issued, NewToken
<1>3. \A s \in Token \ {t} : Issued(s)' <=> Issued(s)
  BY <1>1 DEF Issued
<1>4. \A s \in Token : Issued(s) => s # t /\ tokens[s].family \in Token \ {t}
  BY TokenCases DEF IssuedRow, FamiliesSound, FamilyNamed
<1>5. FamiliesSound'
  <2>1. \A f \in ended' : Issued(f)'
    BY <1>2, <1>3 DEF FamiliesSound, AccountsTypeOK
  <2>2. FamilyNamed(t)'
    BY <1>2 DEF FamilyNamed
  <2>3. ASSUME NEW s \in Token, s # t, Issued(s)
        PROVE  FamilyNamed(s)'
    <3>1. PICK g \in Token : /\ tokens[s].family = g
                             /\ Issued(g) /\ tokens[g].family = g /\ tokens[g].user = tokens[s].user
      BY <2>3 DEF FamiliesSound, FamilyNamed
    <3>2. tokens'[s] = tokens[s] /\ tokens'[g] = tokens[g]
      BY <1>1, <2>3, <3>1
    <3>3. QED
      BY <3>1, <3>2 DEF FamilyNamed, Issued
  <2>4. QED
    BY <1>3, <2>1, <2>2, <2>3 DEF FamiliesSound
<1>6. \A s, f \in Token : f # t => (Held(s, f)' <=> Held(s, f)) /\ (Disturbed(f)' <=> Disturbed(f))
  <2>1. \A s, f \in Token : f # t => (Held(s, f)' <=> Held(s, f))
    BY <1>1, <1>2, <1>3, <1>4 DEF Held
  <2>2. \A f \in Token : f # t => FamilyTokens(f)' = FamilyTokens(f)
    BY <1>1, <1>2, <1>3, <1>4 DEF FamilyTokens
  <2>3. \A f \in Token : \A s \in FamilyTokens(f) : tokens'[s] = tokens[s]
    BY <1>1, <1>4 DEF FamilyTokens
  <2>4. QED
    BY <2>1, <2>2, <2>3 DEF Disturbed
<1>7. \A s \in Token : Held(s, t)' => s = t
  BY <1>1, <1>3, <1>4 DEF Held
<1>8. late => Disturbed(t)'
  BY <1>2 DEF Disturbed, FamilyTokens
<1>9. t \notin ended
  BY DEF FamiliesSound
<1>10. EndInv'
  BY <1>6, <1>7, <1>8, <1>9 DEF EndInv
<1>11. QED
  BY <1>5, <1>10

LEMMA Rotation ==
    ASSUME AccountsTypeOK, FamiliesSound, EndInv, RequestsSound,
           NEW w \in Worker, NEW t \in Token, RefreshCommit(w, t)
    PROVE  FamiliesSound' /\ EndInv' /\ AccountsTypeOK'
<1>0. PICK p \in Token : p = request[w].token
  BY RequestCases DEF RefreshCommit
<1>1. p \in Token /\ Issued(p) /\ ~Issued(t) /\ p # t
  BY <1>0 DEF RefreshCommit, RequestsSound, NextRow
<1>2. tokens[p] \in IssuedRow
  BY <1>1, TokenCases
<1>f. PICK f \in Token : f = tokens[p].family
  BY <1>2 DEF IssuedRow
<1>3. f \in Token /\ f # t /\ tokens[p].user \in User /\ tokens[p].revoked \in BOOLEAN
  BY <1>1, <1>2, <1>f DEF IssuedRow, FamiliesSound, FamilyNamed
<1>n. PICK n : n = NewToken(tokens[p].user, f, tokens[p].revoked)
  OBVIOUS
<1>4. /\ n \in IssuedRow /\ n.state = "issued" /\ n.user = tokens[p].user /\ n.family = f
      /\ n.overtaken = tokens[p].revoked /\ n.revoked = FALSE
  BY <1>3, <1>n DEF NewToken, IssuedRow
<1>5. tokens' = [tokens EXCEPT ![p] = Revoked(tokens[p]), ![t] = n]
  BY <1>0, <1>f, <1>n DEF RefreshCommit
<1>6. /\ tokens'[t] = n /\ tokens'[p] = Revoked(tokens[p])
      /\ \A s \in Token \ {p, t} : tokens'[s] = tokens[s]
  BY <1>1, <1>5 DEF AccountsTypeOK
<1>7. /\ Revoked(tokens[p]) \in IssuedRow
      /\ Revoked(tokens[p]).state = "issued" /\ Revoked(tokens[p]).revoked = TRUE
      /\ Revoked(tokens[p]).user = tokens[p].user /\ Revoked(tokens[p]).family = f
      /\ Revoked(tokens[p]).overtaken = tokens[p].overtaken
  BY <1>2, <1>f, RevokedFields
<1>8. AccountsTypeOK'
  <2>1. n \in TokenRow /\ Revoked(tokens[p]) \in TokenRow
    BY <1>4, <1>7 DEF IssuedRow, TokenRow
  <2>2. tokens' \in [Token -> TokenRow]
    BY <1>5, <2>1 DEF AccountsTypeOK
  <2>3. request' \in [Worker -> Request]
    BY FinishType DEF RefreshCommit
  <2>4. QED
    BY <2>2, <2>3 DEF RefreshCommit, AccountsTypeOK
<1>9. \A s \in Token \ {t} : /\ Issued(s)' <=> Issued(s)
                             /\ Issued(s) => /\ tokens'[s].user = tokens[s].user
                                             /\ tokens'[s].family = tokens[s].family
                                             /\ tokens'[s].overtaken = tokens[s].overtaken
  <2>1. \A s \in Token \ {p, t} : tokens'[s] = tokens[s]
    BY <1>6
  <2>2. /\ Issued(p)' /\ tokens'[p].user = tokens[p].user
        /\ tokens'[p].family = tokens[p].family /\ tokens'[p].overtaken = tokens[p].overtaken
    BY <1>6, <1>7, <1>f DEF Issued
  <2>3. QED
    BY <1>1, <2>1, <2>2 DEF Issued
<1>10. Issued(t)' /\ tokens'[t].user = tokens[p].user /\ tokens'[t].family = f
  BY <1>4, <1>6 DEF Issued
<1>11. \A s \in Token : Issued(s) => s # t /\ tokens[s].family \in Token \ {t}
  BY <1>1, TokenCases DEF IssuedRow, FamiliesSound, FamilyNamed
<1>12. ended' = ended
  BY DEF RefreshCommit
<1>13. FamiliesSound'
  <2>1. Issued(f) /\ tokens[f].family = f /\ tokens[f].user = tokens[p].user
    BY <1>1, <1>f DEF FamiliesSound, FamilyNamed
  <2>2. Issued(f)' /\ tokens'[f].family = f /\ tokens'[f].user = tokens[p].user
    <3>1. f \in Token \ {t}
      BY <1>3
    <3>2. Issued(f)' /\ tokens'[f].user = tokens[f].user /\ tokens'[f].family = tokens[f].family
      BY <1>9, <2>1, <3>1
    <3>3. QED
      BY <2>1, <3>2
  <2>3. ASSUME NEW s \in Token, Issued(s)'
        PROVE  FamilyNamed(s)'
    <3>1. CASE s = t
      BY <1>10, <2>2, <3>1 DEF FamilyNamed
    <3>2. CASE s # t
      <4>1. Issued(s)
        BY <1>9, <2>3, <3>2
      <4>2. PICK g \in Token : /\ tokens[s].family = g
                               /\ Issued(g) /\ tokens[g].family = g /\ tokens[g].user = tokens[s].user
        BY <4>1 DEF FamiliesSound, FamilyNamed
      <4>3. g \in Token \ {t} /\ tokens'[s].family = g /\ tokens'[s].user = tokens[s].user
        BY <1>1, <1>9, <3>2, <4>1, <4>2
      <4>4. Issued(g)' /\ tokens'[g].family = tokens[g].family /\ tokens'[g].user = tokens[g].user
        BY <1>9, <4>2, <4>3
      <4>5. QED
        BY <4>2, <4>3, <4>4 DEF FamilyNamed
    <3>3. QED
      BY <3>1, <3>2
  <2>4. \A g \in ended' : Issued(g)'
    BY <1>9, <1>11, <1>12 DEF FamiliesSound, AccountsTypeOK
  <2>5. QED
    BY <2>3, <2>4 DEF FamiliesSound
<1>14. \A g \in Token : Disturbed(g) => Disturbed(g)'
  BY <1>9, <1>11 DEF Disturbed, FamilyTokens
<1>15. \A s, g \in Token : Held(s, g)' /\ s # t => Held(s, g) /\ s # p
  BY <1>1, <1>6, <1>7, <1>9 DEF Held
<1>16. \A g \in Token : Held(t, g)' => g = f
  BY <1>10 DEF Held
<1>17. tokens[p].revoked = TRUE => Disturbed(f)'
  <2>1. tokens[p].revoked = TRUE => tokens'[t].overtaken = TRUE
    BY <1>4, <1>6
  <2>2. Issued(t)' /\ tokens'[t].family = f
    BY <1>10
  <2>3. QED
    BY <2>1, <2>2 DEF Disturbed, FamilyTokens
<1>18. tokens[p].revoked = FALSE => Held(p, f)
  BY <1>1, <1>f DEF Held
<1>19. EndInv'
  <2> SUFFICES ASSUME NEW g \in Token, ~Disturbed(g)'
               PROVE  /\ \A s1, s2 \in Token : Held(s1, g)' /\ Held(s2, g)' => s1 = s2
                      /\ g \in ended => \A s \in Token : ~Held(s, g)'
    BY <1>12 DEF EndInv
  <2>1. /\ \A s1, s2 \in Token : Held(s1, g) /\ Held(s2, g) => s1 = s2
        /\ g \in ended => \A s \in Token : ~Held(s, g)
    BY <1>14 DEF EndInv
  <2>2. CASE g # f
    BY <1>15, <1>16, <2>1, <2>2
  <2>3. CASE g = f
    <3>1. Held(p, f)
      <4>1. tokens[p].revoked # TRUE
        BY <1>17, <2>3
      <4>2. QED
        BY <1>3, <1>18, <4>1
    <3>2. \A s \in Token : Held(s, g)' => s = t
      BY <1>1, <1>15, <2>1, <2>3, <3>1
    <3>3. g \notin ended
      BY <1>1, <2>1, <2>3, <3>1
    <3>4. QED
      BY <3>2, <3>3
  <2>4. QED
    BY <2>2, <2>3
<1>20. QED
  BY <1>8, <1>13, <1>19

-----------------------------------------------------------------------------
(* Codes. *)

Guessing(c) == {w \in Worker : request[w].op = "guess" /\ request[w].code = c}

Holding(c) == {w \in Worker : request[w].op \in {"guess", "verified"} /\ request[w].code = c}

\* A request is admitted while fewer than MaxOTPAttempts are counted, and only while the
\* code is unused; what it will count or use is reserved by being in flight.
CodeSound(c) ==
    /\ codes[c].attempts + Cardinality(Guessing(c)) < MaxOTPAttempts + Cardinality(Worker)
    /\ codes[c].used = FALSE => codes[c].uses = 0
    /\ codes[c].used = TRUE => codes[c].uses + Cardinality(Holding(c)) <= Cardinality(Worker)

CodesInv == \A c \in Code : Sent(c) => CodeSound(c)

LEMMA Counts ==
    ASSUME NEW S \in SUBSET Worker, NEW R \in SUBSET S
    PROVE  /\ Cardinality(S) \in Nat /\ Cardinality(R) \in Nat /\ Cardinality(Worker) \in Nat
           /\ Cardinality(R) <= Cardinality(S) /\ Cardinality(S) <= Cardinality(Worker)
           /\ \A w \in S : Cardinality(S \ {w}) = Cardinality(S) - 1
<1>1. IsFiniteSet(Worker) /\ IsFiniteSet(S) /\ IsFiniteSet(R)
  BY FS_Subset, AccountsAssumption DEF AccountsAssumption
<1>2. QED
  BY <1>1, FS_Subset, FS_CardinalityType, FS_RemoveElement

\* A step that works on one code, or on none, only lets go of the others.
LEMMA OneCode ==
    ASSUME AccountsTypeOK, CodesInv, NEW c \in Code, CodeSound(c)' \/ ~Sent(c)',
           \A d \in Code \ {c} : codes'[d] = codes[d],
           \A d \in Code \ {c} : Guessing(d)' \subseteq Guessing(d) /\ Holding(d)' \subseteq Holding(d)
    PROVE  CodesInv'
<1> SUFFICES ASSUME NEW d \in Code, d # c, Sent(d)
             PROVE  CodeSound(d)'
  BY DEF CodesInv, Sent
<1>1. codes[d] \in SentRow /\ CodeSound(d)
  BY CodeCases DEF CodesInv
<1>2. codes[d].attempts \in Nat /\ codes[d].uses \in Nat
  BY <1>1 DEF SentRow
<1>3. PICK G, H : G = Guessing(d) /\ H = Holding(d)
  OBVIOUS
<1>4. PICK G2, H2 : G2 = Guessing(d)' /\ H2 = Holding(d)'
  OBVIOUS
<1>5. G \in SUBSET Worker /\ H \in SUBSET Worker /\ G2 \in SUBSET G /\ H2 \in SUBSET H
  BY <1>3, <1>4 DEF Guessing, Holding
<1>6. /\ Cardinality(G) \in Nat /\ Cardinality(G2) \in Nat /\ Cardinality(G2) <= Cardinality(G)
      /\ Cardinality(H) \in Nat /\ Cardinality(H2) \in Nat /\ Cardinality(H2) <= Cardinality(H)
      /\ Cardinality(Worker) \in Nat
  BY <1>5, Counts
<1>7. codes'[d] = codes[d]
  OBVIOUS
<1>8. MaxOTPAttempts \in Nat
  BY AccountsAssumption DEF AccountsAssumption
<1>9. QED
  BY <1>1, <1>2, <1>3, <1>4, <1>6, <1>7, <1>8 DEF CodeSound

\* The step lets go of the codes it does not work on when it changes one request.
LEMMA OneRequest ==
    ASSUME AccountsTypeOK, NEW w \in Worker, NEW r, request' = [request EXCEPT ![w] = r],
           NEW c \in Code, r.op \in {"guess", "verified"} => r.code = c
    PROVE  \A d \in Code \ {c} : Guessing(d)' \subseteq Guessing(d) /\ Holding(d)' \subseteq Holding(d)
<1>1. request'[w] = r /\ \A v \in Worker \ {w} : request'[v] = request[v]
  BY DEF AccountsTypeOK
<1>2. QED
  BY <1>1 DEF Guessing, Holding

LEMMA Undisturbed ==
    ASSUME AccountsTypeOK, CodesInv, NEW w, NEW r, r.op \notin {"guess", "verified"},
           request' = request \/ request' = [request EXCEPT ![w] = r], codes' = codes
    PROVE  CodesInv'
<1> SUFFICES ASSUME NEW c \in Code, Sent(c) PROVE CodeSound(c)'
  BY DEF CodesInv, Sent
<1>1. \A d \in Code : Guessing(d)' \subseteq Guessing(d) /\ Holding(d)' \subseteq Holding(d)
  <2>1. CASE request' = request
    BY <2>1 DEF Guessing, Holding
  <2>2. CASE request' = [request EXCEPT ![w] = r]
    <3>1. \A v \in Worker : request'[v] = r \/ request'[v] = request[v]
      BY <2>2 DEF AccountsTypeOK
    <3>2. QED
      BY <3>1 DEF Guessing, Holding
  <2>3. QED
    BY <2>1, <2>2
<1>2. codes[c] \in SentRow /\ CodeSound(c)
  BY CodeCases DEF CodesInv
<1>3. codes[c].attempts \in Nat /\ codes[c].uses \in Nat
  BY <1>2 DEF SentRow
<1>4. PICK G, H : G = Guessing(c) /\ H = Holding(c)
  OBVIOUS
<1>5. PICK G2, H2 : G2 = Guessing(c)' /\ H2 = Holding(c)'
  OBVIOUS
<1>6. G \in SUBSET Worker /\ H \in SUBSET Worker /\ G2 \in SUBSET G /\ H2 \in SUBSET H
  BY <1>1, <1>4, <1>5 DEF Guessing, Holding
<1>7. /\ Cardinality(G) \in Nat /\ Cardinality(G2) \in Nat /\ Cardinality(G2) <= Cardinality(G)
      /\ Cardinality(H) \in Nat /\ Cardinality(H2) \in Nat /\ Cardinality(H2) <= Cardinality(H)
      /\ Cardinality(Worker) \in Nat
  BY <1>6, Counts
<1>8. MaxOTPAttempts \in Nat
  BY AccountsAssumption DEF AccountsAssumption
<1>9. QED
  BY <1>2, <1>3, <1>4, <1>5, <1>7, <1>8 DEF CodeSound

\* A guess is admitted.
LEMMA ReadSound ==
    ASSUME AccountsTypeOK, CodesInv, NEW w \in Worker, NEW c \in Code,
           VerifyOTPRead(w, c) \/ ResetPasswordRead(w, c)
    PROVE  CodesInv'
<1>1. /\ Sent(c) /\ codes' = codes
      /\ codes[c].used = FALSE /\ codes[c].attempts < MaxOTPAttempts
      /\ request' = [request EXCEPT ![w] = [op |-> "guess", code |-> c]]
  <2>1. codes[c] \in SentRow
    BY CodeCases DEF VerifyOTPRead, ResetPasswordRead, ReadCode
  <2>2. codes[c].used \in BOOLEAN
    BY <2>1 DEF SentRow
  <2>3. QED
    BY <2>2 DEF VerifyOTPRead, ResetPasswordRead, ReadCode, ValidateForVerification, Start, rows
<1>2. codes[c].attempts \in Nat /\ codes[c].uses = 0
  BY <1>1, CodeCases DEF SentRow, CodesInv, CodeSound
<1>3. PICK G2 : G2 = Guessing(c)'
  OBVIOUS
<1>4. G2 \in SUBSET Worker
  BY <1>3 DEF Guessing
<1>5. Cardinality(G2) \in Nat /\ Cardinality(G2) <= Cardinality(Worker) /\ Cardinality(Worker) \in Nat
  BY <1>4, Counts
<1>6. MaxOTPAttempts \in Nat
  BY AccountsAssumption DEF AccountsAssumption
<1>7. CodeSound(c)'
  BY <1>1, <1>2, <1>3, <1>5, <1>6 DEF CodeSound
<1>8. [op |-> "guess", code |-> c].code = c
  OBVIOUS
<1>9. \A d \in Code \ {c} : Guessing(d)' \subseteq Guessing(d) /\ Holding(d)' \subseteq Holding(d)
  BY <1>1, <1>8, OneRequest
<1>10. QED
  BY <1>1, <1>7, <1>9, OneCode

\* The attempt it reserved is counted.
LEMMA IncrementSound ==
    ASSUME AccountsTypeOK, RequestsSound, CodesInv, NEW w \in Worker, NEW right \in BOOLEAN,
           IncrementOTPAttempts(w, right)
    PROVE  CodesInv'
<1>1. PICK c \in Code : c = request[w].code
  BY RequestCases DEF IncrementOTPAttempts
<1>2. PICK r : r = IF right THEN [op |-> "verified", code |-> c] ELSE Idle
  OBVIOUS
<1>3. /\ request[w].op = "guess" /\ Sent(c)
      /\ codes' = [codes EXCEPT ![c] = Guessed(codes[c])]
      /\ request' = [request EXCEPT ![w] = r]
  BY <1>1, <1>2 DEF IncrementOTPAttempts, RequestsSound
<1>4. r.op \in {"idle", "verified"} /\ (r.op = "verified" => r.code = c)
  BY <1>2 DEF Idle
<1>5. codes[c] \in SentRow /\ CodeSound(c)
  BY <1>3, CodeCases DEF CodesInv
<1>6. codes[c].attempts \in Nat /\ codes[c].uses \in Nat
  BY <1>5 DEF SentRow
<1>7. /\ codes'[c].attempts = codes[c].attempts + 1
      /\ codes'[c].used = codes[c].used /\ codes'[c].uses = codes[c].uses
  BY <1>3, <1>5, CodeFields DEF AccountsTypeOK
<1>8. request'[w] = r /\ \A v \in Worker \ {w} : request'[v] = request[v]
  BY <1>3 DEF AccountsTypeOK
<1>9. PICK G, H : G = Guessing(c) /\ H = Holding(c)
  OBVIOUS
<1>10. PICK G2, H2 : G2 = Guessing(c)' /\ H2 = Holding(c)'
  OBVIOUS
<1>11. w \in G /\ G2 = G \ {w} /\ H2 \in SUBSET H /\ G \in SUBSET Worker /\ H \in SUBSET Worker
  BY <1>1, <1>3, <1>4, <1>8, <1>9, <1>10 DEF Guessing, Holding
<1>12. Cardinality(G) \in Nat /\ Cardinality(Worker) \in Nat /\ Cardinality(G2) = Cardinality(G) - 1
  <2>1. G \in SUBSET G
    OBVIOUS
  <2>2. QED
    BY <1>11, <2>1, Counts
<1>13. Cardinality(H) \in Nat /\ Cardinality(H2) \in Nat /\ Cardinality(H2) <= Cardinality(H)
  BY <1>11, Counts
<1>14. MaxOTPAttempts \in Nat
  BY AccountsAssumption DEF AccountsAssumption
<1>15. CodeSound(c)'
  BY <1>5, <1>6, <1>7, <1>9, <1>10, <1>12, <1>13, <1>14 DEF CodeSound
<1>16. \A d \in Code \ {c} : Guessing(d)' \subseteq Guessing(d) /\ Holding(d)' \subseteq Holding(d)
  BY <1>3, <1>4, OneRequest
<1>17. \A d \in Code \ {c} : codes'[d] = codes[d]
  BY <1>3 DEF AccountsTypeOK
<1>18. QED
  BY <1>15, <1>16, <1>17, OneCode

\* The use it reserved is made.
LEMMA CommitSound ==
    ASSUME AccountsTypeOK, RequestsSound, CodesInv, NEW w \in Worker, request[w].op = "verified",
           MarkOTPSessionUsed(request[w].code), Finish(w)
    PROVE  CodesInv'
<1>1. PICK c \in Code : c = request[w].code
  BY RequestCases
<1>3. Sent(c) /\ codes' = [codes EXCEPT ![c] = Spent(codes[c])] /\ request' = [request EXCEPT ![w] = Idle]
  BY <1>1 DEF RequestsSound, MarkOTPSessionUsed, Finish
<1>4. Idle.op \notin {"guess", "verified"}
  BY DEF Idle
<1>5. codes[c] \in SentRow /\ CodeSound(c)
  BY <1>3, CodeCases DEF CodesInv
<1>6. codes[c].attempts \in Nat /\ codes[c].uses \in Nat /\ codes[c].used \in BOOLEAN
  BY <1>5 DEF SentRow
<1>7. /\ codes'[c].attempts = codes[c].attempts
      /\ codes'[c].used = TRUE /\ codes'[c].uses = codes[c].uses + 1
  BY <1>3, <1>5, CodeFields DEF AccountsTypeOK
<1>8. request'[w] = Idle /\ \A v \in Worker \ {w} : request'[v] = request[v]
  BY <1>3 DEF AccountsTypeOK
<1>9. PICK G, H : G = Guessing(c) /\ H = Holding(c)
  OBVIOUS
<1>10. PICK G2, H2 : G2 = Guessing(c)' /\ H2 = Holding(c)'
  OBVIOUS
<1>11. w \in H /\ H2 = H \ {w} /\ G2 \in SUBSET G /\ G \in SUBSET Worker /\ H \in SUBSET Worker
  BY <1>1, <1>4, <1>8, <1>9, <1>10 DEF Guessing, Holding
<1>12. /\ Cardinality(H) \in Nat /\ Cardinality(Worker) \in Nat /\ Cardinality(H2) = Cardinality(H) - 1
       /\ Cardinality(H) <= Cardinality(Worker)
  <2>1. H \in SUBSET H
    OBVIOUS
  <2>2. QED
    BY <1>11, <2>1, Counts
<1>13. Cardinality(G) \in Nat /\ Cardinality(G2) \in Nat /\ Cardinality(G2) <= Cardinality(G)
  BY <1>11, Counts
<1>14. MaxOTPAttempts \in Nat
  BY AccountsAssumption DEF AccountsAssumption
<1>15. CodeSound(c)'
  <2>1. codes[c].used = FALSE => codes[c].uses = 0
    BY <1>5 DEF CodeSound
  <2>2. codes[c].used = TRUE => codes[c].uses + Cardinality(H) <= Cardinality(Worker)
    BY <1>5, <1>9 DEF CodeSound
  <2>3. codes'[c].uses + Cardinality(H2) <= Cardinality(Worker)
    BY <1>6, <1>7, <1>12, <2>1, <2>2
  <2>4. codes'[c].attempts + Cardinality(G2) < MaxOTPAttempts + Cardinality(Worker)
    BY <1>5, <1>6, <1>7, <1>9, <1>12, <1>13, <1>14 DEF CodeSound
  <2>5. QED
    BY <1>7, <1>10, <2>3, <2>4 DEF CodeSound
<1>16. \A d \in Code \ {c} : Guessing(d)' \subseteq Guessing(d) /\ Holding(d)' \subseteq Holding(d)
  BY <1>3, <1>4, OneRequest
<1>17. \A d \in Code \ {c} : codes'[d] = codes[d]
  BY <1>3 DEF AccountsTypeOK
<1>18. QED
  BY <1>15, <1>16, <1>17, OneCode

\* A code is sent, or runs out.
LEMMA CodeRowSound ==
    ASSUME AccountsTypeOK, RequestsSound, CodesInv, NEW c \in Code, NEW u,
           (u \in User /\ (RequestOTP(c, u) \/ RequestPasswordReset(c, u))) \/ CodeExpires(c)
    PROVE  CodesInv'
<1>1. request' = request
  BY DEF RequestOTP, RequestPasswordReset, CreateOTPSession, CodeExpires
<1>2. \A d \in Code : Guessing(d)' = Guessing(d) /\ Holding(d)' = Holding(d)
  BY <1>1 DEF Guessing, Holding
<1>3. PICK G, H : G = Guessing(c) /\ H = Holding(c)
  OBVIOUS
<1>4. Cardinality(G) \in Nat /\ Cardinality(Worker) \in Nat /\ Cardinality(G) <= Cardinality(Worker)
  <2>1. G \in SUBSET Worker /\ G \in SUBSET G
    BY <1>3 DEF Guessing
  <2>2. QED
    BY <2>1, Counts
<1>5. MaxOTPAttempts \in Nat \ {0}
  BY AccountsAssumption DEF AccountsAssumption
<1>6. CodeSound(c)' /\ \A d \in Code \ {c} : codes'[d] = codes[d]
  <2>1. CASE u \in User /\ (RequestOTP(c, u) \/ RequestPasswordReset(c, u))
    <3>1. PICK p \in {"login", "reset"} : CreateOTPSession(c, u, p)
      BY <2>1 DEF RequestOTP, RequestPasswordReset
    <3>2. codes' = [codes EXCEPT ![c] = NewCode(u, p)]
      BY <3>1 DEF CreateOTPSession
    <3>3. codes'[c].attempts = 0 /\ codes'[c].used = FALSE /\ codes'[c].uses = 0
      BY <2>1, <3>2, NewCodeFields DEF AccountsTypeOK
    <3>4. QED
      BY <1>2, <1>3, <1>4, <1>5, <3>2, <3>3 DEF CodeSound, AccountsTypeOK
  <2>2. CASE CodeExpires(c)
    <3>1. Sent(c) /\ codes' = [codes EXCEPT ![c] = Stale(codes[c])]
      BY <2>2 DEF CodeExpires
    <3>2. codes[c] \in SentRow /\ CodeSound(c)
      BY <3>1, CodeCases DEF CodesInv
    <3>3. /\ codes'[c].attempts = codes[c].attempts
          /\ codes'[c].used = codes[c].used /\ codes'[c].uses = codes[c].uses
      BY <3>1, <3>2, CodeFields DEF AccountsTypeOK
    <3>4. QED
      BY <1>2, <3>1, <3>2, <3>3 DEF CodeSound, AccountsTypeOK
  <2>3. QED
    BY <2>1, <2>2
<1>7. QED
  BY <1>2, <1>6, OneCode

-----------------------------------------------------------------------------
(* The invariant. *)

AccountsInv == AccountsTypeOK /\ RequestsSound /\ FamiliesSound /\ EndInv /\ CodesInv

LEMMA InitInv == AccountsInit => AccountsInv
<1> SUFFICES ASSUME AccountsInit PROVE AccountsInv
  OBVIOUS
<1>1. AccountsTypeOK
  BY DEF AccountsInit, AccountsTypeOK, UserRow, CodeRow, TokenRow, Request
<1>2. \A t \in Token : ~Issued(t)
  BY DEF AccountsInit, Issued, NoRow
<1>3. \A c \in Code : ~Sent(c)
  BY DEF AccountsInit, Sent, NoRow
<1>4. RequestsSound
  BY DEF AccountsInit, RequestsSound, Idle
<1>5. FamiliesSound /\ EndInv
  BY <1>2 DEF AccountsInit, FamiliesSound, EndInv, Held
<1>6. QED
  BY <1>1, <1>3, <1>4, <1>5 DEF AccountsInv, CodesInv

\* Nothing a request has read goes away, and what it reads is there.
LEMMA RequestsStep ==
    ASSUME AccountsTypeOK, RequestsSound,
           \A c \in Code : Sent(c) => Sent(c)',
           \A t \in Token : Issued(t) => Issued(t)',
           NEW w, NEW r,
           r.op \in {"guess", "verified"} => r.code \in Code /\ Sent(r.code),
           r.op = "rotate" => r.token \in Token /\ Issued(r.token),
           request' = request \/ request' = [request EXCEPT ![w] = r]
    PROVE  RequestsSound'
<1> SUFFICES ASSUME NEW v \in Worker
             PROVE  /\ request'[v].op \in {"guess", "verified"} => Sent(request[v].code)'
                    /\ request'[v].op = "rotate" => Issued(request[v].token)'
  BY DEF RequestsSound
<1>1. CASE request'[v] = request[v]
  <2>1. PICK q : q = request[v]
    OBVIOUS
  <2>2. /\ q.op \in {"guess", "verified"} => q.code \in Code /\ Sent(q.code)
        /\ q.op = "rotate" => q.token \in Token /\ Issued(q.token)
    BY <2>1, RequestCases DEF RequestsSound
  <2>3. /\ q.op \in {"guess", "verified"} => Sent(q.code)'
        /\ q.op = "rotate" => Issued(q.token)'
    BY <2>2
  <2>4. request'[v] = q
    BY <1>1, <2>1
  <2>5. QED
    BY <2>3, <2>4 DEF Sent, Issued
<1>2. CASE request'[v] = r
  <2>1. /\ r.op \in {"guess", "verified"} => Sent(r.code)'
        /\ r.op = "rotate" => Issued(r.token)'
    OBVIOUS
  <2>2. QED
    BY <1>2, <2>1 DEF Sent, Issued
<1>3. request'[v] = request[v] \/ request'[v] = r
  BY DEF AccountsTypeOK
<1>4. QED
  BY <1>1, <1>2, <1>3

\* Rows that are not written stay issued and sent.
LEMMA RowsKept ==
    /\ tokens' = tokens => \A t \in Token : Issued(t)' <=> Issued(t)
    /\ codes' = codes => \A c \in Code : Sent(c)' <=> Sent(c)
  BY DEF Issued, Sent

LEMMA FamiliesKept ==
    ASSUME FamiliesSound, EndInv, UNCHANGED <<tokens, ended>>
    PROVE  FamiliesSound' /\ EndInv'
  BY DEF FamiliesSound, FamilyNamed, EndInv, Held, Issued, Disturbed, FamilyTokens

LEMMA SignIn ==
    ASSUME AccountsInv, NEW u \in User, NEW t \in Token, NEW s,
           Register(u, t) \/ AuthGoogle(s, u, t) \/ AuthApple(s, u, t)
    PROVE  AccountsInv'
<1> USE DEF AccountsInv
<1>1. AccountsTypeOK'
  BY SignInTypes
<1>2. OpenSession(u, t) /\ UNCHANGED <<codes, request>>
  BY DEF Register, AuthGoogle, AuthApple
<1>3. ~Issued(t) /\ tokens' = [tokens EXCEPT ![t] = NewToken(u, t, FALSE)] /\ ended' = ended
  BY <1>2 DEF OpenSession, NextRow
<1>4. FamiliesSound' /\ EndInv'
  BY <1>3, NewFamily
<1>5. \A x \in Token : Issued(x) => Issued(x)'
  BY <1>3 DEF AccountsTypeOK, Issued
<1>6. Idle.op = "idle"
  BY DEF Idle
<1>7. RequestsSound'
  BY <1>2, <1>5, <1>6, RowsKept, RequestsStep
<1>8. CodesInv'
  BY <1>2, <1>6, Undisturbed
<1>9. QED
  BY <1>1, <1>4, <1>7, <1>8

LEMMA Reads ==
    ASSUME AccountsInv, NEW w \in Worker, NEW u, NEW c, NEW t,
           \/ u \in User /\ LoginRead(w, u)
           \/ c \in Code /\ (VerifyOTPRead(w, c) \/ ResetPasswordRead(w, c))
           \/ t \in Token /\ RefreshRead(w, t)
           \/ Fail(w)
    PROVE  AccountsInv'
<1> USE DEF AccountsInv
<1>1. AccountsTypeOK'
  BY ReadTypes
<1>2. UNCHANGED rows
  BY DEF LoginRead, VerifyOTPRead, ResetPasswordRead, ReadCode, RefreshRead, Fail
<1>3. FamiliesSound' /\ EndInv'
  BY <1>2, FamiliesKept DEF rows
<1>4. /\ \A x \in Token : Issued(x) => Issued(x)'
      /\ \A x \in Code : Sent(x) => Sent(x)'
  BY <1>2, RowsKept DEF rows
<1>5. CASE c \in Code /\ (VerifyOTPRead(w, c) \/ ResetPasswordRead(w, c))
  <2>1. Sent(c) /\ request' = [request EXCEPT ![w] = [op |-> "guess", code |-> c]]
    BY <1>5 DEF VerifyOTPRead, ResetPasswordRead, ReadCode, Start
  <2>2. [op |-> "guess", code |-> c].op = "guess" /\ [op |-> "guess", code |-> c].code = c
    OBVIOUS
  <2>3. RequestsSound'
    BY <1>5, <1>4, <2>1, <2>2, RequestsStep
  <2>4. CodesInv'
    BY <1>5, ReadSound
  <2>5. QED
    BY <1>1, <1>3, <2>3, <2>4
<1>6. CASE (u \in User /\ LoginRead(w, u)) \/ Fail(w)
  <2>1. PICK r : r.op \in {"login", "idle"} /\ request' = [request EXCEPT ![w] = r]
    BY <1>6 DEF LoginRead, Fail, Start, Finish, Idle
  <2>2. RequestsSound'
    BY <1>4, <2>1, RequestsStep
  <2>3. CodesInv'
    BY <1>2, <2>1, Undisturbed DEF rows
  <2>4. QED
    BY <1>1, <1>3, <2>2, <2>3
<1>7. CASE t \in Token /\ RefreshRead(w, t)
  <2>1. Issued(t) /\ request' = [request EXCEPT ![w] = [op |-> "rotate", token |-> t]]
    BY <1>7 DEF RefreshRead, Start, Live
  <2>2. [op |-> "rotate", token |-> t].op = "rotate" /\ [op |-> "rotate", token |-> t].token = t
    OBVIOUS
  <2>3. RequestsSound'
    BY <1>7, <1>4, <2>1, <2>2, RequestsStep
  <2>4. CodesInv'
    BY <1>2, <2>1, <2>2, Undisturbed DEF rows
  <2>5. QED
    BY <1>1, <1>3, <2>3, <2>4
<1>8. QED
  BY <1>5, <1>6, <1>7

LEMMA CodeSteps ==
    ASSUME AccountsInv, NEW w, NEW c, NEW u, NEW right \in BOOLEAN,
           \/ c \in Code /\ u \in User /\ (RequestOTP(c, u) \/ RequestPasswordReset(c, u))
           \/ w \in Worker /\ IncrementOTPAttempts(w, right)
           \/ c \in Code /\ CodeExpires(c)
    PROVE  AccountsInv'
<1> USE DEF AccountsInv
<1>1. AccountsTypeOK'
  BY CodeTypes
<1>2. UNCHANGED <<tokens, ended>>
  BY DEF RequestOTP, RequestPasswordReset, CreateOTPSession, IncrementOTPAttempts, CodeExpires
<1>3. FamiliesSound' /\ EndInv'
  BY <1>2, FamiliesKept
<1>4. \A x \in Token : Issued(x) => Issued(x)'
  BY <1>2, RowsKept
<1>5. CodesInv'
  BY CodeRowSound, IncrementSound
<1>6. PICK d \in Code : \E r : codes' = [codes EXCEPT ![d] = r] /\ r.state = "sent"
  <2>1. CASE c \in Code /\ u \in User /\ (RequestOTP(c, u) \/ RequestPasswordReset(c, u))
    <3>1. PICK p \in {"login", "reset"} : CreateOTPSession(c, u, p)
      BY <2>1 DEF RequestOTP, RequestPasswordReset
    <3>2. codes' = [codes EXCEPT ![c] = NewCode(u, p)] /\ NewCode(u, p).state = "sent"
      BY <2>1, <3>1, NewCodeFields DEF CreateOTPSession
    <3>3. QED
      BY <2>1, <3>2
  <2>2. CASE w \in Worker /\ IncrementOTPAttempts(w, right)
    <3>1. PICK d \in Code : d = request[w].code
      BY <2>2, RequestCases DEF IncrementOTPAttempts
    <3>2. codes[d] \in SentRow /\ codes' = [codes EXCEPT ![d] = Guessed(codes[d])]
      BY <2>2, <3>1, CodeCases DEF IncrementOTPAttempts, RequestsSound
    <3>3. Guessed(codes[d]).state = "sent"
      BY <3>2, CodeFields DEF SentRow
    <3>4. QED
      BY <3>2, <3>3
  <2>3. CASE c \in Code /\ CodeExpires(c)
    <3>1. codes[c] \in SentRow /\ codes' = [codes EXCEPT ![c] = Stale(codes[c])]
      BY <2>3, CodeCases DEF CodeExpires
    <3>2. Stale(codes[c]).state = "sent"
      BY <3>1, CodeFields DEF SentRow
    <3>3. QED
      BY <2>3, <3>1, <3>2
  <2>4. QED
    BY <2>1, <2>2, <2>3
<1>7. \A x \in Code : Sent(x) => Sent(x)'
  BY <1>6 DEF Sent, AccountsTypeOK
<1>8. RequestsSound'
  <2>1. CASE w \in Worker /\ IncrementOTPAttempts(w, right)
    <3>1. PICK r : r = IF right THEN [op |-> "verified", code |-> request[w].code] ELSE Idle
      OBVIOUS
    <3>2. request' = [request EXCEPT ![w] = r]
      BY <2>1, <3>1 DEF IncrementOTPAttempts
    <3>3. request[w].code \in Code /\ Sent(request[w].code)
      BY <2>1, RequestCases DEF IncrementOTPAttempts, RequestsSound
    <3>4. /\ r.op \in {"guess", "verified"} => r.code \in Code /\ Sent(r.code)
          /\ r.op # "rotate"
      BY <3>1, <3>3 DEF Idle
    <3>5. QED
      BY <1>4, <1>7, <3>2, <3>4, RequestsStep
  <2>2. CASE RequestOTP(c, u) \/ RequestPasswordReset(c, u) \/ CodeExpires(c)
    <3>1. request' = request
      BY <2>2 DEF RequestOTP, RequestPasswordReset, CreateOTPSession, CodeExpires
    <3>2. Idle.op = "idle"
      BY DEF Idle
    <3>3. QED
      BY <1>4, <1>7, <3>1, <3>2, RequestsStep
  <2>3. QED
    BY <2>1, <2>2
<1>9. QED
  BY <1>1, <1>3, <1>5, <1>8

\* A login, rotation or verified code commits: the row it needs is written and w is idle.
LEMMA Committed ==
    ASSUME AccountsTypeOK, RequestsSound, NEW w \in Worker, Finish(w),
           \A c \in Code : Sent(c) => Sent(c)',
           \A t \in Token : Issued(t) => Issued(t)'
    PROVE  RequestsSound'
<1>1. Idle.op = "idle" /\ request' = [request EXCEPT ![w] = Idle]
  BY DEF Idle, Finish
<1>2. QED
  BY <1>1, RequestsStep

LEMMA LoginCommits ==
    ASSUME AccountsInv, NEW w \in Worker, NEW t \in Token, LoginCommit(w, t)
    PROVE  AccountsInv'
<1> USE DEF AccountsInv
<1>1. PICK u \in User : u = request[w].user
  BY RequestCases DEF LoginCommit
<1>2. PICK late \in BOOLEAN : late = (users[u].hash # request[w].hash)
  OBVIOUS
<1>3. /\ ~Issued(t) /\ tokens' = [tokens EXCEPT ![t] = NewToken(u, t, late)]
      /\ ended' = IF late THEN ended \cup {t} ELSE ended
      /\ Finish(w) /\ UNCHANGED <<users, identities, codes>>
  BY <1>1, <1>2 DEF LoginCommit, NextRow
<1>4. FamiliesSound' /\ EndInv'
  BY <1>3, NewFamily
<1>5. \A x \in Token : Issued(x) => Issued(x)'
  BY <1>3 DEF AccountsTypeOK, Issued
<1>6. RequestsSound'
  BY <1>3, <1>5, RowsKept, Committed
<1>7. CodesInv'
  <2>1. Idle.op = "idle" /\ request' = [request EXCEPT ![w] = Idle]
    BY <1>3 DEF Idle, Finish
  <2>2. QED
    BY <1>3, <2>1, Undisturbed
<1>8. AccountsTypeOK'
  <2>1. NewToken(u, t, late) \in IssuedRow
    BY DEF NewToken, IssuedRow
  <2>2. tokens' \in [Token -> TokenRow]
    BY <1>3, <2>1, TokenUpdateType
  <2>3. request' \in [Worker -> Request]
    BY <1>3, FinishType
  <2>4. ended' \in SUBSET Token
    BY <1>3 DEF AccountsTypeOK
  <2>5. QED
    BY <1>3, <2>2, <2>3, <2>4 DEF AccountsTypeOK
<1>9. QED
  BY <1>4, <1>6, <1>7, <1>8

LEMMA VerifyCommits ==
    ASSUME AccountsInv, NEW w \in Worker, NEW t \in Token, VerifyOTPCommit(w, t)
    PROVE  AccountsInv'
<1> USE DEF AccountsInv
<1>1. PICK c \in Code : c = request[w].code
  BY RequestCases DEF VerifyOTPCommit
<1>2. codes[c] \in SentRow
  BY <1>1, CodeCases DEF VerifyOTPCommit, RequestsSound
<1>3. PICK u \in User : u = codes[c].user
  BY <1>2 DEF SentRow
<1>4. /\ request[w].op = "verified"
      /\ UpsertUserByEmail(u) /\ MarkOTPSessionUsed(c) /\ OpenSession(u, t)
      /\ Finish(w) /\ UNCHANGED identities
  BY <1>1, <1>3 DEF VerifyOTPCommit
<1>5. ~Issued(t) /\ tokens' = [tokens EXCEPT ![t] = NewToken(u, t, FALSE)] /\ ended' = ended
  BY <1>4 DEF OpenSession, NextRow
<1>6. FamiliesSound' /\ EndInv'
  BY <1>5, NewFamily
<1>7. CodesInv'
  BY <1>1, <1>4, CommitSound
<1>8. codes' = [codes EXCEPT ![c] = Spent(codes[c])] /\ Spent(codes[c]) \in SentRow
  BY <1>2, <1>4, CodeFields DEF MarkOTPSessionUsed
<1>9. RequestsSound'
  <2>1. \A x \in Token : Issued(x) => Issued(x)'
    BY <1>5 DEF AccountsTypeOK, Issued
  <2>2. \A x \in Code : Sent(x) => Sent(x)'
    BY <1>8 DEF AccountsTypeOK, Sent, SentRow
  <2>3. QED
    BY <1>4, <2>1, <2>2, Committed
<1>10. AccountsTypeOK'
  <2>1. tokens' \in [Token -> TokenRow] /\ ended' \in SUBSET Token
    BY <1>4, OpenSessionType
  <2>2. users' \in [User -> UserRow]
    BY <1>4, UpsertType
  <2>3. codes' \in [Code -> CodeRow]
    BY <1>8, CodeUpdateType
  <2>4. request' \in [Worker -> Request]
    BY <1>4, FinishType
  <2>5. QED
    BY <1>4, <2>1, <2>2, <2>3, <2>4 DEF AccountsTypeOK
<1>11. QED
  BY <1>6, <1>7, <1>9, <1>10

\* The families of a user's tokens hold no token of anybody else.
LEMMA RevokeAll ==
    ASSUME AccountsTypeOK, FamiliesSound, EndInv, NEW u \in User, RevokeAllRefreshTokensForUser(u)
    PROVE  FamiliesSound' /\ EndInv' /\ tokens' \in [Token -> TokenRow] /\ ended' \in SUBSET Token
           /\ \A t \in Token : Issued(t) => Issued(t)'
<1>1. PICK S : S = {t \in TokensOf(u) : ~tokens[t].revoked}
  OBVIOUS
<1>2. PICK E : E = {tokens[t].family : t \in TokensOf(u)}
  OBVIOUS
<1>3. S \in SUBSET Token /\ \A t \in S : t \in Token /\ Issued(t)
  BY <1>1 DEF TokensOf
<1>4. E \in SUBSET Token /\ \A f \in E : Issued(f) /\ tokens[f].user = u
  BY <1>2 DEF TokensOf, FamiliesSound, FamilyNamed
<1>5. ASSUME NEW f \in E, NEW t \in Token, Held(t, f)
      PROVE  t \in S
  <2>1. Issued(t) /\ tokens[t].family = f /\ tokens[t].revoked = FALSE
    BY <1>5 DEF Held
  <2>2. tokens[t].user = u
    BY <1>4, <2>1 DEF FamiliesSound, FamilyNamed
  <2>3. QED
    BY <1>1, <2>1, <2>2 DEF TokensOf
<1>6. tokens' = WithRevoked(S) /\ ended' = ended \cup E
  BY <1>1, <1>2 DEF RevokeAllRefreshTokensForUser
<1>7. FamiliesSound' /\ EndInv'
  BY <1>3, <1>4, <1>5, <1>6, Revocation
<1>8. tokens' \in [Token -> TokenRow]
  BY <1>3, <1>6, WithRevokedType
<1>9. \A t \in Token : Issued(t) => Issued(t)'
  BY <1>3, <1>6, TokenCases, RevokedFields DEF WithRevoked, Issued
<1>10. QED
  BY <1>4, <1>6, <1>7, <1>8, <1>9 DEF AccountsTypeOK

LEMMA ResetCommits ==
    ASSUME AccountsInv, NEW w \in Worker, ResetPasswordCommit(w)
    PROVE  AccountsInv'
<1> USE DEF AccountsInv
<1>1. PICK c \in Code : c = request[w].code
  BY RequestCases DEF ResetPasswordCommit
<1>2. codes[c] \in SentRow
  BY <1>1, CodeCases DEF ResetPasswordCommit, RequestsSound
<1>3. PICK u \in User : u = codes[c].user
  BY <1>2 DEF SentRow
<1>4. /\ request[w].op = "verified"
      /\ SetPasswordHash(u, users[u].hash + 1) /\ MarkOTPSessionUsed(c)
      /\ RevokeAllRefreshTokensForUser(u)
      /\ Finish(w) /\ UNCHANGED identities
  BY <1>1, <1>3 DEF ResetPasswordCommit
<1>5. /\ FamiliesSound' /\ EndInv' /\ tokens' \in [Token -> TokenRow] /\ ended' \in SUBSET Token
      /\ \A t \in Token : Issued(t) => Issued(t)'
  BY <1>4, RevokeAll
<1>6. CodesInv'
  BY <1>1, <1>4, CommitSound
<1>7. codes' = [codes EXCEPT ![c] = Spent(codes[c])] /\ Spent(codes[c]) \in SentRow
  BY <1>2, <1>4, CodeFields DEF MarkOTPSessionUsed
<1>8. RequestsSound'
  <2>1. \A x \in Code : Sent(x) => Sent(x)'
    BY <1>7 DEF AccountsTypeOK, Sent, SentRow
  <2>2. QED
    BY <1>4, <1>5, <2>1, Committed
<1>9. AccountsTypeOK'
  <2>1. users[u].hash + 1 \in Nat
    <3>1. Exists(u)
      BY <1>1, <1>3 DEF ResetPasswordCommit
    <3>2. QED
      BY <3>1, UserCases
  <2>2. users' \in [User -> UserRow]
    BY <1>4, <2>1, SetPasswordType
  <2>3. codes' \in [Code -> CodeRow]
    BY <1>7, CodeUpdateType
  <2>4. request' \in [Worker -> Request]
    BY <1>4, FinishType
  <2>5. QED
    BY <1>4, <1>5, <2>2, <2>3, <2>4 DEF AccountsTypeOK
<1>10. QED
  BY <1>5, <1>6, <1>8, <1>9

\* Revocations and expiry, which no request in flight makes.
LEMMA TokenSteps ==
    ASSUME AccountsInv, NEW t \in Token,
           RefreshReuse(t) \/ Logout(t) \/ TokenExpires(t)
    PROVE  AccountsInv'
<1> USE DEF AccountsInv
<1>1. UNCHANGED <<users, identities, codes, request>>
  BY DEF RefreshReuse, Logout, TokenExpires
<1>2. Issued(t) /\ tokens[t] \in IssuedRow
  BY TokenCases DEF RefreshReuse, Logout, TokenExpires, Live
<1>3. PICK f \in Token : f = tokens[t].family /\ Issued(f)
  BY <1>2 DEF IssuedRow, FamiliesSound, FamilyNamed
<1>4. /\ FamiliesSound' /\ EndInv' /\ tokens' \in [Token -> TokenRow] /\ ended' \in SUBSET Token
      /\ \A x \in Token : Issued(x) => Issued(x)'
  <2>1. ASSUME NEW S \in SUBSET Token, \A x \in S : x \in Token /\ Issued(x),
               NEW E \in SUBSET {f}, tokens' = WithRevoked(S), ended' = ended \cup E,
               \A g \in E : Disturbed(g) \/ \A x \in Token : Held(x, g) => x \in S
        PROVE  /\ FamiliesSound' /\ EndInv' /\ tokens' \in [Token -> TokenRow] /\ ended' \in SUBSET Token
               /\ \A x \in Token : Issued(x) => Issued(x)'
    <3>1. FamiliesSound' /\ EndInv'
      BY <1>3, <2>1, Revocation
    <3>2. tokens' \in [Token -> TokenRow]
      BY <2>1, WithRevokedType
    <3>3. \A x \in Token : Issued(x) => Issued(x)'
      BY <2>1, TokenCases, RevokedFields DEF WithRevoked, Issued
    <3>4. QED
      BY <2>1, <3>1, <3>2, <3>3 DEF AccountsTypeOK
  <2>2. CASE RefreshReuse(t)
    <3>1. PICK S : S = {x \in FamilyTokens(f) : ~tokens[x].revoked}
      OBVIOUS
    <3>2. tokens' = WithRevoked(S) /\ ended' = ended \cup {f}
      BY <1>3, <2>2, <3>1 DEF RefreshReuse, RevokeTokenFamily
    <3>3. S \in SUBSET Token /\ \A x \in S : x \in Token /\ Issued(x)
      BY <3>1 DEF FamilyTokens
    <3>4. \A x \in Token : Held(x, f) => x \in S
      BY <3>1 DEF FamilyTokens, Held
    <3>5. PICK E : E = {f}
      OBVIOUS
    <3>6. E \in SUBSET {f} /\ ended' = ended \cup E /\ \A g \in E : \A x \in Token : Held(x, g) => x \in S
      BY <3>2, <3>4, <3>5
    <3>7. QED
      BY <2>1, <3>2, <3>3, <3>6
  <2>3. CASE Logout(t)
    <3>1. PICK S : S = {t}
      OBVIOUS
    <3>2. PICK E : E = IF Live(t) THEN {f} ELSE {}
      OBVIOUS
    <3>3. tokens' = WithRevoked(S) /\ ended' = ended \cup E
      BY <1>3, <2>3, <3>1, <3>2 DEF Logout
    <3>4. ASSUME NEW g \in E, ~Disturbed(g), NEW x \in Token, Held(x, g)
          PROVE  x \in S
      <4>1. g = f /\ Held(t, f)
        <5>1. tokens[t].revoked \in BOOLEAN
          BY <1>2 DEF IssuedRow
        <5>2. QED
          BY <1>2, <1>3, <3>2, <3>4, <5>1 DEF Live, Held
      <4>2. x = t
        BY <3>4, <4>1 DEF EndInv
      <4>3. QED
        BY <3>1, <4>2
    <3>5. E \in SUBSET {f} /\ S \in SUBSET Token /\ \A x \in S : x \in Token /\ Issued(x)
      BY <1>2, <3>1, <3>2
    <3>6. QED
      BY <2>1, <3>3, <3>4, <3>5
  <2>4. CASE TokenExpires(t)
    <3>1. tokens' = [tokens EXCEPT ![t] = Stale(tokens[t])] /\ ended' = ended
      BY <2>4 DEF TokenExpires
    <3>2. /\ Stale(tokens[t]) \in IssuedRow /\ Stale(tokens[t]).state = "issued"
          /\ Stale(tokens[t]).user = tokens[t].user /\ Stale(tokens[t]).family = tokens[t].family
          /\ Stale(tokens[t]).overtaken = tokens[t].overtaken /\ Stale(tokens[t]).revoked = tokens[t].revoked
      BY <1>2, StaleTokenFields
    <3>3. tokens' \in [Token -> TokenRow]
      BY <3>1, <3>2, TokenUpdateType
    <3>4. \A x \in Token :
            /\ Issued(x)' <=> Issued(x)
            /\ tokens'[x].user = tokens[x].user /\ tokens'[x].family = tokens[x].family
            /\ tokens'[x].overtaken = tokens[x].overtaken /\ tokens'[x].revoked = tokens[x].revoked
      BY <1>2, <3>1, <3>2 DEF AccountsTypeOK, Issued
    <3>5. \A x \in Token : FamilyNamed(x)' <=> FamilyNamed(x)
      BY <3>4 DEF FamilyNamed
    <3>6. FamiliesSound'
      BY <3>1, <3>4, <3>5 DEF FamiliesSound, AccountsTypeOK
    <3>7. \A x, g \in Token : Held(x, g)' <=> Held(x, g)
      BY <3>4 DEF Held
    <3>8. \A g \in Token : Disturbed(g) => Disturbed(g)'
      BY <3>4 DEF Disturbed, FamilyTokens
    <3>9. EndInv'
      BY <3>1, <3>7, <3>8 DEF EndInv
    <3>10. QED
      BY <3>1, <3>3, <3>4, <3>6, <3>9 DEF AccountsTypeOK
  <2>5. QED
    BY <2>2, <2>3, <2>4
<1>5. AccountsTypeOK'
  BY <1>1, <1>4 DEF AccountsTypeOK
<1>6. RequestsSound' /\ CodesInv'
  <2>1. Idle.op = "idle"
    BY DEF Idle
  <2>2. QED
    BY <1>1, <1>4, <2>1, RowsKept, RequestsStep, Undisturbed
<1>7. QED
  BY <1>4, <1>5, <1>6

LEMMA Rotations ==
    ASSUME AccountsInv, NEW w \in Worker, NEW t \in Token, RefreshCommit(w, t)
    PROVE  AccountsInv'
<1> USE DEF AccountsInv
<1>1. FamiliesSound' /\ EndInv' /\ AccountsTypeOK'
  BY Rotation
<1>2. Finish(w) /\ codes' = codes
  BY DEF RefreshCommit
<1>3. PICK p \in Token : p = request[w].token /\ Issued(p)
  BY RequestCases DEF RefreshCommit, RequestsSound
<1>4. PICK n : n.state = "issued" /\ tokens' = [tokens EXCEPT ![p] = Revoked(tokens[p]), ![t] = n]
  BY <1>3 DEF RefreshCommit, NewToken
<1>5. Revoked(tokens[p]).state = "issued"
  BY <1>3, TokenCases, RevokedFields
<1>6. \A x \in Token : Issued(x) => Issued(x)'
  BY <1>4, <1>5 DEF AccountsTypeOK, Issued
<1>7. RequestsSound'
  BY <1>2, <1>6, RowsKept, Committed
<1>8. CodesInv'
  <2>1. Idle.op = "idle" /\ request' = [request EXCEPT ![w] = Idle]
    BY <1>2 DEF Idle, Finish
  <2>2. QED
    BY <1>2, <2>1, Undisturbed
<1>9. QED
  BY <1>1, <1>7, <1>8

LEMMA StepInv == AccountsInv /\ [AccountsNext]_accountVars => AccountsInv'
<1> SUFFICES ASSUME AccountsInv, [AccountsNext]_accountVars PROVE AccountsInv'
  OBVIOUS
<1>1. CASE UNCHANGED accountVars
  <2>1. AccountsTypeOK' /\ UNCHANGED <<tokens, ended, codes, request>>
    BY <1>1 DEF AccountsInv, AccountsTypeOK, accountVars
  <2>2. FamiliesSound' /\ EndInv'
    BY <2>1, FamiliesKept DEF AccountsInv
  <2>3. Idle.op = "idle"
    BY DEF Idle
  <2>4. RequestsSound' /\ CodesInv'
    BY <2>1, <2>3, RowsKept, RequestsStep, Undisturbed DEF AccountsInv
  <2>5. QED
    BY <2>1, <2>2, <2>4 DEF AccountsInv
<1>2. CASE \E u \in User, t \in Token : \/ Register(u, t)
                                        \/ \E s \in GoogleSub : AuthGoogle(s, u, t)
                                        \/ \E s \in AppleSub : AuthApple(s, u, t)
  BY <1>2, SignIn
<1>3. CASE \E w \in Worker : \/ \E u \in User : LoginRead(w, u)
                             \/ \E c \in Code : VerifyOTPRead(w, c) \/ ResetPasswordRead(w, c)
                             \/ \E t \in Token : RefreshRead(w, t)
                             \/ Fail(w)
  BY <1>3, Reads
<1>4. CASE \/ \E c \in Code, u \in User : RequestOTP(c, u) \/ RequestPasswordReset(c, u)
           \/ \E w \in Worker, right \in BOOLEAN : IncrementOTPAttempts(w, right)
           \/ \E c \in Code : CodeExpires(c)
  BY <1>4, CodeSteps
<1>5. CASE \E w \in Worker : ResetPasswordCommit(w)
  BY <1>5, ResetCommits
<1>6. CASE \E w \in Worker, t \in Token : LoginCommit(w, t) \/ VerifyOTPCommit(w, t) \/ RefreshCommit(w, t)
  BY <1>6, LoginCommits, VerifyCommits, Rotations
<1>7. CASE \E t \in Token : RefreshReuse(t) \/ Logout(t) \/ TokenExpires(t)
  BY <1>7, TokenSteps
<1>8. QED
  BY <1>1, <1>2, <1>3, <1>4, <1>5, <1>6, <1>7 DEF AccountsNext

-----------------------------------------------------------------------------
(* Theorems. *)

\* The inductive invariant holds in every state, whatever requests overlap.
THEOREM AccountsInvariant == AccountsSpec => []AccountsInv
<1>1. AccountsInit => AccountsInv
  BY InitInv
<1>2. AccountsInv /\ [AccountsNext]_accountVars => AccountsInv'
  BY StepInv
<1>3. QED
  BY <1>1, <1>2, PTL DEF AccountsSpec

\* The rows, links and requests of the auth service keep their types.
THEOREM AccountTypes == AccountsSpec => []AccountsTypeOK
<1>1. AccountsInv => AccountsTypeOK
  BY DEF AccountsInv
<1>2. QED
  BY <1>1, AccountsInvariant, PTL

\* A family that no request overtook has at most one live token, and none once a logout,
\* a reset (ResetPassword) or a reuse (RefreshTokens) meant to end it.
THEOREM SessionsDoEnd == AccountsSpec => []SessionsEnd
<1>1. AccountsInv => SessionsEnd
  <2> SUFFICES ASSUME AccountsInv, NEW f \in Token, ~Disturbed(f)
               PROVE  /\ \A s \in LiveIn(f) : \A t \in LiveIn(f) : s = t
                      /\ f \in ended => LiveIn(f) = {}
    BY DEF SessionsEnd
  <2>1. \A t \in LiveIn(f) : t \in Token /\ Held(t, f)
    <3> SUFFICES ASSUME NEW t \in LiveIn(f) PROVE t \in Token /\ Held(t, f)
      OBVIOUS
    <3>1. t \in Token /\ Issued(t) /\ tokens[t].family = f /\ ~tokens[t].revoked
      BY DEF LiveIn, FamilyTokens, Live
    <3>2. tokens[t].revoked \in BOOLEAN
      BY <3>1, TokenCases DEF AccountsInv, IssuedRow
    <3>3. QED
      BY <3>1, <3>2 DEF Held
  <2>2. QED
    BY <2>1 DEF AccountsInv, EndInv
<1>2. QED
  BY <1>1, AccountsInvariant, PTL

\* However requests overlap, a one-time code is compared and spent a bounded number of
\* times (VerifyOTP and ResetPassword, which read it before they count).
THEOREM CodesAreGuarded == AccountsSpec => []CodesGuarded
<1>1. AccountsInv => CodesGuarded
  <2> SUFFICES ASSUME AccountsInv, NEW c \in Code, Sent(c)
               PROVE  /\ codes[c].attempts < MaxOTPAttempts + Cardinality(Worker)
                      /\ codes[c].uses <= Cardinality(Worker)
    BY DEF CodesGuarded
  <2>1. codes[c] \in SentRow /\ CodeSound(c)
    BY CodeCases DEF AccountsInv, CodesInv
  <2>2. codes[c].attempts \in Nat /\ codes[c].uses \in Nat /\ codes[c].used \in BOOLEAN
    BY <2>1 DEF SentRow
  <2>3. PICK G, H : G = Guessing(c) /\ H = Holding(c)
    OBVIOUS
  <2>4. Cardinality(G) \in Nat /\ Cardinality(H) \in Nat /\ Cardinality(Worker) \in Nat
    <3>1. G \in SUBSET Worker /\ H \in SUBSET Worker
      BY <2>3 DEF Guessing, Holding
    <3>2. G \in SUBSET G /\ H \in SUBSET H
      OBVIOUS
    <3>3. QED
      BY <3>1, <3>2, Counts
  <2>5. MaxOTPAttempts \in Nat
    BY AccountsAssumption DEF AccountsAssumption
  <2>6. QED
    BY <2>1, <2>2, <2>3, <2>4, <2>5 DEF CodeSound
<1>2. QED
  BY <1>1, AccountsInvariant, PTL

-----------------------------------------------------------------------------
(* Live events.  The invariant says where an event that has been published *)
(* is, for a client who is connected: seen or accounted for, or in one of  *)
(* the places it passes on its way.                                        *)

InHand == IF handing.op = "handing" /\ handing.open THEN {handing.event} ELSE {}

InReplay ==
    CASE replay.op = "asked" -> Newer(history, replay.after)
      [] replay.op = "sending" -> Newer(replay.items, replay.after)
      [] OTHER -> {}

OnItsWay == Range(wire) \cup Range(channel) \cup InHand \cup InReplay

StoredEvents == {e \in Event : publisher[e] \in {"stored", "done"}}

LiveInv ==
    /\ LiveEventsTypeOK
    /\ \A e \in Event : stamp[e] <= e
    /\ Range(history) \subseteq StoredEvents
    /\ replay.op = "sending" => Range(replay.items) \subseteq StoredEvents
    /\ online => \A e \in Event : publisher[e] = "done" => e \in accounted \cup OnItsWay

\* Sequences by what is in them.
LEMMA RangeSteps ==
    ASSUME NEW S, NEW q \in Seq(S), NEW x \in S
    PROVE  /\ Len(q) \in Nat
           /\ Range(q) \subseteq S
           /\ Append(q, x) \in Seq(S) /\ Len(Append(q, x)) = Len(q) + 1
           /\ Range(Append(q, x)) = Range(q) \cup {x}
           /\ Range(<<>>) = {}
           /\ q # <<>> => /\ Head(q) \in S /\ Tail(q) \in Seq(S) /\ Len(Tail(q)) = Len(q) - 1
                          /\ Range(q) = {Head(q)} \cup Range(Tail(q))
<1>1. Len(q) \in Nat /\ q \in [1..Len(q) -> S] /\ DOMAIN q = 1..Len(q)
  OBVIOUS
<1>2. Range(q) = {q[i] : i \in 1..Len(q)}
  BY <1>1 DEF Range
<1>3. Append(q, x) \in Seq(S) /\ Len(Append(q, x)) = Len(q) + 1
  OBVIOUS
<1>4. Range(Append(q, x)) = Range(q) \cup {x}
  <2>1. DOMAIN Append(q, x) = 1..(Len(q) + 1)
    OBVIOUS
  <2>2. \A i \in 1..(Len(q) + 1) : Append(q, x)[i] = IF i <= Len(q) THEN q[i] ELSE x
    BY <1>1
  <2>3. Range(Append(q, x)) = {Append(q, x)[i] : i \in 1..(Len(q) + 1)}
    BY <2>1 DEF Range
  <2>4. QED
    BY <1>1, <1>2, <2>2, <2>3
<1>5. Range(<<>>) = {}
  BY DEF Range
<1>6. ASSUME q # <<>>
      PROVE  /\ Head(q) \in S /\ Tail(q) \in Seq(S) /\ Len(Tail(q)) = Len(q) - 1
             /\ Range(q) = {Head(q)} \cup Range(Tail(q))
  <2>1. Len(q) >= 1 /\ Head(q) = q[1] /\ Tail(q) \in Seq(S) /\ Len(Tail(q)) = Len(q) - 1
    BY <1>6
  <2>2. \A i \in 1..(Len(q) - 1) : Tail(q)[i] = q[i + 1]
    BY <1>6
  <2>0. DOMAIN Tail(q) = 1..(Len(q) - 1)
    BY <2>1
  <2>3. Range(Tail(q)) = {Tail(q)[i] : i \in 1..(Len(q) - 1)}
    BY <2>0 DEF Range
  <2>4. Range(Tail(q)) = {q[i + 1] : i \in 1..(Len(q) - 1)}
    BY <2>2, <2>3
  <2>5. \A i \in 1..Len(q) : i = 1 \/ (i - 1 \in 1..(Len(q) - 1) /\ (i - 1) + 1 = i)
    BY <1>1
  <2>6. \A i \in 1..(Len(q) - 1) : i + 1 \in 1..Len(q)
    BY <1>1
  <2>7. Range(q) \subseteq {q[1]} \cup {q[i + 1] : i \in 1..(Len(q) - 1)}
    BY <1>2, <2>5
  <2>8. {q[1]} \cup {q[i + 1] : i \in 1..(Len(q) - 1)} \subseteq Range(q)
    BY <1>2, <2>1, <2>6
  <2>9. QED
    BY <1>1, <2>1, <2>4, <2>7, <2>8
<1>7. QED
  BY <1>1, <1>2, <1>3, <1>4, <1>5, <1>6

\* What is being handed out, and what a replay is at.
LEMMA HandingFields ==
    ASSUME LiveEventsTypeOK
    PROVE  /\ handing = Nothing \/ handing.op = "handing"
           /\ handing.op = "handing" => /\ handing.event \in Event /\ handing.open \in BOOLEAN
                                        /\ handing = [op |-> "handing", event |-> handing.event,
                                                      open |-> handing.open, shifted |-> handing.shifted]
                                        /\ handing.shifted \in BOOLEAN
           /\ Nothing.op = "nothing"
  BY DEF LiveEventsTypeOK, Nothing

LEMMA ReplayFields ==
    ASSUME LiveEventsTypeOK
    PROVE  /\ replay.op \in {"nothing", "asked", "sending"}
           /\ replay.op = "nothing" <=> replay = Nothing
           /\ replay.op \in {"asked", "sending"} => replay.after \in 0..MaxEvent
           /\ replay.op = "sending" => /\ replay.items \in Seq(Event)
                                       /\ replay = [op |-> "sending", items |-> replay.items, after |-> replay.after]
  BY DEF LiveEventsTypeOK, Nothing

LEMMA ReplayTypes ==
    ASSUME NEW q \in Seq(Event), NEW n \in 0..MaxEvent
    PROVE  /\ Nothing \in {Nothing} \cup [op: {"asked"}, after: 0..MaxEvent]
                            \cup [op: {"sending"}, items: Seq(Event), after: 0..MaxEvent]
           /\ [op |-> "asked", after |-> n] \in {Nothing} \cup [op: {"asked"}, after: 0..MaxEvent]
                            \cup [op: {"sending"}, items: Seq(Event), after: 0..MaxEvent]
           /\ [op |-> "sending", items |-> q, after |-> n] \in {Nothing} \cup [op: {"asked"}, after: 0..MaxEvent]
                            \cup [op: {"sending"}, items: Seq(Event), after: 0..MaxEvent]
  OBVIOUS

LEMMA LiveInit == LiveEventsInit => LiveInv
<1> SUFFICES ASSUME LiveEventsInit PROVE LiveInv
  OBVIOUS
<1>1. Range(<<>>) = {} /\ <<>> \in Seq(Event) /\ Len(<<>>) = 0
  BY DEF Range
<1>2. LiveEventsTypeOK
  <2>0. 0 \in 0..MaxEvent
    BY LiveEventsAssumption
  <2>1. /\ stamp \in [Event -> 0..MaxEvent] /\ publisher \in [Event -> {"none", "started", "stored", "done"}]
        /\ last \in 0..MaxEvent /\ accounted \subseteq Event
    BY <2>0 DEF LiveEventsInit
  <2>5. stray \in BOOLEAN /\ online \in BOOLEAN
    BY DEF LiveEventsInit
  <2>2. /\ history \in Seq(Event) /\ Len(history) <= HistLen /\ wire \in Seq(Event)
        /\ channel \in Seq(Event) /\ Len(channel) <= Buffer
    BY <1>1, LiveEventsAssumption DEF LiveEventsInit
  <2>3. handing = Nothing /\ replay = Nothing
    BY DEF LiveEventsInit
  <2>4. QED
    BY <2>1, <2>2, <2>3, <2>5 DEF LiveEventsTypeOK
<1>3. /\ \A e \in Event : stamp[e] <= e /\ publisher[e] # "done"
      /\ Range(history) \subseteq StoredEvents
  BY <1>1 DEF LiveEventsInit, Event
<1>4. replay.op # "sending"
  BY DEF LiveEventsInit, Nothing
<1>5. QED
  BY <1>2, <1>3, <1>4 DEF LiveInv

\* A step of one publisher, or of the process's end of the wire.
LEMMA PublishKeeps ==
    ASSUME LiveInv, NEW e \in Event, Publish(e) PROVE LiveInv'
<1>1. /\ publisher[e] = "none" /\ publisher' = [publisher EXCEPT ![e] = "started"]
      /\ UNCHANGED <<history, wire, handing, replay, stray, online, channel, last, accounted>>
  BY DEF Publish
<1>2. PICK n : stamp' = [stamp EXCEPT ![e] = n] /\ n \in 0..e
  <2>1. PICK tick \in {0, 1} : stamp' = [stamp EXCEPT ![e] = IF e = 1 THEN 1 ELSE stamp[e - 1] + tick]
    BY DEF Publish
  <2>2. e \in 1..MaxEvent /\ MaxEvent \in Nat
    BY LiveEventsAssumption DEF Event
  <2>3. e # 1 => e - 1 \in Event /\ stamp[e - 1] \in 0..MaxEvent /\ stamp[e - 1] <= e - 1
    <3>1. e # 1 => e - 1 \in Event
      BY <2>2 DEF Event
    <3>2. QED
      BY <3>1 DEF LiveInv, LiveEventsTypeOK
  <2>4. (IF e = 1 THEN 1 ELSE stamp[e - 1] + tick) \in 0..e
    BY <2>2, <2>3
  <2>5. QED
    BY <2>1, <2>4
<1>3. n \in 0..MaxEvent /\ n <= e
  BY <1>2, LiveEventsAssumption DEF Event
<1>4. LiveEventsTypeOK'
  BY <1>1, <1>2, <1>3 DEF LiveInv, LiveEventsTypeOK
<1>5. \A f \in Event : /\ stamp'[f] <= f
                       /\ f # e => stamp'[f] = stamp[f] /\ publisher'[f] = publisher[f]
  BY <1>1, <1>2, <1>3 DEF LiveInv, LiveEventsTypeOK
<1>6. StoredEvents' = StoredEvents /\ e \notin StoredEvents /\ publisher'[e] # "done"
  BY <1>1, <1>5 DEF StoredEvents, LiveInv, LiveEventsTypeOK
<1>7. InReplay' = InReplay
  <2>1. CASE replay.op = "asked"
    BY <1>1, <1>5, <1>6, <2>1 DEF InReplay, Newer, LiveInv, StoredEvents
  <2>2. CASE replay.op = "sending"
    BY <1>1, <1>5, <1>6, <2>2 DEF InReplay, Newer, LiveInv, StoredEvents
  <2>3. CASE replay.op \notin {"asked", "sending"}
    BY <1>1, <2>3 DEF InReplay
  <2>4. QED
    BY <2>1, <2>2, <2>3
<1>8. OnItsWay' = OnItsWay
  BY <1>1, <1>7 DEF OnItsWay, InHand
<1>9. QED
  BY <1>1, <1>4, <1>5, <1>6, <1>8 DEF LiveInv

LEMMA AppendKeeps ==
    ASSUME LiveInv, NEW e \in Event, AppendHistory(e) PROVE LiveInv'
<1> DEFINE longer == Append(history, e)
           gone == IF Len(longer) > HistLen THEN {Head(longer)} ELSE {}
<1>1. /\ publisher[e] = "started" /\ publisher' = [publisher EXCEPT ![e] = "stored"]
      /\ history' = (IF Len(longer) > HistLen THEN Tail(longer) ELSE longer)
      /\ accounted' = (IF replay.op = "asked" THEN accounted \cup gone ELSE accounted)
      /\ UNCHANGED <<stamp, wire, handing, replay, stray, online, channel, last>>
  BY DEF AppendHistory, Dropped
<1>2. history \in Seq(Event) /\ Len(history) <= HistLen /\ HistLen \in Nat
  BY LiveEventsAssumption DEF LiveInv, LiveEventsTypeOK
<1>3. /\ longer \in Seq(Event) /\ Len(longer) = Len(history) + 1 /\ longer # <<>>
      /\ Range(longer) = Range(history) \cup {e} /\ Len(history) \in Nat
  <2>1. /\ longer \in Seq(Event) /\ Len(longer) = Len(history) + 1
        /\ Range(longer) = Range(history) \cup {e} /\ Len(history) \in Nat
    BY <1>2, RangeSteps
  <2>2. longer # <<>>
    BY <1>2
  <2>3. QED
    BY <2>1, <2>2
<1>4. /\ Head(longer) \in Event /\ Tail(longer) \in Seq(Event) /\ Len(Tail(longer)) = Len(longer) - 1
      /\ Range(longer) = {Head(longer)} \cup Range(Tail(longer))
  BY <1>3, RangeSteps
<1> HIDE DEF longer
<1>5. /\ history' \in Seq(Event) /\ Len(history') <= HistLen /\ gone \subseteq Event
      /\ Range(history') \subseteq Range(history) \cup {e}
      /\ Range(history) \subseteq Range(history') \cup gone
  BY <1>1, <1>2, <1>3, <1>4
<1> HIDE DEF gone
<1>6. LiveEventsTypeOK'
  BY <1>1, <1>5 DEF LiveInv, LiveEventsTypeOK
<1>7. StoredEvents' = StoredEvents \cup {e} /\ \A f \in Event : publisher'[f] = "done" <=> publisher[f] = "done"
  BY <1>1 DEF StoredEvents, LiveInv, LiveEventsTypeOK
<1>8. InReplay \subseteq InReplay' \cup accounted' /\ accounted \subseteq accounted'
  <2>1. CASE replay.op = "asked"
    BY <1>1, <1>5, <2>1 DEF InReplay, Newer
  <2>2. CASE replay.op = "sending"
    BY <1>1, <2>2 DEF InReplay, Newer
  <2>3. CASE replay.op \notin {"asked", "sending"}
    BY <1>1, <2>3 DEF InReplay
  <2>4. QED
    BY <2>1, <2>2, <2>3
<1>9. accounted \cup OnItsWay \subseteq accounted' \cup OnItsWay'
  BY <1>1, <1>8 DEF OnItsWay, InHand
<1>10. QED
  BY <1>1, <1>5, <1>6, <1>7, <1>9 DEF LiveInv

LEMMA BroadcastKeeps ==
    ASSUME LiveInv, NEW e \in Event, HistoryWriteFails(e) \/ Broadcast(e) PROVE LiveInv'
<1>1. /\ UNCHANGED <<stamp, history, handing, replay, stray, online, channel, last, accounted>>
      /\ \/ publisher' = [publisher EXCEPT ![e] = "stored"] /\ publisher[e] = "started" /\ UNCHANGED wire
         \/ publisher' = [publisher EXCEPT ![e] = "done"] /\ publisher[e] = "stored" /\ wire' = Append(wire, e)
  BY DEF HistoryWriteFails, Broadcast
<1>2. wire \in Seq(Event)
  BY DEF LiveInv, LiveEventsTypeOK
<1>3. Append(wire, e) \in Seq(Event) /\ Range(Append(wire, e)) = Range(wire) \cup {e}
  BY <1>2, RangeSteps
<1>4. LiveEventsTypeOK'
  BY <1>1, <1>2, <1>3 DEF LiveInv, LiveEventsTypeOK
<1>5. /\ StoredEvents \subseteq StoredEvents'
      /\ \A f \in Event : publisher'[f] = "done" => publisher[f] = "done" \/ f \in Range(wire')
      /\ Range(wire) \subseteq Range(wire')
  BY <1>1, <1>3 DEF StoredEvents, LiveInv, LiveEventsTypeOK
<1>6. OnItsWay \subseteq OnItsWay' /\ Range(wire') \subseteq OnItsWay'
  BY <1>1, <1>5 DEF OnItsWay, InHand, InReplay, Newer
<1>7. QED
  BY <1>1, <1>4, <1>5, <1>6 DEF LiveInv

\* The list expires, or the subscription breaks.
LEMMA LossKeeps ==
    ASSUME LiveInv, HistoryExpires \/ SubscriptionEnds PROVE LiveInv'
<1> <<>> \in Seq(Event) /\ Len(<<>>) = 0 /\ Range(<<>>) = {}
  BY DEF Range
<1>1. Range(history) \subseteq Event /\ Range(wire) \subseteq Event
  <2>1. history \in Seq(Event) /\ wire \in Seq(Event)
    BY DEF LiveInv, LiveEventsTypeOK
  <2>2. QED
    BY <2>1, RangeOfSeq
<1>2. CASE HistoryExpires
  <2>1. /\ history' = <<>>
        /\ accounted' = (IF replay.op = "asked" THEN accounted \cup Range(history) ELSE accounted)
        /\ UNCHANGED <<stamp, publisher, wire, handing, replay, stray, online, channel, last>>
    BY <1>2 DEF HistoryExpires, Dropped
  <2>2. LiveEventsTypeOK'
    BY <1>1, <2>1, LiveEventsAssumption DEF LiveInv, LiveEventsTypeOK
  <2>3. accounted \cup InReplay \subseteq accounted' \cup InReplay'
    BY <2>1 DEF InReplay, Newer
  <2>4. accounted \cup OnItsWay \subseteq accounted' \cup OnItsWay'
    BY <2>1, <2>3 DEF OnItsWay, InHand
  <2>5. QED
    BY <2>1, <2>2, <2>4 DEF LiveInv, StoredEvents
<1>3. CASE SubscriptionEnds
  <2>1. /\ wire' = <<>>
        /\ accounted' = (IF online THEN accounted \cup Range(wire) ELSE accounted)
        /\ UNCHANGED <<stamp, publisher, history, handing, replay, stray, online, channel, last>>
    BY <1>3 DEF SubscriptionEnds
  <2>2. LiveEventsTypeOK'
    BY <1>1, <2>1 DEF LiveInv, LiveEventsTypeOK
  <2>3. online => accounted \cup OnItsWay \subseteq accounted' \cup OnItsWay'
    BY <2>1 DEF OnItsWay, InHand, InReplay, Newer
  <2>4. QED
    BY <2>1, <2>2, <2>3 DEF LiveInv, StoredEvents
<1>4. QED
  BY <1>2, <1>3

\* The replica hands an event to the clients it has listed.
LEMMA ListKeeps ==
    ASSUME LiveInv, ListClients PROVE LiveInv'
<1>1. /\ wire # <<>> /\ handing = Nothing /\ wire' = Tail(wire)
      /\ handing' = IF online THEN [op |-> "handing", event |-> Head(wire), open |-> TRUE, shifted |-> FALSE]
                    ELSE Nothing
      /\ UNCHANGED <<stamp, publisher, history, replay, stray, online, channel, last, accounted>>
  BY DEF ListClients, Registered
<1>2. wire \in Seq(Event)
  BY DEF LiveInv, LiveEventsTypeOK
<1>3. /\ Head(wire) \in Event /\ Tail(wire) \in Seq(Event)
      /\ Range(wire) = {Head(wire)} \cup Range(Tail(wire))
  BY <1>1, <1>2, RangeSteps
<1>4. handing' \in {Nothing} \cup [op: {"handing"}, event: Event, open: BOOLEAN, shifted: BOOLEAN]
  BY <1>1, <1>3
<1>5. LiveEventsTypeOK'
  BY <1>1, <1>3, <1>4 DEF LiveInv, LiveEventsTypeOK
<1>6. online => InHand' = {Head(wire)}
  BY <1>1 DEF InHand
<1>7. InHand = {}
  BY <1>1 DEF InHand, Nothing
<1>8. InReplay' = InReplay
  BY <1>1 DEF InReplay, Newer
<1>9. online => OnItsWay \subseteq OnItsWay'
  BY <1>1, <1>3, <1>6, <1>7, <1>8 DEF OnItsWay
<1>10. QED
  BY <1>1, <1>5, <1>9 DEF LiveInv, StoredEvents

\* An event offered to the client's channel is in it, or passed over.
LEMMA OfferKeeps ==
    ASSUME LiveInv, NEW e \in Event, Offer(e)
    PROVE  /\ channel' \in Seq(Event) /\ Len(channel') <= Buffer /\ accounted' \subseteq Event
           /\ accounted \cup Range(channel) \cup {e} \subseteq accounted' \cup Range(channel')
           /\ accounted \subseteq accounted' /\ Range(channel) \subseteq Range(channel')
<1>1. channel \in Seq(Event) /\ Len(channel) <= Buffer /\ accounted \subseteq Event /\ Buffer \in Nat
  BY LiveEventsAssumption DEF LiveInv, LiveEventsTypeOK
<1>2. /\ Append(channel, e) \in Seq(Event) /\ Len(Append(channel, e)) = Len(channel) + 1
      /\ Range(Append(channel, e)) = Range(channel) \cup {e} /\ Len(channel) \in Nat
  BY <1>1, RangeSteps
<1>3. CASE Len(channel) < Buffer
  <2>1. channel' = Append(channel, e) /\ accounted' = accounted
    BY <1>3 DEF Offer
  <2>2. Len(channel) + 1 <= Buffer
    BY <1>1, <1>2, <1>3
  <2>3. QED
    BY <1>1, <1>2, <2>1, <2>2
<1>4. CASE ~(Len(channel) < Buffer)
  <2>1. channel' = channel /\ accounted' = accounted \cup {e}
    BY <1>4 DEF Offer
  <2>2. QED
    BY <1>1, <2>1
<1>5. QED
  BY <1>3, <1>4

LEMMA HandKeeps ==
    ASSUME LiveInv, Hand \/ OtherLeaves PROVE LiveInv'
<1>1. handing.op = "handing"
  BY DEF Hand, OtherLeaves
<1>2. /\ handing.event \in Event /\ handing.open \in BOOLEAN /\ handing.shifted \in BOOLEAN
      /\ handing = [op |-> "handing", event |-> handing.event, open |-> handing.open, shifted |-> handing.shifted]
      /\ accounted \subseteq Event
  BY <1>1, HandingFields DEF LiveInv, LiveEventsTypeOK
<1>3. CASE Hand
  <2>1. /\ handing.open /\ handing' = Nothing
        /\ UNCHANGED <<stamp, publisher, history, wire, replay, stray, online, last>>
        /\ \/ Offer(handing.event)
           \/ UNCHANGED channel /\ accounted' = accounted \cup {handing.event}
    BY <1>3 DEF Hand
  <2>2. /\ channel' \in Seq(Event) /\ Len(channel') <= Buffer /\ accounted' \subseteq Event
        /\ accounted \cup Range(channel) \cup {handing.event} \subseteq accounted' \cup Range(channel')
    <3>1. CASE Offer(handing.event)
      BY <1>2, <3>1, OfferKeeps
    <3>2. CASE UNCHANGED channel /\ accounted' = accounted \cup {handing.event}
      BY <1>2, <3>2 DEF LiveInv, LiveEventsTypeOK
    <3>3. QED
      BY <2>1, <3>1, <3>2
  <2>3. LiveEventsTypeOK'
    BY <2>1, <2>2 DEF LiveInv, LiveEventsTypeOK
  <2>4. InHand \subseteq {handing.event} /\ InReplay' = InReplay
    BY <2>1 DEF InHand, InReplay, Newer
  <2>5. accounted \cup OnItsWay \subseteq accounted' \cup OnItsWay'
    BY <2>1, <2>2, <2>4 DEF OnItsWay
  <2>6. QED
    BY <2>1, <2>3, <2>5 DEF LiveInv, StoredEvents
<1>4. CASE OtherLeaves
  <2>1. /\ handing' = [op |-> "handing", event |-> handing.event, open |-> handing.open, shifted |-> TRUE]
        /\ UNCHANGED <<stamp, publisher, history, wire, replay, stray, online, channel, last, accounted>>
    BY <1>2, <1>4 DEF OtherLeaves
  <2>2. LiveEventsTypeOK'
    BY <1>2, <2>1 DEF LiveInv, LiveEventsTypeOK
  <2>3. OnItsWay' = OnItsWay
    BY <1>1, <2>1 DEF OnItsWay, InHand, InReplay, Newer
  <2>4. QED
    BY <2>1, <2>2, <2>3 DEF LiveInv, StoredEvents
<1>5. QED
  BY <1>3, <1>4

\* A client who is not connected is promised nothing.
LEMMA OfflineKeeps ==
    ASSUME LiveInv, LiveEventsTypeOK', UNCHANGED <<stamp, history>>, StoredEvents \subseteq StoredEvents',
           replay' = Nothing, ~online'
    PROVE  LiveInv'
  BY DEF LiveInv, Nothing

LEMMA StopKeeps ==
    ASSUME LiveInv, StopProcess PROVE LiveInv'
<1>1. /\ publisher' = [e \in Event |-> IF publisher[e] = "none" THEN "none" ELSE "done"]
      /\ wire' = <<>> /\ handing' = Nothing /\ replay' = Nothing /\ stray' = FALSE
      /\ online' = FALSE /\ channel' = <<>>
      /\ UNCHANGED <<stamp, history, last, accounted>>
  BY DEF StopProcess
<1>2. <<>> \in Seq(Event) /\ Len(<<>>) <= Buffer
  BY LiveEventsAssumption
<1>3. LiveEventsTypeOK'
  BY <1>1, <1>2 DEF LiveInv, LiveEventsTypeOK
<1>4. StoredEvents \subseteq StoredEvents'
  BY <1>1 DEF StoredEvents, LiveInv, LiveEventsTypeOK
<1>5. QED
  BY <1>1, <1>3, <1>4, OfflineKeeps

LEMMA LeaveKeeps ==
    ASSUME LiveInv, Leave PROVE LiveInv'
<1>1. /\ online' = FALSE /\ channel' = <<>> /\ replay' = Nothing
      /\ handing' = IF handing.op = "handing" THEN [handing EXCEPT !.open = FALSE] ELSE handing
      /\ stray' = (stray \/ replay # Nothing)
      /\ UNCHANGED <<stamp, publisher, history, wire, last, accounted>>
  BY DEF Leave
<1>2. <<>> \in Seq(Event) /\ Len(<<>>) <= Buffer
  BY LiveEventsAssumption
<1>3. handing' \in {Nothing} \cup [op: {"handing"}, event: Event, open: BOOLEAN, shifted: BOOLEAN]
  BY <1>1, HandingFields DEF LiveInv, LiveEventsTypeOK
<1>4. stray' \in BOOLEAN
  BY <1>1
<1>5. LiveEventsTypeOK'
  BY <1>1, <1>2, <1>3, <1>4 DEF LiveInv, LiveEventsTypeOK
<1>6. StoredEvents \subseteq StoredEvents'
  BY <1>1 DEF StoredEvents
<1>7. QED
  BY <1>1, <1>5, <1>6, OfflineKeeps

\* The client reads, asks for what it missed, and is sent it.
LEMMA ReadKeeps ==
    ASSUME LiveInv, Read PROVE LiveInv'
<1>1. /\ online /\ channel # <<>> /\ accounted' = accounted \cup {Head(channel)}
      /\ last' = stamp[Head(channel)] /\ channel' = Tail(channel)
      /\ UNCHANGED <<stamp, publisher, history, wire, handing, replay, stray, online>>
  BY DEF Read
<1>2. channel \in Seq(Event) /\ Len(channel) <= Buffer /\ Buffer \in Nat
  BY LiveEventsAssumption DEF LiveInv, LiveEventsTypeOK
<1>3. /\ Head(channel) \in Event /\ Tail(channel) \in Seq(Event) /\ Len(Tail(channel)) = Len(channel) - 1
      /\ Range(channel) = {Head(channel)} \cup Range(Tail(channel)) /\ Len(channel) \in Nat
  BY <1>1, <1>2, RangeSteps
<1>4. Len(Tail(channel)) <= Buffer
  BY <1>2, <1>3
<1>5. LiveEventsTypeOK'
  BY <1>1, <1>3, <1>4 DEF LiveInv, LiveEventsTypeOK
<1>6. InHand' = InHand /\ InReplay' = InReplay
  BY <1>1 DEF InHand, InReplay, Newer
<1>7. accounted \cup OnItsWay \subseteq accounted' \cup OnItsWay'
  BY <1>1, <1>3, <1>6 DEF OnItsWay
<1>8. QED
  BY <1>1, <1>5, <1>7 DEF LiveInv, StoredEvents

LEMMA SubscribeKeeps ==
    ASSUME LiveInv, Subscribe PROVE LiveInv'
<1>1. /\ online' = TRUE /\ channel' = <<>> /\ accounted' = accounted \cup Missed
      /\ replay' = IF last = 0 THEN Nothing ELSE [op |-> "asked", after |-> last]
      /\ UNCHANGED <<stamp, publisher, history, wire, handing, stray, last>>
  BY DEF Subscribe, AskForReplay
<1>2. <<>> \in Seq(Event) /\ Len(<<>>) <= Buffer
  BY LiveEventsAssumption
<1>3. Missed \subseteq Event /\ last \in 0..MaxEvent
  BY DEF Missed, LiveInv, LiveEventsTypeOK
<1>4. replay' \in {Nothing} \cup [op: {"asked"}, after: 0..MaxEvent]
                            \cup [op: {"sending"}, items: Seq(Event), after: 0..MaxEvent]
  BY <1>1, <1>2, <1>3, ReplayTypes
<1>5. LiveEventsTypeOK'
  BY <1>1, <1>2, <1>3, <1>4 DEF LiveInv, LiveEventsTypeOK
<1>6. ToReplay \subseteq InReplay' /\ replay'.op # "sending"
  BY <1>1 DEF ToReplay, InReplay, Newer, Nothing
<1>7. ASSUME NEW e \in Event, publisher[e] = "done" PROVE e \in accounted' \cup OnItsWay'
  BY <1>1, <1>6, <1>7 DEF Missed, OnItsWay
<1>8. QED
  BY <1>1, <1>5, <1>6, <1>7 DEF LiveInv, StoredEvents

LEMMA ReadHistoryKeeps ==
    ASSUME LiveInv, ReadHistory \/ HistoryReadFails PROVE LiveInv'
<1>1. history \in Seq(Event) /\ replay.op = "asked" /\ replay.after \in 0..MaxEvent
  BY ReplayFields DEF LiveInv, LiveEventsTypeOK, ReadHistory, HistoryReadFails
<1>2. Range(history) \subseteq Event
  BY <1>1, RangeOfSeq
<1>3. CASE ReadHistory
  <2>1. /\ replay' = [op |-> "sending", items |-> history, after |-> replay.after]
        /\ UNCHANGED <<stamp, publisher, history, wire, handing, stray, online, channel, last, accounted>>
    BY <1>3 DEF ReadHistory
  <2>2. LiveEventsTypeOK'
    BY <1>1, <2>1, ReplayTypes DEF LiveInv, LiveEventsTypeOK
  <2>3. InReplay' = InReplay
    BY <1>1, <2>1 DEF InReplay, Newer
  <2>4. OnItsWay' = OnItsWay
    BY <2>1, <2>3 DEF OnItsWay, InHand
  <2>5. QED
    BY <2>1, <2>2, <2>4 DEF LiveInv, StoredEvents
<1>4. CASE HistoryReadFails
  <2>1. /\ replay' = Nothing /\ accounted' = accounted \cup Range(history)
        /\ UNCHANGED <<stamp, publisher, history, wire, handing, stray, online, channel, last>>
    BY <1>4 DEF HistoryReadFails
  <2>2. LiveEventsTypeOK'
    BY <1>2, <2>1 DEF LiveInv, LiveEventsTypeOK
  <2>3. InReplay \subseteq accounted'
    BY <1>1, <2>1 DEF InReplay, Newer
  <2>4. accounted \cup OnItsWay \subseteq accounted' \cup OnItsWay'
    BY <2>1, <2>3 DEF OnItsWay, InHand
  <2>5. QED
    BY <2>1, <2>2, <2>4 DEF LiveInv, StoredEvents, Nothing
<1>5. QED
  BY <1>3, <1>4

LEMMA ReplayKeeps ==
    ASSUME LiveInv, ReplayNext PROVE LiveInv'
<1>1. /\ replay.op = "sending"
      /\ UNCHANGED <<stamp, publisher, history, wire, handing, stray, online, last>>
  BY DEF ReplayNext
<1>2. /\ replay.items \in Seq(Event) /\ replay.after \in 0..MaxEvent
      /\ replay = [op |-> "sending", items |-> replay.items, after |-> replay.after]
      /\ Range(replay.items) \subseteq StoredEvents
  BY <1>1, ReplayFields DEF LiveInv
<1>3. CASE replay.items = <<>>
  <2>1. replay' = Nothing /\ UNCHANGED <<channel, accounted>>
    BY <1>3 DEF ReplayNext
  <2>2. LiveEventsTypeOK'
    BY <1>1, <2>1 DEF LiveInv, LiveEventsTypeOK
  <2>3. InReplay = {}
    BY <1>1, <1>3 DEF InReplay, Newer, Range
  <2>4. OnItsWay \subseteq OnItsWay'
    BY <1>1, <2>1, <2>3 DEF OnItsWay, InHand
  <2>5. QED
    BY <1>1, <2>1, <2>2, <2>4 DEF LiveInv, StoredEvents, Nothing
<1>4. CASE replay.items # <<>>
  <2> DEFINE e == Head(replay.items)
  <2>1. /\ e \in Event /\ Tail(replay.items) \in Seq(Event)
        /\ Range(replay.items) = {e} \cup Range(Tail(replay.items))
    BY <1>2, <1>4, RangeSteps
  <2>2. replay' = [op |-> "sending", items |-> Tail(replay.items), after |-> replay.after]
    BY <1>2, <1>4 DEF ReplayNext
  <2>3. IF stamp[e] > replay.after THEN Offer(e) ELSE UNCHANGED <<channel, accounted>>
    BY <1>4 DEF ReplayNext
  <2> HIDE DEF e
  <2>4. /\ channel' \in Seq(Event) /\ Len(channel') <= Buffer /\ accounted' \subseteq Event
        /\ accounted \cup Range(channel) \subseteq accounted' \cup Range(channel')
        /\ stamp[e] > replay.after => e \in accounted' \cup Range(channel')
    <3>1. CASE stamp[e] > replay.after
      BY <2>1, <2>3, <3>1, OfferKeeps
    <3>2. CASE ~(stamp[e] > replay.after)
      BY <2>3, <3>2 DEF LiveInv, LiveEventsTypeOK
    <3>3. QED
      BY <3>1, <3>2
  <2>5. LiveEventsTypeOK'
    BY <1>1, <1>2, <2>1, <2>2, <2>4, ReplayTypes DEF LiveInv, LiveEventsTypeOK
  <2>6. InReplay \subseteq InReplay' \cup accounted' \cup Range(channel')
    BY <1>1, <1>2, <2>1, <2>2, <2>4 DEF InReplay, Newer
  <2>7. accounted \cup OnItsWay \subseteq accounted' \cup OnItsWay'
    BY <1>1, <2>4, <2>6 DEF OnItsWay, InHand
  <2>8. Range(replay'.items) \subseteq StoredEvents
    BY <1>2, <2>1, <2>2
  <2>9. QED
    BY <1>1, <2>5, <2>7, <2>8 DEF LiveInv, StoredEvents
<1>5. QED
  BY <1>3, <1>4

LEMMA LiveNext == LiveInv /\ [LiveEventsNext]_eventsVars => LiveInv'
<1> SUFFICES ASSUME LiveInv, [LiveEventsNext]_eventsVars PROVE LiveInv'
  OBVIOUS
<1>1. CASE UNCHANGED eventsVars
  BY <1>1 DEF eventsVars, LiveInv, LiveEventsTypeOK, StoredEvents, OnItsWay, InHand, InReplay, Newer
<1>2. CASE HandToTheGone \/ ReplayToTheGone
  <2>1. CASE StopProcess
    BY <2>1, StopKeeps
  <2>2. CASE stray' = FALSE /\ UNCHANGED <<stamp, publisher, history, wire, handing, replay, online, channel, last, accounted>>
    BY <2>2 DEF LiveInv, LiveEventsTypeOK, StoredEvents, OnItsWay, InHand, InReplay, Newer
  <2>3. QED
    BY <1>2, <2>1, <2>2 DEF HandToTheGone, ReplayToTheGone
<1>3. CASE \E e \in Event : Publish(e) \/ AppendHistory(e) \/ HistoryWriteFails(e) \/ Broadcast(e)
  BY <1>3, PublishKeeps, AppendKeeps, BroadcastKeeps
<1>4. CASE HistoryExpires \/ SubscriptionEnds \/ ListClients \/ OtherLeaves \/ Hand
  BY <1>4, LossKeeps, ListKeeps, HandKeeps
<1>5. CASE Read \/ Subscribe \/ Leave \/ ReadHistory \/ HistoryReadFails \/ ReplayNext
  BY <1>5, ReadKeeps, SubscribeKeeps, LeaveKeeps, ReadHistoryKeeps, ReplayKeeps
<1>6. QED
  BY <1>1, <1>2, <1>3, <1>4, <1>5 DEF LiveEventsNext

LEMMA LiveNothingLost == LiveInv => NothingLostBetween
<1> SUFFICES ASSUME LiveInv, Settled, NEW e \in Event, publisher[e] = "done" PROVE e \in accounted
  BY DEF NothingLostBetween
<1>1. OnItsWay = {}
  BY DEF Settled, OnItsWay, InHand, InReplay, Nothing, Range
<1>2. QED
  BY <1>1 DEF LiveInv, Settled

-----------------------------------------------------------------------------
(* Both, side by side. *)

LEMMA SessionsInitInv == SessionsInit => AccountsInv /\ LiveInv /\ side \in {"accounts", "events"}
  BY InitInv, LiveInit DEF SessionsInit

LEMMA SessionsStep ==
    ASSUME AccountsInv, LiveInv, side \in {"accounts", "events"}, [SessionsNext]_sessionsVars
    PROVE  AccountsInv' /\ LiveInv' /\ side' \in {"accounts", "events"}
<1>1. [AccountsNext]_accountVars /\ [LiveEventsNext]_eventsVars /\ side' = side
  BY DEF SessionsNext, sessionsVars
<1>2. QED
  BY <1>1, StepInv, LiveNext

\* The inductive invariants of the two parts hold together.
THEOREM SessionsInvariant == SessionsSpec => [](AccountsInv /\ LiveInv /\ side \in {"accounts", "events"})
<1> DEFINE Inv == AccountsInv /\ LiveInv /\ side \in {"accounts", "events"}
<1>1. SessionsInit => Inv
  BY SessionsInitInv
<1>2. Inv /\ [SessionsNext]_sessionsVars => Inv'
  BY SessionsStep
<1>3. QED
  BY <1>1, <1>2, PTL DEF SessionsSpec

\* The rows of the auth service, and what the orders service holds for a dashboard's
\* stream: the list within its length, a client's channel within its buffer.
THEOREM SessionsTypesHold == SessionsSpec => []SessionsTypeOK
<1>1. AccountsInv /\ LiveInv /\ side \in {"accounts", "events"} => SessionsTypeOK
  BY DEF AccountsInv, LiveInv, SessionsTypeOK
<1>2. QED
  BY <1>1, SessionsInvariant, PTL

\* Registering before the replay (Subscribe, then replayHistory) leaves no gap: a client
\* with nothing on its way has seen every event but those a named cause took.
THEOREM NothingIsLostBetween == SessionsSpec => []NothingLostBetween
<1>1. QED
  BY LiveNothingLost, SessionsInvariant, PTL

=============================================================================
