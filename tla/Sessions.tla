------------------------------- MODULE Sessions ------------------------------
(***************************************************************************)
(* Sessions of the panel (auth_api): log-in, refresh tokens and their         *)
(* rotation, the codes an administrator hands out to reset a password.        *)
(*                                                                         *)
(* Every call to the database is a step of its own; a request may die between  *)
(* two of them, or one of them fails.                                        *)
(***************************************************************************)
EXTENDS Integers, FiniteSets

CONSTANTS
  Users, Requests, NoUser,
  MaxPasswordResetAttempts,   \* maxPasswordResetAttempts
  MaxTokens, MaxCodes, MaxPasswords, MaxCuts, MaxFaults   \* bounds: ids, passwords set,
                                                 \* revocations of a family, failures

ASSUME SessionsAssumption ==
  /\ MaxPasswordResetAttempts \in Nat
  /\ MaxTokens \in Nat /\ MaxCodes \in Nat /\ MaxPasswords \in Nat

VARIABLES
  tokens,      \* refresh_tokens: id |-> row
  codes,       \* password_reset_tokens: id |-> row
  password,    \* users: id |-> which password is set
  work,        \* the requests that run
  cut,         \* users: id |-> how often all their sessions were revoked
  past         \* what can no longer be seen in the rows: see PastInit

sessionVars == <<tokens, codes, password, work, cut, past>>

Idle == [pc |-> "idle", user |-> NoUser, id |-> 0, since |-> 0]

\* How many successors a token had, wrong guesses a code took, ids given out.
\* The codes whose attempt or death was not written: a call to the database failed.
PastInit == [successors |-> [t \in 1..MaxTokens |-> 0], guesses |-> [c \in 1..MaxCodes |-> 0],
             missed |-> {}, tokens |-> 0, codes |-> 0, passwords |-> 0, faults |-> 0]

SessionsInit ==
  /\ tokens = [t \in {} |-> {}] /\ codes = [c \in {} |-> {}]
  /\ password = [u \in Users |-> 0] /\ cut = [u \in Users |-> 0]
  /\ work = [r \in Requests |-> Idle] /\ past = PastInit

AddRow(f, x, y) == [z \in DOMAIN f \cup {x} |-> IF z = x THEN y ELSE f[z]]
KeepRows(f, S)  == [z \in S |-> f[z]]
Live(t)         == ~tokens[t].revoked
\* A request begins: about a user, or an address that may not have one yet.
Start(r, pc, u, id) ==
  /\ work[r].pc = "idle"
  /\ work' = [work EXCEPT ![r] = [pc |-> pc, user |-> u, id |-> id,
                                 since |-> IF u \in Users THEN cut[u] ELSE 0]]
Proceed(r, pc) == work' = [work EXCEPT ![r].pc = pc]
Answer(r)      == work' = [work EXCEPT ![r] = Idle]

\* UPDATE refresh_tokens SET revoked = true WHERE user_id = ... AND revoked = false
RevokedOf(u) == [t \in DOMAIN tokens |-> IF tokens[t].user = u
                                           THEN [tokens[t] EXCEPT !.revoked = TRUE] ELSE tokens[t]]

CutOf(u) == cut[u] < MaxCuts /\ cut' = [cut EXCEPT ![u] = @ + 1]

-----------------------------------------------------------------------------
(* Whose token it is: GenerateJWT, generateClientJWT, GenerateJWTDeliveryMan     *)

Tables == {"user", "client", "deliveryman"}

\* The claims of a token; those issued before account_type existed lack it, and
\* a courier's never had a role.
Claims(table, id, old) ==
  [id |-> id, account_type |-> IF old THEN "" ELSE table,
   role |-> CASE table = "user" -> "restaurant" [] table = "client" -> "client" [] OTHER -> ""]

FromTypeOnly(claims) ==   \* mutant of AccountTypeFromClaims: what has no type is a user's
  IF claims.account_type \in Tables THEN claims.account_type ELSE "user"

AccountTypeFromClaims(claims) ==
  IF claims.account_type \in Tables THEN claims.account_type
  ELSE CASE claims.role = "client" -> "client"
         [] claims.role \in {"", "deliveryman", "delivery_man"} -> "deliveryman"
         [] OTHER -> "user"

IsOwnAccount(claims, table, id) == claims.id = id /\ AccountTypeFromClaims(claims) = table

-----------------------------------------------------------------------------
(* Login, SessionLogin and CreateRefreshToken *)

Login(r, u, pw) ==
  /\ pw = password[u] /\ Start(r, "store", u, 0)
  /\ UNCHANGED <<tokens, codes, password, cut, past>>

CreateRefreshToken(r) ==
  LET t == past.tokens + 1
      w == work[r]
  IN /\ w.pc = "store" /\ t <= MaxTokens
     /\ tokens' = AddRow(tokens, t, [user |-> w.user, revoked |-> FALSE, expired |-> FALSE,
                                     after |-> cut[w.user], since |-> w.since])
     /\ past' = [past EXCEPT !.tokens = t,
          !.successors = [o \in 1..MaxTokens |-> IF o = w.id THEN @[o] + 1 ELSE @[o]]]
     /\ Answer(r)
     /\ UNCHANGED <<codes, password, cut>>

-----------------------------------------------------------------------------
(* RotateRefreshToken *)

ReadThenClaim(r, t) ==   \* mutant of Claim: the token is looked at, then revoked
  /\ t \in DOMAIN tokens
  /\ IF Live(t) THEN Start(r, "claimed", tokens[t].user, t) ELSE Start(r, "reuse", tokens[t].user, t)
  /\ UNCHANGED <<tokens, codes, password, cut, past>>

\* UPDATE ... WHERE token = ? AND revoked = false: one request gets the token.
Claim(r, t) ==
  /\ t \in DOMAIN tokens
  /\ IF Live(t)
       THEN Start(r, "claimed", tokens[t].user, t) /\ tokens' = [tokens EXCEPT ![t].revoked = TRUE]
       ELSE Start(r, "reuse", tokens[t].user, t) /\ UNCHANGED tokens
  /\ UNCHANGED <<codes, password, cut, past>>

\* The row is read again, its date looked at; the cleanup may have deleted it.
ReadClaimed(r) ==
  LET t == work[r].id
  IN /\ work[r].pc = "claimed"
     /\ IF t \in DOMAIN tokens /\ ~tokens[t].expired THEN Proceed(r, "store") ELSE Answer(r)
     /\ UNCHANGED <<tokens, codes, password, cut, past>>

RevokeOnlyIt(r) ==   \* mutant of RevokeFamily: the token that was used again, and no other
  /\ work[r].pc = "reuse"
  /\ CutOf(work[r].user)
  /\ Answer(r)
  /\ UNCHANGED <<tokens, codes, password, past>>

\* A revoked token is used again: the whole family of its user goes, if the row
\* is still there.
RevokeFamily(r) ==
  LET u == work[r].user
  IN /\ work[r].pc = "reuse"
     /\ IF work[r].id \in DOMAIN tokens
          THEN /\ tokens' = RevokedOf(u) /\ CutOf(u)
               /\ Answer(r)
          ELSE Answer(r) /\ UNCHANGED <<tokens, cut>>
     /\ UNCHANGED <<codes, password, past>>

\* Logout and SessionLogout.
RevokeRefreshToken(t) ==
  /\ t \in DOMAIN tokens /\ tokens' = [tokens EXCEPT ![t].revoked = TRUE]
  /\ UNCHANGED <<codes, password, work, cut, past>>

CleanupExpiredRefreshTokens ==
  /\ tokens' = KeepRows(tokens, {t \in DOMAIN tokens : Live(t) /\ ~tokens[t].expired})
  /\ UNCHANGED <<codes, password, work, cut, past>>

-----------------------------------------------------------------------------
(* A password changes *)

ChangePassword(r, u, current) ==
  /\ current = password[u] /\ Start(r, "change", u, 0)
  /\ UNCHANGED <<tokens, codes, password, cut, past>>

SetPassword(u) ==
  /\ past.passwords < MaxPasswords
  /\ password' = [password EXCEPT ![u] = past.passwords + 1]

\* Sessions stay open when one changes one's own password.
SaveChange(r) ==
  /\ work[r].pc = "change" /\ SetPassword(work[r].user) /\ Answer(r)
  /\ past' = [past EXCEPT !.passwords = @ + 1]
  /\ UNCHANGED <<tokens, codes, cut>>

\* The last call of UpdateUser and of ResetPassword.
RevokeAll(r) ==
  LET u == work[r].user
  IN /\ work[r].pc = "revoke"
     /\ tokens' = RevokedOf(u) /\ CutOf(u)
     /\ Answer(r)
     /\ UNCHANGED <<codes, password, past>>

-----------------------------------------------------------------------------
(* password_reset.go *)

\* The codes of the account that are not used yet are used up, then ...
GenerateAdminResetCode(r, u) ==
  /\ Start(r, "code", u, 0)
  /\ codes' = [c \in DOMAIN codes |-> IF codes[c].user = u
                                        THEN [codes[c] EXCEPT !.used = TRUE] ELSE codes[c]]
  /\ UNCHANGED <<tokens, password, cut, past>>

\* ... the new one is stored.
CreateCode(r) ==
  LET c == past.codes + 1
  IN /\ work[r].pc = "code" /\ c <= MaxCodes
     /\ codes' = AddRow(codes, c, [user |-> work[r].user, used |-> FALSE, expired |-> FALSE, attempts |-> 0])
     /\ past' = [past EXCEPT !.codes = c]
     /\ Answer(r)
     /\ UNCHANGED <<tokens, password, cut>>

Usable(u) == {c \in DOMAIN codes : codes[c].user = u /\ ~codes[c].used /\ ~codes[c].expired}

\* The newest usable code, right or not; without one the request is refused.
ResetPassword(r, u, right) ==
  /\ Usable(u) # {}
  /\ LET c == CHOOSE c \in Usable(u) : \A d \in Usable(u) : d <= c
     IN Start(r, IF right THEN "reset" ELSE "wrong", u, c)
  /\ UNCHANGED <<tokens, codes, password, cut, past>>

CountAlways(r) ==   \* mutant of CountAttempt: an attempt beyond the limit is only counted
  LET c == work[r].id
  IN /\ work[r].pc = "wrong"
     /\ codes' = IF c \in DOMAIN codes /\ codes[c].attempts < MaxPasswordResetAttempts
                   THEN [codes EXCEPT ![c].attempts = @ + 1] ELSE codes
     /\ past' = [past EXCEPT !.guesses[c] = IF @ > MaxPasswordResetAttempts THEN @ ELSE @ + 1]
     /\ Answer(r)
     /\ UNCHANGED <<tokens, password, cut>>

\* attempts + 1 where the code is unused and the limit not reached; where no row
\* was changed, the code is to die, in a statement of its own.
CountAttempt(r) ==
  LET c == work[r].id
      counted == c \in DOMAIN codes /\ ~codes[c].used /\ codes[c].attempts < MaxPasswordResetAttempts
  IN /\ work[r].pc = "wrong"
     /\ IF counted THEN codes' = [codes EXCEPT ![c].attempts = @ + 1] /\ Answer(r)
                   ELSE UNCHANGED codes /\ Proceed(r, "kill")
     /\ past' = [past EXCEPT !.guesses[c] = IF @ > MaxPasswordResetAttempts THEN @ ELSE @ + 1]
     /\ UNCHANGED <<tokens, password, cut>>

UsedUp(c) == IF c \in DOMAIN codes THEN [codes EXCEPT ![c].used = TRUE] ELSE codes

\* If this fails nobody notices: see RequestDies.
KillCode(r) ==
  /\ work[r].pc = "kill" /\ codes' = UsedUp(work[r].id) /\ Answer(r)
  /\ UNCHANGED <<tokens, password, cut, past>>

SaveReset(r) ==
  /\ work[r].pc = "reset" /\ SetPassword(work[r].user) /\ Proceed(r, "use")
  /\ past' = [past EXCEPT !.passwords = @ + 1]
  /\ UNCHANGED <<tokens, codes, cut>>

\* Nobody looks at whether the code was still there to be used.
UseCode(r) ==
  /\ work[r].pc = "use" /\ Proceed(r, "revoke")
  /\ codes' = UsedUp(work[r].id)
  /\ UNCHANGED <<tokens, password, cut, past>>

\* At a start of the program: codes a day old, and used ones, go.
CleanupExpiredPasswordResets ==
  /\ codes' = KeepRows(codes, {c \in DOMAIN codes : ~codes[c].used /\ ~codes[c].expired})
  /\ UNCHANGED <<tokens, password, work, cut, past>>

-----------------------------------------------------------------------------
\* Thirty days, fifteen minutes.
TokenExpires(t) == /\ t \in DOMAIN tokens /\ tokens' = [tokens EXCEPT ![t].expired = TRUE]
                   /\ UNCHANGED <<codes, password, work, cut, past>>
CodeExpires(c)  == /\ c \in DOMAIN codes /\ codes' = [codes EXCEPT ![c].expired = TRUE]
                   /\ UNCHANGED <<tokens, password, work, cut, past>>

\* A call fails, or the process stops: the request ends where it is.
RequestDies(r) ==
  /\ work[r].pc # "idle" /\ past.faults < MaxFaults
  /\ past' = [past EXCEPT !.faults = @ + 1,
                !.missed = IF work[r].pc \in {"wrong", "kill"} THEN @ \cup {work[r].id} ELSE @]
  /\ Answer(r)
  /\ UNCHANGED <<tokens, codes, password, cut>>

\* What a user, or an administrator for them, begins.
Begin(r, u) ==
  \/ Login(r, u, password[u]) \/ ChangePassword(r, u, password[u]) \/ GenerateAdminResetCode(r, u)
  \/ \E right \in BOOLEAN : ResetPassword(r, u, right)

Continue(r) ==
  \/ CreateRefreshToken(r) \/ ReadClaimed(r) \/ RevokeFamily(r) \/ RevokeAll(r)
  \/ SaveChange(r) \/ CreateCode(r) \/ CountAttempt(r) \/ KillCode(r) \/ SaveReset(r) \/ UseCode(r)
  \/ RequestDies(r)

Tokens ==
  \/ CleanupExpiredRefreshTokens \/ CleanupExpiredPasswordResets
  \/ \E t \in DOMAIN tokens : \/ RevokeRefreshToken(t) \/ TokenExpires(t)
                             \/ \E r \in Requests : Claim(r, t)
  \/ \E c \in DOMAIN codes : CodeExpires(c)

-----------------------------------------------------------------------------
\* The client 5, the user 5 and the courier 5 are three people: a token, old or
\* new, is the account of its own table and number and of no other
\* (jwt.go:121-123).
ThreePeople ==
  \A mine, theirs \in Tables, i, j \in DOMAIN password, old \in BOOLEAN :
    IsOwnAccount(Claims(mine, i, old), theirs, j) <=> mine = theirs /\ i = j

\* A token is exchanged for one token at most, whichever requests present it at
\* once and whatever is deleted or revoked meanwhile ("duas renovacoes
\* concorrentes com o mesmo token nao geram mais dois pares validos",
\* jwt.go:288-290).
OneSuccessor == \A t \in 1..past.tokens : past.successors[t] <= 1

\* What is live was stored after the last time all sessions of its user were
\* revoked, by a reuse, a reset or an administrator (jwt.go:291-293,
\* user_handler.go:436-438); whichever rotation, log-out or cleanup went on.
NothingOutlivesRevocation ==
  \A t \in DOMAIN tokens : Live(t) => tokens[t].after = cut[tokens[t].user]

\* The guess that goes beyond the limit kills the code, whatever guesses come at
\* once and whatever is cleaned up ("excedeu -> codigo morto",
\* password_reset.go:184): such a code is dead or a request is about to kill it,
\* unless the database refused to count a guess or to kill the code.
GuessesAreLimited ==
  \A c \in DOMAIN codes :
    /\ codes[c].attempts <= MaxPasswordResetAttempts
    /\ past.guesses[c] > MaxPasswordResetAttempts =>
         \/ codes[c].used \/ c \in past.missed
         \/ \E r \in Requests : work[r].pc = "kill" /\ work[r].id = c

\* A session is one person's, has one future, ends when it is revoked, and a
\* code is not guessed.
SessionsKept == ThreePeople /\ OneSuccessor /\ NothingOutlivesRevocation /\ GuessesAreLimited
-----------------------------------------------------------------------------
\* What comments say and the steps of two requests refute.
\*
\* After a reuse the family has ended ("revoga toda a familia", jwt.go:291): a
\* refresh, or a log-in with the old password, that had begun survives it.
FamilyEnds ==
  \A t \in DOMAIN tokens : Live(t) => tokens[t].since = cut[tokens[t].user]

\* A code that took more guesses than it may resets nothing ("teto de
\* maxPasswordResetAttempts tentativas por codigo", password_reset.go:183-184): it
\* does until it is killed, and for good if that fails.
NoResetAfterTheLimit ==
  [][\A r \in Requests :
       work[r].pc = "idle" /\ work'[r].pc = "reset"
         => past.guesses[work'[r].id] <= MaxPasswordResetAttempts]_sessionVars

\* Two requests with one code do not both pass (password_reset.go:258-259).
OneResetPerCode ==
  [][\A r \in Requests :
       work[r].pc = "reset" /\ work'[r].pc = "use" /\ work[r].id \in DOMAIN codes
         => ~codes[work[r].id].used]_sessionVars

\* Only the last code an administrator made counts (password_reset.go:119-120).
OneUsableCode == \A u \in Users : Cardinality(Usable(u)) <= 1
=============================================================================
