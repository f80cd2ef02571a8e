---------------------------- MODULE AccountsProofs ----------------------------
(***************************************************************************)
(* Proofs about auth_api: the sessions, the users and stores that an        *)
(* administrator keeps, the couriers, the subscriptions and the opening     *)
(* hours, for any number of requests, users, stores, couriers, clients,     *)
(* rows and periods, and for weeks and days of any length.                  *)
(*                                                                         *)
(* Each handler reads a row in one step and saves it whole in a later one,  *)
(* so none of the properties is inductive: what they say of the rows in the *)
(* database must also be said of every row that a handler still holds, of   *)
(* every request by where it stands, and of the histories kept of rows that *)
(* are gone.  SessionsInv, UsersInv, AdminsInv, StoresInv, CouriersInv and  *)
(* ClubInv do that, one per part.                                           *)
(*                                                                         *)
(* The hours have no such races: there the work is the arithmetic of a week *)
(* that turns over, and what is known of the days a closed store skips.     *)
(***************************************************************************)
EXTENDS UserAdmin, CourierAccounts, Subscriptions, StoreHours, FiniteSetTheorems, WellFoundedInduction, TLAPS

-----------------------------------------------------------------------------
(* Numbers: a set of them has a least one, and a greatest if it is bounded.     *)

LEMMA LeastNumber ==
  ASSUME NEW S, S \subseteq Nat, S # {}
  PROVE  \E x \in S : \A y \in S : x <= y
<1> DEFINE Below == {ss \in Nat \X Nat : ss[1] < ss[2]}
<1>1. IsWellFoundedOn(Below, Nat)
  BY NatLessThanWellFounded DEF OpToRel
<1>2. PICK x \in S : \A y \in S : ~(<<y, x>> \in Below)
  <2> HIDE DEF Below
  <2> QED  BY <1>1, WFMin
<1>3. \A y \in S : y \in Nat /\ x \in Nat
  OBVIOUS
<1>4. \A y \in S : ~(y < x)
  BY <1>2, <1>3
<1> HIDE DEF Below
<1> QED  BY <1>3, <1>4

LEMMA GreatestNumber ==
  ASSUME NEW n \in Nat, NEW S, S \subseteq 0..n, S # {}
  PROVE  \E x \in S : \A y \in S : y <= x
<1> DEFINE T == {m \in Nat : \E x \in S : m = n - x}
<1>1. T \subseteq Nat /\ T # {}
  <2>1. PICK x \in S : TRUE
    OBVIOUS
  <2>2. n - x \in Nat
    BY <2>1
  <2> QED  BY <2>1, <2>2
<1>2. PICK m \in T : \A k \in T : m <= k
  <2> HIDE DEF T
  <2> QED  BY <1>1, LeastNumber
<1>3. PICK x \in S : m = n - x
  BY <1>2
<1>4. ASSUME NEW y \in S PROVE y <= x
  <2>1. n - y \in T /\ x \in 0..n /\ y \in 0..n
    BY <1>4
  <2>2. n - x <= n - y
    BY <2>1, <1>2, <1>3
  <2> QED  BY <2>1, <2>2
<1> QED  BY <1>4

-----------------------------------------------------------------------------
(* Sessions: what a token and a code are, and the request that has one of them. *)

IsWork(w)  == w = [pc |-> w.pc, user |-> w.user, id |-> w.id, since |-> w.since]
IsToken(t) == /\ t = [user |-> t.user, revoked |-> t.revoked, expired |-> t.expired,
                      after |-> t.after, since |-> t.since]
              /\ t.user \in Users /\ t.revoked \in BOOLEAN
IsCode(c)  == /\ c = [user |-> c.user, used |-> c.used, expired |-> c.expired, attempts |-> c.attempts]
              /\ c.used \in BOOLEAN /\ c.attempts \in 0..MaxPasswordResetAttempts
Past == [successors : [1..MaxTokens -> 0..1], guesses : [1..MaxCodes -> Nat], missed : SUBSET (1..MaxCodes),
         tokens : 0..MaxTokens, codes : 0..MaxCodes, passwords : 0..MaxPasswords, faults : Nat]

WorkInv == /\ work = [r \in Requests |-> work[r]] /\ \A r \in Requests : IsWork(work[r])
           /\ past \in Past

\* The requests that will store a token; instead of which one, if not after a log-in.
Storing(r)  == work[r].pc \in {"claimed", "store"}
Holds(r, t) == Storing(r) /\ work[r].id = t

\* A token is live and whole, or a request has it, or it was exchanged.
TokensInv ==
  /\ cut = [u \in Users |-> cut[u]]
  /\ tokens = [t \in DOMAIN tokens |-> tokens[t]] /\ DOMAIN tokens \subseteq 1..past.tokens
  /\ \A t \in DOMAIN tokens : IsToken(tokens[t])
  /\ \A r \in Requests : Storing(r) => work[r].user \in Users /\ work[r].id \in 0..past.tokens
  /\ \A r, q \in Requests : \A t \in 1..MaxTokens : Holds(r, t) /\ Holds(q, t) => r = q
  /\ \A t \in 1..MaxTokens :
       \/ t > past.tokens
       \/ t \in DOMAIN tokens /\ Live(t)
       \/ \E r \in Requests : Holds(r, t)
       => past.successors[t] = 0
  /\ \A t \in DOMAIN tokens : Live(t) => /\ \A r \in Requests : ~Holds(r, t)
                                         /\ tokens[t].after = cut[tokens[t].user]

\* As long as a code is alive every wrong guess is counted in its row, unless the
\* database failed or a request is about to kill the code.
Guessing   == {"wrong", "kill"}
Killing(c) == \E r \in Requests : work[r].pc = "kill" /\ work[r].id = c
Counted(c) == codes[c].used \/ c \in past.missed \/ Killing(c) \/ past.guesses[c] = codes[c].attempts
CodesInv ==
  /\ codes = [c \in DOMAIN codes |-> codes[c]] /\ DOMAIN codes \subseteq 1..past.codes
  /\ \A c \in DOMAIN codes : IsCode(codes[c]) /\ Counted(c)
  /\ \A c \in 1..MaxCodes : c > past.codes => past.guesses[c] = 0
  /\ \A r \in Requests : work[r].pc \in Guessing => work[r].id \in 1..past.codes

PasswordsInv == password \in [Users -> 0..MaxPasswords]

SessionsInv == WorkInv /\ TokensInv /\ CodesInv /\ PasswordsInv

-----------------------------------------------------------------------------
\* The tokens after a step that stores none and takes none: some may be gone or
\* revoked, and who holds one held it before.
LEMMA TokensDwindle ==
  ASSUME WorkInv, TokensInv, WorkInv',
         past'.tokens = past.tokens, past'.successors = past.successors,
         cut' = [u \in Users |-> cut'[u]],
         tokens' = [t \in DOMAIN tokens' |-> tokens'[t]], DOMAIN tokens' \subseteq DOMAIN tokens,
         \A t \in DOMAIN tokens' :
           /\ IsToken(tokens'[t]) /\ tokens'[t].user = tokens[t].user
           /\ ~tokens'[t].revoked => /\ ~tokens[t].revoked /\ tokens'[t].after = tokens[t].after
                                     /\ cut'[tokens[t].user] = cut[tokens[t].user],
         \A r \in Requests : Storing(r)' =>
           \/ work'[r].id = 0 /\ work'[r].user \in Users
           \/ Storing(r) /\ work'[r].id = work[r].id /\ work'[r].user = work[r].user
  PROVE  TokensInv'
<1>0. /\ past.tokens \in 0..MaxTokens /\ MaxTokens \in Nat
      /\ past.successors \in [1..MaxTokens -> 0..1]
  BY SessionsAssumption DEF WorkInv, Past
<1>1. \A r \in Requests : \A t \in 1..MaxTokens : Holds(r, t)' => Holds(r, t)
  BY <1>0 DEF Holds
<1>2. \A t \in DOMAIN tokens' : Live(t)' => Live(t)
  BY DEF Live
<1>3. \A r \in Requests : Storing(r)' => work'[r].user \in Users /\ work'[r].id \in 0..past'.tokens
  BY <1>0 DEF TokensInv
<1>4. DOMAIN tokens' \subseteq 1..past'.tokens /\ \A t \in DOMAIN tokens' : t \in 1..MaxTokens
  BY <1>0 DEF TokensInv
<1>5. \A r, q \in Requests : \A t \in 1..MaxTokens : Holds(r, t)' /\ Holds(q, t)' => r = q
  BY <1>1 DEF TokensInv
<1>6. \A t \in 1..MaxTokens : (\E r \in Requests : Holds(r, t)') => \E r \in Requests : Holds(r, t)
  BY <1>1
<1>7. ASSUME NEW t \in 1..MaxTokens,
             t > past'.tokens \/ (t \in DOMAIN tokens' /\ Live(t)') \/ \E r \in Requests : Holds(r, t)'
      PROVE  past'.successors[t] = 0
  <2>1. t > past.tokens \/ (t \in DOMAIN tokens /\ Live(t)) \/ \E r \in Requests : Holds(r, t)
    BY <1>2, <1>6, <1>7
  <2> QED  BY <2>1 DEF TokensInv
<1>8. ASSUME NEW t \in DOMAIN tokens', Live(t)'
      PROVE  /\ \A r \in Requests : ~Holds(r, t)'
             /\ tokens'[t].after = cut'[tokens'[t].user]
  <2>1. t \in DOMAIN tokens /\ Live(t) /\ t \in 1..MaxTokens
    BY <1>2, <1>4, <1>8
  <2>2. \A r \in Requests : ~Holds(r, t)
    BY <2>1 DEF TokensInv
  <2>3. tokens[t].after = cut[tokens[t].user]
    BY <2>1 DEF TokensInv
  <2> QED  BY <1>1, <1>8, <2>1, <2>2, <2>3 DEF Live
<1> QED  BY <1>3, <1>4, <1>5, <1>7, <1>8 DEF TokensInv

\* The codes after a step that makes none and counts nothing.
LEMMA CodesDwindle ==
  ASSUME WorkInv, CodesInv, WorkInv',
         past'.codes = past.codes, past'.guesses = past.guesses, past.missed \subseteq past'.missed,
         codes' = [c \in DOMAIN codes' |-> codes'[c]], DOMAIN codes' \subseteq DOMAIN codes,
         \A c \in DOMAIN codes' : /\ IsCode(codes'[c]) /\ codes'[c].attempts = codes[c].attempts
                                  /\ ~codes'[c].used => ~codes[c].used,
         \A r \in Requests : work'[r].pc \in Guessing =>
           work'[r].id \in 1..past.codes \/ work'[r] = work[r],
         \A r \in Requests : work[r].pc = "kill" =>
           \/ work'[r] = work[r] \/ work[r].id \in past'.missed
           \/ \A c \in DOMAIN codes' : c = work[r].id => codes'[c].used
  PROVE  CodesInv'
<1>1. ASSUME NEW c \in DOMAIN codes' PROVE Counted(c)'
  <2>1. c \in DOMAIN codes /\ Counted(c)
    BY DEF CodesInv
  <2>2. CASE Killing(c)
    <3>1. PICK r \in Requests : work[r].pc = "kill" /\ work[r].id = c
      BY <2>2 DEF Killing
    <3> QED  BY <3>1 DEF Counted, Killing
  <2>3. CASE ~Killing(c)
    <3>1. codes[c].used \/ c \in past.missed \/ past.guesses[c] = codes[c].attempts
      BY <2>1, <2>3 DEF Counted
    <3>2. codes[c].used => codes'[c].used
      BY DEF IsCode
    <3> QED  BY <3>1, <3>2 DEF Counted
  <2> QED  BY <2>2, <2>3
<1>2. \A r \in Requests : work'[r].pc \in Guessing => work'[r].id \in 1..past'.codes
  BY DEF CodesInv
<1>3. DOMAIN codes' \subseteq 1..past'.codes /\ \A c \in 1..MaxCodes : c > past'.codes => past'.guesses[c] = 0
  BY DEF CodesInv
<1> QED  BY <1>1, <1>2, <1>3 DEF CodesInv

\* A request begins, goes on or ends, and has no token and no wrong code after, nor
\* one to kill before.
LEMMA WorkMoves ==
  ASSUME SessionsInv, NEW r \in Requests, NEW w, IsWork(w), work' = [work EXCEPT ![r] = w],
         \/ w.pc \notin {"store", "claimed", "wrong", "kill"}
         \/ w.pc = "store" /\ w.id = 0 /\ w.user \in Users
         \/ w.pc = "store" /\ work[r].pc = "claimed" /\ w.id = work[r].id /\ w.user = work[r].user
         \/ w.pc = "wrong" /\ w.id \in 1..past.codes,
         work[r].pc = "kill" => work[r].id \in past'.missed,
         past' \in Past, past'.tokens = past.tokens, past'.successors = past.successors,
         past'.codes = past.codes, past'.guesses = past.guesses, past.missed \subseteq past'.missed,
         UNCHANGED <<tokens, codes, cut>>, PasswordsInv'
  PROVE  SessionsInv'
<1>1. WorkInv'
  BY DEF SessionsInv, WorkInv
<1>2. \A q \in Requests : q # r => work'[q] = work[q]
  BY DEF SessionsInv, WorkInv
<1>3. work'[r] = w
  BY DEF SessionsInv, WorkInv
<1>4. TokensInv'
  <2>1. \A q \in Requests : Storing(q)' =>
          \/ work'[q].id = 0 /\ work'[q].user \in Users
          \/ Storing(q) /\ work'[q].id = work[q].id /\ work'[q].user = work[q].user
    BY <1>2, <1>3 DEF Storing
  <2> QED  BY <1>1, <2>1, TokensDwindle DEF SessionsInv, TokensInv
<1>5. CodesInv'
  <2>1. \A q \in Requests : work'[q].pc \in Guessing => work'[q].id \in 1..past.codes \/ work'[q] = work[q]
    BY <1>2, <1>3 DEF Guessing
  <2>2. \A q \in Requests : work[q].pc = "kill" => work'[q] = work[q] \/ work[q].id \in past'.missed
    BY <1>2
  <2> QED  BY <1>1, <2>1, <2>2, CodesDwindle DEF SessionsInv, CodesInv
<1> QED  BY <1>1, <1>4, <1>5 DEF SessionsInv

LEMMA WorkOfOthers ==
  ASSUME WorkInv, NEW r \in Requests, NEW w, IsWork(w), work' = [work EXCEPT ![r] = w], past' \in Past
  PROVE  WorkInv' /\ work'[r] = w /\ \A q \in Requests : q # r => work'[q] = work[q]
BY DEF WorkInv

LEMMA WorkStarts ==
  ASSUME SessionsInv, NEW r \in Requests, NEW pc, NEW u, NEW id, Start(r, pc, u, id)
  PROVE  \E w : /\ IsWork(w) /\ work' = [work EXCEPT ![r] = w]
                /\ w.pc = pc /\ w.user = u /\ w.id = id /\ work[r].pc = "idle"
<1> DEFINE w == [pc |-> pc, user |-> u, id |-> id, since |-> IF u \in Users THEN cut[u] ELSE 0]
<1>1. IsWork(w) /\ w.pc = pc /\ w.user = u /\ w.id = id
  BY DEF IsWork
<1>2. work' = [work EXCEPT ![r] = w] /\ work[r].pc = "idle"
  BY DEF Start
<1> QED  BY <1>1, <1>2

LEMMA WorkProceeds ==
  ASSUME SessionsInv, NEW r \in Requests, NEW pc, Proceed(r, pc)
  PROVE  \E w : /\ IsWork(w) /\ work' = [work EXCEPT ![r] = w]
                /\ w.pc = pc /\ w.user = work[r].user /\ w.id = work[r].id
<1> DEFINE w == [pc |-> pc, user |-> work[r].user, id |-> work[r].id, since |-> work[r].since]
<1>1. IsWork(w) /\ w.pc = pc /\ w.user = work[r].user /\ w.id = work[r].id
  BY DEF IsWork
<1>2. w = [work[r] EXCEPT !.pc = pc]
  BY DEF IsWork, SessionsInv, WorkInv
<1>3. work' = [work EXCEPT ![r] = [work[r] EXCEPT !.pc = pc]]
  BY DEF Proceed, SessionsInv, WorkInv
<1>4. work' = [work EXCEPT ![r] = w]
  BY <1>2, <1>3
<1> QED  BY <1>1, <1>4

LEMMA WorkEnds ==
  ASSUME SessionsInv, NEW r \in Requests, Answer(r)
  PROVE  \E w : IsWork(w) /\ work' = [work EXCEPT ![r] = w] /\ w.pc = "idle"
<1>1. IsWork(Idle) /\ Idle.pc = "idle"
  BY DEF Idle, IsWork
<1> QED  BY <1>1 DEF Answer

\* A step that touches no row.
RowsStay == UNCHANGED <<tokens, codes, password, cut, past>>

LEMMA HarmlessStart ==
  ASSUME SessionsInv, NEW r \in Requests, NEW pc, NEW u, NEW id, Start(r, pc, u, id), RowsStay,
         \/ pc \notin {"store", "claimed", "wrong", "kill"}
         \/ pc = "store" /\ id = 0 /\ u \in Users
         \/ pc = "wrong" /\ id \in 1..past.codes
  PROVE  SessionsInv'
<1>1. PICK w : /\ IsWork(w) /\ work' = [work EXCEPT ![r] = w]
               /\ w.pc = pc /\ w.user = u /\ w.id = id /\ work[r].pc = "idle"
  BY WorkStarts
<1>2. PasswordsInv' /\ past' \in Past
  BY DEF RowsStay, SessionsInv, PasswordsInv, WorkInv
<1> QED  BY <1>1, <1>2, WorkMoves DEF RowsStay

LEMMA HarmlessEnd ==
  ASSUME SessionsInv, NEW r \in Requests, Answer(r), RowsStay, work[r].pc # "kill"
  PROVE  SessionsInv'
<1>1. PICK w : IsWork(w) /\ work' = [work EXCEPT ![r] = w] /\ w.pc = "idle"
  BY WorkEnds
<1>2. PasswordsInv' /\ past' \in Past
  BY DEF RowsStay, SessionsInv, PasswordsInv, WorkInv
<1> QED  BY <1>1, <1>2, WorkMoves DEF RowsStay

LEMMA HarmlessProceed ==
  ASSUME SessionsInv, NEW r \in Requests, NEW pc, Proceed(r, pc), RowsStay,
         pc \notin {"store", "claimed", "wrong", "kill"} \/ (pc = "store" /\ work[r].pc = "claimed"),
         work[r].pc # "kill"
  PROVE  SessionsInv'
<1>1. PICK w : /\ IsWork(w) /\ work' = [work EXCEPT ![r] = w]
               /\ w.pc = pc /\ w.user = work[r].user /\ w.id = work[r].id
  BY WorkProceeds
<1>2. PasswordsInv' /\ past' \in Past
  BY DEF RowsStay, SessionsInv, PasswordsInv, WorkInv
<1> QED  BY <1>1, <1>2, WorkMoves DEF RowsStay

-----------------------------------------------------------------------------
\* A token that is stored is new, and takes the place of the one the request had.
LEMMA TokenStored ==
  ASSUME SessionsInv, NEW r \in Requests, CreateRefreshToken(r)
  PROVE  SessionsInv'
<1> DEFINE n == past.tokens + 1
           had == work[r].id
<1>0. /\ MaxTokens \in Nat /\ past.tokens \in 0..MaxTokens /\ n \in 1..MaxTokens
      /\ past.successors \in [1..MaxTokens -> 0..1] /\ past \in Past
  BY SessionsAssumption DEF CreateRefreshToken, SessionsInv, WorkInv, Past
<1>1. Storing(r) /\ work[r].pc = "store" /\ work[r].user \in Users /\ had \in 0..past.tokens
  BY DEF CreateRefreshToken, Storing, SessionsInv, TokensInv
<1>2. PICK row : /\ IsToken(row) /\ row.after = cut[row.user] /\ ~row.revoked
                 /\ tokens' = AddRow(tokens, n, row)
  <2> DEFINE row == [user |-> work[r].user, revoked |-> FALSE, expired |-> FALSE,
                     after |-> cut[work[r].user], since |-> work[r].since]
  <2>1. IsToken(row) /\ row.after = cut[row.user] /\ ~row.revoked
    BY <1>1 DEF IsToken
  <2>2. tokens' = AddRow(tokens, n, row)
    BY DEF CreateRefreshToken
  <2> QED  BY <2>1, <2>2
<1>3. had # 0 => past.successors[had] = 0 /\ had \in 1..MaxTokens
  BY <1>0, <1>1 DEF SessionsInv, TokensInv, Holds
<1>4. /\ past' \in Past /\ past'.tokens = n
      /\ past'.codes = past.codes /\ past'.guesses = past.guesses /\ past'.missed = past.missed
      /\ past'.successors = [t \in 1..MaxTokens |-> IF t = had THEN past.successors[t] + 1
                                                                 ELSE past.successors[t]]
  <2>1. PICK f : f = [t \in 1..MaxTokens |-> IF t = had THEN past.successors[t] + 1
                                                         ELSE past.successors[t]]
    OBVIOUS
  <2>2. 0 + 1 \in 0..1
    OBVIOUS
  <2>3. f \in [1..MaxTokens -> 0..1]
    BY <1>0, <1>3, <2>1, <2>2
  <2>4. past' = [past EXCEPT !.tokens = n, !.successors = f]
    BY <2>1 DEF CreateRefreshToken
  <2>5. n \in 0..MaxTokens
    BY <1>0
  <2> HIDE DEF n, had
  <2>6. past' \in Past /\ past'.tokens = n /\ past'.successors = f
        /\ past'.codes = past.codes /\ past'.guesses = past.guesses /\ past'.missed = past.missed
    BY <1>0, <2>3, <2>4, <2>5 DEF Past
  <2> QED  BY <2>1, <2>6
<1>5. PICK w : IsWork(w) /\ work' = [work EXCEPT ![r] = w] /\ w.pc = "idle"
  BY WorkEnds DEF CreateRefreshToken
<1>6. WorkInv' /\ work'[r] = w /\ \A q \in Requests : q # r => work'[q] = work[q]
  BY <1>4, <1>5, WorkOfOthers DEF SessionsInv
<1>7. cut' = cut /\ codes' = codes /\ password' = password
  BY DEF CreateRefreshToken
<1>8. CodesInv'
  <2>1. \A q \in Requests : work'[q].pc \in Guessing => work'[q].id \in 1..past.codes \/ work'[q] = work[q]
    BY <1>5, <1>6 DEF Guessing
  <2>2. \A q \in Requests : work[q].pc = "kill" => work'[q] = work[q]
    BY <1>1, <1>6
  <2> QED  BY <1>4, <1>6, <1>7, <2>1, <2>2, CodesDwindle DEF SessionsInv, CodesInv
<1>9. TokensInv'
  <2>1. /\ DOMAIN tokens' = DOMAIN tokens \cup {n} /\ tokens'[n] = row
        /\ \A t \in DOMAIN tokens : t # n => tokens'[t] = tokens[t]
        /\ tokens' = [t \in DOMAIN tokens' |-> tokens'[t]]
    BY <1>2 DEF AddRow
  <2>2. \A t \in DOMAIN tokens : t \in 1..past.tokens
    BY DEF SessionsInv, TokensInv
  <2>3. DOMAIN tokens' \subseteq 1..past'.tokens
    BY <1>0, <1>4, <2>1, <2>2
  <2>4. \A q \in Requests : Storing(q)' => q # r /\ Storing(q) /\ work'[q] = work[q]
    BY <1>5, <1>6 DEF Storing
  <2>5. \A q \in Requests : Storing(q)' => work'[q].user \in Users /\ work'[q].id \in 0..past'.tokens
    <3>1. \A q \in Requests : Storing(q)' => work'[q].user \in Users /\ work'[q].id \in 0..past.tokens
      BY <2>4 DEF SessionsInv, TokensInv
    <3> QED  BY <1>0, <1>4, <3>1
  <2>6. \A q \in Requests : \A t \in 1..MaxTokens : Holds(q, t)' => q # r /\ Holds(q, t)
    BY <2>4 DEF Holds
  <2>7. \A q, p \in Requests : \A t \in 1..MaxTokens : Holds(q, t)' /\ Holds(p, t)' => q = p
    BY <2>6 DEF SessionsInv, TokensInv
  <2>8. \A t \in 1..MaxTokens : \A q \in Requests : Holds(q, t) => t <= past.tokens
    <3>1. \A q \in Requests : Storing(q) => work[q].id \in 0..past.tokens
      BY DEF SessionsInv, TokensInv
    <3> QED  BY <1>0, <3>1 DEF Holds
  <2>9. ASSUME NEW t \in 1..MaxTokens,
               t > past'.tokens \/ (t \in DOMAIN tokens' /\ Live(t)') \/ \E q \in Requests : Holds(q, t)'
        PROVE  past'.successors[t] = 0
    <3>1. past.successors[t] = 0
      <4>1. t > past.tokens \/ (t \in DOMAIN tokens /\ Live(t)) \/ \E q \in Requests : Holds(q, t)
        <5>1. CASE t > past'.tokens
          BY <1>0, <1>4, <5>1
        <5>2. CASE t \in DOMAIN tokens' /\ Live(t)'
          BY <1>0, <2>1, <5>2 DEF Live
        <5>3. CASE \E q \in Requests : Holds(q, t)'
          BY <2>6, <5>3
        <5> QED  BY <2>9, <5>1, <5>2, <5>3
      <4> QED  BY <4>1 DEF SessionsInv, TokensInv
    <3>2. t # had
      <4> SUFFICES ASSUME t = had PROVE FALSE
        OBVIOUS
      <4>1. Holds(r, t) /\ t <= past.tokens
        BY <1>0, <1>1 DEF Holds
      <4>2. t \notin DOMAIN tokens \/ ~Live(t)
        BY <4>1 DEF SessionsInv, TokensInv
      <4>3. \A q \in Requests : ~Holds(q, t)'
        BY <2>6, <4>1 DEF SessionsInv, TokensInv
      <4>4. ~(t \in DOMAIN tokens' /\ Live(t)')
        BY <1>0, <2>1, <4>1, <4>2 DEF Live
      <4> QED  BY <1>0, <1>4, <2>9, <4>1, <4>3, <4>4
    <3> QED  BY <1>0, <1>4, <3>1, <3>2
  <2>10. ASSUME NEW t \in DOMAIN tokens', Live(t)'
         PROVE  (\A q \in Requests : ~Holds(q, t)') /\ tokens'[t].after = cut'[tokens'[t].user]
    <3>1. CASE t = n
      <4>1. \A q \in Requests : ~Holds(q, n)
        BY <1>0, <2>8
      <4> QED  BY <1>0, <1>2, <1>7, <2>1, <2>6, <3>1, <4>1
    <3>2. CASE t # n
      <4>1. t \in DOMAIN tokens /\ tokens'[t] = tokens[t] /\ Live(t)
        BY <2>1, <2>10, <3>2 DEF Live
      <4>2. t \in 1..MaxTokens
        BY <1>0, <2>2, <4>1
      <4> QED  BY <1>7, <2>6, <4>1, <4>2 DEF SessionsInv, TokensInv
    <3> QED  BY <3>1, <3>2
  <2>11. \A t \in DOMAIN tokens' : IsToken(tokens'[t])
    BY <1>2, <2>1 DEF SessionsInv, TokensInv
  <2>12. cut' = [u \in Users |-> cut'[u]]
    BY <1>7 DEF SessionsInv, TokensInv
  <2> QED  BY <2>1, <2>3, <2>5, <2>7, <2>9, <2>10, <2>11, <2>12 DEF TokensInv
<1> QED  BY <1>6, <1>7, <1>8, <1>9 DEF SessionsInv, PasswordsInv

\* One request gets a live token; a dead one is reported.
LEMMA TokenClaimed ==
  ASSUME SessionsInv, NEW r \in Requests, NEW t \in DOMAIN tokens, Claim(r, t)
  PROVE  SessionsInv'
<1>1. CASE ~Live(t)
  BY <1>1, HarmlessStart DEF Claim, RowsStay
<1>2. CASE Live(t)
  <2>0. /\ MaxTokens \in Nat /\ past.tokens \in 0..MaxTokens /\ t \in 1..past.tokens /\ t \in 1..MaxTokens
        /\ IsToken(tokens[t])
    BY SessionsAssumption DEF SessionsInv, WorkInv, Past, TokensInv
  <2>1. /\ Start(r, "claimed", tokens[t].user, t) /\ tokens' = [tokens EXCEPT ![t].revoked = TRUE]
        /\ UNCHANGED <<codes, password, cut, past>>
    BY <1>2 DEF Claim
  <2>2. PICK w : /\ IsWork(w) /\ work' = [work EXCEPT ![r] = w]
                 /\ w.pc = "claimed" /\ w.user = tokens[t].user /\ w.id = t /\ work[r].pc = "idle"
    BY <2>1, WorkStarts
  <2>3. WorkInv' /\ work'[r] = w /\ \A q \in Requests : q # r => work'[q] = work[q]
    BY <2>1, <2>2, WorkOfOthers DEF SessionsInv, WorkInv
  <2>4. CodesInv'
    <3>1. \A q \in Requests : work'[q].pc \in Guessing => work'[q].id \in 1..past.codes \/ work'[q] = work[q]
      BY <2>2, <2>3 DEF Guessing
    <3>2. \A q \in Requests : work[q].pc = "kill" => work'[q] = work[q]
      BY <2>2, <2>3
    <3> QED  BY <2>1, <2>3, <3>1, <3>2, CodesDwindle DEF SessionsInv, CodesInv
  <2>6. /\ DOMAIN tokens' = DOMAIN tokens /\ tokens'[t].revoked = TRUE
        /\ \A s \in DOMAIN tokens : IsToken(tokens'[s])
        /\ \A s \in DOMAIN tokens : s # t => tokens'[s] = tokens[s]
        /\ tokens' = [s \in DOMAIN tokens' |-> tokens'[s]]
    <3>1. PICK row : row = [tokens[t] EXCEPT !.revoked = TRUE]
      OBVIOUS
    <3>2. IsToken(row) /\ row.revoked = TRUE
      BY <2>0, <3>1 DEF IsToken
    <3>3. tokens' = [tokens EXCEPT ![t] = row]
      BY <2>1, <3>1
    <3> QED  BY <3>2, <3>3 DEF SessionsInv, TokensInv
  <2>7. \A q \in Requests : \A s \in 1..MaxTokens : Holds(q, s)' => Holds(q, s) \/ (q = r /\ s = t)
    BY <2>2, <2>3 DEF Holds, Storing
  <2>8. \A q \in Requests : ~Holds(q, t)
    BY <1>2 DEF SessionsInv, TokensInv
  <2>9. \A s \in DOMAIN tokens' : Live(s)' => s # t /\ Live(s)
    BY <2>6 DEF Live
  <2>10. \A q \in Requests : ~Holds(q, t) /\ (Holds(q, t)' => q = r)
    BY <2>0, <2>7, <2>8
  <2>11. \A q, p \in Requests : \A s \in 1..MaxTokens : Holds(q, s)' /\ Holds(p, s)' => q = p
    <3> SUFFICES ASSUME NEW q \in Requests, NEW p \in Requests, NEW s \in 1..MaxTokens,
                        Holds(q, s)', Holds(p, s)'
                 PROVE  q = p
      OBVIOUS
    <3>1. CASE s = t
      BY <2>10, <3>1
    <3>2. CASE s # t
      BY <2>7, <3>2 DEF SessionsInv, TokensInv
    <3> QED  BY <3>1, <3>2
  <2>12. past.successors[t] = 0
    BY <1>2, <2>0 DEF SessionsInv, TokensInv
  <2>13. ASSUME NEW s \in 1..MaxTokens,
                s > past'.tokens \/ (s \in DOMAIN tokens' /\ Live(s)') \/ \E q \in Requests : Holds(q, s)'
         PROVE  past'.successors[s] = 0
    <3>1. CASE s = t
      BY <2>1, <2>12, <3>1
    <3>2. CASE s # t
      <4>1. s > past.tokens \/ (s \in DOMAIN tokens /\ Live(s)) \/ \E q \in Requests : Holds(q, s)
        BY <2>1, <2>6, <2>7, <2>9, <2>13, <3>2
      <4> QED  BY <2>1, <4>1 DEF SessionsInv, TokensInv
    <3> QED  BY <3>1, <3>2
  <2>14. ASSUME NEW s \in DOMAIN tokens', Live(s)'
         PROVE  (\A q \in Requests : ~Holds(q, s)') /\ tokens'[s].after = cut'[tokens'[s].user]
    <3>1. s \in DOMAIN tokens /\ s # t /\ Live(s) /\ tokens'[s] = tokens[s]
      BY <2>6, <2>9, <2>14
    <3>2. s \in 1..MaxTokens
      BY <2>0, <3>1 DEF SessionsInv, TokensInv
    <3> QED  BY <2>1, <2>7, <3>1, <3>2 DEF SessionsInv, TokensInv
  <2>15. \A q \in Requests : Storing(q)' => work'[q].user \in Users /\ work'[q].id \in 0..past'.tokens
    <3>1. tokens[t].user \in Users /\ t \in 0..past.tokens
      BY <2>0 DEF IsToken
    <3> QED  BY <2>1, <2>2, <2>3, <3>1 DEF Storing, SessionsInv, TokensInv
  <2>16. TokensInv'
    BY <2>1, <2>6, <2>11, <2>13, <2>14, <2>15 DEF SessionsInv, TokensInv
  <2> QED  BY <2>1, <2>3, <2>4, <2>16 DEF SessionsInv, PasswordsInv
<1> QED  BY <1>1, <1>2

-----------------------------------------------------------------------------
\* All live tokens of a user go, and their sessions are counted as cut.
LEMMA FamilyRevoked ==
  ASSUME SessionsInv, NEW r \in Requests, NEW u, Answer(r), tokens' = RevokedOf(u), CutOf(u),
         UNCHANGED <<codes, password, past>>, work[r].pc # "kill"
  PROVE  SessionsInv'
<1>1. PICK w : IsWork(w) /\ work' = [work EXCEPT ![r] = w] /\ w.pc = "idle"
  BY WorkEnds
<1>2. WorkInv' /\ work'[r] = w /\ \A q \in Requests : q # r => work'[q] = work[q]
  BY <1>1, WorkOfOthers DEF SessionsInv, WorkInv
<1>3. CodesInv'
  <2>1. \A q \in Requests : work'[q].pc \in Guessing => work'[q].id \in 1..past.codes \/ work'[q] = work[q]
    BY <1>1, <1>2 DEF Guessing
  <2>2. \A q \in Requests : work[q].pc = "kill" => work'[q] = work[q]
    BY <1>2
  <2> QED  BY <1>2, <2>1, <2>2, CodesDwindle DEF SessionsInv, CodesInv
<1>4. DOMAIN tokens' = DOMAIN tokens /\ tokens' = [t \in DOMAIN tokens' |-> tokens'[t]]
  BY DEF RevokedOf
<1>5. /\ cut' = [v \in Users |-> cut'[v]]
      /\ \A v \in Users : v # u => cut'[v] = cut[v]
  BY DEF CutOf, SessionsInv, TokensInv
<1>6. ASSUME NEW t \in DOMAIN tokens'
      PROVE  /\ IsToken(tokens'[t]) /\ tokens'[t].user = tokens[t].user
             /\ ~tokens'[t].revoked => /\ ~tokens[t].revoked /\ tokens'[t].after = tokens[t].after
                                       /\ cut'[tokens[t].user] = cut[tokens[t].user]
  <2>1. t \in DOMAIN tokens /\ IsToken(tokens[t])
    BY <1>4 DEF SessionsInv, TokensInv
  <2>2. CASE tokens[t].user = u
    <3>1. tokens'[t] = [tokens[t] EXCEPT !.revoked = TRUE]
      BY <2>1, <2>2 DEF RevokedOf
    <3> QED  BY <2>1, <3>1 DEF IsToken
  <2>3. CASE tokens[t].user # u
    <3>1. tokens'[t] = tokens[t]
      BY <2>1, <2>3 DEF RevokedOf
    <3> QED  BY <1>5, <2>1, <2>3, <3>1 DEF IsToken
  <2> QED  BY <2>2, <2>3
<1>7. \A q \in Requests : Storing(q)' =>
        Storing(q) /\ work'[q].id = work[q].id /\ work'[q].user = work[q].user
  BY <1>1, <1>2 DEF Storing
<1>8. TokensInv'
  BY <1>2, <1>4, <1>5, <1>6, <1>7, TokensDwindle DEF SessionsInv
<1> QED  BY <1>2, <1>3, <1>8 DEF SessionsInv, PasswordsInv

\* Rows of tokens that are revoked, expire or are deleted, by nobody who has one.
LEMMA TokensGo ==
  ASSUME SessionsInv, UNCHANGED <<codes, password, work, cut, past>>,
         tokens' = [t \in DOMAIN tokens' |-> tokens'[t]], DOMAIN tokens' \subseteq DOMAIN tokens,
         \A t \in DOMAIN tokens' :
           /\ IsToken(tokens'[t]) /\ tokens'[t].user = tokens[t].user
           /\ ~tokens'[t].revoked => ~tokens[t].revoked /\ tokens'[t].after = tokens[t].after
  PROVE  SessionsInv'
<1>1. WorkInv' /\ PasswordsInv' /\ CodesInv'
  BY DEF SessionsInv, WorkInv, PasswordsInv, CodesInv, Counted, Killing
<1>2. \A r \in Requests : Storing(r)' => Storing(r)
  BY DEF Storing
<1>3. cut' = [u \in Users |-> cut'[u]]
  BY DEF SessionsInv, TokensInv
<1>4. TokensInv'
  BY <1>1, <1>2, <1>3, TokensDwindle DEF SessionsInv
<1> QED  BY <1>1, <1>4 DEF SessionsInv

LEMMA TokenMarked ==
  ASSUME SessionsInv, NEW t \in DOMAIN tokens, RevokeRefreshToken(t) \/ TokenExpires(t)
  PROVE  SessionsInv'
<1>1. UNCHANGED <<codes, password, work, cut, past>>
  BY DEF RevokeRefreshToken, TokenExpires
<1>2. IsToken(tokens[t])
  BY DEF SessionsInv, TokensInv
<1>3. PICK row : /\ IsToken(row) /\ row.user = tokens[t].user /\ row.after = tokens[t].after
                 /\ ~row.revoked => ~tokens[t].revoked
                 /\ tokens' = [tokens EXCEPT ![t] = row]
  <2>1. CASE RevokeRefreshToken(t)
    <3>1. PICK row : row = [tokens[t] EXCEPT !.revoked = TRUE]
      OBVIOUS
    <3>2. IsToken(row) /\ row.user = tokens[t].user /\ row.after = tokens[t].after /\ row.revoked
      BY <1>2, <3>1 DEF IsToken
    <3>3. tokens' = [tokens EXCEPT ![t] = row]
      BY <2>1, <3>1 DEF RevokeRefreshToken
    <3> QED  BY <3>2, <3>3
  <2>2. CASE TokenExpires(t)
    <3>1. PICK row : row = [tokens[t] EXCEPT !.expired = TRUE]
      OBVIOUS
    <3>2. /\ IsToken(row) /\ row.user = tokens[t].user /\ row.after = tokens[t].after
          /\ row.revoked = tokens[t].revoked
      BY <1>2, <3>1 DEF IsToken
    <3>3. tokens' = [tokens EXCEPT ![t] = row]
      BY <2>2, <3>1 DEF TokenExpires
    <3> QED  BY <3>2, <3>3
  <2> QED  BY <2>1, <2>2
<1>4. /\ tokens' = [s \in DOMAIN tokens' |-> tokens'[s]] /\ DOMAIN tokens' = DOMAIN tokens
      /\ tokens'[t] = row /\ \A s \in DOMAIN tokens : s # t => tokens'[s] = tokens[s]
  BY <1>3 DEF SessionsInv, TokensInv
<1>5. \A s \in DOMAIN tokens' : IsToken(tokens[s])
  BY <1>4 DEF SessionsInv, TokensInv
<1> QED  BY <1>1, <1>3, <1>4, <1>5, TokensGo

LEMMA TokensCleaned ==
  ASSUME SessionsInv, CleanupExpiredRefreshTokens
  PROVE  SessionsInv'
<1>1. /\ tokens' = [t \in DOMAIN tokens' |-> tokens'[t]] /\ DOMAIN tokens' \subseteq DOMAIN tokens
      /\ \A t \in DOMAIN tokens' : tokens'[t] = tokens[t]
  BY DEF CleanupExpiredRefreshTokens, KeepRows
<1>2. \A t \in DOMAIN tokens' : IsToken(tokens[t])
  BY <1>1 DEF SessionsInv, TokensInv
<1> QED  BY <1>1, <1>2, TokensGo DEF CleanupExpiredRefreshTokens

-----------------------------------------------------------------------------
LEMMA PasswordSet ==
  ASSUME SessionsInv, NEW r \in Requests, SaveChange(r) \/ SaveReset(r)
  PROVE  SessionsInv'
<1>0. past \in Past /\ past.passwords \in 0..MaxPasswords /\ MaxPasswords \in Nat
  BY SessionsAssumption DEF SessionsInv, WorkInv, Past
<1>1. /\ SetPassword(work[r].user) /\ past' = [past EXCEPT !.passwords = @ + 1]
      /\ UNCHANGED <<tokens, codes, cut>> /\ work[r].pc # "kill"
  BY DEF SaveChange, SaveReset
<1>2. past.passwords + 1 \in 0..MaxPasswords
  BY <1>0, <1>1 DEF SetPassword
<1>3. /\ past' \in Past /\ past'.tokens = past.tokens /\ past'.successors = past.successors
      /\ past'.codes = past.codes /\ past'.guesses = past.guesses /\ past'.missed = past.missed
  BY <1>0, <1>1, <1>2 DEF Past
<1>4. PasswordsInv'
  BY <1>1, <1>2 DEF SetPassword, SessionsInv, PasswordsInv
<1>5. PICK w : IsWork(w) /\ work' = [work EXCEPT ![r] = w] /\ w.pc \in {"idle", "use"}
  BY WorkEnds, WorkProceeds DEF SaveChange, SaveReset
<1> QED  BY <1>1, <1>3, <1>4, <1>5, WorkMoves

LEMMA RequestDead ==
  ASSUME SessionsInv, NEW r \in Requests, RequestDies(r)
  PROVE  SessionsInv'
<1>1. /\ past' \in Past /\ past'.tokens = past.tokens /\ past'.successors = past.successors
      /\ past'.codes = past.codes /\ past'.guesses = past.guesses /\ past.missed \subseteq past'.missed
      /\ work[r].pc = "kill" => work[r].id \in past'.missed
  <2>1. PICK m : m = IF work[r].pc \in Guessing THEN past.missed \cup {work[r].id} ELSE past.missed
    OBVIOUS
  <2>2. past \in Past /\ past' = [past EXCEPT !.faults = @ + 1, !.missed = m]
    BY <2>1 DEF RequestDies, SessionsInv, WorkInv, Guessing
  <2>3. work[r].pc \in Guessing => work[r].id \in 1..past.codes
    BY DEF SessionsInv, CodesInv
  <2>4. past.codes \in 0..MaxCodes /\ MaxCodes \in Nat /\ past.missed \subseteq 1..MaxCodes
    BY <2>2, SessionsAssumption DEF Past
  <2>5. work[r].pc \in Guessing => work[r].id \in 1..MaxCodes
    BY <2>3, <2>4
  <2>6. m \subseteq 1..MaxCodes /\ past.missed \subseteq m /\ (work[r].pc = "kill" => work[r].id \in m)
    BY <2>1, <2>4, <2>5 DEF Guessing
  <2>7. /\ past'.missed = m /\ past'.faults = past.faults + 1 /\ past'.tokens = past.tokens
        /\ past'.successors = past.successors /\ past'.codes = past.codes
        /\ past'.guesses = past.guesses /\ past'.passwords = past.passwords
    BY <2>2 DEF Past
  <2>8. past' = [successors |-> past'.successors, guesses |-> past'.guesses, missed |-> past'.missed,
                 tokens |-> past'.tokens, codes |-> past'.codes, passwords |-> past'.passwords,
                 faults |-> past'.faults]
    BY <2>2 DEF Past
  <2>9. past' \in Past
    BY <2>2, <2>6, <2>7, <2>8 DEF Past
  <2> QED  BY <2>6, <2>7, <2>9
<1>2. PICK w : IsWork(w) /\ work' = [work EXCEPT ![r] = w] /\ w.pc = "idle"
  BY WorkEnds DEF RequestDies
<1>3. UNCHANGED <<tokens, codes, cut>> /\ PasswordsInv'
  BY DEF RequestDies, SessionsInv, PasswordsInv
<1> QED  BY <1>1, <1>2, <1>3, WorkMoves

-----------------------------------------------------------------------------
\* A step that touches codes and not tokens, by a request that stores none after.
LEMMA TokensApart ==
  ASSUME SessionsInv, NEW r \in Requests, NEW w, IsWork(w), work' = [work EXCEPT ![r] = w],
         w.pc \notin {"store", "claimed"},
         past' \in Past, past'.tokens = past.tokens, past'.successors = past.successors,
         UNCHANGED <<tokens, password, cut>>
  PROVE  WorkInv' /\ TokensInv' /\ PasswordsInv' /\ \A q \in Requests : q # r => work'[q] = work[q]
<1>1. WorkInv' /\ work'[r] = w /\ \A q \in Requests : q # r => work'[q] = work[q]
  BY WorkOfOthers DEF SessionsInv
<1>2. \A q \in Requests : Storing(q)' =>
        Storing(q) /\ work'[q].id = work[q].id /\ work'[q].user = work[q].user
  BY <1>1 DEF Storing
<1>3. TokensInv'
  BY <1>1, <1>2, TokensDwindle DEF SessionsInv, TokensInv
<1> QED  BY <1>1, <1>3 DEF SessionsInv, PasswordsInv

LEMMA CodesUsedUp ==
  ASSUME SessionsInv, NEW r \in Requests, NEW w, IsWork(w), work' = [work EXCEPT ![r] = w],
         w.pc \notin {"store", "claimed", "wrong", "kill"}, UNCHANGED <<tokens, password, cut, past>>,
         codes' = [c \in DOMAIN codes' |-> codes'[c]], DOMAIN codes' = DOMAIN codes,
         work[r].pc = "kill" => \A c \in DOMAIN codes' : c = work[r].id => codes'[c].used,
         \A c \in DOMAIN codes : codes'[c] = codes[c] \/ codes'[c] = [codes[c] EXCEPT !.used = TRUE]
  PROVE  SessionsInv'
<1>1. past' \in Past
  BY DEF SessionsInv, WorkInv
<1>2. WorkInv' /\ TokensInv' /\ PasswordsInv' /\ \A q \in Requests : q # r => work'[q] = work[q]
  BY <1>1, TokensApart
<1>3. work'[r] = w
  BY DEF SessionsInv, WorkInv
<1>4. \A c \in DOMAIN codes' : /\ IsCode(codes'[c]) /\ codes'[c].attempts = codes[c].attempts
                               /\ ~codes'[c].used => ~codes[c].used
  <2>1. \A c \in DOMAIN codes : IsCode(codes[c])
    BY DEF SessionsInv, CodesInv
  <2>2. \A row : IsCode(row) => /\ IsCode([row EXCEPT !.used = TRUE])
                               /\ [row EXCEPT !.used = TRUE].attempts = row.attempts
                               /\ [row EXCEPT !.used = TRUE].used
    <3> SUFFICES ASSUME NEW row, IsCode(row), NEW x, x = [row EXCEPT !.used = TRUE]
                 PROVE  IsCode(x) /\ x.attempts = row.attempts /\ x.used
      OBVIOUS
    <3>1. row = [user |-> row.user, used |-> row.used, expired |-> row.expired, attempts |-> row.attempts]
      BY DEF IsCode
    <3>2. x = [user |-> row.user, used |-> TRUE, expired |-> row.expired, attempts |-> row.attempts]
      BY <3>1
    <3> QED  BY <3>2 DEF IsCode
  <2> TAKE c \in DOMAIN codes'
  <2>3. IsCode(codes[c]) /\ (codes'[c] = codes[c] \/ codes'[c] = [codes[c] EXCEPT !.used = TRUE])
    BY <2>1
  <2>4. CASE codes'[c] = codes[c]
    BY <2>3, <2>4
  <2>5. CASE codes'[c] = [codes[c] EXCEPT !.used = TRUE]
    BY <2>2, <2>3, <2>5
  <2> QED  BY <2>3, <2>4, <2>5
<1>5. CodesInv'
  <2>1. \A q \in Requests : work'[q].pc \in Guessing => work'[q] = work[q]
    BY <1>2, <1>3 DEF Guessing
  <2>2. \A q \in Requests : work[q].pc = "kill" =>
          work'[q] = work[q] \/ \A c \in DOMAIN codes' : c = work[q].id => codes'[c].used
    BY <1>2
  <2> QED  BY <1>2, <1>4, <2>1, <2>2, CodesDwindle DEF SessionsInv
<1> QED  BY <1>2, <1>5 DEF SessionsInv

LEMMA CodesCancelled ==
  ASSUME SessionsInv, NEW r \in Requests, NEW u, GenerateAdminResetCode(r, u)
  PROVE  SessionsInv'
<1>1. PICK w : IsWork(w) /\ work' = [work EXCEPT ![r] = w] /\ w.pc = "code" /\ work[r].pc = "idle"
  BY WorkStarts DEF GenerateAdminResetCode
<1>2. /\ codes' = [c \in DOMAIN codes' |-> codes'[c]] /\ DOMAIN codes' = DOMAIN codes
      /\ \A c \in DOMAIN codes : codes'[c] = codes[c] \/ codes'[c] = [codes[c] EXCEPT !.used = TRUE]
  BY DEF GenerateAdminResetCode
<1>3. UNCHANGED <<tokens, password, cut, past>>
  BY DEF GenerateAdminResetCode
<1> QED  BY <1>1, <1>2, <1>3, CodesUsedUp

\* The code of a request that reset a password, or that kills it.
LEMMA CodeUsed ==
  ASSUME SessionsInv, NEW r \in Requests, UseCode(r) \/ KillCode(r)
  PROVE  SessionsInv'
<1>1. PICK w : IsWork(w) /\ work' = [work EXCEPT ![r] = w] /\ w.pc \in {"revoke", "idle"}
  BY WorkProceeds, WorkEnds DEF UseCode, KillCode
<1>2. codes = [c \in DOMAIN codes |-> codes[c]] /\ \A c \in DOMAIN codes : IsCode(codes[c])
  BY DEF SessionsInv, CodesInv
<1>3. codes' = UsedUp(work[r].id) /\ UNCHANGED <<tokens, password, cut, past>>
  BY DEF UseCode, KillCode
<1>4. /\ codes' = [c \in DOMAIN codes' |-> codes'[c]] /\ DOMAIN codes' = DOMAIN codes
      /\ \A c \in DOMAIN codes : codes'[c] = codes[c] \/ codes'[c] = [codes[c] EXCEPT !.used = TRUE]
      /\ \A c \in DOMAIN codes : c = work[r].id => codes'[c] = [codes[c] EXCEPT !.used = TRUE]
  BY <1>2, <1>3 DEF UsedUp
<1>5. \A c \in DOMAIN codes' : c = work[r].id => codes'[c].used
  BY <1>2, <1>4 DEF IsCode
<1> QED  BY <1>1, <1>3, <1>4, <1>5, CodesUsedUp

LEMMA CodeCreated ==
  ASSUME SessionsInv, NEW r \in Requests, CreateCode(r)
  PROVE  SessionsInv'
<1> DEFINE n == past.codes + 1
<1>0. /\ past \in Past /\ past.codes \in 0..MaxCodes /\ MaxCodes \in Nat /\ n \in 1..MaxCodes
      /\ MaxPasswordResetAttempts \in Nat
  BY SessionsAssumption DEF CreateCode, SessionsInv, WorkInv, Past
<1>1. /\ past' \in Past /\ past'.codes = n /\ past'.guesses = past.guesses
      /\ past'.tokens = past.tokens /\ past'.successors = past.successors /\ past'.missed = past.missed
  <2>1. past' = [past EXCEPT !.codes = n] /\ n \in 0..MaxCodes
    BY <1>0 DEF CreateCode
  <2> HIDE DEF n
  <2> QED  BY <1>0, <2>1 DEF Past
<1>2. PICK w : IsWork(w) /\ work' = [work EXCEPT ![r] = w] /\ w.pc = "idle"
  BY WorkEnds DEF CreateCode
<1>3. UNCHANGED <<tokens, password, cut>>
  BY DEF CreateCode
<1>4. WorkInv' /\ TokensInv' /\ PasswordsInv' /\ \A q \in Requests : q # r => work'[q] = work[q]
  BY <1>1, <1>2, <1>3, TokensApart
<1>5. work'[r].pc = "idle"
  BY <1>2 DEF SessionsInv, WorkInv
<1>6. PICK row : IsCode(row) /\ row.attempts = 0 /\ codes' = AddRow(codes, n, row)
  <2>1. PICK row : row = [user |-> work[r].user, used |-> FALSE, expired |-> FALSE, attempts |-> 0]
    OBVIOUS
  <2>2. IsCode(row) /\ row.attempts = 0
    BY <1>0, <2>1 DEF IsCode
  <2> QED  BY <2>1, <2>2 DEF CreateCode
<1>7. /\ DOMAIN codes' = DOMAIN codes \cup {n} /\ codes'[n] = row
      /\ codes' = [c \in DOMAIN codes' |-> codes'[c]]
      /\ \A c \in DOMAIN codes : c # n => codes'[c] = codes[c]
  BY <1>6 DEF AddRow
<1>8. past.guesses[n] = 0
  BY <1>0 DEF SessionsInv, CodesInv
<1>9. ASSUME NEW c \in DOMAIN codes' PROVE IsCode(codes'[c]) /\ Counted(c)'
  <2>1. CASE c = n
    BY <1>1, <1>6, <1>7, <1>8, <2>1 DEF Counted
  <2>2. CASE c # n
    <3>1. c \in DOMAIN codes /\ codes'[c] = codes[c] /\ IsCode(codes[c]) /\ Counted(c)
      BY <1>7, <2>2 DEF SessionsInv, CodesInv
    <3>2. Killing(c) => Killing(c)'
      <4>1. work[r].pc = "code"
        BY DEF CreateCode
      <4> QED  BY <1>4, <4>1 DEF Killing
    <3> QED  BY <1>1, <3>1, <3>2 DEF Counted
  <2> QED  BY <2>1, <2>2
<1>10. DOMAIN codes' \subseteq 1..past'.codes
  BY <1>0, <1>1, <1>7 DEF SessionsInv, CodesInv
<1>11. \A q \in Requests : work'[q].pc \in Guessing => work'[q].id \in 1..past'.codes
  <2>1. \A q \in Requests : work'[q].pc \in Guessing => work'[q].id \in 1..past.codes
    BY <1>4, <1>5 DEF SessionsInv, CodesInv, Guessing
  <2> QED  BY <1>0, <1>1, <2>1
<1>12. \A c \in 1..MaxCodes : c > past'.codes => past'.guesses[c] = 0
  BY <1>0, <1>1 DEF SessionsInv, CodesInv
<1>13. CodesInv'
  BY <1>7, <1>9, <1>10, <1>11, <1>12 DEF CodesInv
<1> QED  BY <1>4, <1>13 DEF SessionsInv

LEMMA ResetAsked ==
  ASSUME SessionsInv, NEW r \in Requests, NEW u, NEW right \in BOOLEAN, ResetPassword(r, u, right)
  PROVE  SessionsInv'
<1>1. past.codes \in Nat /\ Usable(u) \subseteq 1..past.codes /\ Usable(u) # {}
  BY SessionsAssumption DEF ResetPassword, Usable, SessionsInv, WorkInv, CodesInv, Past
<1>2. Usable(u) \subseteq 0..past.codes
  BY <1>1
<1>3. \E c \in Usable(u) : \A d \in Usable(u) : d <= c
  BY <1>1, <1>2, GreatestNumber
<1>4. PICK n : /\ n = CHOOSE c \in Usable(u) : \A d \in Usable(u) : d <= c
               /\ Start(r, IF right THEN "reset" ELSE "wrong", u, n)
  BY DEF ResetPassword
<1>5. n \in 1..past.codes
  BY <1>1, <1>3, <1>4
<1>6. RowsStay
  BY DEF ResetPassword, RowsStay
<1> QED  BY <1>4, <1>5, <1>6, HarmlessStart

\* A wrong guess is counted, or the code is to be killed.
LEMMA AttemptCounted ==
  ASSUME SessionsInv, NEW r \in Requests, CountAttempt(r)
  PROVE  SessionsInv'
<1>0. /\ past \in Past /\ past.codes \in 0..MaxCodes /\ MaxCodes \in Nat
      /\ MaxPasswordResetAttempts \in Nat /\ past.guesses \in [1..MaxCodes -> Nat]
  BY SessionsAssumption DEF SessionsInv, WorkInv, Past
<1>1. PICK n : n = work[r].id
  OBVIOUS
<1>2. n \in 1..past.codes /\ n \in 1..MaxCodes
  BY <1>0, <1>1 DEF CountAttempt, SessionsInv, CodesInv, Guessing
<1>3. PICK g : /\ g = [past.guesses EXCEPT ![n] = IF @ > MaxPasswordResetAttempts THEN @ ELSE @ + 1]
               /\ past' = [past EXCEPT !.guesses = g]
  BY <1>1 DEF CountAttempt
<1>4. g \in [1..MaxCodes -> Nat] /\ \A c \in 1..MaxCodes : c # n => g[c] = past.guesses[c]
  BY <1>0, <1>2, <1>3
<1>5. /\ past' \in Past /\ past'.codes = past.codes /\ past'.guesses = g
      /\ past'.tokens = past.tokens /\ past'.successors = past.successors /\ past'.missed = past.missed
  BY <1>0, <1>3, <1>4 DEF Past
<1>6. PICK w : /\ IsWork(w) /\ work' = [work EXCEPT ![r] = w]
               /\ \/ w.pc = "idle" /\ n \in DOMAIN codes /\ ~codes[n].used
                     /\ codes[n].attempts < MaxPasswordResetAttempts
                     /\ codes' = [codes EXCEPT ![n].attempts = @ + 1]
                  \/ w.pc = "kill" /\ w.id = n /\ codes' = codes
  <2>1. CASE n \in DOMAIN codes /\ ~codes[n].used /\ codes[n].attempts < MaxPasswordResetAttempts
    <3>1. Answer(r) /\ codes' = [codes EXCEPT ![n].attempts = @ + 1]
      BY <1>1, <2>1 DEF CountAttempt
    <3> QED  BY <2>1, <3>1, WorkEnds
  <2>2. CASE ~(n \in DOMAIN codes /\ ~codes[n].used /\ codes[n].attempts < MaxPasswordResetAttempts)
    <3>1. Proceed(r, "kill") /\ codes' = codes
      BY <1>1, <2>2 DEF CountAttempt
    <3> QED  BY <1>1, <3>1, WorkProceeds
  <2> QED  BY <2>1, <2>2
<1>7. UNCHANGED <<tokens, password, cut>>
  BY DEF CountAttempt
<1>8. WorkInv' /\ TokensInv' /\ PasswordsInv' /\ \A q \in Requests : q # r => work'[q] = work[q]
  BY <1>5, <1>6, <1>7, TokensApart
<1>9. work'[r] = w /\ work[r].pc = "wrong"
  BY <1>6 DEF CountAttempt, SessionsInv, WorkInv
<1>10. /\ codes' = [c \in DOMAIN codes' |-> codes'[c]] /\ DOMAIN codes' = DOMAIN codes
       /\ \A c \in DOMAIN codes : c # n => codes'[c] = codes[c]
  BY <1>6 DEF SessionsInv, CodesInv
<1>11. ASSUME n \in DOMAIN codes
       PROVE  IsCode(codes'[n]) /\ Counted(n)'
  <2>1. IsCode(codes[n]) /\ Counted(n)
    BY <1>11 DEF SessionsInv, CodesInv
  <2>2. codes[n].attempts \in Nat /\ past.guesses[n] \in Nat
    BY <1>0, <1>2, <2>1 DEF IsCode
  <2>3. CASE w.pc = "idle"
    <3>1. /\ codes'[n] = [codes[n] EXCEPT !.attempts = @ + 1] /\ ~codes[n].used
          /\ codes[n].attempts < MaxPasswordResetAttempts
      BY <1>6, <1>11, <2>3 DEF SessionsInv, CodesInv
    <3>2. codes[n].attempts + 1 \in 0..MaxPasswordResetAttempts
      BY <1>0, <2>2, <3>1
    <3>3. IsCode(codes'[n]) /\ codes'[n].attempts = codes[n].attempts + 1
      BY <2>1, <3>1, <3>2 DEF IsCode
    <3>4. past.guesses[n] = codes[n].attempts => g[n] = past.guesses[n] + 1
      BY <1>0, <1>2, <1>3, <2>2, <3>1
    <3>5. Killing(n) => Killing(n)'
      BY <1>8, <1>9 DEF Killing
    <3>6. n \in past.missed \/ Killing(n) \/ past.guesses[n] = codes[n].attempts
      BY <2>1, <3>1 DEF Counted
    <3>7. CASE past.guesses[n] = codes[n].attempts
      BY <1>5, <3>3, <3>4, <3>7 DEF Counted
    <3>8. CASE n \in past.missed \/ Killing(n)
      BY <1>5, <3>3, <3>5, <3>8 DEF Counted
    <3> QED  BY <3>3, <3>6, <3>7, <3>8
  <2>4. CASE w.pc = "kill"
    <3>1. codes' = codes /\ work'[r].pc = "kill" /\ work'[r].id = n
      BY <1>6, <1>9, <2>4
    <3> QED  BY <2>1, <3>1 DEF Counted, Killing
  <2> QED  BY <1>6, <2>3, <2>4
<1>12. ASSUME NEW c \in DOMAIN codes' PROVE IsCode(codes'[c]) /\ Counted(c)'
  <2>1. CASE c = n
    BY <1>10, <1>11, <2>1
  <2>2. CASE c # n
    <3>1. c \in DOMAIN codes /\ codes'[c] = codes[c] /\ IsCode(codes[c]) /\ Counted(c) /\ c \in 1..MaxCodes
      BY <1>0, <1>10, <2>2 DEF SessionsInv, CodesInv
    <3>2. Killing(c) => Killing(c)'
      BY <1>8, <1>9 DEF Killing
    <3>3. past'.guesses[c] = past.guesses[c]
      BY <1>4, <1>5, <2>2, <3>1
    <3> QED  BY <1>5, <3>1, <3>2, <3>3 DEF Counted
  <2> QED  BY <2>1, <2>2
<1>13. DOMAIN codes' \subseteq 1..past'.codes /\ \A c \in 1..MaxCodes : c > past'.codes => past'.guesses[c] = 0
  <2>1. n <= past.codes
    BY <1>0, <1>2
  <2>2. \A c \in 1..MaxCodes : c > past.codes => c # n /\ past.guesses[c] = 0
    BY <1>0, <2>1 DEF SessionsInv, CodesInv
  <2> QED  BY <1>4, <1>5, <1>10, <2>2 DEF SessionsInv, CodesInv
<1>14. \A q \in Requests : work'[q].pc \in Guessing => work'[q].id \in 1..past'.codes
  <2>1. w.pc \in Guessing => w.id = n
    BY <1>6 DEF Guessing
  <2> QED  BY <1>2, <1>5, <1>8, <1>9, <2>1 DEF SessionsInv, CodesInv
<1>15. CodesInv'
  BY <1>10, <1>12, <1>13, <1>14 DEF CodesInv
<1> QED  BY <1>8, <1>15 DEF SessionsInv

LEMMA CodesGo ==
  ASSUME SessionsInv, CleanupExpiredPasswordResets \/ \E c \in DOMAIN codes : CodeExpires(c)
  PROVE  SessionsInv'
<1>1. UNCHANGED <<tokens, password, work, cut, past>>
  BY DEF CleanupExpiredPasswordResets, CodeExpires
<1>2. WorkInv' /\ TokensInv' /\ PasswordsInv'
  BY <1>1 DEF SessionsInv, WorkInv, TokensInv, PasswordsInv, Storing, Holds, Live
<1>3. /\ codes' = [c \in DOMAIN codes' |-> codes'[c]] /\ DOMAIN codes' \subseteq DOMAIN codes
      /\ \A c \in DOMAIN codes' : codes'[c] = codes[c] \/ codes'[c] = [codes[c] EXCEPT !.expired = TRUE]
  BY DEF CleanupExpiredPasswordResets, CodeExpires, KeepRows, SessionsInv, CodesInv
<1>4. \A c \in DOMAIN codes' : IsCode(codes[c])
  BY <1>3 DEF SessionsInv, CodesInv
<1>5. \A c \in DOMAIN codes' : /\ IsCode(codes'[c]) /\ codes'[c].attempts = codes[c].attempts
                               /\ ~codes'[c].used => ~codes[c].used
  BY <1>3, <1>4 DEF IsCode
<1>6. CodesInv'
  BY <1>1, <1>2, <1>3, <1>5, CodesDwindle DEF SessionsInv
<1> QED  BY <1>2, <1>6 DEF SessionsInv

-----------------------------------------------------------------------------
(* The steps of sessions, each of them one of the above.                        *)

LEMMA TokensStep ==
  ASSUME SessionsInv, Tokens PROVE SessionsInv'
BY TokensCleaned, CodesGo, TokenMarked, TokenClaimed DEF Tokens

LEMMA ContinueStep ==
  ASSUME SessionsInv, NEW r \in Requests, Continue(r) PROVE SessionsInv'
<1>1. ReadClaimed(r) => SessionsInv'
  BY HarmlessProceed, HarmlessEnd DEF ReadClaimed, RowsStay
<1>2. RevokeFamily(r) => SessionsInv'
  BY FamilyRevoked, HarmlessEnd DEF RevokeFamily, RowsStay
<1>3. RevokeAll(r) => SessionsInv'
  BY FamilyRevoked DEF RevokeAll
<1> QED
  BY <1>1, <1>2, <1>3, TokenStored, PasswordSet, CodeCreated, AttemptCounted, CodeUsed, RequestDead
  DEF Continue

LEMMA BeginStep ==
  ASSUME SessionsInv, NEW r \in Requests, NEW u \in Users, Begin(r, u) PROVE SessionsInv'
<1>1. \A pw : Login(r, u, pw) => SessionsInv'
  BY HarmlessStart DEF Login, RowsStay
<1>2. \A pw : ChangePassword(r, u, pw) => SessionsInv'
  BY HarmlessStart DEF ChangePassword, RowsStay
<1> QED  BY <1>1, <1>2, CodesCancelled, ResetAsked DEF Begin

\* No step of a session begins the work of an administrator.
AdminPcs == {"count", "insert", "promote", "role", "demote", "mail", "link", "delete"}

LEMMA SessionsApart ==
  ASSUME SessionsInv,
         Tokens \/ \E r \in Requests : Continue(r) \/ \E u \in DOMAIN users : Begin(r, u)
  PROVE  \A q \in Requests : work'[q].pc \in AdminPcs => work'[q] = work[q]
<1>1. ASSUME NEW r \in Requests, NEW w, work' = [work EXCEPT ![r] = w], w.pc \notin AdminPcs
      PROVE  \A q \in Requests : work'[q].pc \in AdminPcs => work'[q] = work[q]
  BY <1>1 DEF SessionsInv, WorkInv
<1>2. ASSUME NEW r \in Requests, Answer(r)
      PROVE  \A q \in Requests : work'[q].pc \in AdminPcs => work'[q] = work[q]
  BY <1>1, <1>2, WorkEnds DEF AdminPcs
<1>3. ASSUME NEW r \in Requests, NEW pc, NEW u, NEW id, Start(r, pc, u, id), pc \notin AdminPcs
      PROVE  \A q \in Requests : work'[q].pc \in AdminPcs => work'[q] = work[q]
  BY <1>1, <1>3, WorkStarts
<1>4. ASSUME NEW r \in Requests, NEW pc, Proceed(r, pc), pc \notin AdminPcs
      PROVE  \A q \in Requests : work'[q].pc \in AdminPcs => work'[q] = work[q]
  BY <1>1, <1>4, WorkProceeds
<1>5. ASSUME Tokens
      PROVE  \A q \in Requests : work'[q].pc \in AdminPcs => work'[q] = work[q]
  <2>1. ASSUME NEW r \in Requests, NEW t, Claim(r, t)
        PROVE  \A q \in Requests : work'[q].pc \in AdminPcs => work'[q] = work[q]
    <3>1. "claimed" \notin AdminPcs /\ "reuse" \notin AdminPcs
      BY DEF AdminPcs
    <3> QED  BY <1>3, <2>1, <3>1 DEF Claim
  <2> QED
    BY <1>5, <2>1 DEF Tokens, CleanupExpiredRefreshTokens, CleanupExpiredPasswordResets,
       RevokeRefreshToken, TokenExpires, CodeExpires
<1>6. ASSUME NEW r \in Requests, Continue(r)
      PROVE  \A q \in Requests : work'[q].pc \in AdminPcs => work'[q] = work[q]
  <2>1. "store" \notin AdminPcs /\ "use" \notin AdminPcs /\ "revoke" \notin AdminPcs /\ "kill" \notin AdminPcs
    BY DEF AdminPcs
  <2>2. Answer(r) \/ Proceed(r, "store") \/ Proceed(r, "use") \/ Proceed(r, "revoke") \/ Proceed(r, "kill")
    BY <1>6 DEF Continue, CreateRefreshToken, ReadClaimed, RevokeFamily, RevokeAll, SaveChange,
       CreateCode, CountAttempt, KillCode, SaveReset, UseCode, RequestDies
  <2> QED  BY <1>2, <1>4, <2>1, <2>2
<1>7. ASSUME NEW r \in Requests, NEW u, Begin(r, u)
      PROVE  \A q \in Requests : work'[q].pc \in AdminPcs => work'[q] = work[q]
  <2>1. {"store", "change", "code", "reset", "wrong"} \cap AdminPcs = {}
    BY DEF AdminPcs
  <2>2. \E pc \in {"store", "change", "code", "reset", "wrong"} : \E id : Start(r, pc, u, id)
    BY <1>7 DEF Begin, Login, ChangePassword, GenerateAdminResetCode, ResetPassword
  <2> QED  BY <1>3, <2>1, <2>2
<1> QED  BY <1>5, <1>6, <1>7

-----------------------------------------------------------------------------
(* Users, and what the steps of administrators do to sessions.                  *)

Roles == {"admin", "restaurant"}
IsUser(row) == /\ row = [role |-> row.role, email |-> row.email, store |-> row.store]
               /\ row.role \in Roles /\ row.email \in Emails

UsersInv ==
  /\ users = [u \in DOMAIN users |-> users[u]]
  /\ DOMAIN users \subseteq Users /\ IsFiniteSet(DOMAIN users)
  /\ \A u \in DOMAIN users : IsUser(users[u])
  /\ UniqueEmail => \A u, v \in DOMAIN users : users[u].email = users[v].email => u = v
  /\ \A r \in Requests : /\ work[r].pc \in {"count", "insert", "promote"} => work[r].user \in Emails
                         /\ work[r].pc = "mail" => work[r].id \in Emails

LEMMA FreeIdIsFree ==
  ASSUME UsersInv, DOMAIN users # Users
  PROVE  FreeId \in Users /\ FreeId \notin DOMAIN users
<1>1. Users \ DOMAIN users \subseteq Nat /\ Users \ DOMAIN users # {}
  BY UserAdminAssumption DEF UsersInv
<1>2. \E u \in Users : u \notin DOMAIN users /\ \A v \in Users \ DOMAIN users : u <= v
  BY <1>1, LeastNumber
<1> QED  BY <1>2 DEF FreeId

LEMMA FoundIsUser ==
  ASSUME UsersInv, NEW e, FindUserByLoginEmail(e) # NoUser
  PROVE  FindUserByLoginEmail(e) \in DOMAIN users
<1> DEFINE found == IF HasEmail(e) # {} THEN HasEmail(e) ELSE Spelt(e)
<1>1. FindUserByLoginEmail(e) = IF found = {} THEN NoUser
                                ELSE CHOOSE u \in found : \A v \in found : u <= v
  BY DEF FindUserByLoginEmail
<1>2. found \subseteq DOMAIN users /\ found \subseteq Nat
  BY UserAdminAssumption DEF HasEmail, Spelt, UsersInv
<1> HIDE DEF found
<1>3. found # {}
  BY <1>1
<1>4. \E u \in found : \A v \in found : u <= v
  BY <1>2, <1>3, LeastNumber
<1> QED  BY <1>1, <1>2, <1>3, <1>4

\* The steps of UserAdmin that are not a session's own, by what they do to a request.
Starting(r) ==
  \/ \E e \in Emails : \/ CountForBootstrap(r, e) \/ \E s \in Stores \cup {NoStore} : CheckNewUser(r, e, s)
                      \/ \E u \in Users : ReadUser(r, u, e)
  \/ \E role \in Roles, u \in Users : CheckRole(r, u, role)
  \/ \E u \in Users : CheckDelete(r, u) \/ \E s \in Stores \cup {NoStore} : CheckStore(r, u, s)
Ending(r) == \/ \E role \in Roles : InsertUser(r, role)
             \/ Promote(r) \/ SaveRole(r) \/ SaveEmail(r) \/ SaveLink(r) \/ DeleteUser(r)
AtStores ==
  \/ \E e \in Emails : RegisterEstablishment(e)
  \/ \E s \in Stores :
       \/ \E pc \in {"toggle", "edit", "wallet", "delete"} : ReadStore(s, pc)
       \/ \E disabled \in BOOLEAN : SetEstablishmentDisabled(s, disabled)
       \/ OrderArrives(s)
  \/ \E c \in copies : SaveStore(c) \/ GiveUp(c)
InSessions ==
  UNCHANGED userVars /\ \/ Tokens
                        \/ \E r \in Requests : Continue(r) \/ \E u \in DOMAIN users : Begin(r, u)

LEMMA StepsOfUserAdmin ==
  ASSUME UserAdminNext
  PROVE  \/ InSessions \/ AtStores \/ \E c \in copies : DeleteEstablishment(c)
         \/ \E r \in Requests : Starting(r) \/ CountEmail(r) \/ Ending(r) \/ \E e \in Emails : LoginUser(r, e)
BY DEF UserAdminNext, InSessions, AtStores, Starting, Ending, Roles

LEMMA StartingStep ==
  ASSUME SessionsInv, NEW r \in Requests, Starting(r)
  PROVE  /\ SessionsInv' /\ UNCHANGED <<stores, copies, users, ordered>> /\ RowsStay
         /\ \E w : IsWork(w) /\ work' = [work EXCEPT ![r] = w]
<1>1. PICK pc, u, id : /\ pc \in {"count", "promote", "role", "demote", "mail", "link", "delete"}
                       /\ Start(r, pc, u, id)
  BY DEF Starting, CountForBootstrap, CheckNewUser, CheckRole, ReadUser, CheckDelete, CheckStore
<1>2. RowsStay /\ UNCHANGED <<stores, copies, users, ordered>>
  BY DEF Starting, CountForBootstrap, CheckNewUser, CheckRole, ReadUser, CheckDelete, CheckStore,
     RowsStay, userVars
<1>3. pc \notin {"store", "claimed", "wrong", "kill"}
  BY <1>1
<1> QED  BY <1>1, <1>2, <1>3, HarmlessStart, WorkStarts

LEMMA CountingStep ==
  ASSUME SessionsInv, NEW r \in Requests, CountEmail(r)
  PROVE  /\ SessionsInv' /\ UNCHANGED <<stores, copies, users, ordered>> /\ RowsStay
         /\ \E w : /\ IsWork(w) /\ work' = [work EXCEPT ![r] = w]
                  /\ (w.pc = "idle" \/ (w.pc = "insert" /\ w.user = work[r].user))
<1>1. work[r].pc = "count" /\ (Answer(r) \/ Proceed(r, "insert"))
  BY DEF CountEmail
<1>2. RowsStay /\ UNCHANGED <<stores, copies, users, ordered>>
  BY DEF CountEmail, RowsStay, userVars
<1> QED  BY <1>1, <1>2, HarmlessEnd, HarmlessProceed, WorkEnds, WorkProceeds

LEMMA EndingStep ==
  ASSUME SessionsInv, NEW r \in Requests, Ending(r)
  PROVE  /\ SessionsInv' /\ UNCHANGED <<stores, copies, ordered>> /\ RowsStay
         /\ \E w : IsWork(w) /\ work' = [work EXCEPT ![r] = w] /\ w.pc \in {"idle", "revoke"}
<1>1. work[r].pc # "kill" /\ (Answer(r) \/ Proceed(r, "revoke"))
  BY DEF Ending, InsertUser, Promote, SaveRole, SaveEmail, SaveLink, DeleteUser
<1>2. RowsStay /\ UNCHANGED <<stores, copies, ordered>>
  BY DEF Ending, InsertUser, Promote, SaveRole, SaveEmail, SaveLink, DeleteUser, RowsStay
<1> QED  BY <1>1, <1>2, HarmlessEnd, HarmlessProceed, WorkEnds, WorkProceeds

LEMMA SessionsUnchanged ==
  ASSUME SessionsInv, UNCHANGED sessionVars PROVE SessionsInv'
BY DEF SessionsInv, WorkInv, TokensInv, CodesInv, PasswordsInv, sessionVars, Storing, Holds, Live,
   Counted, Killing, Guessing

LEMMA AtStoresStep ==
  ASSUME SessionsInv, AtStores PROVE SessionsInv' /\ UNCHANGED sessionVars
<1>1. UNCHANGED sessionVars
  BY DEF AtStores, RegisterEstablishment, ReadStore, SetEstablishmentDisabled, OrderArrives, SaveStore, GiveUp
<1> QED  BY <1>1, SessionsUnchanged

\* The sessions of everybody who worked there end.
LEMMA StoreDeleted ==
  ASSUME SessionsInv, NEW c \in copies, DeleteEstablishment(c)
  PROVE  SessionsInv'
<1>1. UNCHANGED <<codes, password, work, past>>
  BY DEF DeleteEstablishment
<1>2. WorkInv' /\ CodesInv' /\ PasswordsInv'
  BY <1>1 DEF SessionsInv, WorkInv, CodesInv, PasswordsInv, Counted, Killing, Guessing
<1>3. PICK L : /\ L = LinkedTo(c.store)
               /\ tokens' = [t \in DOMAIN tokens |-> IF tokens[t].user \in L
                                                       THEN [tokens[t] EXCEPT !.revoked = TRUE] ELSE tokens[t]]
               /\ cut' = [u \in Users |-> IF u \in L THEN cut[u] + 1 ELSE cut[u]]
  BY DEF DeleteEstablishment
<1>4. DOMAIN tokens' = DOMAIN tokens /\ tokens' = [t \in DOMAIN tokens' |-> tokens'[t]]
  BY <1>3
<1>5. cut' = [u \in Users |-> cut'[u]]
  BY <1>3
<1>6. ASSUME NEW t \in DOMAIN tokens'
      PROVE  /\ IsToken(tokens'[t]) /\ tokens'[t].user = tokens[t].user
             /\ ~tokens'[t].revoked => /\ ~tokens[t].revoked /\ tokens'[t].after = tokens[t].after
                                       /\ cut'[tokens[t].user] = cut[tokens[t].user]
  <2>1. t \in DOMAIN tokens /\ IsToken(tokens[t])
    BY <1>4 DEF SessionsInv, TokensInv
  <2>2. CASE tokens[t].user \in L
    <3>1. tokens'[t] = [tokens[t] EXCEPT !.revoked = TRUE]
      BY <1>3, <2>1, <2>2
    <3> QED  BY <2>1, <3>1 DEF IsToken
  <2>3. CASE tokens[t].user \notin L
    <3>1. tokens'[t] = tokens[t] /\ tokens[t].user \in Users
      BY <1>3, <2>1, <2>3 DEF IsToken
    <3> QED  BY <1>3, <2>1, <2>3, <3>1
  <2> QED  BY <2>2, <2>3
<1>7. \A q \in Requests : Storing(q)' =>
        Storing(q) /\ work'[q].id = work[q].id /\ work'[q].user = work[q].user
  BY <1>1 DEF Storing
<1>8. TokensInv'
  BY <1>1, <1>2, <1>4, <1>5, <1>6, <1>7, TokensDwindle DEF SessionsInv
<1> QED  BY <1>2, <1>8 DEF SessionsInv

LEMMA SessionsKeep ==
  ASSUME SessionsInv, UsersInv, [UserAdminNext]_adminVars PROVE SessionsInv'
<1>1. CASE UNCHANGED adminVars
  BY <1>1, SessionsUnchanged DEF adminVars
<1>2. CASE InSessions
  BY <1>2, TokensStep, ContinueStep, BeginStep DEF InSessions, UsersInv
<1>3. ASSUME NEW r \in Requests, NEW e \in Emails, LoginUser(r, e) PROVE SessionsInv'
  <2>1. PICK u \in Users : Login(r, u, password[u])
    BY <1>3, FoundIsUser DEF LoginUser, UsersInv
  <2> QED  BY <2>1, HarmlessStart DEF Login, RowsStay
<1>4. CASE UserAdminNext
  BY <1>2, <1>3, <1>4, StepsOfUserAdmin, StartingStep, CountingStep, EndingStep, AtStoresStep, StoreDeleted
<1> QED  BY <1>1, <1>4

-----------------------------------------------------------------------------
(* Rows of users.                                                           *)

WorkOfUsers ==
  \A r \in Requests : /\ work[r].pc \in {"count", "insert", "promote"} => work[r].user \in Emails
                      /\ work[r].pc = "mail" => work[r].id \in Emails

LEMMA UserAdded ==
  ASSUME UsersInv, NEW e \in Emails, NEW role \in Roles, NEW store, MayInsert(e),
         users' = AddRow(users, FreeId, Row(role, e, store)), WorkOfUsers'
  PROVE  /\ UsersInv' /\ DOMAIN users \subseteq DOMAIN users'
         /\ \A u \in DOMAIN users : users'[u] = users[u]
         /\ \E u \in DOMAIN users' : /\ DOMAIN users' = DOMAIN users \cup {u}
                                     /\ users'[u] = Row(role, e, store)
<1>1. PICK u : u = FreeId /\ u \in Users /\ u \notin DOMAIN users
  BY FreeIdIsFree DEF MayInsert
<1>2. PICK row : row = Row(role, e, store)
  OBVIOUS
<1>3. IsUser(row) /\ row.email = e
  BY <1>2 DEF IsUser, Row
<1>4. /\ DOMAIN users' = DOMAIN users \cup {u} /\ users'[u] = row
      /\ users' = [v \in DOMAIN users' |-> users'[v]]
      /\ \A v \in DOMAIN users : users'[v] = users[v]
  BY <1>1, <1>2 DEF AddRow
<1>5. IsFiniteSet(DOMAIN users')
  BY <1>4, FS_AddElement DEF UsersInv
<1>6. UniqueEmail => \A v \in DOMAIN users : users[v].email # e
  BY DEF MayInsert, HasEmail
<1>7. UniqueEmail => \A v, w \in DOMAIN users' : users'[v].email = users'[w].email => v = w
  BY <1>3, <1>4, <1>6 DEF UsersInv
<1>8. UsersInv'
  BY <1>1, <1>3, <1>4, <1>5, <1>7 DEF UsersInv, WorkOfUsers
<1> QED  BY <1>2, <1>4, <1>8

LEMMA UsersEdited ==
  ASSUME UsersInv, WorkOfUsers',
         users' = [u \in DOMAIN users' |-> users'[u]], DOMAIN users' \subseteq DOMAIN users,
         \A u \in DOMAIN users' : IsUser(users'[u]) /\ users'[u].email = users[u].email
  PROVE  UsersInv'
<1>1. IsFiniteSet(DOMAIN users')
  BY FS_Subset DEF UsersInv
<1> QED  BY <1>1 DEF UsersInv, WorkOfUsers

\* One user gets another role, another store or another address.
LEMMA UserRowWritten ==
  ASSUME UsersInv, NEW u \in DOMAIN users, NEW row, users' = [users EXCEPT ![u] = row]
  PROVE  /\ users' = [v \in DOMAIN users' |-> users'[v]] /\ DOMAIN users' = DOMAIN users
         /\ users'[u] = row /\ \A v \in DOMAIN users : v # u => users'[v] = users[v]
BY DEF UsersInv

\* The steps of requests at users: one is added, one is written, one goes.
Added(e, role, store) == MayInsert(e) /\ users' = AddRow(users, FreeId, Row(role, e, store))
Written(u, role, store) ==
  \E row : /\ users' = [users EXCEPT ![u] = row]
           /\ IsUser(row) /\ row.email = users[u].email /\ row.role = role /\ row.store = store
Renamed(u) ==
  \E row : /\ users' = [users EXCEPT ![u] = row]
           /\ IsUser(row) /\ row.role = users[u].role /\ row.store = users[u].store
           /\ UniqueEmail => \A v \in DOMAIN users : users[v].email = row.email => v = u

LEMMA UserRenamed ==
  ASSUME UsersInv, WorkOfUsers', NEW u \in DOMAIN users, Renamed(u)
  PROVE  UsersInv'
<1>1. PICK row : /\ users' = [users EXCEPT ![u] = row] /\ IsUser(row)
                 /\ UniqueEmail => \A v \in DOMAIN users : users[v].email = row.email => v = u
  BY DEF Renamed
<1>2. /\ users' = [v \in DOMAIN users' |-> users'[v]] /\ DOMAIN users' = DOMAIN users
      /\ users'[u] = row /\ \A v \in DOMAIN users : v # u => users'[v] = users[v]
  BY <1>1, UserRowWritten
<1>3. UniqueEmail => \A v, w \in DOMAIN users' : users'[v].email = users'[w].email => v = w
  BY <1>1, <1>2 DEF UsersInv
<1>4. \A v \in DOMAIN users' : IsUser(users'[v])
  BY <1>1, <1>2 DEF UsersInv
<1> QED  BY <1>2, <1>3, <1>4 DEF UsersInv, WorkOfUsers

LEMMA RowOfRenamed ==
  ASSUME UsersInv, NEW u \in DOMAIN users, Renamed(u)
  PROVE  /\ DOMAIN users' = DOMAIN users
         /\ \A v \in DOMAIN users : users'[v].role = users[v].role /\ users'[v].store = users[v].store
<1>1. PICK row : /\ users' = [users EXCEPT ![u] = row]
                 /\ row.role = users[u].role /\ row.store = users[u].store
  BY DEF Renamed
<1> QED  BY <1>1, UserRowWritten

LEMMA WhatEndingDoes ==
  ASSUME UsersInv, NEW r \in Requests, Ending(r)
  PROVE  \/ UNCHANGED users
         \/ \E e \in Emails, role \in Roles : Added(e, role, NoStore)
         \/ \E e \in Emails, role \in Roles : InsertUser(r, role) /\ Added(e, role, work[r].id)
         \/ \E u \in DOMAIN users : Written(u, "admin", users[u].store)
         \/ /\ SaveRole(r) /\ work[r].pc = "demote" /\ work[r].user \in DOMAIN users
            /\ Written(work[r].user, "restaurant", users[work[r].user].store)
         \/ \E u \in DOMAIN users : Renamed(u)
         \/ SaveLink(r) /\ \E u \in DOMAIN users : Written(u, users[u].role, work[r].id)
         \/ /\ DeleteUser(r) /\ work[r].pc = "delete"
            /\ users' = KeepRows(users, DOMAIN users \ {work[r].user})
<1>0. ASSUME NEW u \in DOMAIN users, NEW role \in Roles, users' = [users EXCEPT ![u].role = role]
      PROVE  Written(u, role, users[u].store)
  <2>1. PICK row : row = [users[u] EXCEPT !.role = role]
    OBVIOUS
  <2>2. IsUser(users[u])
    BY DEF UsersInv
  <2>3. IsUser(row) /\ row.email = users[u].email /\ row.role = role /\ row.store = users[u].store
    BY <2>1, <2>2 DEF IsUser
  <2>4. users' = [users EXCEPT ![u] = row]
    BY <1>0, <2>1
  <2> QED  BY <2>3, <2>4 DEF Written
<1>1. ASSUME NEW role \in Roles, InsertUser(r, role)
      PROVE  UNCHANGED users \/ \E e \in Emails : Added(e, role, work[r].id)
  <2>1. PICK e : e = Lower[work[r].user]
    OBVIOUS
  <2>2. e \in Emails
    BY <1>1, <2>1, UserAdminAssumption DEF InsertUser, UsersInv
  <2> QED  BY <1>1, <2>1, <2>2 DEF InsertUser, Added
<1>2. ASSUME Promote(r)
      PROVE  \/ UNCHANGED users
             \/ \E e \in Emails : Added(e, "admin", NoStore)
             \/ \E u \in DOMAIN users : Written(u, "admin", users[u].store)
  <2>1. PICK e \in Emails : e = work[r].user
    BY <1>2 DEF Promote, UsersInv
  <2>2. CASE HasEmail(e) # {}
    <3>1. PICK u \in DOMAIN users : users' = [users EXCEPT ![u].role = "admin"]
      <4>1. (CHOOSE u \in HasEmail(e) : TRUE) \in HasEmail(e)
        BY <2>2
      <4>2. HasEmail(e) \subseteq DOMAIN users
        BY DEF HasEmail
      <4> QED  BY <1>2, <2>1, <2>2, <4>1, <4>2 DEF Promote
    <3> QED  BY <1>0, <3>1 DEF Roles
  <2>3. CASE HasEmail(e) = {}
    BY <1>2, <2>1, <2>3 DEF Promote, Added
  <2> QED  BY <2>2, <2>3
<1>3. ASSUME SaveRole(r)
      PROVE  \/ UNCHANGED users
             \/ \E u \in DOMAIN users : Written(u, "admin", users[u].store)
             \/ /\ work[r].pc = "demote" /\ work[r].user \in DOMAIN users
                /\ Written(work[r].user, "restaurant", users[work[r].user].store)
  <2>1. PICK u : u = work[r].user
    OBVIOUS
  <2>2. CASE u \in DOMAIN users /\ work[r].pc = "role"
    <3>1. users' = [users EXCEPT ![u].role = "admin"]
      BY <1>3, <2>1, <2>2 DEF SaveRole
    <3> QED  BY <1>0, <2>2, <3>1 DEF Roles
  <2>3. CASE u \in DOMAIN users /\ work[r].pc = "demote"
    <3>1. users' = [users EXCEPT ![u].role = "restaurant"]
      BY <1>3, <2>1, <2>3 DEF SaveRole
    <3> QED  BY <1>0, <2>1, <2>3, <3>1 DEF Roles
  <2>4. CASE u \notin DOMAIN users
    BY <1>3, <2>1, <2>4 DEF SaveRole
  <2> QED  BY <1>3, <2>2, <2>3, <2>4 DEF SaveRole
<1>4. ASSUME SaveLink(r)
      PROVE  UNCHANGED users \/ \E u \in DOMAIN users : Written(u, users[u].role, work[r].id)
  <2>1. PICK u : u = work[r].user
    OBVIOUS
  <2>2. CASE u \in DOMAIN users
    <3>1. PICK row : row = [users[u] EXCEPT !.store = work[r].id]
      OBVIOUS
    <3>2. IsUser(users[u])
      BY <2>2 DEF UsersInv
    <3>3. IsUser(row) /\ row.email = users[u].email /\ row.role = users[u].role /\ row.store = work[r].id
      BY <3>1, <3>2 DEF IsUser
    <3>4. users' = [users EXCEPT ![u] = row]
      BY <1>4, <2>1, <2>2, <3>1 DEF SaveLink
    <3> QED  BY <2>2, <3>3, <3>4 DEF Written
  <2>3. CASE u \notin DOMAIN users
    BY <1>4, <2>1, <2>3 DEF SaveLink
  <2> QED  BY <2>2, <2>3
<1>5. ASSUME DeleteUser(r)
      PROVE  work[r].pc = "delete" /\ users' = KeepRows(users, DOMAIN users \ {work[r].user})
  BY <1>5 DEF DeleteUser
<1>6. ASSUME SaveEmail(r) PROVE UNCHANGED users \/ \E u \in DOMAIN users : Renamed(u)
  <2>1. PICK u, e : u = work[r].user /\ e = work[r].id /\ e \in Emails
    BY <1>6 DEF SaveEmail, UsersInv
  <2>2. CASE u \in DOMAIN users /\ (UniqueEmail => HasEmail(e) \subseteq {u})
    <3>1. PICK row : row = [users[u] EXCEPT !.email = e]
      OBVIOUS
    <3>2. IsUser(users[u])
      BY <2>2 DEF UsersInv
    <3>3. IsUser(row) /\ row.email = e /\ row.role = users[u].role /\ row.store = users[u].store
      BY <2>1, <3>1, <3>2 DEF IsUser
    <3>4. users' = [users EXCEPT ![u] = row]
      BY <1>6, <2>1, <2>2, <3>1 DEF SaveEmail
    <3>5. UniqueEmail => \A v \in DOMAIN users : users[v].email = row.email => v = u
      BY <2>2, <3>3 DEF HasEmail
    <3> QED  BY <2>2, <3>3, <3>4, <3>5 DEF Renamed
  <2>3. CASE ~(u \in DOMAIN users /\ (UniqueEmail => HasEmail(e) \subseteq {u}))
    BY <1>6, <2>1, <2>3 DEF SaveEmail
  <2> QED  BY <2>2, <2>3
<1> QED  BY <1>1, <1>2, <1>3, <1>4, <1>5, <1>6 DEF Ending, Roles

LEMMA UsersKeep ==
  ASSUME SessionsInv, UsersInv, [UserAdminNext]_adminVars PROVE UsersInv'
<1>1. ASSUME UNCHANGED users, WorkOfUsers' PROVE UsersInv'
  BY <1>1 DEF UsersInv, WorkOfUsers
<1>2. WorkOfUsers
  BY DEF UsersInv, WorkOfUsers
<1>3. ASSUME \A q \in Requests : work'[q].pc \in AdminPcs => work'[q] = work[q] PROVE WorkOfUsers'
  BY <1>2, <1>3 DEF WorkOfUsers, AdminPcs
<1>4. CASE UNCHANGED adminVars
  BY <1>4 DEF adminVars, userVars, sessionVars, UsersInv
<1>5. CASE InSessions
  <2>1. WorkOfUsers'
    BY <1>3, <1>5, SessionsApart DEF InSessions
  <2> QED  BY <1>1, <1>5, <2>1 DEF InSessions, userVars
<1>6. ASSUME NEW r \in Requests, NEW e \in Emails, LoginUser(r, e) PROVE UsersInv'
  <2>1. PICK u : Start(r, "store", u, 0)
    BY <1>6 DEF LoginUser, Login
  <2>2. \A q \in Requests : work'[q].pc \in AdminPcs => work'[q] = work[q]
    BY <2>1, WorkStarts DEF SessionsInv, WorkInv, AdminPcs
  <2> QED  BY <1>1, <1>3, <1>6, <2>2 DEF LoginUser, userVars
<1>7. ASSUME NEW r \in Requests, Starting(r) PROVE UsersInv'
  <2>1. PICK pc, u, id :
          /\ pc \in {"count", "promote", "role", "demote", "mail", "link", "delete"}
          /\ Start(r, pc, u, id)
          /\ pc \in {"count", "promote"} => u \in Emails
          /\ pc = "mail" => id \in Emails
    <3>1. ASSUME NEW e \in Emails, CountForBootstrap(r, e) PROVE Start(r, "promote", e, 0)
      BY <3>1 DEF CountForBootstrap
    <3>2. ASSUME NEW e \in Emails, NEW s, CheckNewUser(r, e, s) PROVE Start(r, "count", e, s)
      BY <3>2 DEF CheckNewUser
    <3>3. ASSUME NEW e \in Emails, NEW u, ReadUser(r, u, e) PROVE Start(r, "mail", u, e)
      BY <3>3 DEF ReadUser
    <3>4. ASSUME NEW u \in Users,
                 \/ \E role \in Roles : CheckRole(r, u, role)
                 \/ CheckDelete(r, u) \/ \E s \in Stores \cup {NoStore} : CheckStore(r, u, s)
          PROVE  \E pc \in {"role", "demote", "link", "delete"} : \E id : Start(r, pc, u, id)
      BY <3>4 DEF CheckRole, CheckDelete, CheckStore
    <3> QED  BY <1>7, <3>1, <3>2, <3>3, <3>4 DEF Starting
  <2>2. PICK w : work' = [work EXCEPT ![r] = w] /\ w.pc = pc /\ w.user = u /\ w.id = id
    BY <2>1, WorkStarts
  <2>3. WorkOfUsers'
    BY <1>2, <2>1, <2>2 DEF WorkOfUsers, SessionsInv, WorkInv
  <2> QED  BY <1>1, <1>7, <2>3, StartingStep
<1>8. ASSUME NEW r \in Requests, Ending(r) PROVE UsersInv'
  <2>1. PICK w : work' = [work EXCEPT ![r] = w] /\ w.pc \in {"idle", "revoke"}
    BY <1>8, EndingStep
  <2>2. WorkOfUsers'
    BY <1>2, <2>1 DEF WorkOfUsers, SessionsInv, WorkInv
  <2>3. ASSUME NEW u \in DOMAIN users, NEW role, NEW s, Written(u, role, s) PROVE UsersInv'
    <3>1. PICK row : /\ users' = [users EXCEPT ![u] = row]
                     /\ IsUser(row) /\ row.email = users[u].email
      BY <2>3 DEF Written
    <3>2. /\ users' = [v \in DOMAIN users' |-> users'[v]] /\ DOMAIN users' = DOMAIN users
          /\ users'[u] = row /\ \A v \in DOMAIN users : v # u => users'[v] = users[v]
      BY <3>1, UserRowWritten
    <3>3. \A v \in DOMAIN users' : IsUser(users'[v]) /\ users'[v].email = users[v].email
      BY <3>1, <3>2 DEF UsersInv
    <3> QED  BY <2>2, <3>2, <3>3, UsersEdited
  <2>4. ASSUME NEW u, users' = KeepRows(users, DOMAIN users \ {u}) PROVE UsersInv'
    <3>1. /\ users' = [v \in DOMAIN users' |-> users'[v]] /\ DOMAIN users' \subseteq DOMAIN users
          /\ \A v \in DOMAIN users' : users'[v] = users[v]
      BY <2>4 DEF KeepRows
    <3>2. \A v \in DOMAIN users' : IsUser(users'[v]) /\ users'[v].email = users[v].email
      BY <3>1 DEF UsersInv
    <3> QED  BY <2>2, <3>1, <3>2, UsersEdited
  <2>5. ASSUME NEW e \in Emails, NEW role \in Roles, NEW s, Added(e, role, s) PROVE UsersInv'
    BY <2>2, <2>5, UserAdded DEF Added
  <2>6. CASE UNCHANGED users
    BY <1>1, <2>2, <2>6
  <2>7. ASSUME NEW u \in DOMAIN users, Renamed(u) PROVE UsersInv'
    BY <2>2, <2>7, UserRenamed
  <2> QED  BY <1>8, <2>3, <2>4, <2>5, <2>6, <2>7, WhatEndingDoes
<1>9. CASE AtStores
  <2>1. WorkOfUsers'
    BY <1>2, <1>9, AtStoresStep DEF WorkOfUsers, sessionVars
  <2>2. ASSUME NEW e \in Emails, RegisterEstablishment(e) PROVE UsersInv'
    <3>1. PICK s : MayInsert(e) /\ users' = AddRow(users, FreeId, Row("restaurant", e, s))
      BY <2>2 DEF RegisterEstablishment
    <3>2. "restaurant" \in Roles
      BY DEF Roles
    <3> QED  BY <2>1, <3>1, <3>2, UserAdded
  <2>3. ASSUME ~\E e \in Emails : RegisterEstablishment(e) PROVE UNCHANGED users
    BY <1>9, <2>3 DEF AtStores, ReadStore, SetEstablishmentDisabled, OrderArrives, SaveStore, GiveUp
  <2> QED  BY <1>1, <2>1, <2>2, <2>3
<1>10. ASSUME NEW c \in copies, DeleteEstablishment(c) PROVE UsersInv'
  <2>1. WorkOfUsers'
    BY <1>2, <1>10 DEF WorkOfUsers, DeleteEstablishment
  <2>2. PICK L : users' = [u \in DOMAIN users |-> IF u \in L THEN [users[u] EXCEPT !.store = NoStore] ELSE users[u]]
    BY <1>10 DEF DeleteEstablishment
  <2>3. \A row : IsUser(row) => /\ IsUser([row EXCEPT !.store = NoStore])
                               /\ [row EXCEPT !.store = NoStore].email = row.email
    <3> SUFFICES ASSUME NEW row, IsUser(row), NEW x, x = [row EXCEPT !.store = NoStore]
                 PROVE  IsUser(x) /\ x.email = row.email
      OBVIOUS
    <3>1. row = [role |-> row.role, email |-> row.email, store |-> row.store]
      BY DEF IsUser
    <3>2. x = [role |-> row.role, email |-> row.email, store |-> NoStore]
      BY <3>1
    <3> QED  BY <3>2 DEF IsUser
  <2>4. \A u \in DOMAIN users : IsUser(users[u])
    BY DEF UsersInv
  <2>5. \A u \in DOMAIN users' : IsUser(users'[u]) /\ users'[u].email = users[u].email
    BY <2>2, <2>3, <2>4
  <2> QED  BY <2>1, <2>2, <2>5, UsersEdited
<1>11. ASSUME NEW r \in Requests, CountEmail(r) PROVE UsersInv'
  <2>1. PICK w : work' = [work EXCEPT ![r] = w] /\ (w.pc = "idle" \/ (w.pc = "insert" /\ w.user = work[r].user))
    BY <1>11, CountingStep
  <2>2. work[r].user \in Emails
    BY <1>2, <1>11 DEF CountEmail, WorkOfUsers
  <2>3. WorkOfUsers'
    BY <1>2, <2>1, <2>2 DEF WorkOfUsers, SessionsInv, WorkInv
  <2> QED  BY <1>1, <1>11, <2>3, CountingStep
<1>12. CASE UserAdminNext
  BY <1>5, <1>6, <1>7, <1>8, <1>9, <1>10, <1>11, <1>12, StepsOfUserAdmin
<1> QED  BY <1>4, <1>12

-----------------------------------------------------------------------------
(* The last administrator.                                                    *)

Admins == {u \in DOMAIN users : users[u].role = "admin"}
Removing(r) == work[r].pc \in {"demote", "delete"}

\* While administrators take turns one of them at most is being removed, and
\* there is another, if there was any when the request looked.
AdminsInv ==
  OneAdminAtATime =>
    /\ \A r, q \in Requests : Removing(r) /\ Removing(q) => r = q
    /\ \A r \in Requests : Removing(r) /\ work[r].id # 0 => \E v \in Admins : v # work[r].user

\* What a step leaves.
AdminLeft == OneAdminAtATime /\ Admins # {} => Admins' # {} \/ \E r \in Requests : Uncounted(r)

LEMMA AnotherOne ==
  ASSUME NEW S, IsFiniteSet(S), Cardinality(S) > 1, NEW u
  PROVE  \E v \in S : v # u
<1> SUFFICES ASSUME S \subseteq {u} PROVE FALSE
  OBVIOUS
<1>1. IsFiniteSet({u}) /\ Cardinality({u}) = 1
  BY FS_Singleton
<1>2. Cardinality(S) <= Cardinality({u})
  BY <1>1, FS_Subset
<1>3. Cardinality(S) \in Nat
  BY FS_CardinalityType
<1> QED  BY <1>1, <1>2, <1>3

LEMMA AdminsCounted ==
  ASSUME UsersInv
  PROVE  /\ IsFiniteSet(Admins) /\ CountAdmins = Cardinality(Admins)
         /\ CountAdmins \in Nat /\ (CountAdmins = 0 <=> Admins = {})
<1>1. Admins \subseteq DOMAIN users /\ IsFiniteSet(DOMAIN users)
  BY DEF Admins, UsersInv
<1>2. IsFiniteSet(Admins)
  BY <1>1, FS_Subset
<1>3. CountAdmins = Cardinality(Admins)
  BY DEF CountAdmins, Admins
<1> QED  BY <1>2, <1>3, FS_CardinalityType, FS_EmptySet

LEMMA AdminsGrow ==
  ASSUME AdminsInv, Admins \subseteq Admins',
         \A q \in Requests : Removing(q)' => work'[q] = work[q]
  PROVE  AdminsInv' /\ AdminLeft
BY DEF AdminsInv, AdminLeft, Removing

LEMMA AdminsAfterWrite ==
  ASSUME UsersInv, NEW u \in DOMAIN users, NEW role, NEW s, Written(u, role, s)
  PROVE  /\ DOMAIN users' = DOMAIN users
         /\ users'[u].role = role /\ users'[u].store = s
         /\ \A v \in DOMAIN users : v # u => users'[v] = users[v]
<1>1. PICK row : users' = [users EXCEPT ![u] = row] /\ row.role = role /\ row.store = s
  BY DEF Written
<1> QED  BY <1>1, UserRowWritten

LEMMA AdminsKeep ==
  ASSUME SessionsInv, UsersInv, AdminsInv, [UserAdminNext]_adminVars PROVE AdminsInv' /\ AdminLeft
<1>1. CASE UNCHANGED adminVars
  BY <1>1 DEF adminVars, userVars, sessionVars, AdminsInv, AdminLeft, Admins, Removing
<1>2. CASE InSessions
  <2>1. Admins' = Admins
    BY <1>2 DEF InSessions, userVars, Admins
  <2>2. \A q \in Requests : Removing(q)' => work'[q] = work[q]
    BY <1>2, SessionsApart DEF InSessions, Removing, AdminPcs
  <2> QED  BY <2>1, <2>2, AdminsGrow
<1>3. ASSUME NEW r \in Requests, NEW e \in Emails, LoginUser(r, e) PROVE AdminsInv' /\ AdminLeft
  <2>1. PICK u : Start(r, "store", u, 0)
    BY <1>3 DEF LoginUser, Login
  <2>2. \A q \in Requests : Removing(q)' => work'[q] = work[q]
    BY <2>1, WorkStarts DEF SessionsInv, WorkInv, Removing
  <2>3. Admins' = Admins
    BY <1>3 DEF LoginUser, userVars, Admins
  <2> QED  BY <2>2, <2>3, AdminsGrow
<1>4. ASSUME NEW r \in Requests, Starting(r) PROVE AdminsInv' /\ AdminLeft
  <2>1. Admins' = Admins
    BY <1>4, StartingStep DEF Admins
  <2>2. ASSUME NEW pc, NEW u, NEW id, Start(r, pc, u, id), pc \notin {"demote", "delete"}
        PROVE  AdminsInv' /\ AdminLeft
    <3>1. PICK w : work' = [work EXCEPT ![r] = w] /\ w.pc = pc
      BY <2>2, WorkStarts
    <3>2. work'[r].pc = pc /\ \A q \in Requests : q # r => work'[q] = work[q]
      BY <3>1 DEF SessionsInv, WorkInv
    <3>3. \A q \in Requests : Removing(q)' => work'[q] = work[q]
      BY <2>2, <3>2 DEF Removing
    <3> QED  BY <2>1, <3>3, AdminsGrow
  <2>3. ASSUME NEW pc \in {"demote", "delete"}, NEW u, Start(r, pc, u, CountAdmins), Turn,
               CountAdmins # 0 => \E v \in Admins : v # u
        PROVE  AdminsInv' /\ AdminLeft
    <3>1. PICK w : work' = [work EXCEPT ![r] = w] /\ w.pc = pc /\ w.user = u /\ w.id = CountAdmins
      BY <2>3, WorkStarts
    <3>2. work'[r] = w /\ \A q \in Requests : q # r => work'[q] = work[q]
      BY <3>1 DEF SessionsInv, WorkInv
    <3>3. OneAdminAtATime => \A q \in Requests : ~Removing(q)
      BY <2>3 DEF Turn, Removing
    <3>4. \A q \in Requests : OneAdminAtATime /\ Removing(q)' => q = r
      BY <3>2, <3>3 DEF Removing
    <3>5. work'[r].id # 0 => \E v \in Admins' : v # work'[r].user
      BY <2>1, <2>3, <3>1, <3>2
    <3>6. AdminsInv'
      BY <3>4, <3>5 DEF AdminsInv
    <3> QED  BY <2>1, <3>6 DEF AdminLeft
  <2>4. ASSUME NEW u \in DOMAIN users, users[u].role = "admin" => CountAdmins > 1, CountAdmins # 0
        PROVE  \E v \in Admins : v # u
    <3>1. CASE users[u].role = "admin"
      BY <2>4, <3>1, AnotherOne, AdminsCounted
    <3>2. CASE users[u].role # "admin"
      BY <2>4, <3>2, AdminsCounted DEF Admins
    <3> QED  BY <3>1, <3>2
  <2>5. ASSUME NEW e, NEW s, NEW u,
               \/ CountForBootstrap(r, e) \/ CheckNewUser(r, e, s)
               \/ ReadUser(r, u, e) \/ CheckStore(r, u, s)
        PROVE  AdminsInv' /\ AdminLeft
    <3>1. PICK pc, x, id : pc \in {"promote", "count", "mail", "link"} /\ Start(r, pc, x, id)
      BY <2>5 DEF CountForBootstrap, CheckNewUser, ReadUser, CheckStore
    <3> QED  BY <2>2, <3>1
  <2>6. ASSUME NEW u, CheckDelete(r, u) PROVE AdminsInv' /\ AdminLeft
    BY <2>3, <2>4, <2>6 DEF CheckDelete
  <2>7. ASSUME NEW u, NEW role \in Roles, CheckRole(r, u, role) PROVE AdminsInv' /\ AdminLeft
    <3>1. CASE role = "admin"
      BY <2>2, <2>7, <3>1 DEF CheckRole
    <3>2. CASE role # "admin"
      BY <2>3, <2>4, <2>7, <3>2 DEF CheckRole
    <3> QED  BY <3>1, <3>2
  <2> QED  BY <1>4, <2>5, <2>6, <2>7 DEF Starting
<1>5. ASSUME NEW r \in Requests, Ending(r) PROVE AdminsInv' /\ AdminLeft
  <2>1. PICK w : work' = [work EXCEPT ![r] = w] /\ w.pc \in {"idle", "revoke"}
    BY <1>5, EndingStep
  <2>2. work'[r] = w /\ \A q \in Requests : q # r => work'[q] = work[q]
    BY <2>1 DEF SessionsInv, WorkInv
  <2>3. \A q \in Requests : Removing(q)' => work'[q] = work[q]
    BY <2>1, <2>2 DEF Removing
  <2>4. ASSUME UNCHANGED users PROVE AdminsInv' /\ AdminLeft
    BY <2>3, <2>4, AdminsGrow DEF Admins
  <2>5. ASSUME NEW e \in Emails, NEW role \in Roles, NEW s, Added(e, role, s) PROVE AdminsInv' /\ AdminLeft
    <3>1. DOMAIN users \subseteq DOMAIN users' /\ \A u \in DOMAIN users : users'[u] = users[u]
      BY <2>5, FreeIdIsFree DEF Added, AddRow, MayInsert
    <3> QED  BY <2>3, <3>1, AdminsGrow DEF Admins
  <2>6. ASSUME NEW u \in DOMAIN users, NEW s,
               Written(u, "admin", s) \/ Written(u, users[u].role, s)
        PROVE  AdminsInv' /\ AdminLeft
    <3>1. Admins \subseteq Admins'
      BY <2>6, AdminsAfterWrite DEF Admins
    <3> QED  BY <2>3, <3>1, AdminsGrow
  \* The one who is removed: nobody else is, and there is another administrator.
  <2>7. ASSUME Removing(r), SaveRole(r) \/ DeleteUser(r),
               \A v \in Admins : v # work[r].user => v \in Admins'
        PROVE  AdminsInv' /\ AdminLeft
    <3> SUFFICES ASSUME OneAdminAtATime
                 PROVE  /\ Admins' # {} \/ Uncounted(r)
                        /\ \A q \in Requests : ~Removing(q)'
      BY DEF AdminsInv, AdminLeft
    <3>1. ASSUME work[r].id = 0 PROVE Uncounted(r)
      BY <2>7, <3>1 DEF Uncounted, Removing
    <3>2. ASSUME work[r].id # 0 PROVE Admins' # {}
      <4>1. PICK v \in Admins : v # work[r].user
        BY <2>7, <3>2 DEF AdminsInv
      <4> QED  BY <2>7, <4>1
    <3>3. \A q \in Requests : q # r => ~Removing(q)
      BY <2>7 DEF AdminsInv
    <3>4. \A q \in Requests : ~Removing(q)'
      BY <2>1, <2>2, <3>3 DEF Removing
    <3> QED  BY <3>1, <3>2, <3>4
  <2>8. ASSUME SaveRole(r), work[r].pc = "demote", work[r].user \in DOMAIN users,
               Written(work[r].user, "restaurant", users[work[r].user].store)
        PROVE  AdminsInv' /\ AdminLeft
    <3>1. \A v \in Admins : v # work[r].user => v \in Admins'
      BY <2>8, AdminsAfterWrite DEF Admins
    <3> QED  BY <2>7, <2>8, <3>1 DEF Removing
  <2>9. ASSUME DeleteUser(r), work[r].pc = "delete", users' = KeepRows(users, DOMAIN users \ {work[r].user})
        PROVE  AdminsInv' /\ AdminLeft
    <3>1. \A v \in Admins : v # work[r].user => v \in Admins'
      BY <2>9 DEF Admins, KeepRows
    <3> QED  BY <2>7, <2>9, <3>1 DEF Removing
  <2>10. ASSUME NEW u \in DOMAIN users, Renamed(u) PROVE AdminsInv' /\ AdminLeft
    <3>1. Admins \subseteq Admins'
      BY <2>10, RowOfRenamed DEF Admins
    <3> QED  BY <2>3, <3>1, AdminsGrow
  <2> QED  BY <1>5, <2>4, <2>5, <2>6, <2>8, <2>9, <2>10, WhatEndingDoes
<1>6. ASSUME AtStores PROVE AdminsInv' /\ AdminLeft
  <2>1. \A q \in Requests : work'[q] = work[q]
    BY <1>6, AtStoresStep DEF sessionVars
  <2>2. DOMAIN users \subseteq DOMAIN users' /\ \A u \in DOMAIN users : users'[u] = users[u]
    <3>1. ASSUME NEW e \in Emails, RegisterEstablishment(e)
          PROVE  DOMAIN users \subseteq DOMAIN users' /\ \A u \in DOMAIN users : users'[u] = users[u]
      BY <3>1, FreeIdIsFree DEF RegisterEstablishment, AddRow, MayInsert
    <3>2. ASSUME ~\E e \in Emails : RegisterEstablishment(e) PROVE UNCHANGED users
      BY <1>6, <3>2 DEF AtStores, ReadStore, SetEstablishmentDisabled, OrderArrives, SaveStore, GiveUp
    <3> QED  BY <3>1, <3>2
  <2> QED  BY <2>1, <2>2, AdminsGrow DEF Admins
<1>7. ASSUME NEW c \in copies, DeleteEstablishment(c) PROVE AdminsInv' /\ AdminLeft
  <2>1. \A q \in Requests : work'[q] = work[q]
    BY <1>7 DEF DeleteEstablishment
  <2>2. PICK L : users' = [u \in DOMAIN users |-> IF u \in L THEN [users[u] EXCEPT !.store = NoStore] ELSE users[u]]
    BY <1>7 DEF DeleteEstablishment
  <2>3. ASSUME NEW u \in DOMAIN users PROVE u \in DOMAIN users' /\ users'[u].role = users[u].role
    <3>1. users[u] = [role |-> users[u].role, email |-> users[u].email, store |-> users[u].store]
      BY DEF UsersInv, IsUser
    <3> QED  BY <2>2, <3>1
  <2>4. Admins \subseteq Admins'
    BY <2>3 DEF Admins
  <2> QED  BY <2>1, <2>4, AdminsGrow
<1>8. ASSUME NEW r \in Requests, CountEmail(r) PROVE AdminsInv' /\ AdminLeft
  <2>1. PICK w : work' = [work EXCEPT ![r] = w] /\ w.pc \in {"idle", "insert"}
    BY <1>8, CountingStep
  <2>2. \A q \in Requests : Removing(q)' => work'[q] = work[q]
    BY <2>1 DEF Removing, SessionsInv, WorkInv
  <2>3. Admins' = Admins
    BY <1>8, CountingStep DEF Admins
  <2> QED  BY <2>2, <2>3, AdminsGrow
<1>9. CASE UserAdminNext
  BY <1>2, <1>3, <1>4, <1>5, <1>6, <1>7, <1>8, <1>9, StepsOfUserAdmin
<1> QED  BY <1>1, <1>9

-----------------------------------------------------------------------------
(* Stores: what a handler read and nobody wrote since is what the store is.     *)

IsStore(row) == /\ row = [open |-> row.open, disabled |-> row.disabled, wallet |-> row.wallet]
                /\ row.open \in BOOLEAN /\ row.disabled \in BOOLEAN
                /\ row.disabled => ~row.open
IsCopy(c) == /\ c = [pc |-> c.pc, store |-> c.store, row |-> c.row, stale |-> c.stale]
             /\ c.store \in Stores /\ c.stale \in BOOLEAN /\ IsStore(c.row)
             /\ c.pc = "toggle" => c.row.open \/ ~c.row.disabled

StoresInv ==
  /\ stores = [s \in DOMAIN stores |-> stores[s]] /\ DOMAIN stores \subseteq Stores
  /\ \A s \in DOMAIN stores : IsStore(stores[s])
  /\ \A c \in copies : IsCopy(c) /\ (~c.stale => c.store \in DOMAIN stores /\ c.row = stores[c.store])

\* What a handler writes is a row of a store.
Saved(c) == CASE c.pc = "toggle" -> [c.row EXCEPT !.open = ~@]
              [] c.pc = "wallet" -> [c.row EXCEPT !.wallet = "set"]
              [] c.pc = "edit"   -> c.row

LEMMA SavedRow ==
  ASSUME NEW c, IsCopy(c), c.pc \in {"toggle", "edit", "wallet"}
  PROVE  /\ IsStore(Saved(c))
         /\ c.row.disabled => Saved(c).disabled /\ ~Saved(c).open
<1>1. c.row = [open |-> c.row.open, disabled |-> c.row.disabled, wallet |-> c.row.wallet]
  BY DEF IsCopy, IsStore
<1>2. CASE c.pc = "toggle"
  <2>1. Saved(c) = [c.row EXCEPT !.open = ~@]
    BY <1>2 DEF Saved
  <2>2. PICK b \in BOOLEAN : b = ~c.row.open
    OBVIOUS
  <2>3. Saved(c) = [open |-> b, disabled |-> c.row.disabled, wallet |-> c.row.wallet]
    BY <1>1, <2>1, <2>2
  <2> QED  BY <1>2, <2>2, <2>3 DEF IsCopy, IsStore
<1>3. CASE c.pc = "wallet"
  <2>1. Saved(c) = [c.row EXCEPT !.wallet = "set"]
    BY <1>3 DEF Saved
  <2>2. Saved(c) = [open |-> c.row.open, disabled |-> c.row.disabled, wallet |-> "set"]
    BY <1>1, <2>1
  <2> QED  BY <2>2 DEF IsCopy, IsStore
<1>4. CASE c.pc = "edit"
  <2>1. Saved(c) = c.row
    BY <1>4 DEF Saved
  <2> QED  BY <2>1 DEF IsCopy, IsStore
<1> QED  BY <1>2, <1>3, <1>4

\* One row is written or goes: the copies of the others are as good as before.
LEMMA CopiesAge ==
  ASSUME StoresInv, NEW s, NEW c, copies' = AgedBy(s, c),
         stores' = [x \in DOMAIN stores' |-> stores'[x]], DOMAIN stores' \subseteq Stores,
         \A x \in DOMAIN stores' : IsStore(stores'[x]),
         \A x \in DOMAIN stores \ {s} : x \in DOMAIN stores' /\ stores'[x] = stores[x]
  PROVE  StoresInv'
<1>1. ASSUME NEW d \in copies'
      PROVE  IsCopy(d) /\ (~d.stale => d.store \in DOMAIN stores' /\ d.row = stores'[d.store])
  <2>1. PICK b \in copies : d = [b EXCEPT !.stale = @ \/ b.store = s]
    BY <1>1 DEF AgedBy
  <2>2. IsCopy(b) /\ (~b.stale => b.store \in DOMAIN stores /\ b.row = stores[b.store])
    BY DEF StoresInv
  <2>3. PICK stale \in BOOLEAN : stale = (b.stale \/ b.store = s)
    OBVIOUS
  <2>4. b = [pc |-> b.pc, store |-> b.store, row |-> b.row, stale |-> b.stale]
    BY <2>2 DEF IsCopy
  <2>5. d = [pc |-> b.pc, store |-> b.store, row |-> b.row, stale |-> stale]
    BY <2>1, <2>3, <2>4
  <2>6. IsCopy(d)
    BY <2>2, <2>5 DEF IsCopy
  <2> QED  BY <2>2, <2>3, <2>5, <2>6
<1> QED  BY <1>1 DEF StoresInv

LEMMA StoreWritten ==
  ASSUME StoresInv, NEW s \in Stores, NEW row, IsStore(row), NEW c,
         stores' = AddRow(stores, s, row), copies' = AgedBy(s, c)
  PROVE  StoresInv'
<1>1. /\ stores' = [x \in DOMAIN stores' |-> stores'[x]] /\ DOMAIN stores' = DOMAIN stores \cup {s}
      /\ stores'[s] = row /\ \A x \in DOMAIN stores \ {s} : stores'[x] = stores[x]
  BY DEF AddRow
<1> QED  BY <1>1, CopiesAge DEF StoresInv

LEMMA StoreDisabled ==
  ASSUME StoresInv, NEW s \in Stores, NEW disabled \in BOOLEAN, SetEstablishmentDisabled(s, disabled)
  PROVE  /\ StoresInv'
         /\ disabled => stores'[s].disabled /\ ~stores'[s].open
         /\ \A x \in DOMAIN stores \ {s} : stores'[x] = stores[x]
<1>0. s \in DOMAIN stores /\ IsStore(stores[s])
  BY DEF SetEstablishmentDisabled, StoresInv
<1>1. PICK row : row = IF disabled THEN [stores[s] EXCEPT !.open = FALSE, !.disabled = TRUE]
                       ELSE [stores[s] EXCEPT !.disabled = FALSE]
  OBVIOUS
<1>2. IsStore(row) /\ (disabled => row.disabled /\ ~row.open)
  <2>1. stores[s] = [open |-> stores[s].open, disabled |-> stores[s].disabled, wallet |-> stores[s].wallet]
    BY <1>0 DEF IsStore
  <2>2. CASE disabled
    <3>1. row = [open |-> FALSE, disabled |-> TRUE, wallet |-> stores[s].wallet]
      BY <1>1, <2>1, <2>2
    <3> QED  BY <3>1 DEF IsStore
  <2>3. CASE ~disabled
    <3>1. row = [open |-> stores[s].open, disabled |-> FALSE, wallet |-> stores[s].wallet]
      BY <1>1, <2>1, <2>3
    <3> QED  BY <1>0, <2>3, <3>1 DEF IsStore
  <2> QED  BY <2>2, <2>3
<1>3. stores' = [stores EXCEPT ![s] = row]
  BY <1>0, <1>1 DEF SetEstablishmentDisabled
<1>4. copies' = AgedBy(s, [pc |-> "none"])
  BY DEF SetEstablishmentDisabled
<1>5. /\ DOMAIN stores' = DOMAIN stores /\ stores'[s] = row
      /\ \A x \in DOMAIN stores \ {s} : stores'[x] = stores[x]
      /\ stores' = [x \in DOMAIN stores' |-> stores'[x]]
  BY <1>0, <1>3 DEF StoresInv
<1> QED  BY <1>2, <1>4, <1>5, CopiesAge DEF StoresInv

LEMMA StoreRead ==
  ASSUME StoresInv, NEW s \in Stores, NEW pc, ReadStore(s, pc)
  PROVE  StoresInv' /\ UNCHANGED stores
<1>1. PICK d : d = [pc |-> pc, store |-> s, row |-> stores[s], stale |-> FALSE]
  OBVIOUS
<1>2. s \in DOMAIN stores /\ IsStore(stores[s])
  BY DEF ReadStore, StoresInv
<1>3. pc = "toggle" => stores[s].open \/ ~stores[s].disabled
  BY DEF ReadStore
<1>4. IsCopy(d) /\ d.store \in DOMAIN stores /\ d.row = stores[d.store]
  BY <1>1, <1>2, <1>3 DEF IsCopy
<1>5. copies' = copies \cup {d} /\ UNCHANGED stores
  BY <1>1 DEF ReadStore
<1> QED  BY <1>4, <1>5 DEF StoresInv

LEMMA StoresUnchanged ==
  ASSUME StoresInv, UNCHANGED stores, copies' \subseteq copies PROVE StoresInv'
BY DEF StoresInv

LEMMA StoreRegistered ==
  ASSUME StoresInv, NEW e, RegisterEstablishment(e)
  PROVE  /\ StoresInv' /\ \A x \in DOMAIN stores : stores'[x] = stores[x]
         /\ \E s \in DOMAIN stores' : DOMAIN stores' = DOMAIN stores \cup {s}
                                      /\ users' = AddRow(users, FreeId, Row("restaurant", e, s))
<1>1. PICK s \in Stores : /\ s \notin DOMAIN stores /\ stores' = AddRow(stores, s, NewStore)
                          /\ users' = AddRow(users, FreeId, Row("restaurant", e, s))
  BY DEF RegisterEstablishment
<1>2. IsStore(NewStore)
  BY DEF NewStore, IsStore
<1>3. /\ stores' = [x \in DOMAIN stores' |-> stores'[x]] /\ DOMAIN stores' = DOMAIN stores \cup {s}
      /\ stores'[s] = NewStore /\ \A x \in DOMAIN stores : stores'[x] = stores[x]
  BY <1>1 DEF AddRow
<1>4. copies' = copies
  BY DEF RegisterEstablishment
<1> QED  BY <1>1, <1>2, <1>3, <1>4 DEF StoresInv

LEMMA StoreGone ==
  ASSUME StoresInv, NEW c \in copies, DeleteEstablishment(c)
  PROVE  StoresInv' /\ \A x \in DOMAIN stores' : x \in DOMAIN stores /\ stores'[x] = stores[x]
<1>1. /\ stores' = [x \in DOMAIN stores' |-> stores'[x]] /\ DOMAIN stores' = DOMAIN stores \ {c.store}
      /\ \A x \in DOMAIN stores' : stores'[x] = stores[x]
  BY DEF DeleteEstablishment, KeepRows
<1>2. copies' = AgedBy(c.store, c)
  BY DEF DeleteEstablishment
<1> QED  BY <1>1, <1>2, CopiesAge DEF StoresInv

LEMMA StoreSaved ==
  ASSUME StoresInv, NEW c \in copies, SaveStore(c)
  PROVE  /\ StoresInv' /\ DOMAIN stores \subseteq DOMAIN stores'
         /\ \A x \in DOMAIN stores : x # c.store => stores'[x] = stores[x]
         /\ ~c.stale /\ stores[c.store].disabled => stores'[c.store].disabled /\ ~stores'[c.store].open
<1>1. IsCopy(c) /\ c.pc \in {"toggle", "edit", "wallet"} /\ c.store \in Stores
  BY DEF StoresInv, SaveStore, IsCopy
<1>2. stores' = AddRow(stores, c.store, Saved(c)) /\ copies' = AgedBy(c.store, c)
  BY DEF SaveStore, Saved
<1>3. /\ IsStore(Saved(c))
      /\ c.row.disabled => Saved(c).disabled /\ ~Saved(c).open
  BY <1>1, SavedRow
<1>4. StoresInv'
  BY <1>1, <1>2, <1>3, StoreWritten
<1>5. ~c.stale => c.row = stores[c.store]
  BY DEF StoresInv
<1>6. /\ DOMAIN stores' = DOMAIN stores \cup {c.store} /\ stores'[c.store] = Saved(c)
      /\ \A x \in DOMAIN stores : x # c.store => stores'[x] = stores[x]
  BY <1>2 DEF AddRow
<1> QED  BY <1>3, <1>4, <1>5, <1>6

\* A store that was disabled is disabled and closed after a step, or the step
\* enabled it or wrote what somebody had read before.
StaysShut ==
  \A s \in DOMAIN stores \cap DOMAIN stores' :
    stores[s].disabled /\ ~(stores'[s].disabled /\ ~stores'[s].open) =>
      SetEstablishmentDisabled(s, FALSE) \/ \E c \in copies : c.stale /\ SaveStore(c)

LEMMA StoresKeep ==
  ASSUME SessionsInv, StoresInv, [UserAdminNext]_adminVars
  PROVE  StoresInv' /\ StaysShut
<1>0. \A s \in DOMAIN stores : stores[s].disabled => ~stores[s].open
  BY DEF StoresInv, IsStore
<1>1. ASSUME UNCHANGED stores, copies' \subseteq copies PROVE StoresInv' /\ StaysShut
  BY <1>0, <1>1, StoresUnchanged DEF StaysShut
<1>2. CASE UNCHANGED adminVars
  BY <1>1, <1>2 DEF adminVars, userVars
<1>3. CASE InSessions
  BY <1>1, <1>3 DEF InSessions, userVars
<1>4. ASSUME NEW r \in Requests, NEW e \in Emails, LoginUser(r, e) PROVE StoresInv' /\ StaysShut
  BY <1>1, <1>4 DEF LoginUser, userVars
<1>5. ASSUME NEW r \in Requests, Starting(r) \/ CountEmail(r) \/ Ending(r) PROVE StoresInv' /\ StaysShut
  BY <1>1, <1>5, StartingStep, CountingStep, EndingStep
<1>6. ASSUME NEW e, RegisterEstablishment(e) PROVE StoresInv' /\ StaysShut
  BY <1>0, <1>6, StoreRegistered DEF StaysShut
<1>7. ASSUME NEW s \in Stores, NEW pc, ReadStore(s, pc) PROVE StoresInv' /\ StaysShut
  BY <1>0, <1>7, StoreRead DEF StaysShut
<1>8. ASSUME NEW s \in Stores, NEW disabled \in BOOLEAN, SetEstablishmentDisabled(s, disabled)
      PROVE  StoresInv' /\ StaysShut
  <2>1. CASE disabled
    BY <1>0, <1>8, <2>1, StoreDisabled DEF StaysShut
  <2>2. CASE ~disabled
    <3>1. SetEstablishmentDisabled(s, FALSE)
      BY <1>8, <2>2
    <3>2. StoresInv' /\ \A x \in DOMAIN stores \ {s} : stores'[x] = stores[x]
      BY <1>8, StoreDisabled
    <3> QED  BY <1>0, <3>1, <3>2 DEF StaysShut
  <2> QED  BY <2>1, <2>2
<1>9. ASSUME NEW s, OrderArrives(s) PROVE StoresInv' /\ StaysShut
  BY <1>1, <1>9 DEF OrderArrives
<1>10. ASSUME NEW c \in copies, SaveStore(c) PROVE StoresInv' /\ StaysShut
  <2>1. CASE c.stale
    BY <1>10, <2>1, StoreSaved DEF StaysShut
  <2>2. CASE ~c.stale
    BY <1>0, <1>10, <2>2, StoreSaved DEF StaysShut
  <2> QED  BY <2>1, <2>2
<1>11. ASSUME NEW c \in copies, GiveUp(c) PROVE StoresInv' /\ StaysShut
  BY <1>1, <1>11 DEF GiveUp
<1>12. ASSUME NEW c \in copies, DeleteEstablishment(c) PROVE StoresInv' /\ StaysShut
  BY <1>0, <1>12, StoreGone DEF StaysShut
<1>13. CASE AtStores
  BY <1>6, <1>7, <1>8, <1>9, <1>10, <1>11, <1>13 DEF AtStores
<1>14. CASE UserAdminNext
  BY <1>3, <1>4, <1>5, <1>12, <1>13, <1>14, StepsOfUserAdmin
<1> QED  BY <1>2, <1>14

\* Who is stranded in a store that is gone, and by which step.
LEMMA StrandedByLink ==
  ASSUME SessionsInv, UsersInv, StoresInv, [UserAdminNext]_adminVars
  PROVE  \A u \in Stranded' \ Stranded : \E r \in Requests : LateLink(r, u)
<1>1. ASSUME UNCHANGED users, DOMAIN stores \subseteq DOMAIN stores' PROVE Stranded' \subseteq Stranded
  BY <1>1 DEF Stranded
<1>2. CASE UNCHANGED adminVars
  BY <1>1, <1>2 DEF adminVars, userVars
<1>3. CASE InSessions
  BY <1>1, <1>3 DEF InSessions, userVars
<1>4. ASSUME NEW r \in Requests, NEW e \in Emails, LoginUser(r, e) PROVE Stranded' \subseteq Stranded
  BY <1>1, <1>4 DEF LoginUser, userVars
<1>5. ASSUME NEW r \in Requests, Starting(r) \/ CountEmail(r) PROVE Stranded' \subseteq Stranded
  BY <1>1, <1>5, StartingStep, CountingStep
<1>6. ASSUME NEW r \in Requests, Ending(r)
      PROVE  \A u \in Stranded' \ Stranded : LateLink(r, u)
  <2>0. UNCHANGED stores
    BY <1>6, EndingStep
  <2>1. ASSUME NEW e \in Emails, NEW role \in Roles, Added(e, role, NoStore)
        PROVE  Stranded' \subseteq Stranded
    <3>1. PICK u : DOMAIN users' = DOMAIN users \cup {u} /\ users'[u] = Row(role, e, NoStore)
                   /\ \A v \in DOMAIN users : users'[v] = users[v]
      BY <2>1, FreeIdIsFree DEF Added, AddRow, MayInsert
    <3> QED  BY <2>0, <3>1 DEF Stranded, Row
  <2>2. ASSUME NEW u \in DOMAIN users, NEW role, Written(u, role, users[u].store)
        PROVE  Stranded' \subseteq Stranded
    BY <2>0, <2>2, AdminsAfterWrite DEF Stranded
  <2>3. ASSUME NEW u, users' = KeepRows(users, DOMAIN users \ {u}) PROVE Stranded' \subseteq Stranded
    BY <2>0, <2>3 DEF Stranded, KeepRows
  <2>4. ASSUME NEW e \in Emails, NEW role \in Roles, InsertUser(r, role), Added(e, role, work[r].id)
        PROVE  \A u \in Stranded' \ Stranded : LateLink(r, u)
    <3>1. PICK u : DOMAIN users' = DOMAIN users \cup {u} /\ users'[u] = Row(role, e, work[r].id)
                   /\ \A v \in DOMAIN users : users'[v] = users[v]
      BY <2>4, FreeIdIsFree DEF Added, AddRow, MayInsert
    <3>2. users'[u].store = work[r].id
      BY <3>1 DEF Row
    <3>3. LateLink(r, u)
      BY <2>4, <3>2 DEF LateLink, Roles
    <3> QED  BY <2>0, <3>1, <3>3 DEF Stranded
  <2>5. ASSUME NEW u \in DOMAIN users, SaveLink(r), Written(u, users[u].role, work[r].id)
        PROVE  \A v \in Stranded' \ Stranded : LateLink(r, v)
    <3>1. /\ DOMAIN users' = DOMAIN users /\ users'[u].store = work[r].id
          /\ \A v \in DOMAIN users : v # u => users'[v] = users[v]
      BY <2>5, AdminsAfterWrite
    <3>2. LateLink(r, u)
      BY <2>5, <3>1 DEF LateLink
    <3> QED  BY <2>0, <3>1, <3>2 DEF Stranded
  <2>6. ASSUME NEW u \in DOMAIN users, Renamed(u) PROVE Stranded' \subseteq Stranded
    BY <2>0, <2>6, RowOfRenamed DEF Stranded
  <2> QED  BY <1>1, <1>6, <2>0, <2>1, <2>2, <2>3, <2>4, <2>5, <2>6, WhatEndingDoes
<1>7. CASE AtStores
  <2>1. ASSUME NEW e \in Emails, RegisterEstablishment(e) PROVE Stranded' \subseteq Stranded
    <3>1. PICK s \in DOMAIN stores' : /\ DOMAIN stores' = DOMAIN stores \cup {s}
                                      /\ users' = AddRow(users, FreeId, Row("restaurant", e, s))
      BY <2>1, StoreRegistered
    <3>2. FreeId \notin DOMAIN users
      BY <2>1, FreeIdIsFree DEF RegisterEstablishment, MayInsert
    <3>3. /\ DOMAIN users' = DOMAIN users \cup {FreeId} /\ users'[FreeId].store = s
          /\ \A v \in DOMAIN users : users'[v] = users[v]
      BY <3>1, <3>2 DEF AddRow, Row
    <3> QED  BY <3>1, <3>3 DEF Stranded
  <2>2. ASSUME ~\E e \in Emails : RegisterEstablishment(e)
        PROVE  UNCHANGED users /\ DOMAIN stores \subseteq DOMAIN stores'
    BY <1>7, <2>2 DEF AtStores, ReadStore, SetEstablishmentDisabled, OrderArrives, SaveStore, GiveUp, AddRow
  <2> QED  BY <1>1, <2>1, <2>2
<1>8. ASSUME NEW c \in copies, DeleteEstablishment(c) PROVE Stranded' \subseteq Stranded
  <2>1. /\ users' = [u \in DOMAIN users |-> IF u \in LinkedTo(c.store)
                                              THEN [users[u] EXCEPT !.store = NoStore] ELSE users[u]]
        /\ DOMAIN stores' = DOMAIN stores \ {c.store}
    BY <1>8 DEF DeleteEstablishment, KeepRows
  <2>2. ASSUME NEW u \in DOMAIN users PROVE users'[u].store = IF users[u].store = c.store THEN NoStore
                                                              ELSE users[u].store
    <3>1. users[u] = [role |-> users[u].role, email |-> users[u].email, store |-> users[u].store]
      BY DEF UsersInv, IsUser
    <3> QED  BY <2>1, <3>1 DEF LinkedTo
  <2> QED  BY <2>1, <2>2 DEF Stranded
<1>9. CASE UserAdminNext
  BY <1>3, <1>4, <1>5, <1>6, <1>7, <1>8, <1>9, StepsOfUserAdmin
<1> QED  BY <1>2, <1>9

-----------------------------------------------------------------------------
\* The claims of a token name one table, with the role of an old one too.
LEMMA OnePerson == ThreePeople
<1> SUFFICES ASSUME NEW mine \in Tables, NEW theirs \in Tables, NEW i, NEW j, NEW old \in BOOLEAN
             PROVE  IsOwnAccount(Claims(mine, i, old), theirs, j) <=> mine = theirs /\ i = j
  BY DEF ThreePeople
<1> DEFINE claims == Claims(mine, i, old)
<1>1. /\ claims.id = i /\ claims.account_type = IF old THEN "" ELSE mine
      /\ mine = "user" => claims.role = "restaurant"
      /\ mine = "client" => claims.role = "client"
      /\ mine = "deliveryman" => claims.role = ""
  BY DEF Claims, Tables
<1> HIDE DEF claims
<1>2. AccountTypeFromClaims(claims) = mine
  BY <1>1 DEF AccountTypeFromClaims, Tables
<1> QED  BY <1>1, <1>2 DEF IsOwnAccount, claims

UserAdminInv == SessionsInv /\ UsersInv /\ AdminsInv /\ StoresInv

LEMMA UserAdminStarts == UserAdminInit => UserAdminInv
<1> SUFFICES ASSUME UserAdminInit PROVE UserAdminInv
  OBVIOUS
<1>0. SessionsAssumption /\ UserAdminAssumption
  BY SessionsAssumption, UserAdminAssumption
<1>1. WorkInv
  BY <1>0 DEF UserAdminInit, SessionsInit, WorkInv, Past, PastInit, Idle, IsWork, SessionsAssumption
<1>2. TokensInv /\ CodesInv /\ PasswordsInv
  <2>1. \A r \in Requests : work[r].pc = "idle"
    BY DEF UserAdminInit, SessionsInit, Idle
  <2>2. tokens = [t \in {} |-> {}] /\ codes = [c \in {} |-> {}] /\ past = PastInit
        /\ cut = [u \in Users |-> 0] /\ password = [u \in Users |-> 0]
    BY DEF UserAdminInit, SessionsInit
  <2>3. /\ DOMAIN tokens = {} /\ DOMAIN codes = {}
        /\ \A t \in 1..MaxTokens : past.successors[t] = 0
        /\ \A c \in 1..MaxCodes : past.guesses[c] = 0
    BY <2>2 DEF PastInit
  <2>4. \A r \in Requests : ~Storing(r) /\ work[r].pc \notin Guessing /\ \A t : ~Holds(r, t)
    BY <2>1 DEF Storing, Holds, Guessing
  <2>5. TokensInv
    BY <2>2, <2>3, <2>4 DEF TokensInv
  <2>6. CodesInv
    BY <2>2, <2>3, <2>4 DEF CodesInv
  <2>7. 0 \in 0..MaxPasswords
    BY <1>0 DEF SessionsAssumption
  <2> QED  BY <2>2, <2>5, <2>6, <2>7 DEF PasswordsInv
<1>3a. PICK e \in Emails, first \in Users : \E some \in SUBSET {first} :
         users = [u \in some |-> Row("admin", e, NoStore)]
  BY DEF UserAdminInit
<1>3. PICK some \in SUBSET {first} : users = [u \in some |-> Row("admin", e, NoStore)]
  BY <1>3a
<1>4. \A r \in Requests : work[r].pc = "idle"
  BY DEF UserAdminInit, SessionsInit, Idle
<1>5. UsersInv
  <2>1. IsFiniteSet({first}) /\ DOMAIN users \subseteq {first} /\ DOMAIN users \subseteq Users
    BY <1>3, FS_Singleton
  <2>2. IsFiniteSet(DOMAIN users)
    BY <2>1, FS_Subset
  <2>3. IsUser(Row("admin", e, NoStore))
    BY DEF IsUser, Row, Roles
  <2> QED  BY <1>3, <1>4, <2>1, <2>2, <2>3 DEF UsersInv
<1>6. AdminsInv
  BY <1>4 DEF AdminsInv, Removing
<1>7. StoresInv
  <2>1. IsStore(NewStore)
    BY DEF NewStore, IsStore
  <2> QED  BY <2>1 DEF UserAdminInit, StoresInv
<1> QED  BY <1>1, <1>2, <1>5, <1>6, <1>7 DEF UserAdminInv, SessionsInv

LEMMA UserAdminSteps == UserAdminInv /\ [UserAdminNext]_adminVars => UserAdminInv'
BY SessionsKeep, UsersKeep, AdminsKeep, StoresKeep DEF UserAdminInv

LEMMA SessionsImplied == UserAdminInv => SessionsKept
<1> SUFFICES ASSUME UserAdminInv PROVE OneSuccessor /\ NothingOutlivesRevocation /\ GuessesAreLimited
  BY OnePerson DEF SessionsKept
<1>1. /\ MaxPasswordResetAttempts \in Nat /\ past.tokens \in 0..MaxTokens /\ MaxTokens \in Nat
      /\ past.successors \in [1..MaxTokens -> 0..1]
  BY SessionsAssumption DEF UserAdminInv, SessionsInv, WorkInv, Past
<1>2. OneSuccessor
  BY <1>1 DEF OneSuccessor
<1>3. NothingOutlivesRevocation
  BY DEF NothingOutlivesRevocation, UserAdminInv, SessionsInv, TokensInv
<1>4. GuessesAreLimited
  <2>1. ASSUME NEW c \in DOMAIN codes
        PROVE  /\ codes[c].attempts <= MaxPasswordResetAttempts
               /\ past.guesses[c] > MaxPasswordResetAttempts =>
                    codes[c].used \/ c \in past.missed \/ Killing(c)
    <3>1. IsCode(codes[c]) /\ Counted(c)
      BY DEF UserAdminInv, SessionsInv, CodesInv
    <3>2. codes[c].attempts \in 0..MaxPasswordResetAttempts
      BY <3>1 DEF IsCode
    <3> QED  BY <1>1, <3>1, <3>2 DEF Counted
  <2> QED  BY <2>1 DEF GuessesAreLimited, Killing
<1> QED  BY <1>2, <1>3, <1>4

LEMMA AccountsImplied == UserAdminInv => AccountsTypeOK /\ LoginFindsOwn
<1> SUFFICES ASSUME UserAdminInv PROVE AccountsTypeOK /\ LoginFindsOwn
  OBVIOUS
<1>1. AccountsTypeOK
  BY DEF AccountsTypeOK, UserAdminInv, SessionsInv, TokensInv, IsToken, PasswordsInv,
     UsersInv, IsUser, Roles, StoresInv
<1>2. ASSUME UniqueEmail, NEW u \in DOMAIN users PROVE FindUserByLoginEmail(users[u].email) = u
  <2>1. HasEmail(users[u].email) = {u}
    BY <1>2 DEF HasEmail, UserAdminInv, UsersInv
  <2>2. u \in Nat
    BY UserAdminAssumption DEF UserAdminInv, UsersInv
  <2>3. (CHOOSE w \in {u} : \A v \in {u} : w <= v) = u
    BY <2>2
  <2> QED  BY <2>1, <2>3 DEF FindUserByLoginEmail
<1> QED  BY <1>1, <1>2 DEF LoginFindsOwn

\* UserAdminSpec, which has all steps of Sessions: a token has one successor and
\* does not outlive a revocation of its family, a code takes so many guesses.
THEOREM SessionsAreKept == UserAdminSpec => []SessionsKept
BY UserAdminStarts, UserAdminSteps, SessionsImplied, PTL DEF UserAdminSpec

\* UserAdminSpec: accounts are found by their address and run by an
\* administrator, a disabled store stays closed, nobody is left in a deleted one.
THEOREM AccountsAreKept == UserAdminSpec => AccountsKept
<1>1. UserAdminInv /\ [UserAdminNext]_adminVars =>
        [\A s \in DOMAIN stores \cap DOMAIN stores' :
           stores[s].disabled /\ ~(stores'[s].disabled /\ ~stores'[s].open) =>
             \/ SetEstablishmentDisabled(s, FALSE)
             \/ \E c \in copies : c.stale /\ SaveStore(c)]_adminVars
  BY StoresKeep DEF UserAdminInv, StaysShut
<1>2. UserAdminInv /\ [UserAdminNext]_adminVars =>
        [\A u \in Stranded' \ Stranded : \E r \in Requests : LateLink(r, u)]_adminVars
  BY StrandedByLink DEF UserAdminInv
<1>3. UserAdminInv /\ [UserAdminNext]_adminVars => [OneAdminAtATime => LastOneStays]_adminVars
  <2> SUFFICES ASSUME UserAdminInv, [UserAdminNext]_adminVars, OneAdminAtATime PROVE LastOneStays
    OBVIOUS
  <2>1. AdminLeft /\ UsersInv'
    BY AdminsKeep, UsersKeep DEF UserAdminInv
  <2>2. CountAdmins' \in Nat /\ (CountAdmins' = 0 <=> Admins' = {})
    <3>1. Admins' \subseteq DOMAIN users' /\ IsFiniteSet(DOMAIN users')
      BY <2>1 DEF Admins, UsersInv
    <3>2. IsFiniteSet(Admins')
      BY <3>1, FS_Subset
    <3>3. CountAdmins' = Cardinality(Admins')
      BY DEF CountAdmins, Admins
    <3> QED  BY <3>2, <3>3, FS_CardinalityType, FS_EmptySet
  <2>3. CountAdmins \in Nat /\ (CountAdmins = 0 <=> Admins = {})
    BY AdminsCounted DEF UserAdminInv
  <2> QED  BY <2>1, <2>2, <2>3 DEF AdminLeft, LastOneStays
<1> QED
  BY UserAdminStarts, UserAdminSteps, AccountsImplied, <1>1, <1>2, <1>3, PTL
  DEF UserAdminSpec, AccountsKept, AdminRemains, DisabledStaysClosed, NobodyStranded

-----------------------------------------------------------------------------
(* Couriers: a row that is saved whole is a row somebody read, so what holds    *)
(* of every row must hold of every row that is held.                          *)

StatusesOfCouriers == {"available", "offline"}
Account == [email : Addresses, status : StatusesOfCouriers, wallet : Wallets \cup {NoWallet},
            own : BOOLEAN]
Waits(row) == row.own => row.status = "offline"

OpenedRow(o) ==
  /\ o.pc = "create" => o.with \in [email : Addresses, byAdmin : BOOLEAN]
  /\ o.pc = "update" => o.id \in Couriers /\ o.with \in StatusesOfCouriers
  /\ o.pc = "wallet" => o.id \in Couriers /\ o.with \in Wallets /\ o.row \in Account /\ Waits(o.row)

CouriersInv ==
  /\ DOMAIN couriers \subseteq Couriers /\ couriers = [c \in DOMAIN couriers |-> couriers[c]]
  /\ \A c \in DOMAIN couriers : couriers[c] \in Account /\ Waits(couriers[c])
  /\ chosen \in [Couriers -> Wallets \cup {NoWallet}]
  /\ \A c \in DOMAIN couriers : couriers[c].wallet = chosen[c]
  /\ \A c \in Couriers \ DOMAIN couriers : chosen[c] = NoWallet
  /\ \A o \in opened : OpenedRow(o)

LEMMA CourierClosed ==
  ASSUME CouriersInv, NEW o \in opened, Close(o)
  PROVE  OpenedRow(o) /\ \A p \in opened' : OpenedRow(p)
BY DEF CouriersInv, Close

LEMMA CourierOpened ==
  ASSUME CouriersInv, NEW pc, NEW c, NEW with, Open(pc, c, with),
         \A o : /\ o.pc = pc /\ o.id = c /\ o.with = with
                /\ c \in DOMAIN couriers => o.row = couriers[c]
                => OpenedRow(o)
  PROVE  CouriersInv'
<1>1. \A o \in opened' : OpenedRow(o)
  BY DEF Open, CouriersInv
<1> QED  BY <1>1 DEF Open, CouriersInv

LEMMA CourierCreated ==
  ASSUME CouriersInv, NEW o \in opened, NEW status \in StatusesOfCouriers, CreateDeliveryMan(o, status)
  PROVE  CouriersInv'
<1>1. OpenedRow(o) /\ \A p \in opened' : OpenedRow(p)
  BY CourierClosed DEF CreateDeliveryMan
<1>2. PICK c \in Couriers :
        /\ c \notin DOMAIN couriers
        /\ couriers' = Put(couriers, c, [email |-> o.with.email, status |-> status, wallet |-> NoWallet,
                                         own |-> ~o.with.byAdmin])
  BY DEF CreateDeliveryMan, CouriersInv
<1>3. o.with \in [email : Addresses, byAdmin : BOOLEAN]
  BY <1>1 DEF OpenedRow, CreateDeliveryMan
<1>4. o.with.byAdmin \/ status = "offline"
  BY DEF CreateDeliveryMan
<1>5. PICK row \in Account :
        row.wallet = NoWallet /\ Waits(row) /\ couriers' = Put(couriers, c, row)
  <2>1. PICK row : row = [email |-> o.with.email, status |-> status, wallet |-> NoWallet,
                          own |-> ~o.with.byAdmin]
    OBVIOUS
  <2>2. row \in Account /\ row.wallet = NoWallet /\ Waits(row)
    BY <1>3, <1>4, <2>1 DEF Account, Waits
  <2> QED  BY <1>2, <2>1, <2>2
<1>6. chosen' = chosen
  BY DEF CreateDeliveryMan
<1> QED  BY <1>1, <1>2, <1>5, <1>6 DEF CouriersInv, Put

LEMMA CourierEdited ==
  ASSUME CouriersInv, NEW o \in opened, UpdateDeliveryMan(o)
  PROVE  CouriersInv'
<1>1. OpenedRow(o) /\ \A p \in opened' : OpenedRow(p)
  BY CourierClosed DEF UpdateDeliveryMan
<1>2. chosen' = chosen
  BY DEF UpdateDeliveryMan
<1>3. CASE o.id \notin DOMAIN couriers
  BY <1>1, <1>2, <1>3 DEF UpdateDeliveryMan, CouriersInv
<1>4. CASE o.id \in DOMAIN couriers
  <2>1. PICK row : row = [couriers[o.id] EXCEPT !.status = o.with, !.own = FALSE]
    OBVIOUS
  <2>2. couriers' = [couriers EXCEPT ![o.id] = row]
    BY <1>4, <2>1 DEF UpdateDeliveryMan
  <2>3. row \in Account /\ Waits(row) /\ row.wallet = couriers[o.id].wallet
    BY <1>1, <1>4, <2>1 DEF UpdateDeliveryMan, CouriersInv, OpenedRow, Account, Waits
  <2> QED  BY <1>1, <1>2, <1>4, <2>2, <2>3 DEF CouriersInv
<1> QED  BY <1>3, <1>4

LEMMA CourierPaidElsewhere ==
  ASSUME CouriersInv, NEW o \in opened, UpdateDeliveryManWallet(o)
  PROVE  CouriersInv'
<1>1. OpenedRow(o) /\ \A p \in opened' : OpenedRow(p)
  BY CourierClosed DEF UpdateDeliveryManWallet
<1>2. /\ o.id \in Couriers /\ o.with \in Wallets /\ o.row \in Account /\ Waits(o.row)
      /\ chosen' = [chosen EXCEPT ![o.id] = o.with]
  BY <1>1 DEF UpdateDeliveryManWallet, OpenedRow
<1>3. PICK row \in Account : row.wallet = o.with /\ Waits(row) /\ couriers' = Put(couriers, o.id, row)
  <2>1. PICK row : row = [o.row EXCEPT !.wallet = o.with]
    OBVIOUS
  <2>2. row \in Account /\ Waits(row) /\ row.wallet = o.with
    BY <1>2, <2>1 DEF Account, Waits
  <2> QED  BY <2>1, <2>2 DEF UpdateDeliveryManWallet
<1> QED  BY <1>1, <1>2, <1>3 DEF CouriersInv, Put

\* CouriersSpec: whatever handlers hold, a courier is paid where they chose last,
\* and who registered themselves waits for an administrator.
THEOREM CouriersAreKept == CouriersSpec => []CouriersKept
<1>1. CouriersInit => CouriersInv
  BY DEF CouriersInit, CouriersInv
<1>2. CouriersInv /\ [CouriersNext]_courierVars => CouriersInv'
  <2> SUFFICES ASSUME CouriersInv, [CouriersNext]_courierVars PROVE CouriersInv'
    OBVIOUS
  <2>1. ASSUME NEW e \in Addresses, NEW byAdmin \in BOOLEAN, AskToCreate(e, byAdmin)
        PROVE  CouriersInv'
    <3>1. Open("create", NoWallet, [email |-> e, byAdmin |-> byAdmin])
      BY <2>1 DEF AskToCreate
    <3>2. [email |-> e, byAdmin |-> byAdmin] \in [email : Addresses, byAdmin : BOOLEAN]
      OBVIOUS
    <3> QED  BY <3>1, <3>2, CourierOpened DEF OpenedRow
  <2>2. ASSUME NEW c \in Couriers, ReadForDelete(c)
        PROVE  CouriersInv'
    <3>1. Open("delete", c, NoWallet)
      BY <2>2 DEF ReadForDelete
    <3> QED  BY <3>1, CourierOpened DEF OpenedRow
  <2>3. ASSUME NEW c \in Couriers, NEW w \in Wallets, ReadForWallet(c, w)
        PROVE  CouriersInv'
    <3>1. Open("wallet", c, w) /\ couriers[c] \in Account /\ Waits(couriers[c]) /\ c \in DOMAIN couriers
      BY <2>3 DEF ReadForWallet, CouriersInv
    <3> QED  BY <3>1, CourierOpened DEF OpenedRow
  <2>4. ASSUME NEW c \in Couriers, NEW status \in StatusesOfCouriers, ReadToUpdate(c, status)
        PROVE  CouriersInv'
    <3>1. Open("update", c, status)
      BY <2>4 DEF ReadToUpdate
    <3> QED  BY <3>1, CourierOpened DEF OpenedRow
  <2>5. ASSUME NEW o \in opened, DeleteDeliveryMan(o)
        PROVE  CouriersInv'
    <3>1. \A p \in opened' : OpenedRow(p)
      BY <2>5, CourierClosed DEF DeleteDeliveryMan
    <3> QED  BY <2>5, <3>1 DEF DeleteDeliveryMan, CouriersInv
  <2>6. ASSUME NEW o \in opened, GiveUpCourier(o)
        PROVE  CouriersInv'
    <3>1. \A p \in opened' : OpenedRow(p)
      BY <2>6, CourierClosed DEF GiveUpCourier
    <3> QED  BY <2>6, <3>1 DEF GiveUpCourier, CouriersInv
  <2>7. CASE UNCHANGED courierVars
    BY <2>7 DEF courierVars, CouriersInv
  <2> QED
    BY <2>1, <2>2, <2>3, <2>4, <2>5, <2>6, <2>7, CourierCreated, CourierEdited, CourierPaidElsewhere
    DEF CouriersNext, StatusesOfCouriers
<1>3. CouriersInv => CouriersKept
  BY DEF CouriersInv, CouriersKept, PaidWhereChosen, NewcomersWait, Waits
<1> QED  BY <1>1, <1>2, <1>3, PTL DEF CouriersSpec

-----------------------------------------------------------------------------
(* Subscriptions: what is left of a period, in the row of a client or in a row  *)
(* that a handler may still save over it, was granted and is not served yet.   *)

Granted(c) == Month * paid[c]
Left(row)  == IF row.end > now THEN row.end - now ELSE 0

\* A row that is not active is activated by one more grant.
CoveredRow(c, row) ==
  /\ row = [status |-> row.status, start |-> row.start, end |-> row.end] /\ row.end \in Nat
  /\ served[c] + Left(row) <= Granted(c) + (IF row.status = "active" THEN 0 ELSE Month)

ClubInv ==
  /\ clients = [c \in Clients |-> clients[c]]
  /\ \A c, d \in Registered : clients[c] = clients[d] => c = d
  /\ sub = [c \in Clients |-> sub[c]] /\ now \in Nat
  /\ paid \in [Clients -> Nat] /\ served \in [Clients -> Nat]
  /\ \A c \in Clients : served[c] <= Granted(c)
  /\ \A c \in Clients : sub[c] = NoSub \/ CoveredRow(c, sub[c])
  /\ \A h \in held : h.client \in Clients /\ (h.pc = "create" \/ CoveredRow(h.client, h.row))

LEMMA MonthAfterMonth ==
  ASSUME NEW n \in Nat
  PROVE  Month * n \in Nat /\ Month * (n + 1) = Month * n + Month /\ Month \in Nat \ {0}
<1>1. Month \in Nat \ {0}
  BY SubscriptionsAssumption
<1> QED  BY <1>1

\* Nobody is served and nothing granted: the rows may change, as long as they are covered.
LEMMA RowsChange ==
  ASSUME ClubInv, UNCHANGED <<clients, now, paid, served>>,
         sub' = [c \in Clients |-> sub'[c]],
         \A c \in Clients : sub'[c] = NoSub \/ sub'[c] = sub[c] \/ CoveredRow(c, sub'[c]),
         \A h \in held' : h \in held \/ (h.client \in Clients /\ (h.pc = "create" \/ CoveredRow(h.client, h.row)))
  PROVE  ClubInv'
BY DEF ClubInv, CoveredRow, Granted, Left, Registered

LEMMA HoldStep ==
  ASSUME ClubInv, NEW c \in Clients, NEW pc, Hold(pc, c), pc = "create" \/ sub[c] # NoSub,
         UNCHANGED <<clients, sub, now, paid, served>>
  PROVE  ClubInv'
<1>1. \A h \in held' : h \in held \/ (h.client = c /\ h.pc = pc /\ h.row = sub[c])
  BY DEF Hold
<1> QED  BY <1>1, RowsChange DEF ClubInv

LEMMA PhoneInserted ==
  ASSUME ClubInv, NEW e \in entering, InsertClient(e)
  PROVE  ClubInv'
<1>1. UNCHANGED <<sub, held, now, paid, served>>
  BY DEF InsertClient
<1>2. ASSUME UNCHANGED clients PROVE ClubInv'
  BY <1>1, <1>2, RowsChange DEF ClubInv
<1>3. ASSUME \A c \in Registered : clients[c] # e.phone, Clients # Registered,
             clients' = [clients EXCEPT ![CHOOSE c \in Clients \ Registered : TRUE] = e.phone]
      PROVE  ClubInv'
  <2>1. PICK d \in Clients \ Registered : clients' = [clients EXCEPT ![d] = e.phone]
    BY <1>3 DEF Registered
  <2>2. /\ clients' = [c \in Clients |-> clients'[c]] /\ clients'[d] = e.phone
        /\ \A c \in Clients : c # d => clients'[c] = clients[c]
    BY <2>1 DEF ClubInv
  <2>3. \A c \in Registered' : c = d \/ (c \in Registered /\ clients'[c] = clients[c] /\ clients[c] # e.phone)
    BY <1>3, <2>2 DEF Registered
  <2>4. \A c, f \in Registered' : clients'[c] = clients'[f] => c = f
    BY <2>2, <2>3 DEF ClubInv
  <2> QED  BY <1>1, <2>2, <2>4 DEF ClubInv, CoveredRow, Granted, Left
<1> QED  BY <1>2, <1>3 DEF InsertClient

\* A save that grants nothing: a row that is covered, of whatever status but active.
LEMMA StatusSaved ==
  ASSUME ClubInv, NEW h \in held, NEW status, h.pc # "create", held' = held \ {h},
         status # "active" \/ h.row.status = "active",
         sub' = [sub EXCEPT ![h.client] = [h.row EXCEPT !.status = status]],
         UNCHANGED <<clients, now, paid, served>>
  PROVE  ClubInv'
<1>1. h.client \in Clients /\ CoveredRow(h.client, h.row)
  BY DEF ClubInv
<1>2. PICK row : row = [h.row EXCEPT !.status = status]
  OBVIOUS
<1>3. /\ row = [status |-> status, start |-> h.row.start, end |-> h.row.end]
      /\ h.row.end \in Nat
  BY <1>1, <1>2 DEF CoveredRow
<1>4. /\ Granted(h.client) \in Nat /\ served[h.client] \in Nat /\ now \in Nat /\ Month \in Nat
      /\ Left(h.row) \in Nat /\ Left(row) = Left(h.row)
  BY <1>1, <1>3, MonthAfterMonth DEF ClubInv, Granted, Left
<1>5. CoveredRow(h.client, row)
  BY <1>1, <1>3, <1>4 DEF CoveredRow
<1>6. sub' = [sub EXCEPT ![h.client] = row]
  BY <1>2
<1> QED  BY <1>1, <1>5, <1>6, RowsChange DEF ClubInv

\* One more period, and a row that lasts one period longer at most.
LEMMA RowGranted ==
  ASSUME ClubInv, NEW h \in held, NEW row, held' = held \ {h}, h.client \in Clients,
         row = [status |-> row.status, start |-> row.start, end |-> row.end], row.end \in Nat,
         served[h.client] + Left(row) <= Granted(h.client) + Month,
         sub' = [sub EXCEPT ![h.client] = row],
         paid' = [paid EXCEPT ![h.client] = @ + 1],
         UNCHANGED <<clients, now, served>>
  PROVE  ClubInv'
<1>1. PICK c \in Clients : c = h.client
  OBVIOUS
<1>2. /\ paid[c] \in Nat /\ Month \in Nat /\ Granted(c) \in Nat /\ served[c] \in Nat
      /\ now \in Nat /\ Left(row) \in Nat
  BY MonthAfterMonth DEF ClubInv, Granted, Left
<1>3. paid' \in [Clients -> Nat] /\ paid'[c] = paid[c] + 1 /\ \A d \in Clients : d # c => paid'[d] = paid[d]
  BY <1>1, <1>2 DEF ClubInv
<1>4. Granted(c)' = Granted(c) + Month /\ \A d \in Clients : d # c => Granted(d)' = Granted(d)
  BY <1>1, <1>2, <1>3, MonthAfterMonth DEF Granted
<1>5. \A d \in Clients : \A r : CoveredRow(d, r) => CoveredRow(d, r)'
  <2> SUFFICES ASSUME NEW d \in Clients, NEW r, CoveredRow(d, r)
               PROVE  /\ r = [status |-> r.status, start |-> r.start, end |-> r.end] /\ r.end \in Nat
                      /\ served[d] + Left(r) <= Granted(d)' + (IF r.status = "active" THEN 0 ELSE Month)
    BY DEF CoveredRow, Left
  <2>1. r.end \in Nat /\ now \in Nat
    BY DEF CoveredRow, ClubInv
  <2>2. /\ Left(r) \in Nat /\ served[d] \in Nat /\ Granted(d) \in Nat
        /\ Granted(d)' = Granted(d) \/ Granted(d)' = Granted(d) + Month
    BY <1>1, <1>4, <2>1, MonthAfterMonth DEF Left, ClubInv, Granted
  <2>3. served[d] + Left(r) <= Granted(d) + (IF r.status = "active" THEN 0 ELSE Month)
    BY DEF CoveredRow
  <2>4. served[d] + Left(r) <= Granted(d)' + (IF r.status = "active" THEN 0 ELSE Month)
    BY <1>2, <2>2, <2>3
  <2> QED  BY <2>1, <2>4 DEF CoveredRow
<1>6. CoveredRow(c, row)'
  BY <1>1, <1>2, <1>4 DEF CoveredRow, Left
<1>7. \A d \in Clients : served'[d] <= Granted(d)'
  BY <1>1, <1>2, <1>4 DEF ClubInv
<1>8. \A d \in Clients : (sub[d] = NoSub \/ CoveredRow(d, sub[d]))'
  <2>1. sub'[c] = row /\ \A d \in Clients : d # c => sub'[d] = sub[d]
    BY <1>1 DEF ClubInv
  <2>2. CoveredRow(c, sub[c])'
    BY <1>6, <2>1 DEF CoveredRow, Left
  <2>3. \A d \in Clients : d # c /\ CoveredRow(d, sub[d]) => CoveredRow(d, sub[d])'
    BY <1>5, <2>1 DEF CoveredRow, Left
  <2> QED  BY <2>1, <2>2, <2>3 DEF ClubInv
<1>9. \A g \in held' : g.client \in Clients /\ (g.pc = "create" \/ CoveredRow(g.client, g.row)')
  BY <1>5 DEF ClubInv
<1>10. sub' = [d \in Clients |-> sub'[d]]
  BY DEF ClubInv
<1>11. /\ clients' = [d \in Clients |-> clients'[d]] /\ now' \in Nat /\ served' \in [Clients -> Nat]
       /\ \A d, e \in Registered' : clients'[d] = clients'[e] => d = e
  BY DEF ClubInv, Registered
<1> QED  BY <1>3, <1>7, <1>8, <1>9, <1>10, <1>11 DEF ClubInv

LEMMA RenewedStep ==
  ASSUME ClubInv, NEW h \in held, SaveRenewed(h)
  PROVE  ClubInv'
<1>1. h.client \in Clients /\ CoveredRow(h.client, h.row)
  BY DEF ClubInv, SaveRenewed
<1>2. PICK row : row = Renewed(h.row)
  OBVIOUS
<1>3. /\ h.row = [status |-> h.row.status, start |-> h.row.start, end |-> h.row.end] /\ h.row.end \in Nat
      /\ now \in Nat /\ Month \in Nat /\ served[h.client] \in Nat /\ Granted(h.client) \in Nat
      /\ served[h.client] <= Granted(h.client)
  BY <1>1, MonthAfterMonth DEF ClubInv, CoveredRow, Granted
<1>4. /\ row = [status |-> row.status, start |-> row.start, end |-> row.end] /\ row.end \in Nat
      /\ served[h.client] + Left(row) <= Granted(h.client) + Month
  <2>1. CASE h.row.status = "active"
    <3>1. row = [status |-> h.row.status, start |-> h.row.start, end |-> h.row.end + Month]
      BY <1>2, <1>3, <2>1 DEF Renewed
    <3>2. Left(row) <= Left(h.row) + Month /\ Left(row) \in Nat /\ Left(h.row) \in Nat
      BY <1>3, <3>1 DEF Left
    <3>3. served[h.client] + Left(h.row) <= Granted(h.client)
      BY <1>1, <1>3, <2>1, <3>2 DEF CoveredRow
    <3> QED  BY <1>3, <3>1, <3>2, <3>3
  <2>2. CASE h.row.status # "active"
    <3>1. row = [status |-> "active", start |-> now, end |-> now + Month]
      BY <1>2, <2>2 DEF Renewed
    <3>2. Left(row) = Month
      BY <1>3, <3>1 DEF Left
    <3> QED  BY <1>3, <3>1, <3>2
  <2> QED  BY <2>1, <2>2
<1>5. /\ sub' = [sub EXCEPT ![h.client] = row] /\ paid' = [paid EXCEPT ![h.client] = @ + 1]
      /\ held' = held \ {h} /\ UNCHANGED <<clients, now, served>>
  BY <1>2 DEF SaveRenewed
<1> QED  BY <1>1, <1>4, <1>5, RowGranted

LEMMA UpdatedStep ==
  ASSUME ClubInv, NEW h \in held, NEW status, SaveUpdated(h, status)
  PROVE  ClubInv'
<1>1. h.client \in Clients /\ CoveredRow(h.client, h.row) /\ paid = [c \in Clients |-> paid[c]]
  BY DEF ClubInv, SaveUpdated
<1>2. CASE ~(status = "active" /\ h.row.status # "active")
  <2>1. paid' = paid
    BY <1>1, <1>2 DEF SaveUpdated
  <2> QED  BY <1>2, <2>1, StatusSaved DEF SaveUpdated
<1>3. CASE status = "active" /\ h.row.status # "active"
  <2>1. PICK row : row = [h.row EXCEPT !.status = status]
    OBVIOUS
  <2>2. row = [status |-> status, start |-> h.row.start, end |-> h.row.end] /\ h.row.end \in Nat
    BY <1>1, <2>1 DEF CoveredRow
  <2>3. Left(row) = Left(h.row)
    BY <2>2 DEF Left
  <2>4. served[h.client] + Left(row) <= Granted(h.client) + Month
    BY <1>1, <1>3, <2>3 DEF CoveredRow
  <2>5. paid' = [paid EXCEPT ![h.client] = @ + 1]
    BY <1>3 DEF SaveUpdated
  <2>6. sub' = [sub EXCEPT ![h.client] = row] /\ held' = held \ {h} /\ UNCHANGED <<clients, now, served>>
    BY <2>1 DEF SaveUpdated
  <2>7. row = [status |-> row.status, start |-> row.start, end |-> row.end] /\ row.end \in Nat
    BY <2>2
  <2> QED  BY <1>1, <2>4, <2>5, <2>6, <2>7, RowGranted
<1> QED  BY <1>2, <1>3

\* An instant goes by: who is served has one less left.
LEMMA TickStep ==
  ASSUME ClubInv, Tick
  PROVE  ClubInv'
<1>1. /\ now' = now + 1 /\ now \in Nat /\ now' \in Nat
      /\ UNCHANGED <<clients, sub, held, paid>>
  BY DEF Tick, ClubInv
<1>2. \A c \in Clients : served[c] \in Nat /\ Granted(c) \in Nat /\ Granted(c)' = Granted(c)
  BY <1>1, MonthAfterMonth DEF ClubInv, Granted
<1>3. \A c \in Clients : served'[c] = served[c] \/ (IsActive(c) /\ served'[c] = served[c] + 1)
  BY DEF Tick
<1>4. served' \in [Clients -> Nat]
  BY <1>2 DEF Tick
<1>5. ASSUME NEW c \in Clients PROVE served'[c] <= Granted(c)
  <2>1. CASE served'[c] = served[c]
    BY <2>1 DEF ClubInv
  <2>2. CASE IsActive(c) /\ served'[c] = served[c] + 1
    <3>1. sub[c] # NoSub /\ sub[c].status = "active" /\ now < sub[c].end
      BY <2>2 DEF IsActive, StatusOf
    <3>2. CoveredRow(c, sub[c])
      BY <3>1 DEF ClubInv
    <3>3. sub[c].end \in Nat /\ Left(sub[c]) \in Nat /\ Left(sub[c]) >= 1
      BY <1>1, <3>1, <3>2 DEF CoveredRow, Left
    <3>4. served[c] + Left(sub[c]) <= Granted(c)
      BY <1>2, <3>1, <3>2, <3>3 DEF CoveredRow
    <3> QED  BY <1>2, <2>2, <3>3, <3>4
  <2> QED  BY <1>3, <2>1, <2>2
<1>6. ASSUME NEW c \in Clients, NEW r, CoveredRow(c, r) PROVE CoveredRow(c, r)'
  <2>1. r.end \in Nat /\ Month \in Nat /\ served'[c] \in Nat
    BY <1>4, <1>6, MonthAfterMonth DEF CoveredRow
  <2>2. Left(r) \in Nat /\ Left(r)' \in Nat /\ (Left(r) = 0 => Left(r)' = 0) /\ (Left(r) > 0 => Left(r)' = Left(r) - 1)
    BY <1>1, <2>1 DEF Left
  <2>3. served[c] + Left(r) <= Granted(c) + (IF r.status = "active" THEN 0 ELSE Month)
    BY <1>6 DEF CoveredRow
  <2>4. served'[c] + Left(r)' <= Granted(c) + (IF r.status = "active" THEN 0 ELSE Month)
    <3>1. CASE Left(r) = 0
      BY <1>2, <1>5, <2>1, <2>2, <3>1
    <3>2. CASE Left(r) > 0
      BY <1>2, <1>3, <2>1, <2>2, <2>3, <3>2
    <3> QED  BY <2>2, <3>1, <3>2
  <2> QED  BY <1>2, <1>6, <2>4 DEF CoveredRow
<1> QED  BY <1>1, <1>2, <1>4, <1>5, <1>6 DEF ClubInv, Registered

\* ClubSpec: no two clients with one phone, and nobody served longer than paid.
THEOREM ClubIsKept == ClubSpec => []ClubKept
<1>1. SubscriptionsInit => ClubInv
  BY MonthAfterMonth DEF SubscriptionsInit, ClubInv, Registered, Granted
<1>2. ClubInv /\ [ClubNext]_clubVars => ClubInv'
  <2> SUFFICES ASSUME ClubInv, [ClubNext]_clubVars PROVE ClubInv'
    OBVIOUS
  <2>0. sub = [c \in Clients |-> sub[c]]
    BY DEF ClubInv
  <2>1. ASSUME NEW p, RegisterClient(p) PROVE ClubInv'
    BY <2>0, <2>1, RowsChange DEF RegisterClient
  <2>2. ASSUME NEW c \in Clients, CreateSubscription(c) PROVE ClubInv'
    BY <2>2, HoldStep DEF CreateSubscription
  <2>3. ASSUME NEW c \in Clients, ReadToCancel(c) PROVE ClubInv'
    <3>1. sub[c] # NoSub
      BY <2>3 DEF ReadToCancel, StatusOf
    <3> QED  BY <2>3, <3>1, HoldStep DEF ReadToCancel
  <2>4. ASSUME NEW c \in Clients, NEW pc, ReadAsAdmin(c, pc) PROVE ClubInv'
    BY <2>4, HoldStep DEF ReadAsAdmin
  <2>5. ASSUME NEW h \in held, InsertSubscription(h) PROVE ClubInv'
    <3>1. PICK row : row = NewSubscription(h.client)
      OBVIOUS
    <3>2. /\ h.client \in Clients /\ now \in Nat /\ Month \in Nat /\ served[h.client] \in Nat
          /\ Granted(h.client) \in Nat /\ served[h.client] <= Granted(h.client)
      BY MonthAfterMonth DEF ClubInv, Granted
    <3>3. row = [status |-> "pending", start |-> now, end |-> now + Month]
      BY <3>1 DEF NewSubscription
    <3>4. Left(row) = Month
      BY <3>2, <3>3 DEF Left
    <3>5. CoveredRow(h.client, row)
      BY <3>2, <3>3, <3>4 DEF CoveredRow
    <3>6. \A c \in Clients : sub'[c] = sub[c] \/ (c = h.client /\ sub'[c] = row)
      BY <2>0, <2>5, <3>1 DEF InsertSubscription
    <3>7. sub' = [c \in Clients |-> sub'[c]] /\ held' \subseteq held
      BY <2>0, <2>5 DEF InsertSubscription
    <3> QED  BY <2>5, <3>5, <3>6, <3>7, RowsChange DEF InsertSubscription
  <2>6. ASSUME NEW h \in held, SaveCancelled(h) PROVE ClubInv'
    BY <2>6, StatusSaved DEF SaveCancelled
  <2>7. ASSUME NEW h \in held, GiveUpRow(h) PROVE ClubInv'
    BY <2>0, <2>7, RowsChange DEF GiveUpRow
  <2>8. CASE UNCHANGED clubVars
    BY <2>0, <2>8, RowsChange DEF clubVars
  <2> QED
    BY <2>1, <2>2, <2>3, <2>4, <2>5, <2>6, <2>7, <2>8, PhoneInserted, RenewedStep, UpdatedStep, TickStep
    DEF ClubNext
<1>3. ClubInv => ClubKept
  BY DEF ClubInv, ClubKept, OneClientPerPhone, ServedIsPaid, Granted
<1> QED  BY <1>1, <1>2, <1>3, PTL DEF ClubSpec

-----------------------------------------------------------------------------
(* The opening hours.  An instant of the week is a day and a minute of it, and    *)
(* the calendar turns over at the end of the week; a night belongs to the day it *)
(* began on.                                                                     *)

LEMMA DivMod ==
  ASSUME NEW n \in Nat \ {0}, NEW t \in Nat
  PROVE  t \div n \in Nat /\ t % n \in 0..(n - 1) /\ t = (t \div n) * n + (t % n)
OBVIOUS

LEMMA OneQuotient ==
  ASSUME NEW n \in Nat \ {0}, NEW q \in Nat, NEW p \in Nat, NEW m \in 0..(n - 1), NEW k \in 0..(n - 1),
         q * n + m = p * n + k
  PROVE  q = p /\ m = k
<1>1. CASE q > p
  <2>1. q - p >= 1 /\ (q - p) * n >= n
    BY <1>1
  <2>2. (q - p) * n = q * n - p * n
    OBVIOUS
  <2> QED  BY <2>1, <2>2
<1>2. CASE q < p
  <2>1. p - q >= 1 /\ (p - q) * n >= n
    BY <1>2
  <2>2. (p - q) * n = p * n - q * n
    OBVIOUS
  <2> QED  BY <2>1, <2>2
<1> QED  BY <1>1, <1>2

LEMMA Quotient ==
  ASSUME NEW n \in Nat \ {0}, NEW q \in Nat, NEW m \in 0..(n - 1)
  PROVE  (q * n + m) \div n = q /\ (q * n + m) % n = m
<1>1. q * n \in Nat /\ q * n + m \in Nat
  OBVIOUS
<1>2. PICK t \in Nat : t = q * n + m
  BY <1>1
<1>3. t \div n \in Nat /\ t % n \in 0..(n - 1) /\ t = (t \div n) * n + (t % n)
  BY DivMod
<1> QED  BY <1>2, <1>3, OneQuotient

\* Days counted beyond the end of the week are days of the next one.
LEMMA WeekTurnsOver ==
  ASSUME NEW w \in Nat \ {0}, NEW n \in Nat \ {0}, NEW d \in Nat, NEW m \in 0..(n - 1)
  PROVE  (d * n + m) % (w * n) = (d % w) * n + m
<1>1. PICK q \in Nat, e \in 0..(w - 1) : d = q * w + e /\ e = d % w
  BY DivMod
<1>2. w * n \in Nat \ {0}
  OBVIOUS
<1>3. e * n \in Nat /\ e * n <= (w - 1) * n /\ (w - 1) * n = w * n - n
  OBVIOUS
<1>4. e * n + m \in 0..(w * n - 1)
  BY <1>2, <1>3
<1>5. d * n = q * (w * n) + e * n
  <2>1. q * w \in Nat /\ (q * w) * n = q * (w * n)
    OBVIOUS
  <2>2. (q * w + e) * n = (q * w) * n + e * n
    BY <2>1
  <2> QED  BY <1>1, <2>1, <2>2
<1>6. PICK nn \in Nat \ {0} : nn = w * n
  BY <1>2
<1>7. PICK x \in 0..(nn - 1) : x = e * n + m
  BY <1>4, <1>6
<1>8. (q * nn + x) % nn = x
  BY Quotient
<1>9. d * n + m = q * nn + x
  BY <1>3, <1>5, <1>6, <1>7
<1> QED  BY <1>1, <1>6, <1>7, <1>8, <1>9

\* The day before, as the code counts it, is the one whose morrow this is.
LEMMA DayBefore ==
  ASSUME NEW w \in Nat \ {0}, NEW e \in 0..(w - 1)
  PROVE  /\ (e + 1) % w \in 0..(w - 1) /\ (((e + 1) % w) + w - 1) % w = e
         /\ (e + w - 1) % w \in 0..(w - 1) /\ (((e + w - 1) % w) + 1) % w = e
         /\ w > 1 => (e + 1) % w # e
<1>1. \A x \in 0..(w - 1) : x % w = x /\ (x + w) % w = x
  <2>1. ASSUME NEW x \in 0..(w - 1) PROVE x % w = x /\ (x + w) % w = x
    <3>1. (0 * w + x) % w = x /\ (1 * w + x) % w = x
      BY Quotient
    <3> QED  BY <3>1
  <2> QED  BY <2>1
<1>2. CASE e = 0 /\ w = 1
  BY <1>1, <1>2
<1>3. CASE e = 0 /\ w # 1
  BY <1>1, <1>3
<1>4. CASE e # 0 /\ e + 1 = w
  <2>1. (e + 1) % w = 0
    <3>1. 0 \in 0..(w - 1)
      OBVIOUS
    <3>2. (0 + w) % w = 0
      BY <1>1, <3>1
    <3> QED  BY <1>4, <3>2
  <2>2. (0 + w - 1) % w = e
    BY <1>1, <1>4
  <2>3. e - 1 \in 0..(w - 1) /\ e + w - 1 = (e - 1) + w
    BY <1>4
  <2>4. (e + w - 1) % w = e - 1
    BY <1>1, <2>3
  <2>5. (e - 1 + 1) % w = e
    BY <1>1
  <2> QED  BY <1>4, <2>1, <2>2, <2>4, <2>5
<1>5. CASE e # 0 /\ e + 1 # w
  <2>1. (e + 1) % w = e + 1
    BY <1>1, <1>5
  <2>2. (e + 1 + w - 1) % w = e
    BY <1>1
  <2>3. e - 1 \in 0..(w - 1) /\ e + w - 1 = (e - 1) + w
    BY <1>5
  <2>4. (e + w - 1) % w = e - 1
    BY <1>1, <2>3
  <2>5. (e - 1 + 1) % w = e
    BY <1>1
  <2> QED  BY <1>5, <2>1, <2>2, <2>3, <2>4, <2>5
<1> QED  BY <1>2, <1>3, <1>4, <1>5

\* Of a day counted on from today, the day before is the one counted before it.
LEMMA DayBeforeNext ==
  ASSUME NEW w \in Nat \ {0}, NEW e \in Nat
  PROVE  ((((e + 1) % w) + w - 1) % w) = e % w
<1>1. PICK q \in Nat, x \in 0..(w - 1) : e = q * w + x /\ x = e % w
  BY DivMod
<1>2. (((x + 1) % w) + w - 1) % w = x
  BY DayBefore
<1>3. (e + 1) % w = (x + 1) % w
  <2>1. CASE x + 1 < w
    <3>1. x + 1 \in 0..(w - 1) /\ e + 1 = q * w + (x + 1) /\ x + 1 = 0 * w + (x + 1)
      BY <1>1, <2>1
    <3>2. (q * w + (x + 1)) % w = x + 1 /\ (0 * w + (x + 1)) % w = x + 1
      BY <3>1, Quotient
    <3> QED  BY <3>1, <3>2
  <2>2. CASE x + 1 = w
    <3>1. q + 1 \in Nat /\ 0 \in 0..(w - 1) /\ (q + 1) * w = q * w + w
      OBVIOUS
    <3>2. ((q + 1) * w + 0) % w = 0 /\ (1 * w + 0) % w = 0
      BY <3>1, Quotient
    <3>3. q * w \in Nat /\ e + 1 = (q + 1) * w + 0 /\ x + 1 = 1 * w + 0
      BY <1>1, <2>2, <3>1
    <3> QED  BY <3>2, <3>3
  <2> QED  BY <2>1, <2>2
<1> QED  BY <1>1, <1>2, <1>3

LEMMA SameWeek ==
  ASSUME NEW w \in Nat \ {0}, NEW n \in Nat \ {0}, NEW d \in 0..(w - 1), NEW m \in 0..(n - 1)
  PROVE  d % w = d /\ (d * n + m) % (w * n) = d * n + m
<1>1. d % w = d
  <2>1. (0 * w + d) % w = d
    BY Quotient
  <2> QED  BY <2>1
<1>2. d \in Nat
  OBVIOUS
<1>3. (d * n + m) % (w * n) = (d % w) * n + m
  BY <1>2, WeekTurnsOver
<1>4. PICK x : x = d % w
  OBVIOUS
<1>5. (d * n + m) % (w * n) = x * n + m
  BY <1>3, <1>4, Zenon
<1>6. x = d
  BY <1>1, <1>4
<1> QED  BY <1>1, <1>5, <1>6, Zenon

LEMMA CalendarIs == Week \in Nat \ {0} /\ Week > 1 /\ Day \in Nat \ {0} /\ Week * Day \in Nat \ {0}
BY HoursAssumption

HoursInv == clock \in 0..(Week * Day - 1) /\ hours \in [DaysOfWeek -> AnyDay]

LEMMA HoursStep == (HoursInit => HoursInv) /\ (HoursInv /\ [HoursNext]_hourVars => HoursInv')
<1>1. HoursInit => HoursInv
  BY CalendarIs DEF HoursInit, HoursInv
<1>2. ASSUME HoursInv, TimePasses PROVE HoursInv'
  <2>1. clock + 1 \in Nat
    BY <1>2, CalendarIs DEF HoursInv
  <2>2. (clock + 1) % (Week * Day) \in 0..(Week * Day - 1)
    BY <2>1, CalendarIs, DivMod
  <2> QED  BY <1>2, <2>2 DEF HoursInv, TimePasses
<1>3. ASSUME HoursInv, Toggle PROVE HoursInv'
  BY <1>3 DEF HoursInv, Toggle
<1>4. ASSUME HoursInv, NEW d \in DaysOfWeek, NEW h \in AnyDay, SaveBusinessHours(d, h) PROVE HoursInv'
  BY <1>4 DEF HoursInv, SaveBusinessHours
<1>5. ASSUME HoursInv, UNCHANGED hourVars PROVE HoursInv'
  BY <1>5 DEF HoursInv, hourVars
<1> QED  BY <1>1, <1>2, <1>3, <1>4, <1>5 DEF HoursNext

\* Today, and what time it is.
LEMMA NowIs ==
  ASSUME HoursInv
  PROVE  /\ clock \in Nat /\ clock \div Day \in DaysOfWeek /\ clock % Day \in 0..(Day - 1)
         /\ clock = (clock \div Day) * Day + (clock % Day)
<1>1. clock \in Nat /\ clock < Week * Day
  BY CalendarIs DEF HoursInv
<1>2. PICK d \in Nat, m \in 0..(Day - 1) : d = clock \div Day /\ m = clock % Day /\ clock = d * Day + m
  BY <1>1, CalendarIs, DivMod
<1>3. d < Week
  <2> SUFFICES ASSUME d >= Week PROVE FALSE
    BY CalendarIs
  <2>1. d * Day >= Week * Day
    BY CalendarIs
  <2> QED  BY <1>1, <1>2, <2>1, CalendarIs
<1> QED  BY <1>1, <1>2, <1>3, CalendarIs DEF DaysOfWeek

\* A closed store tells of the first of the days ahead.
LEMMA NextIs ==
  ASSUME NEW t, NEW d, NEW m, d = t \div Day, m = t % Day, Ahead(t) # {}
  PROVE  \E n \in Ahead(t) :
           /\ \A k \in Ahead(t) : n <= k
           /\ NextOpening(t) =
                [open |-> FALSE, day |-> n,
                 at |-> IF n = 0 /\ From(hours[(d + n) % Week]) <= m
                        THEN hours[(d + n) % Week].breakEnd ELSE hours[(d + n) % Week].open]
<1>1. Ahead(t) \subseteq Nat
  BY CalendarIs DEF Ahead
<1>2. \E n \in Ahead(t) : \A k \in Ahead(t) : n <= k
  BY <1>1, LeastNumber
<1>3. PICK n : n = CHOOSE k \in Ahead(t) : \A x \in Ahead(t) : k <= x
  OBVIOUS
<1>4. n \in Ahead(t) /\ \A k \in Ahead(t) : n <= k
  BY <1>2, <1>3
<1> QED  BY <1>3, <1>4 DEF NextOpening

\* What the app says of an instant, told by the day and the minute.
LEMMA OpenWhen ==
  ASSUME manual, ~NoRows, NEW d \in Nat, NEW m \in 0..(Day - 1)
  PROVE  OpeningAt((d * Day + m) % (Week * Day)).open <=>
           OpenToday(d % Week, m) \/ OpenSinceYesterday(d % Week, m)
<1>1. PICK e \in 0..(Week - 1) : e = d % Week
  BY CalendarIs, DivMod
<1>2. (d * Day + m) % (Week * Day) = e * Day + m
  BY <1>1, CalendarIs, WeekTurnsOver
<1>3. PICK t : t = e * Day + m
  OBVIOUS
<1>4. t \div Day = e /\ t % Day = m
  BY <1>3, CalendarIs, Quotient
<1>5. NextOpening(t).open = FALSE
  <2>1. CASE Ahead(t) = {}
    BY <2>1 DEF NextOpening, Shut
  <2>2. CASE Ahead(t) # {}
    <3>1. PICK n, x : NextOpening(t) = [open |-> FALSE, day |-> n, at |-> x]
      BY <2>2, NextIs
    <3> QED  BY <3>1
  <2> QED  BY <2>1, <2>2
<1>6. OpeningAt(t).open <=> OpenToday(e, m) \/ OpenSinceYesterday(e, m)
  <2>1. CASE OpenToday(e, m) \/ OpenSinceYesterday(e, m)
    BY <1>4, <2>1 DEF OpeningAt
  <2>2. CASE ~(OpenToday(e, m) \/ OpenSinceYesterday(e, m))
    <3>1. OpeningAt(t) = NextOpening(t)
      BY <1>4, <2>2 DEF OpeningAt
    <3> QED  BY <1>5, <2>2, <3>1
  <2> QED  BY <2>1, <2>2
<1> QED  BY <1>1, <1>2, <1>3, <1>6

\* Which window a row gives.
LEMMA WindowIs ==
  ASSUME ClockTimes, NEW h \in DayRows
  PROVE  /\ h.open \in 0..(Day - 1) /\ h.close \in 0..(Day - 1)
         /\ h.breakStart \in 0..(Day - 1) /\ h.breakEnd \in 0..(Day - 1)
         /\ From(h) \in 0..(Day - 1) /\ To(h) \in 0..Day
         /\ Overnight(h) => ~AllDay(h) /\ From(h) = h.open /\ To(h) = h.close /\ h.close < h.open
         /\ ~Overnight(h) => From(h) < To(h)
         /\ ~AllDay(h) => From(h) = h.open
         /\ AllDay(h) => From(h) = 0 /\ To(h) = Day
<1>1. /\ h.open \in 0..(Day - 1) /\ h.close \in 0..(Day - 1)
      /\ h.breakStart \in 0..(Day - 1) /\ h.breakEnd \in 0..(Day - 1)
  BY DEF ClockTimes
<1>2. Day \in Nat \ {0}
  BY CalendarIs
<1>3. CASE AllDay(h)
  BY <1>1, <1>2, <1>3 DEF AllDay, From, To, Overnight
<1>4. CASE ~AllDay(h)
  BY <1>1, <1>2, <1>4 DEF AllDay, From, To, Overnight
<1> QED  BY <1>3, <1>4

\* An instant lies in a span of hours that begins on a day when it lies in it on that
\* day, or on the next one as the hours that follow.
LEMMA SpanIs ==
  ASSUME NEW d \in DaysOfWeek, NEW m \in 0..(Day - 1), NEW e \in DaysOfWeek,
         NEW a \in Nat, NEW b \in Nat, b <= 2 * Day,
         NEW begin, begin = e * Day + a, NEW last, last = (e * Day + b) - 1
  PROVE  d * Day + m \in {t % (Week * Day) : t \in begin..last} <=>
           \/ d = e /\ a <= m /\ m < b
           \/ d = (e + 1) % Week /\ a <= m + Day /\ m + Day < b
<1>1. d \in 0..(Week - 1) /\ e \in 0..(Week - 1) /\ Day \in Nat \ {0} /\ Week \in Nat \ {0}
  BY CalendarIs DEF DaysOfWeek
<1>2. \A k \in 0..(Day - 1) : (e * Day + k) % (Week * Day) = e * Day + k
  BY <1>1, SameWeek
<1>3. (e + 1) % Week \in 0..(Week - 1)
  BY <1>1, DayBefore
<1>4. e * Day \in Nat /\ (e + 1) * Day = e * Day + Day /\ (e + 1) * Day \in Nat
  BY <1>1
<1>5. ASSUME NEW t \in begin..last, d * Day + m = t % (Week * Day)
      PROVE  \/ d = e /\ a <= m /\ m < b
             \/ d = (e + 1) % Week /\ a <= m + Day /\ m + Day < b
  <2>1. PICK k \in Nat : t = e * Day + k /\ a <= k /\ k < b
    <3>1. t - e * Day \in Nat /\ t = e * Day + (t - e * Day) /\ a <= t - e * Day /\ t - e * Day < b
      BY <1>4
    <3> QED  BY <3>1
  <2>2. CASE k < Day
    <3>1. k \in 0..(Day - 1)
      BY <1>1, <2>2
    <3>2. t % (Week * Day) = e * Day + k
      BY <1>2, <2>1, <3>1
    <3>3. d = e /\ m = k
      BY <1>1, <1>5, <3>1, <3>2, OneQuotient
    <3> QED  BY <2>1, <3>3
  <2>3. CASE k >= Day
    <3>1. PICK x \in 0..(Day - 1) : k = x + Day
      <4>1. k - Day \in 0..(Day - 1) /\ k = (k - Day) + Day
        BY <1>1, <2>1, <2>3
      <4> QED  BY <4>1
    <3>2. t = (e + 1) * Day + x /\ e + 1 \in Nat
      BY <1>1, <1>4, <2>1, <3>1
    <3>3. t % (Week * Day) = ((e + 1) % Week) * Day + x
      BY <1>1, <3>2, WeekTurnsOver
    <3>4. d = (e + 1) % Week /\ m = x
      BY <1>1, <1>3, <1>5, <3>3, OneQuotient
    <3> QED  BY <1>1, <2>1, <3>1, <3>4
  <2> QED  BY <1>1, <2>2, <2>3
<1>6. ASSUME d = e, a <= m, m < b
      PROVE  \E t \in begin..last : d * Day + m = t % (Week * Day)
  <2>1. (e * Day + m) % (Week * Day) = e * Day + m
    BY <1>2
  <2>2. e * Day + m \in begin..last
    BY <1>1, <1>4, <1>6
  <2> QED  BY <1>6, <2>1, <2>2
<1>7. ASSUME d = (e + 1) % Week, a <= m + Day, m + Day < b
      PROVE  \E t \in begin..last : d * Day + m = t % (Week * Day)
  <2>1. e + 1 \in Nat
    BY <1>1
  <2>2. ((e + 1) * Day + m) % (Week * Day) = d * Day + m
    BY <1>1, <1>7, <2>1, WeekTurnsOver
  <2>3. (e + 1) * Day + m \in begin..last
    BY <1>1, <1>4, <1>7
  <2> QED  BY <2>2, <2>3
<1> QED  BY <1>5, <1>6, <1>7

\* The shift of a day: its window without its break on the day itself, and what is
\* left of the night on the morrow.
LEMMA ShiftIs ==
  ASSUME ClockTimes, NEW e \in DaysOfWeek, hours[e] \in DayRows, NEW d \in DaysOfWeek, NEW m \in 0..(Day - 1)
  PROVE  d * Day + m \in Shift(e) <=>
           \/ d = e /\ InWindow(hours[e], m) /\ ~InBreak(hours[e], m)
           \/ d = (e + 1) % Week /\ Overnight(hours[e]) /\ m < hours[e].close
<1>1. PICK h : h = hours[e] /\ h \in DayRows
  OBVIOUS
<1>2. /\ h.open \in 0..(Day - 1) /\ h.close \in 0..(Day - 1)
      /\ h.breakStart \in 0..(Day - 1) /\ h.breakEnd \in 0..(Day - 1)
      /\ From(h) \in 0..(Day - 1) /\ To(h) \in 0..Day
      /\ Overnight(h) => From(h) = h.open /\ To(h) = h.close /\ h.close < h.open
  BY <1>1, WindowIs
<1>3. Day \in Nat \ {0} /\ Week \in Nat \ {0} /\ Week > 1 /\ e \in 0..(Week - 1)
  BY CalendarIs DEF DaysOfWeek
<1>4. (e + 1) % Week # e
  BY <1>3, DayBefore
<1>5. PICK a \in Nat : a = From(h)
  BY <1>2
<1>6. PICK b \in Nat : b = To(h) + (IF Overnight(h) THEN Day ELSE 0)
  BY <1>2, <1>3
<1>7. b <= 2 * Day
  BY <1>2, <1>3, <1>6
<1>8. PICK begin, end : begin = e * Day + From(h) /\ end = e * Day + To(h) + (IF Overnight(h) THEN Day ELSE 0)
  OBVIOUS
<1>9. PICK from, to : from = e * Day + h.breakStart /\ to = e * Day + (h.breakEnd - 1)
  OBVIOUS
<1>10. Shift(e) = {t % (Week * Day) : t \in begin..(end - 1)} \ {t % (Week * Day) : t \in from..to}
  BY <1>1, <1>8, <1>9 DEF Shift
<1>11. d * Day + m \in {t % (Week * Day) : t \in begin..(end - 1)} <=>
        \/ d = e /\ a <= m /\ m < b
        \/ d = (e + 1) % Week /\ a <= m + Day /\ m + Day < b
  <2>1. e * Day \in Nat
    BY <1>3
  <2>2. begin = e * Day + a /\ end = e * Day + b
    BY <1>2, <1>3, <1>5, <1>6, <1>8, <2>1
  <2>3. PICK last : last = end - 1
    OBVIOUS
  <2> QED  BY <1>7, <2>2, <2>3, SpanIs
<1>12. d * Day + m \in {t % (Week * Day) : t \in from..to} <=> d = e /\ h.breakStart <= m /\ m < h.breakEnd
  <2>1. PICK x \in Nat, y \in Nat : x = h.breakStart /\ y = h.breakEnd /\ y < Day
    BY <1>2, <1>3
  <2>2. e * Day \in Nat
    BY <1>3
  <2>3. y <= 2 * Day /\ from = e * Day + x /\ to = (e * Day + y) - 1
    BY <1>3, <1>9, <2>1, <2>2
  <2>4. d * Day + m \in {t % (Week * Day) : t \in from..to} <=>
          \/ d = e /\ x <= m /\ m < y
          \/ d = (e + 1) % Week /\ x <= m + Day /\ m + Day < y
    BY <2>3, SpanIs
  <2>5. ~(m + Day < y)
    BY <1>3, <2>1
  <2> QED  BY <2>1, <2>4, <2>5
<1>13. (a <= m /\ m < b) <=> InWindow(h, m)
  <2>1. CASE Overnight(h)
    BY <1>2, <1>3, <1>5, <1>6, <2>1 DEF InWindow
  <2>2. CASE ~Overnight(h)
    BY <1>2, <1>3, <1>5, <1>6, <2>2 DEF InWindow
  <2> QED  BY <2>1, <2>2
<1>14. (a <= m + Day /\ m + Day < b) <=> Overnight(h) /\ m < h.close
  <2>1. CASE Overnight(h)
    BY <1>2, <1>3, <1>5, <1>6, <2>1
  <2>2. CASE ~Overnight(h)
    BY <1>2, <1>3, <1>5, <1>6, <2>2
  <2> QED  BY <2>1, <2>2
<1>15. InBreak(h, m) <=> h.breakStart <= m /\ m < h.breakEnd
  BY <1>2, <1>3 DEF InBreak
<1> QED  BY <1>1, <1>4, <1>10, <1>11, <1>12, <1>13, <1>14, <1>15

LEMMA PlanHolds == ClockTimes /\ HoursInv => OpenAsPlanned
<1> SUFFICES ASSUME ClockTimes, HoursInv, manual, ~NoRows
             PROVE  OpeningAt(clock).open <=> clock \in UNION {Shift(d) : d \in {e \in DaysOfWeek : hours[e] \in DayRows}}
  BY DEF OpenAsPlanned
<1>1. PICK d \in DaysOfWeek, m \in 0..(Day - 1) : clock = d * Day + m
  BY NowIs
<1>2. d \in Nat /\ Week \in Nat \ {0} /\ Week > 1 /\ d \in 0..(Week - 1)
  BY CalendarIs DEF DaysOfWeek
<1>3. d % Week = d /\ (d * Day + m) % (Week * Day) = d * Day + m
  BY <1>2, CalendarIs, SameWeek
<1>4. OpeningAt(clock).open <=> OpenToday(d, m) \/ OpenSinceYesterday(d, m)
  BY <1>1, <1>2, <1>3, OpenWhen
<1>5. PICK y \in DaysOfWeek : y = (d + Week - 1) % Week /\ (y + 1) % Week = d
  BY <1>2, DayBefore DEF DaysOfWeek
<1>6. ASSUME OpenToday(d, m) PROVE \E e \in DaysOfWeek : hours[e] \in DayRows /\ clock \in Shift(e)
  <2>1. hours[d] \in DayRows /\ d * Day + m \in Shift(d)
    BY <1>6, ShiftIs DEF OpenToday
  <2> QED  BY <1>1, <2>1
<1>7. ASSUME OpenSinceYesterday(d, m) PROVE \E e \in DaysOfWeek : hours[e] \in DayRows /\ clock \in Shift(e)
  <2>1. hours[y] \in DayRows /\ Overnight(hours[y]) /\ m < hours[y].close
    BY <1>5, <1>7 DEF OpenSinceYesterday
  <2>2. d * Day + m \in Shift(y)
    BY <1>5, <2>1, ShiftIs
  <2> QED  BY <1>1, <2>1, <2>2
<1>8. ASSUME NEW e \in DaysOfWeek, hours[e] \in DayRows, clock \in Shift(e)
      PROVE  OpenToday(d, m) \/ OpenSinceYesterday(d, m)
  <2>1. \/ d = e /\ InWindow(hours[e], m) /\ ~InBreak(hours[e], m)
        \/ d = (e + 1) % Week /\ Overnight(hours[e]) /\ m < hours[e].close
    BY <1>1, <1>8, ShiftIs
  <2>2. d = (e + 1) % Week => e = y
    BY <1>2, <1>5, DayBefore DEF DaysOfWeek
  <2> QED  BY <1>5, <1>8, <2>1, <2>2 DEF OpenToday, OpenSinceYesterday
<1> QED  BY <1>4, <1>6, <1>7, <1>8

\* Where a store opens when it says so: at the beginning of a window, or after the
\* break in it.
LEMMA OpensWhenSaid ==
  ASSUME ClockTimes, BreaksInside, NEW h \in DayRows
  PROVE  /\ AllDay(h) => h.open = 0
         /\ From(h) = h.open
         /\ InWindow(h, h.open) /\ ~InBreak(h, h.open)
         /\ \A m \in 0..(Day - 1) : From(h) <= m /\ InBreak(h, m) => InWindow(h, h.breakEnd) /\ ~InBreak(h, h.breakEnd)
<1>1. /\ h.open \in 0..(Day - 1) /\ h.breakStart \in 0..(Day - 1) /\ h.breakEnd \in 0..(Day - 1)
      /\ From(h) \in 0..(Day - 1) /\ To(h) \in 0..Day
      /\ ~Overnight(h) => From(h) < To(h)
      /\ ~AllDay(h) => From(h) = h.open
      /\ AllDay(h) => From(h) = 0
  BY WindowIs
<1>2. /\ AllDay(h) => h.open = 0
      /\ h.breakStart < h.breakEnd /\ From(h) < h.breakEnd => From(h) < h.breakStart /\ (Overnight(h) \/ h.breakEnd < To(h))
  BY DEF BreaksInside
<1>3. From(h) = h.open
  BY <1>1, <1>2
<1>4. InWindow(h, h.open) /\ ~InBreak(h, h.open)
  BY <1>1, <1>2, <1>3 DEF InWindow, InBreak
<1>5. ASSUME NEW m \in 0..(Day - 1), From(h) <= m, InBreak(h, m)
      PROVE  InWindow(h, h.breakEnd) /\ ~InBreak(h, h.breakEnd)
  BY <1>1, <1>2, <1>5 DEF InWindow, InBreak
<1> QED  BY <1>2, <1>3, <1>4, <1>5

\* A store that is closed on a day, and has nothing more to tell of it, is closed for
\* the rest of it and leaves no night to the morrow.
LEMMA ShutForToday ==
  ASSUME ClockTimes, NEW d \in DaysOfWeek, NEW m \in 0..(Day - 1), ~OpenToday(d, m),
         hours[d] \in DayRows, ~(From(hours[d]) > m), ~InBreak(hours[d], m)
  PROVE  /\ ~Overnight(hours[d])
         /\ \A k \in m..(Day - 1) : ~InWindow(hours[d], k)
<1>1. PICK h \in DayRows : h = hours[d]
  OBVIOUS
<1>2. From(h) \in 0..(Day - 1) /\ To(h) \in 0..Day /\ Day \in Nat \ {0}
  BY CalendarIs, WindowIs
<1>3. ~InWindow(h, m) /\ From(h) <= m
  BY <1>1, <1>2 DEF OpenToday
<1>4. ~Overnight(h) /\ To(h) <= m
  BY <1>2, <1>3 DEF InWindow
<1>5. \A k \in m..(Day - 1) : ~InWindow(h, k)
  BY <1>2, <1>4 DEF InWindow
<1> QED  BY <1>1, <1>4, <1>5

\* A night that is over does not come back the same day.
LEMMA NightIsOver ==
  ASSUME ClockTimes, NEW d \in DaysOfWeek, NEW m \in 0..(Day - 1), ~OpenSinceYesterday(d, m), NEW k \in m..(Day - 1)
  PROVE  ~OpenSinceYesterday(d, k)
<1>1. PICK h : h = hours[(d + Week - 1) % Week]
  OBVIOUS
<1>2. h \in DayRows => h.close \in 0..(Day - 1) /\ Day \in Nat
  BY CalendarIs, WindowIs
<1> QED  BY <1>1, <1>2 DEF OpenSinceYesterday

LEMMA PromiseHolds == ClockTimes /\ BreaksInside /\ HoursInv => PromiseKept
<1> SUFFICES ASSUME ClockTimes, BreaksInside, HoursInv, manual, ~OpeningAt(clock).open, OpeningAt(clock).at >= 0
             PROVE  LET o == OpeningAt(clock)
                        then == (clock \div Day + o.day) * Day + o.at
                    IN /\ OpeningAt(then % (Week * Day)).open
                       /\ \A t \in clock..(then - 1) : ~OpeningAt(t % (Week * Day)).open
  BY DEF PromiseKept
<1>1. PICK d \in DaysOfWeek, m \in 0..(Day - 1) : d = clock \div Day /\ m = clock % Day /\ clock = d * Day + m
  BY NowIs
<1>2. d \in Nat /\ Week \in Nat \ {0} /\ Week > 1 /\ Day \in Nat \ {0} /\ d \in 0..(Week - 1) /\ d * Day \in Nat
  BY CalendarIs DEF DaysOfWeek
<1>3. d % Week = d
  BY <1>2, SameWeek
<1>4. ~NoRows /\ ~OpenToday(d, m) /\ ~OpenSinceYesterday(d, m) /\ OpeningAt(clock) = NextOpening(clock)
  <2>1. CASE NoRows \/ OpenToday(d, m) \/ OpenSinceYesterday(d, m)
    BY <1>1, <2>1 DEF OpeningAt
  <2>2. CASE ~(NoRows \/ OpenToday(d, m) \/ OpenSinceYesterday(d, m))
    BY <1>1, <2>2 DEF OpeningAt
  <2> QED  BY <2>1, <2>2
<1>5. Ahead(clock) # {}
  <2> SUFFICES ASSUME Ahead(clock) = {} PROVE FALSE
    OBVIOUS
  <2>1. OpeningAt(clock) = [open |-> FALSE, at |-> -1, day |-> 0]
    BY <1>4 DEF NextOpening, Shut
  <2> QED  BY <2>1
<1>6. PICK n \in Ahead(clock) :
        /\ \A k \in Ahead(clock) : n <= k
        /\ NextOpening(clock) =
             [open |-> FALSE, day |-> n,
              at |-> IF n = 0 /\ From(hours[(d + n) % Week]) <= m
                     THEN hours[(d + n) % Week].breakEnd ELSE hours[(d + n) % Week].open]
  BY <1>1, <1>5, NextIs
<1>7. \A j : j \in Ahead(clock) <=>
        /\ j \in 0..(Week - 1) /\ hours[(d + j) % Week] \in DayRows
        /\ j = 0 => From(hours[(d + j) % Week]) > m \/ InBreak(hours[(d + j) % Week], m)
  BY <1>1 DEF Ahead
<1>8. n \in 0..(Week - 1) /\ n \in Nat /\ d + n \in Nat
  BY <1>2, <1>7
<1>9. PICK h \in DayRows : h = hours[(d + n) % Week]
  BY <1>7
<1>10. PICK at \in 0..(Day - 1) : at = IF n = 0 /\ From(h) <= m THEN h.breakEnd ELSE h.open
  BY <1>9, WindowIs
<1>11. OpeningAt(clock).day = n /\ OpeningAt(clock).at = at
  BY <1>4, <1>6, <1>9, <1>10
<1>12. d + 0 = d /\ (0 \in Ahead(clock) <=> hours[d] \in DayRows /\ (From(hours[d]) > m \/ InBreak(hours[d], m)))
  BY <1>2, <1>3, <1>7
<1>13. \A e \in Nat : e % Week \in DaysOfWeek
  BY <1>2, DivMod DEF DaysOfWeek
\* It opens then.
<1>14. OpenToday((d + n) % Week, at)
  <2>1. CASE n = 0 /\ From(h) <= m
    <3>1. h = hours[d] /\ From(h) \in 0..(Day - 1)
      BY <1>3, <1>9, <1>12, <2>1, WindowIs
    <3>2. InBreak(h, m)
      BY <1>12, <2>1, <3>1
    <3>3. at = h.breakEnd
      BY <1>10, <2>1
    <3>4. InWindow(h, h.breakEnd) /\ ~InBreak(h, h.breakEnd)
      BY <2>1, <3>2, OpensWhenSaid
    <3> QED  BY <1>9, <3>3, <3>4 DEF OpenToday
  <2>2. CASE ~(n = 0 /\ From(h) <= m)
    <3>1. at = h.open
      BY <1>10, <2>2
    <3> QED  BY <1>9, <3>1, OpensWhenSaid DEF OpenToday
  <2> QED  BY <2>1, <2>2
\* Until then today is over, or has not begun, or is in its break.
<1>15. ASSUME NEW k \in m..(Day - 1), n = 0 => k < at
       PROVE  ~OpenToday(d, k) /\ ~OpenSinceYesterday(d, k)
  <2>1. ~OpenSinceYesterday(d, k)
    BY <1>4, <1>15, NightIsOver
  <2>2. CASE 0 \notin Ahead(clock)
    BY <1>4, <1>12, <1>15, <2>1, <2>2, ShutForToday DEF OpenToday
  <2>3. CASE 0 \in Ahead(clock)
    <3>1. n = 0 /\ h = hours[d] /\ k < at
      BY <1>3, <1>6, <1>8, <1>9, <1>12, <1>15, <2>3
    <3>2. From(h) \in 0..(Day - 1) /\ h.breakStart \in 0..(Day - 1) /\ h.breakEnd \in 0..(Day - 1) /\ From(h) = h.open
      BY WindowIs, OpensWhenSaid
    <3>3. CASE From(h) <= m
      <4>1. InBreak(h, m) /\ at = h.breakEnd
        BY <1>10, <1>12, <2>3, <3>1, <3>2, <3>3
      <4>2. InBreak(h, k)
        BY <1>2, <1>15, <3>1, <3>2, <4>1 DEF InBreak
      <4> QED  BY <2>1, <3>1, <4>2 DEF OpenToday
    <3>4. CASE ~(From(h) <= m)
      <4>1. at = From(h)
        BY <1>10, <3>2, <3>4
      <4>2. ~InWindow(h, k)
        BY <1>2, <1>15, <3>1, <3>2, <4>1 DEF InWindow
      <4> QED  BY <2>1, <3>1, <4>2 DEF OpenToday
    <3> QED  BY <3>3, <3>4
  <2> QED  BY <2>2, <2>3
\* On the days that follow it has no rows, and the last begins with its window.
<1>16. ASSUME NEW j \in 1..n, NEW k \in 0..(Day - 1), j = n => k < at
       PROVE  ~OpenToday((d + j) % Week, k) /\ ~OpenSinceYesterday((d + j) % Week, k)
  <2>1. j \in Nat /\ j - 1 \in Nat /\ j \in 0..(Week - 1) /\ j - 1 \in 0..(Week - 1) /\ n # 0
    BY <1>2, <1>8
  <2>2. 0 \notin Ahead(clock) /\ j - 1 \notin Ahead(clock) /\ (j # n => j \notin Ahead(clock))
    BY <1>6, <1>8, <2>1
  <2>3. ~OpenToday((d + j) % Week, k)
    <3>1. CASE j = n
      <4>1. at = h.open /\ From(h) = h.open /\ k < at
        BY <1>10, <1>16, <2>1, <3>1, OpensWhenSaid
      <4>2. ~InWindow(h, k)
        BY <1>2, <4>1 DEF InWindow
      <4> QED  BY <1>9, <3>1, <4>2 DEF OpenToday
    <3>2. CASE j # n
      <4>1. hours[(d + j) % Week] \notin DayRows
        BY <1>7, <2>1, <2>2, <3>2
      <4> QED  BY <4>1 DEF OpenToday
    <3> QED  BY <3>1, <3>2
  <2>4. ~OpenSinceYesterday((d + j) % Week, k)
    <3>1. d + (j - 1) \in Nat /\ (d + (j - 1)) + 1 = d + j
      BY <1>2, <2>1
    <3>2. PICK y : y = (d + (j - 1)) % Week
      OBVIOUS
    <3>3. (((d + j) % Week) + Week - 1) % Week = y
      BY <1>2, <3>1, <3>2, DayBeforeNext
    <3>4. ~(hours[y] \in DayRows /\ Overnight(hours[y]))
      <4>1. CASE j - 1 = 0
        <5>1. y = d
          BY <1>2, <1>3, <3>2, <4>1
        <5> QED  BY <1>4, <1>12, <2>2, <5>1, ShutForToday
      <4>2. CASE j - 1 # 0
        <5>1. hours[y] \notin DayRows
          BY <1>7, <2>1, <2>2, <3>2, <4>2
        <5> QED  BY <5>1
      <4> QED  BY <4>1, <4>2
    <3> QED  BY <3>3, <3>4 DEF OpenSinceYesterday
  <2> QED  BY <2>3, <2>4
<1>17. PICK then : then = (d + n) * Day + at
  OBVIOUS
<1>18. OpeningAt(then % (Week * Day)).open
  BY <1>4, <1>8, <1>14, <1>17, OpenWhen
<1>19. ASSUME NEW t \in clock..(then - 1) PROVE ~OpeningAt(t % (Week * Day)).open
  <2>1. (d + n) * Day \in Nat /\ then \in Nat /\ clock \in Nat /\ t \in Nat /\ clock <= t /\ t < then
    BY <1>1, <1>2, <1>8, <1>17, <1>19
  <2>2. PICK e \in Nat, k \in 0..(Day - 1) : t = e * Day + k
    BY <1>2, <2>1, DivMod
  <2>3. e >= d
    <3> SUFFICES ASSUME e < d PROVE FALSE
      BY <1>2, <2>2
    <3>1. e + 1 <= d /\ (e + 1) * Day <= d * Day /\ (e + 1) * Day = e * Day + Day /\ e * Day \in Nat
      BY <1>2, <2>2
    <3> QED  BY <1>1, <1>2, <2>1, <2>2, <3>1
  <2>4. e <= d + n
    <3> SUFFICES ASSUME e > d + n PROVE FALSE
      BY <1>8, <2>2
    <3>1. d + n + 1 <= e /\ (d + n + 1) * Day <= e * Day /\ (d + n + 1) * Day = (d + n) * Day + Day /\ e * Day \in Nat
      BY <1>2, <1>8, <2>2
    <3> QED  BY <1>2, <1>10, <1>17, <2>1, <2>2, <3>1
  <2>5. PICK j \in 0..n : e = d + j
    <3>1. e - d \in 0..n /\ e = d + (e - d)
      BY <1>2, <1>8, <2>2, <2>3, <2>4
    <3> QED  BY <3>1
  <2>6. j = n => k < at
    BY <1>2, <1>10, <1>17, <2>1, <2>2, <2>5
  <2>7. j = 0 => k \in m..(Day - 1)
    BY <1>1, <1>2, <2>1, <2>2, <2>5
  <2>8. ~OpenToday(e % Week, k) /\ ~OpenSinceYesterday(e % Week, k)
    <3>1. CASE j = 0
      <4>1. e = d
        BY <1>2, <2>5, <3>1
      <4>2. n = 0 => k < at
        BY <2>6, <3>1
      <4> QED  BY <1>3, <1>15, <2>7, <3>1, <4>1, <4>2
    <3>2. CASE j # 0
      <4>1. j \in 1..n
        BY <1>8, <3>2
      <4> QED  BY <1>16, <2>5, <2>6, <4>1
    <3> QED  BY <3>1, <3>2
  <2> QED  BY <1>4, <2>2, <2>8, OpenWhen
<1> QED  BY <1>1, <1>11, <1>17, <1>18, <1>19

\* When the rows hold times of a day, the store is open exactly within the shifts its
\* owner planned, the nights that pass midnight and the end of the week included.
THEOREM ShiftsAreKept == ClockTimes => (HoursSpec => []OpenAsPlanned)
<1> SUFFICES ASSUME ClockTimes PROVE HoursSpec => []OpenAsPlanned
  OBVIOUS
<1>1. HoursInv => OpenAsPlanned
  BY PlanHolds
<1> QED  BY <1>1, HoursStep, PTL DEF HoursSpec

\* When moreover breaks lie within the windows, what a closed store announces is true:
\* it stays closed until then and is open then, whatever days it skips.
THEOREM HoursAreKept == ClockTimes /\ BreaksInside => (HoursSpec => []HoursKept)
<1> SUFFICES ASSUME ClockTimes, BreaksInside PROVE HoursSpec => []HoursKept
  OBVIOUS
<1>1. HoursInv => HoursKept
  BY PlanHolds, PromiseHolds DEF HoursKept
<1> QED  BY <1>1, HoursStep, PTL DEF HoursSpec
=============================================================================
