--------------------------- MODULE WalletTxProofs ---------------------------
(***************************************************************************)
(* Theorems about WalletTx, for every number of concurrent callers, wallets *)
(* and references and every bound on their retries.                         *)
(*                                                                         *)
(* TxInv is inductive.  LockInv says that the transaction that passed the   *)
(* row lock still works on the committed balance; KeyInv says that one about *)
(* to commit meets no row with its key.  Together they make each Commit one *)
(* AdjustWalletBalance of WalletLedger, and every other step a stutter.     *)
(*                                                                         *)
(* And about WalletRequests, which stands on that ledger, for any requests,  *)
(* orders, charges and withdrawals, with failed calls and deaths.  Several   *)
(* calls make a request, so RequestsInv says what a request knows where it   *)
(* stands (CallOK), that a claim is one request's (OneClaimer) and that a    *)
(* claim without a credit has somebody at it (ClaimsFollowed).               *)
(***************************************************************************)
EXTENDS WalletTx, WalletRequests, WalletLedgerProofs, FiniteSetTheorems

USE LedgerAssumption, TxAssumption

-----------------------------------------------------------------------------
\* The types of what a step reads.
LEMMA RequestTypes ==
  ASSUME TypeOK, NEW t \in Calls
  PROVE  /\ WalletOf(t) \in Wallets /\ req[t].type \in TxnTypes
         /\ req[t].amount \in Amounts /\ req[t].amount \in Nat
         /\ req[t].ref \in References /\ seen[t] \in Nat
<1>1. req[t] \in Requests
  BY DEF TypeOK
<1> QED BY <1>1 DEF TypeOK, Requests, WalletOf

\* A commit is one movement of the abstract ledger.
LEMMA CommitPosts ==
  ASSUME TxInv, NEW t \in Calls, Commit(t)
  PROVE  AdjustWalletBalance(WalletOf(t), req[t].type, req[t].amount, req[t].ref)
<1>1. /\ WalletOf(t) \in Wallets /\ req[t].type \in TxnTypes
      /\ req[t].amount \in Nat /\ seen[t] \in Nat
  BY RequestTypes DEF TxInv
<1>2. pc[t] = "commit"
  BY DEF Commit, At
<1>3. /\ seen[t] = balance[WalletOf(t)]
      /\ req[t].type = "debit" => seen[t] >= req[t].amount
  BY <1>2 DEF TxInv, LockInv, Holding
<1>4. ~Insufficient(WalletOf(t), req[t].type, req[t].amount)
  BY <1>1, <1>3 DEF Insufficient
<1>5. ~Duplicate(WalletOf(t), req[t].type, req[t].ref)
  BY <1>2 DEF TxInv, KeyInv, At
<1>6. Post(WalletOf(t), req[t].type, req[t].amount, req[t].ref)
  BY <1>3 DEF Commit, Post
<1> QED BY <1>4, <1>5, <1>6 DEF AdjustWalletBalance

\* Only a commit writes the tables.
LEMMA OnlyCommitWrites ==
  ASSUME NEW t \in Calls,
         Begin(t) \/ GetOrCreateWallet(t) \/ LockRow(t) \/ CheckAndUpdate(t)
           \/ InsertEntry(t) \/ Abort(t)
  PROVE  UNCHANGED <<balance, ledger, exists, req>>
BY DEF Begin, GetOrCreateWallet, LockRow, CheckAndUpdate, InsertEntry, Abort, Rollback

-----------------------------------------------------------------------------
LEMMA InitInv == Init => TxInv
<1> SUFFICES ASSUME Init PROVE TxInv
  OBVIOUS
<1>1. LedgerTypeOK
  BY LedgerInitInv DEF Init, LedgerInv
<1>2. TypeOK
  BY <1>1 DEF Init, TypeOK, Steps, Replies
<1>3. LockInv
  BY DEF Init, LockInv, Holding
<1>4. KeyInv
  BY DEF Init, KeyInv, At
<1> QED BY <1>2, <1>3, <1>4 DEF TxInv

LEMMA TypeStep == TxInv /\ [Next]_vars => TypeOK'
<1> SUFFICES ASSUME TxInv, [Next]_vars PROVE TypeOK'
  OBVIOUS
<1> USE DEF TxInv, TypeOK, Steps, Replies
<1>1. ASSUME NEW t \in Calls, Begin(t) PROVE TypeOK'
  BY <1>1 DEF Begin, Goto, LedgerTypeOK
<1>2. ASSUME NEW t \in Calls, GetOrCreateWallet(t) PROVE TypeOK'
  <2>1. holder' \in [Wallets -> Calls \cup {Nobody}]
    BY <1>2 DEF GetOrCreateWallet
  <2> QED BY <1>2, <2>1 DEF GetOrCreateWallet, Goto, LedgerTypeOK
<1>3. ASSUME NEW t \in Calls, LockRow(t) PROVE TypeOK'
  BY <1>3, RequestTypes DEF LockRow, Goto, LedgerTypeOK
<1>4. ASSUME NEW t \in Calls, CheckAndUpdate(t) PROVE TypeOK'
  BY <1>4 DEF CheckAndUpdate, Rollback, Release, Goto, LedgerTypeOK
<1>5. ASSUME NEW t \in Calls, InsertEntry(t) PROVE TypeOK'
  BY <1>5 DEF InsertEntry, Rollback, Release, Goto, LedgerTypeOK
<1>6. ASSUME NEW t \in Calls, Commit(t) PROVE TypeOK'
  <2>1. LedgerTypeOK'
    BY <1>6, CommitPosts, RequestTypes, PostedRow
  <2>2. WalletOf(t) \in Wallets
    BY RequestTypes
  <2> QED BY <1>6, <2>1, <2>2 DEF Commit, Release, Goto
<1>7. ASSUME NEW t \in Calls, Abort(t) PROVE TypeOK'
  BY <1>7 DEF Abort, Rollback, Release, Goto, LedgerTypeOK
<1>8. CASE AllAnswered \/ UNCHANGED vars
  BY <1>8 DEF AllAnswered, vars, LedgerTypeOK
<1> QED BY <1>1, <1>2, <1>3, <1>4, <1>5, <1>6, <1>7, <1>8 DEF Next, Step

\* A row lock has one holder, and it is the one that LockInv speaks of.
LEMMA LockStep == TxInv /\ [Next]_vars => LockInv'
<1> SUFFICES ASSUME TxInv, [Next]_vars, NEW t \in Calls
             PROVE  /\ Holding(t)' => (holder[WalletOf(t)] = t /\ seen[t] = balance[WalletOf(t)])'
                    /\ pc'[t] \in {"insert", "commit"} /\ req'[t].type = "debit"
                         => seen'[t] >= req'[t].amount
  BY DEF LockInv
<1> DEFINE Goal == /\ Holding(t)' => (holder[WalletOf(t)] = t /\ seen[t] = balance[WalletOf(t)])'
                   /\ pc'[t] \in {"insert", "commit"} /\ req'[t].type = "debit"
                        => seen'[t] >= req'[t].amount
<1>1. /\ Holding(t) => holder[WalletOf(t)] = t /\ seen[t] = balance[WalletOf(t)]
      /\ pc[t] \in {"insert", "commit"} /\ req[t].type = "debit" => seen[t] >= req[t].amount
  BY DEF TxInv, LockInv
<1> USE DEF TxInv, TypeOK, Goto, At, Holding, WalletOf
<1>2. ASSUME NEW u \in Calls, Begin(u) PROVE Goal
  BY <1>1, <1>2 DEF Begin
<1>3. ASSUME NEW u \in Calls, GetOrCreateWallet(u) PROVE Goal
  <2>1. CASE u = t
    BY <1>3, <2>1 DEF GetOrCreateWallet
  <2>2. CASE u # t
    BY <1>1, <1>3, <2>2, RequestTypes DEF GetOrCreateWallet
  <2> QED BY <2>1, <2>2
<1>4. ASSUME NEW u \in Calls, LockRow(u) PROVE Goal
  <2>1. CASE u = t
    BY <1>4, <2>1, RequestTypes DEF LockRow
  <2>2. CASE u # t
    BY <1>1, <1>4, <2>2, RequestTypes DEF LockRow
  <2> QED BY <2>1, <2>2
<1>5. ASSUME NEW u \in Calls, CheckAndUpdate(u) PROVE Goal
  BY <1>1, <1>5, RequestTypes DEF CheckAndUpdate, Rollback, Release
<1>6. ASSUME NEW u \in Calls, InsertEntry(u) PROVE Goal
  BY <1>1, <1>6, RequestTypes DEF InsertEntry, Rollback, Release
<1>7. ASSUME NEW u \in Calls, Commit(u) PROVE Goal
  <2>1. CASE u = t
    BY <1>7, <2>1 DEF Commit
  <2>2. CASE u # t
    <3>1. pc[u] = "commit" /\ holder[WalletOf(u)] = u
      BY <1>7 DEF Commit, LockInv
    <3>2. Holding(t)' => holder[WalletOf(t)] = t /\ WalletOf(t) # WalletOf(u)
      BY <1>1, <1>7, <2>2, <3>1 DEF Commit
    <3> QED BY <1>1, <1>7, <2>2, <3>2, RequestTypes DEF Commit, Release
  <2> QED BY <2>1, <2>2
<1>8. ASSUME NEW u \in Calls, Abort(u) PROVE Goal
  BY <1>1, <1>8, RequestTypes DEF Abort, Rollback, Release
<1>9. CASE AllAnswered \/ UNCHANGED vars
  BY <1>1, <1>9 DEF AllAnswered, vars
<1> QED BY <1>2, <1>3, <1>4, <1>5, <1>6, <1>7, <1>8, <1>9 DEF Next, Step

-----------------------------------------------------------------------------
\* After u's commit, a key is taken only if it was before or if it is u's.
LEMMA DuplicateAfterCommit ==
  ASSUME TxInv, NEW t \in Calls, NEW u \in Calls, Commit(u), ~SameKey(t, u),
         ~Duplicate(WalletOf(t), req[t].type, req[t].ref)
  PROVE  ~Duplicate(WalletOf(t), req[t].type, req[t].ref)'
<1> DEFINE n == Len(ledger[WalletOf(u)])
           e == NewEntry(WalletOf(u), req[u].type, req[u].amount, req[u].ref)
<1>1. req' = req
  BY DEF Commit
<1>2. WalletOf(t) \in Wallets /\ req[t].type \in TxnTypes
  BY RequestTypes DEF TxInv
<1>3. /\ \A v \in Wallets \ {WalletOf(u)} : ledger'[v] = ledger[v]
      /\ n \in Nat /\ DOMAIN ledger[WalletOf(u)] = 1..n
      /\ DOMAIN ledger'[WalletOf(u)] = 1..(n + 1)
      /\ \A i \in 1..n : ledger'[WalletOf(u)][i] = ledger[WalletOf(u)][i]
      /\ ledger'[WalletOf(u)][n + 1] = e
  BY CommitPosts, RequestTypes, PostedRow DEF TxInv, TypeOK
<1>4. e.type = req[u].type /\ e.ref = req[u].ref
  BY DEF NewEntry
<1>5. ASSUME NEW v \in Wallets, HasLedgerEntry(v, req[t].type, req[t].ref)'
      PROVE  \/ HasLedgerEntry(v, req[t].type, req[t].ref)
             \/ v = WalletOf(u) /\ req[u].type = req[t].type /\ req[u].ref = req[t].ref
  <2>1. PICK i \in DOMAIN ledger'[v] :
          ledger'[v][i].type = req[t].type /\ ledger'[v][i].ref = req[t].ref
    BY <1>1, <1>5 DEF HasLedgerEntry
  <2>2. CASE v # WalletOf(u)
    BY <1>3, <2>1, <2>2 DEF HasLedgerEntry
  <2>3. CASE v = WalletOf(u)
    <3>1. i \in 1..n \/ i = n + 1
      BY <1>3, <2>1, <2>3
    <3>2. CASE i \in 1..n
      BY <1>3, <2>1, <2>3, <3>2 DEF HasLedgerEntry
    <3>3. CASE i = n + 1
      BY <1>3, <1>4, <2>1, <2>3, <3>3
    <3> QED BY <3>1, <3>2, <3>3
  <2> QED BY <2>2, <2>3
<1>6. SUFFICES ASSUME Duplicate(WalletOf(t), req[t].type, req[t].ref)' PROVE FALSE
  OBVIOUS
<1>7. req[t].ref # NoRef
  BY <1>1, <1>6 DEF Duplicate
<1>8. CASE req[t].type = "credit"
  <2>1. PICK v \in Wallets : HasLedgerEntry(v, req[t].type, req[t].ref)'
    BY <1>1, <1>6, <1>8 DEF Duplicate
  <2>2. ~HasLedgerEntry(v, req[t].type, req[t].ref)
    BY <1>7, <1>8 DEF Duplicate
  <2> QED BY <1>5, <1>7, <1>8, <2>1, <2>2 DEF SameKey
<1>9. CASE req[t].type = "debit"
  <2>1. PICK v \in Wallets : v = WalletOf(t) /\ HasLedgerEntry(v, req[t].type, req[t].ref)'
    BY <1>1, <1>2, <1>6, <1>9 DEF Duplicate, HasLedgerEntry, WalletOf
  <2>2. ~HasLedgerEntry(WalletOf(t), req[t].type, req[t].ref)
    BY <1>7, <1>9 DEF Duplicate
  <2>3. WalletOf(t) = WalletOf(u) /\ req[u].type = req[t].type /\ req[u].ref = req[t].ref
    BY <1>2, <1>5, <2>1, <2>2
  <2> QED BY <1>7, <2>3 DEF SameKey
<1> QED BY <1>2, <1>8, <1>9 DEF TxnTypes

\* Two transactions never reach their commit with the same key.
LEMMA KeyStep == TxInv /\ [Next]_vars => KeyInv'
<1> SUFFICES ASSUME TxInv, [Next]_vars, NEW t \in Calls, pc'[t] = "commit"
             PROVE  /\ ~Duplicate(WalletOf(t), req[t].type, req[t].ref)'
                    /\ \A u \in Calls \ {t} : pc'[u] = "commit" => ~SameKey(t, u)'
  BY DEF KeyInv, At
<1> DEFINE Goal == /\ ~Duplicate(WalletOf(t), req[t].type, req[t].ref)'
                   /\ \A u \in Calls \ {t} : pc'[u] = "commit" => ~SameKey(t, u)'
<1>1. ASSUME NEW v \in Calls, pc[v] = "commit"
      PROVE  /\ ~Duplicate(WalletOf(v), req[v].type, req[v].ref)
             /\ \A u \in Calls \ {v} : pc[u] = "commit" => ~SameKey(v, u)
  BY <1>1 DEF TxInv, KeyInv, At
<1>2. ASSUME UNCHANGED <<ledger, req>>
      PROVE  /\ Duplicate(WalletOf(t), req[t].type, req[t].ref)'
                  <=> Duplicate(WalletOf(t), req[t].type, req[t].ref)
             /\ \A u \in Calls : SameKey(t, u)' <=> SameKey(t, u)
  BY <1>2 DEF Duplicate, HasLedgerEntry, WalletOf, SameKey
<1>3. ASSUME UNCHANGED <<ledger, req>>,
             \A u \in Calls : pc'[u] = "commit" => pc[u] = "commit"
      PROVE  Goal
  BY <1>1, <1>2, <1>3
<1> USE DEF At, Goto, TxInv, TypeOK
<1>4. ASSUME NEW v \in Calls,
             Begin(v) \/ GetOrCreateWallet(v) \/ LockRow(v) \/ CheckAndUpdate(v) \/ Abort(v)
      PROVE  Goal
  <2>1. UNCHANGED <<ledger, req>>
    BY <1>4, OnlyCommitWrites
  <2>2. \A u \in Calls : pc'[u] = "commit" => pc[u] = "commit"
    BY <1>4 DEF Begin, GetOrCreateWallet, LockRow, CheckAndUpdate, Abort, Rollback
  <2> QED BY <1>3, <2>1, <2>2
<1>5. ASSUME NEW v \in Calls, InsertEntry(v) PROVE Goal
  <2>1. UNCHANGED <<ledger, req>>
    BY <1>5, OnlyCommitWrites
  <2>2. \A u \in Calls \ {v} : pc[u] = "commit" => ~SameKey(v, u)
    BY <1>5 DEF InsertEntry
  <2>3. CASE Duplicate(WalletOf(v), req[v].type, req[v].ref)
    <3>1. \A u \in Calls : pc'[u] = "commit" => pc[u] = "commit"
      BY <1>5, <2>3 DEF InsertEntry, Rollback
    <3> QED BY <1>3, <2>1, <3>1
  <2>4. CASE ~Duplicate(WalletOf(v), req[v].type, req[v].ref)
    <3>1. pc' = [pc EXCEPT ![v] = "commit"]
      BY <1>5, <2>4 DEF InsertEntry
    <3>2. \A u, x \in Calls : SameKey(u, x) => SameKey(x, u)
      BY DEF SameKey
    <3>3. CASE v = t
      BY <1>2, <2>1, <2>2, <2>4, <3>1, <3>3
    <3>4. CASE v # t
      BY <1>1, <1>2, <2>1, <2>2, <3>1, <3>2, <3>4
    <3> QED BY <3>3, <3>4
  <2> QED BY <2>3, <2>4
<1>6. ASSUME NEW v \in Calls, Commit(v) PROVE Goal
  <2>1. pc[v] = "commit" /\ pc' = [pc EXCEPT ![v] = "idle"] /\ req' = req
    BY <1>6 DEF Commit
  <2>2. v # t /\ pc[t] = "commit"
    BY <2>1
  <2>3. ~SameKey(t, v) /\ ~Duplicate(WalletOf(t), req[t].type, req[t].ref)
    BY <1>1, <2>1, <2>2
  <2>4. ~Duplicate(WalletOf(t), req[t].type, req[t].ref)'
    BY <1>6, <2>3, DuplicateAfterCommit
  <2>5. \A u \in Calls : SameKey(t, u)' <=> SameKey(t, u)
    BY <2>1 DEF SameKey, WalletOf
  <2> QED BY <1>1, <2>1, <2>2, <2>4, <2>5
<1>7. CASE AllAnswered \/ UNCHANGED vars
  BY <1>3, <1>7 DEF AllAnswered, vars
<1> QED BY <1>4, <1>5, <1>6, <1>7 DEF Next, Step

-----------------------------------------------------------------------------
LEMMA NextInv == TxInv /\ [Next]_vars => TxInv'
BY TypeStep, LockStep, KeyStep DEF TxInv

\* Whatever the number of concurrent calls, retries, aborts and lost answers,
\* every variable stays in its type, a transaction past the row lock works on
\* the committed balance, and two of them never commit the same key
\* (AdjustWalletBalance, wallet.go).
THEOREM TxInvariant == Spec => []TxInv
BY InitInv, NextInv, PTL DEF Spec

\* One step of the transactions is one movement of the ledger, or none.
LEMMA StepRefines == TxInv /\ [Next]_vars => [LedgerNext]_ledgerVars
<1> SUFFICES ASSUME TxInv, [Next]_vars PROVE [LedgerNext]_ledgerVars
  OBVIOUS
<1>1. ASSUME NEW t \in Calls, Commit(t) PROVE LedgerNext
  BY <1>1, CommitPosts, RequestTypes DEF TxInv, LedgerNext
<1>2. ASSUME NEW t \in Calls,
             Begin(t) \/ GetOrCreateWallet(t) \/ LockRow(t) \/ CheckAndUpdate(t)
               \/ InsertEntry(t) \/ Abort(t)
      PROVE  UNCHANGED ledgerVars
  BY <1>2, OnlyCommitWrites DEF ledgerVars
<1>3. CASE AllAnswered \/ UNCHANGED vars
  BY <1>3 DEF AllAnswered, vars, ledgerVars
<1> QED BY <1>1, <1>2, <1>3 DEF Next, Step

\* The concurrent transactions implement the atomic ledger: the row lock, the
\* unique indexes and the single commit of AdjustWalletBalance are enough for
\* its callers to see one movement at a time.
THEOREM TxImplementsLedger == Spec => LedgerSpec
<1>1. Init => LedgerInit
  BY DEF Init
<1>2. TxInv /\ [Next]_vars => [LedgerNext]_ledgerVars
  BY StepRefines
<1> QED BY <1>1, <1>2, TxInvariant, PTL DEF Spec, LedgerSpec

\* So everything the ledger promises holds of the tables, under any
\* interleaving of the transactions (wallet.go:110-210).
THEOREM TxKeepsLedger == Spec => []LedgerInv
BY TxImplementsLedger, LedgerCorrect, PTL

\* The rows of every wallet form an unbroken chain that ends at its balance,
\* under any interleaving of transactions.
THEOREM TxAuditChain == Spec => []AuditChain
<1>1. LedgerInv => AuditChain
  BY DEF LedgerInv
<1> QED BY <1>1, TxKeepsLedger, PTL

\* No reference is ever credited twice, in the same wallet or in two.
THEOREM TxCreditOnce == Spec => []CreditOnce
<1>1. LedgerInv => CreditOnce
  BY DEF LedgerInv
<1> QED BY <1>1, TxKeepsLedger, PTL

\* No reference is ever debited twice from the same wallet.
THEOREM TxDebitOnce == Spec => []DebitOncePerWallet
<1>1. LedgerInv => DebitOncePerWallet
  BY DEF LedgerInv
<1> QED BY <1>1, TxKeepsLedger, PTL

-----------------------------------------------------------------------------
\* Rows are never deleted.
LEMMA EntriesStay ==
  ASSUME TxInv, [Next]_vars, NEW w \in Wallets, NEW type, NEW r,
         HasLedgerEntry(w, type, r)
  PROVE  HasLedgerEntry(w, type, r)'
<1>1. CASE UNCHANGED ledger
  BY <1>1 DEF HasLedgerEntry
<1>2. ASSUME NEW t \in Calls, Commit(t) PROVE HasLedgerEntry(w, type, r)'
  <2> DEFINE n == Len(ledger[WalletOf(t)])
  <2>1. /\ \A v \in Wallets \ {WalletOf(t)} : ledger'[v] = ledger[v]
        /\ n \in Nat /\ DOMAIN ledger[WalletOf(t)] = 1..n
        /\ DOMAIN ledger'[WalletOf(t)] = 1..(n + 1)
        /\ \A i \in 1..n : ledger'[WalletOf(t)][i] = ledger[WalletOf(t)][i]
    BY <1>2, CommitPosts, RequestTypes, PostedRow DEF TxInv, TypeOK
  <2>2. PICK i \in DOMAIN ledger[w] : ledger[w][i].type = type /\ ledger[w][i].ref = r
    BY DEF HasLedgerEntry
  <2>3. i \in DOMAIN ledger'[w] /\ ledger'[w][i] = ledger[w][i]
    BY <2>1, <2>2
  <2> QED BY <2>2, <2>3 DEF HasLedgerEntry
<1>3. (\E t \in Calls : Commit(t)) \/ UNCHANGED ledger
  BY OnlyCommitWrites DEF Next, Step, AllAnswered, vars
<1> QED BY <1>1, <1>2, <1>3

LEMMA ReplyStep == TxInv /\ ReplyTruthful /\ [Next]_vars => ReplyTruthful'
<1> SUFFICES ASSUME TxInv, ReplyTruthful, [Next]_vars, NEW t \in Calls
             PROVE  /\ reply'[t] = "ok" =>
                          HasLedgerEntry(WalletOf(t), req[t].type, req[t].ref)'
                    /\ reply'[t] = "ErrDuplicateCredit" =>
                          \E w \in Wallets : HasLedgerEntry(w, "credit", req[t].ref)'
                    /\ reply'[t] = "ErrDuplicateDebit" =>
                          HasLedgerEntry(WalletOf(t), "debit", req[t].ref)'
  BY DEF ReplyTruthful
<1> DEFINE Kept == reply'[t] = reply[t]
           Goal == /\ reply'[t] = "ok" =>
                        HasLedgerEntry(WalletOf(t), req[t].type, req[t].ref)'
                   /\ reply'[t] = "ErrDuplicateCredit" =>
                        \E w \in Wallets : HasLedgerEntry(w, "credit", req[t].ref)'
                   /\ reply'[t] = "ErrDuplicateDebit" =>
                        HasLedgerEntry(WalletOf(t), "debit", req[t].ref)'
<1>0. req' = req
  BY OnlyCommitWrites DEF Next, Step, AllAnswered, vars, Commit
<1>1. req' = req /\ WalletOf(t)' = WalletOf(t)
  BY <1>0 DEF WalletOf
<1>2. WalletOf(t) \in Wallets /\ req[t].type \in TxnTypes
  BY RequestTypes DEF TxInv
<1>3. ASSUME NEW w \in Wallets, NEW type, HasLedgerEntry(w, type, req[t].ref)
      PROVE  HasLedgerEntry(w, type, req[t].ref)'
  BY <1>1, <1>3, EntriesStay DEF HasLedgerEntry
<1>4. ASSUME Kept PROVE Goal
  <2>1. /\ reply[t] = "ok" => HasLedgerEntry(WalletOf(t), req[t].type, req[t].ref)
        /\ reply[t] = "ErrDuplicateCredit" =>
             \E w \in Wallets : HasLedgerEntry(w, "credit", req[t].ref)
        /\ reply[t] = "ErrDuplicateDebit" => HasLedgerEntry(WalletOf(t), "debit", req[t].ref)
    BY DEF ReplyTruthful
  <2>2. ASSUME reply[t] = "ok" PROVE HasLedgerEntry(WalletOf(t), req[t].type, req[t].ref)'
    BY <1>1, <1>2, <1>3, <2>1, <2>2 DEF HasLedgerEntry
  <2>3. ASSUME reply[t] = "ErrDuplicateCredit"
        PROVE  \E w \in Wallets : HasLedgerEntry(w, "credit", req[t].ref)'
    BY <1>1, <1>3, <2>1, <2>3 DEF HasLedgerEntry
  <2>4. ASSUME reply[t] = "ErrDuplicateDebit"
        PROVE  HasLedgerEntry(WalletOf(t), "debit", req[t].ref)'
    BY <1>1, <1>2, <1>3, <2>1, <2>4 DEF HasLedgerEntry
  <2> QED BY <1>4, <2>2, <2>3, <2>4
<1> USE DEF TxInv, TypeOK
<1>5. ASSUME NEW u \in Calls, Begin(u) \/ GetOrCreateWallet(u) \/ LockRow(u) PROVE Goal
  BY <1>4, <1>5 DEF Begin, GetOrCreateWallet, LockRow
<1>6. ASSUME NEW u \in Calls, CheckAndUpdate(u) \/ Abort(u) PROVE Goal
  <2>1. Kept \/ reply'[t] \in {"ErrInsufficientBalance", "error"}
    BY <1>6 DEF CheckAndUpdate, Abort, Rollback
  <2> QED BY <1>4, <2>1
<1>7. ASSUME NEW u \in Calls, InsertEntry(u) PROVE Goal
  <2>1. \/ Kept
        \/ /\ u = t /\ Duplicate(WalletOf(t), req[t].type, req[t].ref)
           /\ reply'[t] = IF req[t].type = "credit" THEN "ErrDuplicateCredit"
                                                    ELSE "ErrDuplicateDebit"
    BY <1>7 DEF InsertEntry, Rollback
  <2>2. CASE ~Kept /\ req[t].type = "credit"
    <3>1. PICK w \in Wallets : HasLedgerEntry(w, "credit", req[t].ref)
      BY <2>1, <2>2 DEF Duplicate
    <3> QED BY <1>1, <1>3, <2>1, <2>2, <3>1 DEF HasLedgerEntry
  <2>3. CASE ~Kept /\ req[t].type = "debit"
    <3>1. HasLedgerEntry(WalletOf(t), "debit", req[t].ref)
      BY <2>1, <2>3 DEF Duplicate
    <3> QED BY <1>1, <1>2, <1>3, <2>1, <2>3, <3>1 DEF HasLedgerEntry, WalletOf
  <2> QED BY <1>2, <1>4, <2>2, <2>3 DEF TxnTypes
<1>8. ASSUME NEW u \in Calls, Commit(u) PROVE Goal
  <2>1. CASE u # t
    BY <1>4, <1>8, <2>1 DEF Commit
  <2>2. CASE u = t
    <3> DEFINE n == Len(ledger[WalletOf(t)])
               e == NewEntry(WalletOf(t), req[t].type, req[t].amount, req[t].ref)
    <3>1. /\ n \in Nat
          /\ DOMAIN ledger'[WalletOf(t)] = 1..(n + 1)
          /\ ledger'[WalletOf(t)][n + 1] = e
      BY <1>8, <2>2, CommitPosts, RequestTypes, PostedRow
    <3>2. e.type = req[t].type /\ e.ref = req[t].ref
      BY DEF NewEntry
    <3>3. HasLedgerEntry(WalletOf(t), req[t].type, req[t].ref)'
      <4>1. n + 1 \in DOMAIN ledger'[WalletOf(t)]
        BY <3>1
      <4> HIDE DEF e, n
      <4> QED BY <1>1, <1>2, <3>1, <3>2, <4>1 DEF HasLedgerEntry
    <3>4. reply'[t] \in {"ok", "error"}
      BY <1>8, <2>2 DEF Commit
    <3> QED BY <3>3, <3>4
  <2> QED BY <2>1, <2>2
<1>9. CASE AllAnswered \/ UNCHANGED vars
  BY <1>4, <1>9 DEF AllAnswered, vars
<1> QED BY <1>5, <1>6, <1>7, <1>8, <1>9 DEF Next, Step

\* An answer is never a lie, whatever was retried: "ok" and the two duplicate
\* answers all mean that the row is in the ledger (wallet.go:180-195).
THEOREM TxReplyTruthful == Spec => []ReplyTruthful
<1>1. Init => ReplyTruthful
  BY DEF Init, ReplyTruthful
<1>2. TxInv /\ ReplyTruthful /\ [Next]_vars => ReplyTruthful'
  BY ReplyStep
<1> QED BY <1>1, <1>2, TxInvariant, PTL DEF Spec

-----------------------------------------------------------------------------
(* The requests that move a wallet (WalletRequests).                        *)

Answers == {"", "done", "differs", "twice", "failed", "insufficient", "used"}
Dests   == {""} \cup {b.destination : b \in Bodies}

CallRecords ==
  [step : {"idle", "adjust", "derive", "replay", "compare", "credit", "unclaim"},
   op : {"deduct", "withdraw", "topup"}, wallet : Wallets, ref : Refs,
   amount : Amounts, dest : Dests, reply : Answers]

Crediting(c) == c.step \in {"credit", "unclaim"}

\* The money of a request moved: this amount, to this destination.
Moved(c) ==
  /\ \E i \in DOMAIN ledger[c.wallet] :
       ledger[c.wallet][i].ref = c.ref /\ ledger[c.wallet][i].amount = c.amount
  /\ c.op = "withdraw" => <<c.ref, c.dest>> \in sentTo

\* An order whose older debit was looked up in vain, or could not be looked up.
FreeToDebit(o) == LegacyRef(o) \in unread \/ EntryOf(Customer, "debit", LegacyRef(o)) = {}

\* What is known of a request by where it stands.
DeductOK(c) ==
  /\ ~Crediting(c) /\ c.step # "derive" /\ c.wallet = Customer
  /\ \E o \in Orders : /\ c.ref \in {DeductRef(o), LegacyRef(o)}
                       /\ c.step # "idle" => /\ c.ref = DeductRef(o)
                                             /\ FreeToDebit(o)

WithdrawOK(c) ==
  /\ ~Crediting(c) /\ c.ref.op = "wd"
  /\ c.step = "derive" => \E b \in Bodies, m \in 0..LastMinute : c.ref = DerivedRef(b.name, m)

TopUpOK(c) ==
  /\ c.step \in {"idle", "credit", "unclaim"} /\ c.wallet = Customer
  /\ \E p \in TopUps : c.ref = TopUpRef(p) /\ (Crediting(c) => p \in claimed)

CallOK(c) ==
  c # Idle =>
    /\ c \in CallRecords
    /\ c.op = "deduct" => DeductOK(c)
    /\ c.op = "withdraw" => WithdrawOK(c)
    /\ c.op = "topup" => TopUpOK(c)
    /\ c.step = "compare" => HasLedgerEntry(c.wallet, "debit", c.ref)
    /\ c.step = "idle" /\ c.reply = "done" => Moved(c)

RequestTypeOK == /\ call \in [Callers -> CallRecords \cup {Idle}]
                 /\ claimed \subseteq TopUps
                 /\ minute \in 0..LastMinute

CallsOK == \A r \in Callers : CallOK(call[r])

\* A debit under the new reference never joins one under the old that could be
\* looked up.
OldOrNew ==
  \A o \in Orders : LegacyRef(o) \notin unread /\ HasLedgerEntry(Customer, "debit", LegacyRef(o)) =>
                      ~HasLedgerEntry(Customer, "debit", DeductRef(o))

\* A claim is one request's, and a top-up reaches no other wallet.
OneClaimer ==
  \A r, s \in Callers : Crediting(call[r]) /\ Crediting(call[s])
                          /\ call[r].ref = call[s].ref => r = s

CreditsAtHome ==
  \A w \in Wallets : \A i \in DOMAIN ledger[w] :
    ledger[w][i].type = "credit" /\ ledger[w][i].ref # NoRef => w = Customer

\* What is claimed is credited, or somebody is at it, or somebody died.
ClaimsFollowed ==
  ~crashed => \A p \in claimed :
    \/ HasLedgerEntry(Customer, "credit", TopUpRef(p))
    \/ \E r \in Callers : Crediting(call[r]) /\ call[r].ref = TopUpRef(p)

RequestsInv == /\ RequestTypeOK /\ LedgerInv /\ CallsOK /\ OldOrNew
               /\ OneClaimer /\ CreditsAtHome /\ ClaimsFollowed

\* What every step leaves of the rows: those there are stay, a new one is a
\* credit of a top-up or a debit of an order or a withdrawal, and a debit of
\* an order comes without an older one.
Extends ==
  /\ unread \subseteq unread'
  /\ \A w \in Wallets : \A i \in DOMAIN ledger[w] :
       i \in DOMAIN ledger'[w] /\ ledger'[w][i] = ledger[w][i]
  /\ \A w \in Wallets : \A i \in DOMAIN ledger'[w] :
       \/ i \in DOMAIN ledger[w] /\ ledger'[w][i] = ledger[w][i]
       \/ LET row == ledger'[w][i]
          IN  \/ row.type = "credit" /\ row.ref.op = "top" /\ w = Customer
              \/ row.type = "debit" /\ row.ref.op = "wd"
              \/ /\ row.type = "debit"
                 /\ \E o \in Orders : row.ref = DeductRef(o) /\ FreeToDebit(o)

\* A movement of a request is such a step.
LEMMA MovementExtends ==
  ASSUME LedgerInv, NEW w \in Wallets, NEW type \in TxnTypes, NEW amount \in Amounts,
         NEW r \in Refs, AdjustWalletBalance(w, type, amount, r),
         \/ type = "credit" /\ r.op = "top" /\ w = Customer
         \/ type = "debit" /\ r.op = "wd"
         \/ type = "debit" /\ \E o \in Orders : r = DeductRef(o) /\ FreeToDebit(o),
         unread \subseteq unread'
  PROVE  /\ Extends /\ LedgerInv'
         /\ \E i \in DOMAIN ledger'[w] : /\ ledger'[w][i].type = type
                                         /\ ledger'[w][i].ref = r
                                         /\ ledger'[w][i].amount = amount
<1> DEFINE n == Len(ledger[w])
<1>1. LedgerTypeOK /\ r \in References
  BY DEF LedgerInv, References
<1>2. /\ \A v \in Wallets \ {w} : ledger'[v] = ledger[v]
      /\ n \in Nat /\ DOMAIN ledger[w] = 1..n /\ DOMAIN ledger'[w] = 1..(n + 1)
      /\ \A i \in 1..n : ledger'[w][i] = ledger[w][i]
      /\ ledger'[w][n + 1] = NewEntry(w, type, amount, r)
  BY <1>1, PostedRow
<1>3. /\ ledger'[w][n + 1].type = type /\ ledger'[w][n + 1].ref = r
      /\ ledger'[w][n + 1].amount = amount
  BY <1>2 DEF NewEntry
<1>4. LedgerInv'
  BY <1>1, PostedRow, ChainStep, UniqueStep DEF LedgerInv
<1> HIDE DEF n
<1>5. \A v \in Wallets : \A i \in DOMAIN ledger[v] :
        i \in DOMAIN ledger'[v] /\ ledger'[v][i] = ledger[v][i]
  <2>1. \A i \in DOMAIN ledger[w] : i \in DOMAIN ledger'[w] /\ ledger'[w][i] = ledger[w][i]
    BY <1>2
  <2> QED BY <1>2, <2>1
<1>6. \A v \in Wallets : \A i \in DOMAIN ledger'[v] :
        (i \in DOMAIN ledger[v] /\ ledger'[v][i] = ledger[v][i]) \/ (v = w /\ i = n + 1)
  <2>1. \A i \in DOMAIN ledger'[w] : (i \in DOMAIN ledger[w] /\ ledger'[w][i] = ledger[w][i]) \/ i = n + 1
    BY <1>2
  <2> QED BY <1>2, <2>1
<1>7. Extends
  BY <1>3, <1>5, <1>6 DEF Extends
<1> QED BY <1>2, <1>3, <1>4, <1>7

\* A step that moves nothing is one too.
LEMMA StillExtends ==
  ASSUME LedgerInv, UNCHANGED ledgerVars, unread \subseteq unread'
  PROVE  Extends /\ LedgerInv'
<1>1. balance' = balance /\ ledger' = ledger
  BY DEF ledgerVars
<1>2. Extends
  BY <1>1 DEF Extends
<1>3. LedgerInv'
  BY <1>1 DEF LedgerInv, LedgerTypeOK, AuditChain, ChainOK, CreditOnce, DebitOncePerWallet
<1> QED BY <1>2, <1>3

\* What the rows say of a request goes on being so.
LEMMA RowsRemain ==
  ASSUME RequestsInv, Extends
  PROVE  /\ \A w \in Wallets, t \in TxnTypes, f \in Refs :
              HasLedgerEntry(w, t, f) => HasLedgerEntry(w, t, f)'
         /\ \A o \in Orders : FreeToDebit(o) => FreeToDebit(o)'
         /\ OldOrNew' /\ CreditsAtHome'
<1>1. \A w \in Wallets, t \in TxnTypes, f \in Refs :
        HasLedgerEntry(w, t, f) => HasLedgerEntry(w, t, f)'
  BY DEF Extends, HasLedgerEntry
<1>2. Customer \in Wallets
  BY RequestAssumption
<1>3. \A o, u \in Orders : /\ LegacyRef(o).op = "old" /\ DeductRef(u).op = "ord"
                           /\ DeductRef(o) = DeductRef(u) => o = u
  BY DEF LegacyRef, DeductRef, Ref
<1>0. unread \subseteq unread'
  BY DEF Extends
<1>4. ASSUME NEW o \in Orders, EntryOf(Customer, "debit", LegacyRef(o)) = {}
      PROVE  (EntryOf(Customer, "debit", LegacyRef(o)) = {})'
  <2>1. SUFFICES ASSUME NEW i \in DOMAIN ledger'[Customer], ledger'[Customer][i].type = "debit",
                        ledger'[Customer][i].ref = LegacyRef(o)
                 PROVE  FALSE
    BY DEF EntryOf
  <2>2. i \in DOMAIN ledger[Customer] /\ ledger'[Customer][i] = ledger[Customer][i]
    BY <1>2, <1>3, <2>1 DEF Extends
  <2> QED BY <1>4, <2>1, <2>2 DEF EntryOf
<1>5. OldOrNew'
  <2>1. SUFFICES ASSUME NEW o \in Orders, LegacyRef(o) \notin unread',
                        HasLedgerEntry(Customer, "debit", LegacyRef(o))',
                        HasLedgerEntry(Customer, "debit", DeductRef(o))'
                 PROVE  FALSE
    BY DEF OldOrNew
  <2>2. HasLedgerEntry(Customer, "debit", LegacyRef(o))
    BY <1>2, <1>3, <2>1 DEF Extends, HasLedgerEntry
  <2>3. EntryOf(Customer, "debit", LegacyRef(o)) # {}
    BY <2>2 DEF HasLedgerEntry, EntryOf
  <2>4. HasLedgerEntry(Customer, "debit", DeductRef(o))
    BY <1>0, <1>2, <1>3, <2>1, <2>3 DEF Extends, HasLedgerEntry, FreeToDebit
  <2> QED BY <1>0, <2>1, <2>2, <2>4 DEF RequestsInv, OldOrNew
<1>6. CreditsAtHome'
  BY DEF CreditsAtHome, RequestsInv, Extends
<1>7. \A o \in Orders : FreeToDebit(o) => FreeToDebit(o)'
  BY <1>0, <1>4 DEF FreeToDebit
<1> QED BY <1>1, <1>5, <1>6, <1>7

\* A request that stands still knows what it knew.
LEMMA CallRemains ==
  ASSUME RequestsInv, Extends, NEW r \in Callers, call'[r] = call[r],
         sentTo \subseteq sentTo',
         \A p \in claimed \ claimed' : ~(Crediting(call[r]) /\ call[r].ref = TopUpRef(p))
  PROVE  CallOK(call[r])'
<1>1. CallOK(call[r]) /\ call[r] \in CallRecords \cup {Idle}
  BY DEF RequestsInv, CallsOK, RequestTypeOK
<1>2. PICK c : c = call[r]
  OBVIOUS
<1>3. ASSUME c # Idle
      PROVE  /\ c.op = "deduct" => DeductOK(c)'
             /\ c.op = "withdraw" => WithdrawOK(c)'
             /\ c.op = "topup" => TopUpOK(c)'
             /\ c.step = "compare" => HasLedgerEntry(c.wallet, "debit", c.ref)'
             /\ c.step = "idle" /\ c.reply = "done" => Moved(c)'
  <2>1. c \in CallRecords /\ c.wallet \in Wallets /\ c.ref \in Refs
    BY <1>1, <1>2, <1>3 DEF CallRecords
  <2>2. c.op = "deduct" => DeductOK(c)'
    BY <1>1, <1>2, <1>3, RowsRemain DEF CallOK, DeductOK, Crediting
  <2>3. c.op = "withdraw" => WithdrawOK(c)'
    BY <1>1, <1>2, <1>3 DEF CallOK, WithdrawOK, Crediting
  <2>4. c.op = "topup" => TopUpOK(c)'
    BY <1>1, <1>2, <1>3 DEF CallOK, TopUpOK, Crediting
  <2>5. c.step = "compare" => HasLedgerEntry(c.wallet, "debit", c.ref)'
    BY <1>1, <1>2, <1>3, <2>1, RowsRemain DEF CallOK, TxnTypes
  <2>6. c.step = "idle" /\ c.reply = "done" => Moved(c)'
    BY <1>1, <1>2, <1>3, <2>1 DEF CallOK, Moved, Extends
  <2> QED BY <2>2, <2>3, <2>4, <2>5, <2>6
<1>4. CallOK(c)'
  BY <1>1, <1>2, <1>3 DEF CallOK
<1> QED BY <1>2, <1>4 DEF CallOK, DeductOK, WithdrawOK, TopUpOK, Crediting, Moved, HasLedgerEntry, EntryOf

\* A step of one request keeps the invariant, if the request knows what it
\* must and the claims are in order.
LEMMA RequestStep ==
  ASSUME RequestsInv, Extends, LedgerInv', NEW r \in Callers,
         call' = [call EXCEPT ![r] = call'[r]], call'[r] \in CallRecords \cup {Idle},
         CallOK(call[r])', sentTo \subseteq sentTo', claimed' \subseteq TopUps,
         minute' = minute,
         \A p \in claimed \ claimed', s \in Callers \ {r} :
           ~(Crediting(call[s]) /\ call[s].ref = TopUpRef(p)),
         Crediting(call'[r]) => \A s \in Callers \ {r} :
           ~(Crediting(call[s]) /\ call[s].ref = call'[r].ref),
         ClaimsFollowed'
  PROVE  RequestsInv'
<1>1. \A s \in Callers \ {r} : call'[s] = call[s]
  BY DEF RequestsInv, RequestTypeOK
<1>2. RequestTypeOK'
  BY DEF RequestsInv, RequestTypeOK
<1>3. CallsOK'
  <2>1. SUFFICES ASSUME NEW s \in Callers, s # r PROVE CallOK(call[s])'
    BY DEF CallsOK
  <2>2. call'[s] = call[s]
    BY <1>1, <2>1
  <2>3. \A p \in claimed \ claimed' : ~(Crediting(call[s]) /\ call[s].ref = TopUpRef(p))
    BY <2>1
  <2> QED BY <2>2, <2>3, CallRemains
<1>4. OneClaimer'
  <2>1. SUFFICES ASSUME NEW s \in Callers, NEW u \in Callers, Crediting(call'[s]),
                        Crediting(call'[u]), call'[s].ref = call'[u].ref
                 PROVE  s = u
    BY DEF OneClaimer, Crediting
  <2>2. CASE s # r /\ u # r
    BY <1>1, <2>1, <2>2 DEF RequestsInv, OneClaimer
  <2>3. CASE s = r \/ u = r
    BY <1>1, <2>1, <2>3
  <2> QED BY <2>2, <2>3
<1> QED BY <1>2, <1>3, <1>4, RowsRemain DEF RequestsInv

\* So does one that has nothing to do with claims.
LEMMA PlainStep ==
  ASSUME RequestsInv, Extends, LedgerInv', NEW r \in Callers,
         call' = [call EXCEPT ![r] = call'[r]], call'[r] \in CallRecords \cup {Idle},
         CallOK(call[r])', sentTo \subseteq sentTo', UNCHANGED <<claimed, minute, crashed>>,
         ~Crediting(call[r]), ~Crediting(call'[r])
  PROVE  RequestsInv'
<1>1. ClaimsFollowed'
  <2>1. SUFFICES ASSUME ~crashed', NEW p \in claimed'
                 PROVE  \/ HasLedgerEntry(Customer, "credit", TopUpRef(p))'
                        \/ \E s \in Callers : Crediting(call'[s]) /\ call'[s].ref = TopUpRef(p)
    BY DEF ClaimsFollowed, Crediting
  <2>2. p \in TopUps /\ TopUpRef(p) \in Refs /\ Customer \in Wallets
    BY RequestAssumption DEF RequestsInv, RequestTypeOK
  <2>3. CASE HasLedgerEntry(Customer, "credit", TopUpRef(p))
    BY <2>2, <2>3, RowsRemain DEF TxnTypes
  <2>4. CASE \E s \in Callers : Crediting(call[s]) /\ call[s].ref = TopUpRef(p)
    <3>1. PICK s \in Callers : Crediting(call[s]) /\ call[s].ref = TopUpRef(p)
      BY <2>4
    <3>2. s # r /\ call'[s] = call[s]
      BY <3>1 DEF RequestsInv, RequestTypeOK
    <3> QED BY <3>1, <3>2
  <2> QED BY <2>1, <2>3, <2>4 DEF RequestsInv, ClaimsFollowed
<1>2. claimed' \subseteq TopUps /\ claimed' = claimed
  BY DEF RequestsInv, RequestTypeOK
<1> QED BY <1>1, <1>2, RequestStep

\* What a call under way is.
LEMMA CallShape ==
  ASSUME RequestsInv, NEW r \in Callers, ~Stands(r, "idle")
  PROVE  /\ call[r] \in CallRecords /\ call[r] # Idle
         /\ call[r].wallet \in Wallets /\ call[r].ref \in Refs /\ call[r].amount \in Amounts
         /\ CallOK(call[r])
<1>1. call[r] \in CallRecords \cup {Idle} /\ CallOK(call[r])
  BY DEF RequestsInv, RequestTypeOK, CallsOK
<1>2. call[r] # Idle
  BY DEF Stands, Idle
<1> QED BY <1>1, <1>2 DEF CallRecords

LEMMA StartDeductStep ==
  ASSUME RequestsInv, NEW r \in Callers, NEW o \in Orders, StartDeduct(r, o)
  PROVE  RequestsInv'
<1>0a. PICK read \in BOOLEAN : \E old :
        /\ old = IF read THEN EntryOf(Customer, "debit", LegacyRef(o)) ELSE {}
        /\ unread' = IF read THEN unread ELSE unread \cup {LegacyRef(o)}
        /\ call' = [call EXCEPT ![r] =
            [step |-> IF old = {} THEN "adjust" ELSE "idle", op |-> "deduct",
            wallet |-> Customer,
            ref |-> IF old = {} THEN DeductRef(o) ELSE LegacyRef(o),
            amount |-> Total[o], dest |-> "",
            reply |-> IF old = {} THEN ""
                      ELSE IF \A i \in old : ledger[Customer][i].amount = Total[o]
                      THEN "done" ELSE "differs"]]
  BY DEF StartDeduct
<1>0. PICK old :
        /\ old = IF read THEN EntryOf(Customer, "debit", LegacyRef(o)) ELSE {}
        /\ unread' = IF read THEN unread ELSE unread \cup {LegacyRef(o)}
        /\ call' = [call EXCEPT ![r] =
            [step |-> IF old = {} THEN "adjust" ELSE "idle", op |-> "deduct",
            wallet |-> Customer,
            ref |-> IF old = {} THEN DeductRef(o) ELSE LegacyRef(o),
            amount |-> Total[o], dest |-> "",
            reply |-> IF old = {} THEN ""
                      ELSE IF \A i \in old : ledger[Customer][i].amount = Total[o]
                      THEN "done" ELSE "differs"]]
  BY <1>0a
<1>1. PICK d : d = [step |-> IF old = {} THEN "adjust" ELSE "idle", op |-> "deduct",
            wallet |-> Customer,
            ref |-> IF old = {} THEN DeductRef(o) ELSE LegacyRef(o),
            amount |-> Total[o], dest |-> "",
            reply |-> IF old = {} THEN ""
                      ELSE IF \A i \in old : ledger[Customer][i].amount = Total[o]
                      THEN "done" ELSE "differs"]
  OBVIOUS
<1>2. call' = [call EXCEPT ![r] = d] /\ call'[r] = d
  BY <1>0, <1>1 DEF RequestsInv, RequestTypeOK
<1>3. UNCHANGED <<balance, ledger, claimed, sentTo, minute, crashed>> /\ call[r].step = "idle"
  BY DEF StartDeduct, Stands
<1>4. Extends /\ LedgerInv'
  BY <1>0, <1>3, StillExtends DEF RequestsInv, ledgerVars
<1>5. d \in CallRecords
  BY <1>1, RequestAssumption DEF CallRecords, Answers, Dests
<1>6. d.op = "deduct" /\ d.wallet = Customer /\ d.dest = "" /\ d.amount = Total[o]
  BY <1>1
<1>7. CASE old = {}
  <2>1. d.step = "adjust" /\ d.ref = DeductRef(o)
    BY <1>1, <1>7
  <2>2. FreeToDebit(o)'
    BY <1>0, <1>3, <1>7 DEF FreeToDebit, EntryOf
  <2> QED BY <1>2, <1>3, <1>4, <1>5, <1>6, <2>1, <2>2, PlainStep
          DEF CallOK, DeductOK, Crediting
<1>8. CASE old # {}
  <2>1. d.step = "idle" /\ d.ref = LegacyRef(o)
    BY <1>1, <1>8
  <2>2. d.reply = "done" => \E i \in DOMAIN ledger[Customer] :
          ledger[Customer][i].ref = d.ref /\ ledger[Customer][i].amount = d.amount
    BY <1>0, <1>1, <1>6, <1>8, <2>1 DEF EntryOf
  <2>3. d.step = "idle" /\ d.reply = "done" => Moved(d)'
    BY <1>3, <1>6, <2>2 DEF Moved
  <2> QED BY <1>2, <1>3, <1>4, <1>5, <1>6, <2>1, <2>3, PlainStep
          DEF CallOK, DeductOK, Crediting, Moved
<1> QED BY <1>7, <1>8

LEMMA StartWithdrawStep ==
  ASSUME RequestsInv, NEW r \in Callers, NEW b \in Bodies,
         \/ \E k \in Keys : StartWithdrawKeyed(r, b, k)
         \/ StartWithdrawDerived(r, b)
  PROVE  RequestsInv'
<1>1. PICK d : /\ call' = [call EXCEPT ![r] = d]
               /\ \/ \E k \in Keys : d = [step |-> "adjust", op |-> "withdraw", wallet |-> Store,
                        ref |-> WithdrawRef(k), amount |-> b.amount,
                        dest |-> b.destination, reply |-> ""]
                  \/ \E s \in {"idle", "derive"}, a \in {"twice", ""} :
                       /\ d = [step |-> s, op |-> "withdraw", wallet |-> Store,
                        ref |-> DerivedRef(b.name, minute), amount |-> b.amount,
                        dest |-> b.destination, reply |-> a]
  BY DEF StartWithdrawKeyed, StartWithdrawDerived
<1>2. call'[r] = d
  BY <1>1 DEF RequestsInv, RequestTypeOK
<1>3. UNCHANGED <<balance, ledger, claimed, sentTo, unread, minute, crashed>> /\ call[r].step = "idle"
  BY DEF StartWithdrawKeyed, StartWithdrawDerived, Stands
<1>4. Extends /\ LedgerInv'
  BY <1>3, StillExtends DEF RequestsInv, ledgerVars
<1>5. minute \in 0..LastMinute
  BY DEF RequestsInv, RequestTypeOK
<1> DEFINE Fits == /\ d \in CallRecords /\ d.op = "withdraw"
                   /\ d.step \in {"adjust", "idle", "derive"} /\ d.reply \in {"", "twice"}
                   /\ d.ref.op = "wd"
                   /\ d.step = "derive" => d.ref = DerivedRef(b.name, minute)
<1>6. /\ Store \in Wallets /\ b.amount \in Amounts /\ b.destination \in Dests
      /\ DerivedRef(b.name, minute) \in Refs /\ DerivedRef(b.name, minute).op = "wd"
      /\ \A k \in Keys : WithdrawRef(k) \in Refs /\ WithdrawRef(k).op = "wd"
  BY <1>5, RequestAssumption DEF Dests, WithdrawRef, DerivedRef, Ref
<1>7. Fits
  <2>1. ASSUME NEW k \in Keys,
               d = [step |-> "adjust", op |-> "withdraw", wallet |-> Store,
                    ref |-> WithdrawRef(k), amount |-> b.amount,
                    dest |-> b.destination, reply |-> ""]
        PROVE  Fits
    BY ONLY <1>6, <2>1 DEF CallRecords, Answers
  <2>2. ASSUME NEW s \in {"idle", "derive"}, NEW a \in {"twice", ""},
               d = [step |-> s, op |-> "withdraw", wallet |-> Store,
                    ref |-> DerivedRef(b.name, minute), amount |-> b.amount,
                    dest |-> b.destination, reply |-> a]
        PROVE  Fits
    BY ONLY <1>6, <2>2 DEF CallRecords, Answers
  <2> QED BY <1>1, <2>1, <2>2
<1>8. CallOK(call[r])'
  BY <1>2, <1>3, <1>5, <1>7 DEF CallOK, WithdrawOK, Crediting
<1> QED BY <1>1, <1>2, <1>3, <1>4, <1>7, <1>8, PlainStep DEF Crediting

\* What is left of a request's record when it proceeds or answers.
LEMMA Proceeded ==
  ASSUME RequestsInv, NEW r \in Callers, call[r] \in CallRecords,
         NEW s \in {"adjust", "replay", "compare", "unclaim"}, Proceed(r, s)
  PROVE  /\ call' = [call EXCEPT ![r] = call'[r]] /\ call'[r] \in CallRecords
         /\ call'[r].step = s /\ call'[r].op = call[r].op /\ call'[r].wallet = call[r].wallet
         /\ call'[r].ref = call[r].ref /\ call'[r].amount = call[r].amount
         /\ call'[r].dest = call[r].dest
<1>1. PICK c : c = call[r]
  OBVIOUS
<1>2. PICK d : d = [c EXCEPT !.step = s]
  OBVIOUS
<1>3. call' = [call EXCEPT ![r] = d] /\ call'[r] = d
  BY <1>1, <1>2 DEF Proceed, RequestsInv, RequestTypeOK
<1>4. c \in [step : {"idle", "adjust", "derive", "replay", "compare", "credit", "unclaim"},
             op : {"deduct", "withdraw", "topup"}, wallet : Wallets, ref : Refs,
             amount : Amounts, dest : Dests, reply : Answers]
  BY <1>1 DEF CallRecords
<1>5. /\ d \in CallRecords
      /\ d.step = s /\ d.op = c.op /\ d.wallet = c.wallet
      /\ d.ref = c.ref /\ d.amount = c.amount /\ d.dest = c.dest
  BY ONLY <1>2, <1>4, s \in {"adjust", "replay", "compare", "unclaim"} DEF CallRecords
<1> QED BY <1>1, <1>3, <1>5

LEMMA Answered ==
  ASSUME RequestsInv, NEW r \in Callers, call[r] \in CallRecords,
         NEW a \in Answers, Answer(r, a)
  PROVE  /\ call' = [call EXCEPT ![r] = call'[r]] /\ call'[r] \in CallRecords
         /\ call'[r].step = "idle" /\ call'[r].reply = a
         /\ call'[r].op = call[r].op /\ call'[r].wallet = call[r].wallet
         /\ call'[r].ref = call[r].ref /\ call'[r].amount = call[r].amount
         /\ call'[r].dest = call[r].dest
<1>1. PICK c : c = call[r]
  OBVIOUS
<1>2. PICK d : d = [[c EXCEPT !.step = "idle"] EXCEPT !.reply = a]
  OBVIOUS
<1>3. call' = [call EXCEPT ![r] = d] /\ call'[r] = d
  BY <1>1, <1>2 DEF Answer, RequestsInv, RequestTypeOK
<1>4. c \in [step : {"idle", "adjust", "derive", "replay", "compare", "credit", "unclaim"},
             op : {"deduct", "withdraw", "topup"}, wallet : Wallets, ref : Refs,
             amount : Amounts, dest : Dests, reply : Answers]
  BY <1>1 DEF CallRecords
<1>5. /\ d \in CallRecords
      /\ d.step = "idle" /\ d.reply = a /\ d.op = c.op /\ d.wallet = c.wallet
      /\ d.ref = c.ref /\ d.amount = c.amount /\ d.dest = c.dest
  BY ONLY <1>2, <1>4, a \in Answers DEF CallRecords
<1> QED BY <1>1, <1>3, <1>5

\* A request at work is of one kind, and keeps what it knew of itself.
LEMMA StillFits ==
  ASSUME RequestsInv, NEW r \in Callers, call[r] \in CallRecords, call'[r] \in CallRecords,
         Extends, claimed' = claimed,
         ~Stands(r, "idle"), ~Stands(r, "derive"), call'[r].step # "derive",
         Crediting(call'[r]) => Crediting(call[r]),
         ~Crediting(call'[r]) /\ call'[r].step # "idle" => ~Crediting(call[r]),
         call'[r].op = call[r].op, call'[r].wallet = call[r].wallet,
         call'[r].ref = call[r].ref
  PROVE  /\ call'[r].op = "deduct" => DeductOK(call[r])'
         /\ call'[r].op = "withdraw" => WithdrawOK(call[r])'
         /\ call'[r].op = "topup" => TopUpOK(call[r])'
<1>1. CallOK(call[r]) /\ call[r] # Idle /\ call[r].step # "idle"
  BY CallShape DEF Stands
<1>2. ASSUME call'[r].op = "deduct" PROVE DeductOK(call[r])'
  <2>1. PICK o \in Orders : call[r].ref = DeductRef(o)
                            /\ FreeToDebit(o)
    BY <1>1, <1>2 DEF CallOK, DeductOK
  <2>2. FreeToDebit(o)'
    BY <2>1, RowsRemain
  <2>3. ~Crediting(call[r]) /\ call[r].wallet = Customer
    BY <1>1, <1>2 DEF CallOK, DeductOK
  <2> QED BY <2>1, <2>2, <2>3 DEF DeductOK, Crediting
<1>3. ASSUME call'[r].op = "withdraw" PROVE WithdrawOK(call[r])'
  BY <1>1, <1>3 DEF CallOK, WithdrawOK, Crediting
<1>4. ASSUME call'[r].op = "topup" PROVE TopUpOK(call[r])'
  BY <1>1, <1>4 DEF CallOK, TopUpOK, Crediting, CallRecords
<1> QED BY <1>2, <1>3, <1>4

LEMMA DeriveKeyStep ==
  ASSUME RequestsInv, NEW r \in Callers, DeriveKey(r)
  PROVE  RequestsInv'
<1>1. PICK c : c = call[r]
  OBVIOUS
<1>2. /\ c \in CallRecords /\ c # Idle /\ CallOK(c) /\ c.step = "derive"
      /\ UNCHANGED <<balance, ledger, claimed, sentTo, unread, minute, crashed>>
  BY <1>1, CallShape DEF DeriveKey, Stands
<1>3. PICK f : f = [c.ref EXCEPT !.bucket = minute]
  OBVIOUS
<1>4. PICK d : d = [[c EXCEPT !.step = "adjust"] EXCEPT !.ref = f]
  OBVIOUS
<1>5. call' = [call EXCEPT ![r] = d] /\ call'[r] = d
  BY <1>1, <1>3, <1>4 DEF DeriveKey, RequestsInv, RequestTypeOK
<1>6. c.op = "withdraw"
  BY <1>2 DEF CallOK, DeductOK, TopUpOK, CallRecords
<1>7. f \in Refs /\ f.op = "wd"
  <2>1. PICK b \in Bodies, m \in 0..LastMinute : c.ref = DerivedRef(b.name, m)
    BY <1>2, <1>6 DEF CallOK, WithdrawOK
  <2>2. f = DerivedRef(b.name, minute)
    BY <1>3, <2>1 DEF DerivedRef, Ref
  <2>3. minute \in 0..LastMinute
    BY DEF RequestsInv, RequestTypeOK
  <2> QED BY <2>2, <2>3, RequestAssumption DEF DerivedRef, Ref
<1>8. c \in [step : {"idle", "adjust", "derive", "replay", "compare", "credit", "unclaim"},
             op : {"deduct", "withdraw", "topup"}, wallet : Wallets, ref : Refs,
             amount : Amounts, dest : Dests, reply : Answers]
  BY <1>2 DEF CallRecords
<1>9. d \in CallRecords /\ d.step = "adjust" /\ d.op = "withdraw" /\ d.ref = f
  BY ONLY <1>4, <1>6, <1>7, <1>8 DEF CallRecords
<1>10. CallOK(call[r])'
  BY <1>5, <1>7, <1>9 DEF CallOK, WithdrawOK, Crediting
<1>11. Extends /\ LedgerInv'
  BY <1>2, StillExtends DEF RequestsInv, ledgerVars
<1> QED BY <1>1, <1>2, <1>5, <1>9, <1>10, <1>11, PlainStep DEF Crediting

\* The debit of a request at "adjust".
LEMMA DebitMoves ==
  ASSUME RequestsInv, NEW r \in Callers, Stands(r, "adjust"), Debit(r), SendTo(r), UNCHANGED unread
  PROVE  /\ Extends /\ LedgerInv' /\ sentTo \subseteq sentTo'
         /\ \E i \in DOMAIN ledger'[call[r].wallet] :
              /\ ledger'[call[r].wallet][i].ref = call[r].ref
              /\ ledger'[call[r].wallet][i].amount = call[r].amount
         /\ <<call[r].ref, call[r].dest>> \in sentTo'
<1>1. PICK c : c = call[r]
  OBVIOUS
<1>2. /\ c \in CallRecords /\ c # Idle /\ CallOK(c) /\ c.step = "adjust"
      /\ c.wallet \in Wallets /\ c.ref \in Refs /\ c.amount \in Amounts
  BY <1>1, CallShape DEF Stands
<1>3. \/ c.ref.op = "wd"
      \/ \E o \in Orders : c.ref = DeductRef(o) /\ FreeToDebit(o)
  BY <1>2 DEF CallOK, DeductOK, WithdrawOK, TopUpOK, CallRecords
<1>4. AdjustWalletBalance(c.wallet, "debit", c.amount, c.ref)
  BY <1>1 DEF Debit
<1>5. /\ Extends /\ LedgerInv'
      /\ \E i \in DOMAIN ledger'[c.wallet] : /\ ledger'[c.wallet][i].type = "debit"
                                             /\ ledger'[c.wallet][i].ref = c.ref
                                             /\ ledger'[c.wallet][i].amount = c.amount
  <2>1. unread \subseteq unread' /\ LedgerInv /\ "debit" \in TxnTypes
    BY DEF RequestsInv, TxnTypes
  <2>2. PICK w \in Wallets, f \in Refs, n \in Amounts : w = c.wallet /\ f = c.ref /\ n = c.amount
    BY <1>2
  <2>3. f.op = "wd" \/ \E o \in Orders : f = DeductRef(o) /\ FreeToDebit(o)
    BY <1>3, <2>2
  <2>4. AdjustWalletBalance(w, "debit", n, f)
    BY <1>4, <2>2
  <2>5. /\ Extends /\ LedgerInv'
        /\ \E i \in DOMAIN ledger'[w] : /\ ledger'[w][i].type = "debit"
                                        /\ ledger'[w][i].ref = f /\ ledger'[w][i].amount = n
    <3>1. CASE f.op = "wd"
      BY <2>1, <2>4, <3>1, MovementExtends
    <3>2. CASE \E o \in Orders : f = DeductRef(o) /\ FreeToDebit(o)
      BY <2>1, <2>4, <3>2, MovementExtends
    <3> QED BY <2>3, <3>1, <3>2
  <2> QED BY <2>2, <2>5
<1>6. sentTo' = sentTo \cup {<<c.ref, c.dest>>}
  BY <1>1 DEF SendTo
<1> QED BY <1>1, <1>5, <1>6

\* A request that is not about a top-up answers, and a yes is true.
LEMMA AnswerStep ==
  ASSUME RequestsInv, Extends, LedgerInv', NEW r \in Callers, NEW a \in Answers,
         ~Stands(r, "idle"), ~Stands(r, "derive"), ~Crediting(call[r]), Answer(r, a),
         sentTo \subseteq sentTo', UNCHANGED <<claimed, minute, crashed>>,
         a = "done" => Moved(call[r])'
  PROVE  RequestsInv'
<1>1. call[r] \in CallRecords
  BY CallShape
<1>2. /\ call' = [call EXCEPT ![r] = call'[r]] /\ call'[r] \in CallRecords
      /\ call'[r].step = "idle" /\ call'[r].reply = a
      /\ call'[r].op = call[r].op /\ call'[r].wallet = call[r].wallet
      /\ call'[r].ref = call[r].ref
  BY <1>1, Answered
<1>3. ~Crediting(call'[r]) /\ call'[r].step # "derive"
  BY <1>2 DEF Crediting
<1>4. /\ call'[r].op = "deduct" => DeductOK(call[r])'
      /\ call'[r].op = "withdraw" => WithdrawOK(call[r])'
      /\ call'[r].op = "topup" => TopUpOK(call[r])'
  BY <1>1, <1>2, <1>3, StillFits
<1>5. CallOK(call[r])'
  BY <1>2, <1>4 DEF CallOK
<1> QED BY <1>2, <1>3, <1>5, PlainStep

\* Or it goes on to look at the entries.
LEMMA ProceedStep ==
  ASSUME RequestsInv, NEW r \in Callers, NEW s \in {"replay", "compare"},
         ~Stands(r, "idle"), ~Stands(r, "derive"), ~Crediting(call[r]), Proceed(r, s),
         UNCHANGED <<balance, ledger, claimed, sentTo, minute, crashed>>, unread \subseteq unread',
         s = "compare" => HasLedgerEntry(call[r].wallet, "debit", call[r].ref)
  PROVE  RequestsInv'
<1>1. call[r] \in CallRecords
  BY CallShape
<1>2. /\ call' = [call EXCEPT ![r] = call'[r]] /\ call'[r] \in CallRecords
      /\ call'[r].step = s /\ call'[r].op = call[r].op
      /\ call'[r].wallet = call[r].wallet /\ call'[r].ref = call[r].ref
  BY <1>1, Proceeded
<1>3. Extends /\ LedgerInv'
  BY StillExtends DEF RequestsInv, ledgerVars
<1>4. ~Crediting(call'[r]) /\ call'[r].step # "derive"
  BY <1>2 DEF Crediting
<1>5. /\ call'[r].op = "deduct" => DeductOK(call[r])'
      /\ call'[r].op = "withdraw" => WithdrawOK(call[r])'
      /\ call'[r].op = "topup" => TopUpOK(call[r])'
  BY <1>1, <1>2, <1>3, <1>4, StillFits
<1>6. call'[r].step = "compare" => HasLedgerEntry(call[r].wallet, "debit", call[r].ref)'
  BY <1>2 DEF HasLedgerEntry
<1>7. CallOK(call[r])'
  BY <1>2, <1>5, <1>6 DEF CallOK
<1> QED BY <1>2, <1>3, <1>4, <1>7, PlainStep

LEMMA AdjustStep ==
  ASSUME RequestsInv, NEW r \in Callers,
         AdjustDone(r) \/ AdjustRefused(r) \/ AdjustFails(r)
  PROVE  RequestsInv'
<1>1. Stands(r, "adjust") /\ ~Stands(r, "idle") /\ ~Stands(r, "derive") /\ ~Crediting(call[r])
  BY DEF AdjustDone, AdjustRefused, AdjustFails, Stands, Crediting
<1>2. UNCHANGED <<claimed, unread, minute, crashed>>
  BY DEF AdjustDone, AdjustRefused, AdjustFails
<1>3. /\ call[r] \in CallRecords
      /\ "done" \in Answers /\ "failed" \in Answers
  BY <1>1, CallShape DEF Answers
<1>4. CASE AdjustDone(r)
  <2>1. Debit(r) /\ SendTo(r) /\ Answer(r, "done")
    BY <1>4 DEF AdjustDone
  <2>2. Extends /\ LedgerInv' /\ sentTo \subseteq sentTo'
    BY <1>1, <1>2, <2>1, DebitMoves
  <2>3. /\ call'[r].wallet = call[r].wallet /\ call'[r].ref = call[r].ref
        /\ call'[r].amount = call[r].amount /\ call'[r].dest = call[r].dest
    BY <1>3, <2>1, Answered
  <2>4. Moved(call[r])'
    BY <1>1, <1>2, <2>1, <2>3, DebitMoves DEF Moved
  <2> QED BY <1>1, <1>2, <1>3, <2>1, <2>2, <2>4, AnswerStep
<1>5. CASE AdjustRefused(r)
  <2>1. UNCHANGED <<balance, ledger, claimed, sentTo, unread, minute, crashed>>
    BY <1>5 DEF AdjustRefused
  <2>2. CASE Proceed(r, "replay")
    BY <1>1, <2>1, <2>2, ProceedStep
  <2>3. CASE Duplicate(call[r].wallet, "debit", call[r].ref) /\ Proceed(r, "compare")
    <3>1. HasLedgerEntry(call[r].wallet, "debit", call[r].ref)
      BY <2>3 DEF Duplicate
    <3> QED BY <1>1, <2>1, <2>3, <3>1, ProceedStep
  <2> QED BY <1>5, <2>2, <2>3 DEF AdjustRefused
<1>6. CASE AdjustFails(r)
  <2>1. Answer(r, "failed")
    BY <1>6 DEF AdjustFails
  <2>2. Extends /\ LedgerInv' /\ sentTo \subseteq sentTo'
    <3>1. CASE UNCHANGED <<balance, ledger, sentTo>>
      BY <1>2, <3>1, StillExtends DEF RequestsInv, ledgerVars
    <3>2. CASE Debit(r) /\ SendTo(r)
      BY <1>1, <1>2, <3>2, DebitMoves
    <3> QED BY <1>6, <3>1, <3>2 DEF AdjustFails
  <2> QED BY <1>1, <1>2, <1>3, <2>1, <2>2, AnswerStep
<1> QED BY <1>4, <1>5, <1>6

LEMMA LookStep ==
  ASSUME RequestsInv, NEW r \in Callers, ReplayCheck(r) \/ Compare(r)
  PROVE  RequestsInv'
<1>1. ~Stands(r, "idle") /\ ~Stands(r, "derive") /\ ~Crediting(call[r])
  BY DEF ReplayCheck, Compare, Stands, Crediting
<1>2. UNCHANGED <<balance, ledger, claimed, sentTo, minute, crashed>> /\ unread \subseteq unread'
  BY DEF ReplayCheck, Compare
<1>3. Extends /\ LedgerInv' /\ sentTo \subseteq sentTo'
  BY <1>2, StillExtends DEF RequestsInv, ledgerVars
<1>4. /\ call[r] \in CallRecords /\ CallOK(call[r]) /\ call[r] # Idle
      /\ {"done", "differs", "insufficient", "failed"} \subseteq Answers
  BY <1>1, CallShape DEF Answers
<1>5. CASE ReplayCheck(r)
  <2>1. CASE HasLedgerEntry(call[r].wallet, "debit", call[r].ref) /\ Proceed(r, "compare")
    BY <1>1, <1>2, <2>1, ProceedStep
  <2>2. CASE Answer(r, "insufficient")
    BY <1>1, <1>2, <1>3, <1>4, <2>2, AnswerStep
  <2> QED BY <1>5, <2>1, <2>2 DEF ReplayCheck
<1>6. CASE Compare(r)
  <2> DEFINE same == /\ \A i \in EntryOf(call[r].wallet, "debit", call[r].ref) :
                          ledger[call[r].wallet][i].amount = call[r].amount
                     /\ <<call[r].ref, call[r].dest>> \in sentTo
  <2>1. Answer(r, "failed") \/ Answer(r, IF same THEN "done" ELSE "differs")
    BY <1>6 DEF Compare
  <2>2. CASE same /\ Answer(r, "done")
    <3>1. Answer(r, "done") /\ same
      BY <2>2
    <3>2. HasLedgerEntry(call[r].wallet, "debit", call[r].ref)
      BY <1>4, <1>6 DEF CallOK, Compare, Stands
    <3>3. Moved(call[r])
      BY <3>1, <3>2 DEF Moved, HasLedgerEntry, EntryOf
    <3>4. /\ call'[r].wallet = call[r].wallet /\ call'[r].ref = call[r].ref
          /\ call'[r].amount = call[r].amount /\ call'[r].dest = call[r].dest
          /\ call'[r].op = call[r].op
      BY <1>4, <3>1, Answered
    <3>5. Moved(call[r])'
      BY <1>2, <3>3, <3>4 DEF Moved
    <3> QED BY <1>1, <1>2, <1>3, <1>4, <3>1, <3>5, AnswerStep
  <2>3. CASE Answer(r, "differs")
    BY <1>1, <1>2, <1>3, <1>4, <2>3, AnswerStep
  <2>4. CASE Answer(r, "failed")
    BY <1>1, <1>2, <1>3, <1>4, <2>4, AnswerStep
  <2> QED BY <2>1, <2>2, <2>3, <2>4
<1> QED BY <1>5, <1>6

\* A charge that was free is this request's, and one already claimed goes on
\* being followed.
LEMMA ClaimTopUpStep ==
  ASSUME RequestsInv, NEW r \in Callers, NEW p \in TopUps, ClaimTopUp(r, p)
  PROVE  RequestsInv'
<1>1. PICK d : d = [step |-> IF p \in claimed THEN "idle" ELSE "credit", op |-> "topup",
        wallet |-> Customer, ref |-> TopUpRef(p), amount |-> 1, dest |-> "",
        reply |-> IF p \in claimed THEN "used" ELSE ""]
  OBVIOUS
<1>2. call' = [call EXCEPT ![r] = d] /\ call'[r] = d /\ claimed \subseteq TopUps
  BY <1>1 DEF ClaimTopUp, RequestsInv, RequestTypeOK
<1>3. /\ UNCHANGED <<balance, ledger, sentTo, unread, minute, crashed>> /\ call[r].step = "idle"
      /\ claimed' = claimed \cup {p}
  BY DEF ClaimTopUp, Stands
<1>4. Extends /\ LedgerInv'
  BY <1>3, StillExtends DEF RequestsInv, ledgerVars
<1>5. /\ d \in CallRecords /\ d.op = "topup" /\ d.wallet = Customer /\ d.ref = TopUpRef(p)
      /\ d.step = (IF p \in claimed THEN "idle" ELSE "credit") /\ d.reply # "done"
  BY <1>1, RequestAssumption DEF CallRecords, Answers, Dests
<1>6. CallOK(call[r])'
  BY <1>2, <1>3, <1>5 DEF CallOK, TopUpOK, Crediting
<1>7. \A s \in Callers, q \in TopUps :
        Crediting(call[s]) /\ call[s].ref = TopUpRef(q) => q \in claimed
  <2>1. SUFFICES ASSUME NEW s \in Callers, NEW q \in TopUps, Crediting(call[s]),
                        call[s].ref = TopUpRef(q)
                 PROVE  q \in claimed
    OBVIOUS
  <2>2. call[s] \in CallRecords /\ call[s] # Idle /\ CallOK(call[s])
    BY <2>1, CallShape DEF Stands, Crediting
  <2>3. call[s].op = "topup"
    BY <2>1, <2>2 DEF CallOK, DeductOK, WithdrawOK, CallRecords
  <2>4. PICK u \in TopUps : call[s].ref = TopUpRef(u) /\ u \in claimed
    BY <2>1, <2>2, <2>3 DEF CallOK, TopUpOK
  <2>5. TopUpRef(u).key = u /\ TopUpRef(q).key = q
    BY DEF TopUpRef, Ref
  <2> QED BY <2>1, <2>4, <2>5
<1>8. Crediting(call'[r]) => \A s \in Callers \ {r} :
        ~(Crediting(call[s]) /\ call[s].ref = call'[r].ref)
  BY <1>2, <1>5, <1>7 DEF Crediting
<1>9. ClaimsFollowed'
  <2>1. SUFFICES ASSUME ~crashed', NEW q \in claimed'
                 PROVE  \/ HasLedgerEntry(Customer, "credit", TopUpRef(q))'
                        \/ \E s \in Callers : Crediting(call'[s]) /\ call'[s].ref = TopUpRef(q)
    BY DEF ClaimsFollowed, Crediting
  <2>2. CASE q \in claimed
    <3>1. CASE HasLedgerEntry(Customer, "credit", TopUpRef(q))
      BY <1>3, <3>1 DEF HasLedgerEntry
    <3>2. CASE \E s \in Callers : Crediting(call[s]) /\ call[s].ref = TopUpRef(q)
      <4>1. PICK s \in Callers : Crediting(call[s]) /\ call[s].ref = TopUpRef(q)
        BY <3>2
      <4>2. s # r /\ call'[s] = call[s]
        BY <1>2, <1>3, <4>1 DEF Crediting, RequestsInv, RequestTypeOK
      <4> QED BY <4>1, <4>2
    <3> QED BY <1>3, <2>1, <2>2, <3>1, <3>2 DEF RequestsInv, ClaimsFollowed
  <2>3. CASE q \notin claimed
    BY <1>2, <1>3, <1>5, <2>1, <2>3 DEF Crediting
  <2> QED BY <2>2, <2>3
<1>10. claimed' \subseteq TopUps /\ claimed \ claimed' = {}
  BY <1>2, <1>3
<1> QED BY <1>2, <1>3, <1>4, <1>5, <1>6, <1>8, <1>9, <1>10, RequestStep

\* Who is at a claim has it to itself, and the credit, once there, follows it.
LEMMA ClaimHolder ==
  ASSUME RequestsInv, NEW r \in Callers, Crediting(call[r])
  PROVE  /\ call[r] \in CallRecords /\ call[r].op = "topup" /\ call[r].wallet = Customer
         /\ ~Stands(r, "idle") /\ ~Stands(r, "derive")
         /\ \E p \in TopUps : call[r].ref = TopUpRef(p) /\ p \in claimed
         /\ \A s \in Callers \ {r} : ~(Crediting(call[s]) /\ call[s].ref = call[r].ref)
<1>1. ~Stands(r, "idle") /\ ~Stands(r, "derive")
  BY DEF Stands, Crediting
<1>2. call[r] \in CallRecords /\ call[r] # Idle /\ CallOK(call[r])
  BY <1>1, CallShape
<1>3. call[r].op = "topup"
  BY <1>2 DEF CallOK, DeductOK, WithdrawOK, CallRecords
<1>4. TopUpOK(call[r])
  BY <1>2, <1>3 DEF CallOK
<1> QED BY <1>1, <1>2, <1>3, <1>4 DEF TopUpOK, RequestsInv, OneClaimer

\* The others' claims are followed as before, and r's if it is credited or r
\* is still at it.
LEMMA ClaimsStayFollowed ==
  ASSUME RequestsInv, Extends, NEW r \in Callers, \A s \in Callers \ {r} : call'[s] = call[s],
         claimed' \subseteq claimed, crashed' = crashed,
         \A p \in claimed' : Crediting(call[r]) /\ call[r].ref = TopUpRef(p) =>
           \/ HasLedgerEntry(Customer, "credit", TopUpRef(p))'
           \/ Crediting(call'[r]) /\ call'[r].ref = TopUpRef(p)
  PROVE  ClaimsFollowed'
<1>1. SUFFICES ASSUME ~crashed', NEW p \in claimed'
               PROVE  \/ HasLedgerEntry(Customer, "credit", TopUpRef(p))'
                      \/ \E s \in Callers : Crediting(call'[s]) /\ call'[s].ref = TopUpRef(p)
  BY DEF ClaimsFollowed, Crediting
<1>2. p \in claimed /\ TopUpRef(p) \in Refs /\ Customer \in Wallets
  BY RequestAssumption DEF RequestsInv, RequestTypeOK
<1>3. CASE HasLedgerEntry(Customer, "credit", TopUpRef(p))
  BY <1>2, <1>3, RowsRemain DEF TxnTypes
<1>4. CASE \E s \in Callers : Crediting(call[s]) /\ call[s].ref = TopUpRef(p)
  <2>1. PICK s \in Callers : Crediting(call[s]) /\ call[s].ref = TopUpRef(p)
    BY <1>4
  <2> QED BY <2>1
<1> QED BY <1>1, <1>2, <1>3, <1>4 DEF RequestsInv, ClaimsFollowed

LEMMA CreditTopUpStep ==
  ASSUME RequestsInv, NEW r \in Callers, CreditTopUp(r)
  PROVE  RequestsInv'
<1>1. /\ UNCHANGED <<claimed, sentTo, unread, minute, crashed>> /\ Stands(r, "credit")
      /\ Crediting(call[r])
  BY DEF CreditTopUp, Stands, Crediting
<1>2. /\ call[r] \in CallRecords /\ call[r].op = "topup" /\ call[r].wallet = Customer
      /\ ~Stands(r, "idle") /\ ~Stands(r, "derive")
      /\ \A s \in Callers \ {r} : ~(Crediting(call[s]) /\ call[s].ref = call[r].ref)
  BY <1>1, ClaimHolder
<1>3. PICK p \in TopUps : call[r].ref = TopUpRef(p) /\ p \in claimed
  BY <1>1, ClaimHolder
<1>4. /\ Customer \in Wallets /\ TopUpRef(p) \in Refs /\ TopUpRef(p).op = "top"
      /\ TopUpRef(p) # NoRef /\ \A q \in TopUps : TopUpRef(q) = TopUpRef(p) => q = p
  BY RequestAssumption DEF TopUpRef, Ref
<1>5. call[r].amount \in Amounts /\ "done" \in Answers /\ "used" \in Answers
  BY <1>2 DEF CallRecords, Answers
<1> DEFINE There == \E i \in DOMAIN ledger'[Customer] :
                      /\ ledger'[Customer][i].type = "credit"
                      /\ ledger'[Customer][i].ref = TopUpRef(p)
           Goes(s, a) == /\ call' = [call EXCEPT ![r] = call'[r]] /\ call'[r] \in CallRecords
                         /\ call'[r].step = s /\ call'[r].op = "topup"
                         /\ call'[r].wallet = Customer /\ call'[r].ref = TopUpRef(p)
                         /\ s = "idle" => call'[r].reply = a
<1>6. CreditCustomer(r) =>
        /\ Extends /\ LedgerInv'
        /\ \E i \in DOMAIN ledger'[Customer] : /\ ledger'[Customer][i].type = "credit"
                                               /\ ledger'[Customer][i].ref = TopUpRef(p)
                                               /\ ledger'[Customer][i].amount = call[r].amount
  <2>1. PICK a \in Amounts : a = call[r].amount
    BY <1>5
  <2>2. ASSUME CreditCustomer(r)
        PROVE  AdjustWalletBalance(Customer, "credit", a, TopUpRef(p))
    BY <1>3, <2>1, <2>2 DEF CreditCustomer
  <2>3. unread \subseteq unread' /\ LedgerInv /\ "credit" \in TxnTypes
    BY DEF RequestsInv, TxnTypes, CreditTopUp
  <2> QED BY <1>4, <2>1, <2>2, <2>3, MovementExtends
<1>7. UNCHANGED ledgerVars => Extends /\ LedgerInv'
  BY StillExtends DEF RequestsInv, CreditTopUp
<1>8. \/ Extends /\ LedgerInv' /\ There /\ Goes("idle", "done") /\ Moved(call[r])'
      \/ Extends /\ LedgerInv' /\ There /\ Goes("idle", "used")
      \/ Extends /\ LedgerInv' /\ Goes("unclaim", "")
  <2>1. ASSUME CreditCustomer(r), Answer(r, "done")
        PROVE  Extends /\ LedgerInv' /\ There /\ Goes("idle", "done") /\ Moved(call[r])'
    <3>1. Goes("idle", "done") /\ call'[r].amount = call[r].amount
      BY <1>2, <1>3, <1>5, <2>1, Answered
    <3>2. Extends /\ LedgerInv' /\ There
      BY <1>6, <2>1
    <3>3. Moved(call[r])'
      BY <1>6, <2>1, <3>1 DEF Moved
    <3> QED BY <3>1, <3>2, <3>3
  <2>2. ASSUME Duplicate(Customer, "credit", call[r].ref), Answer(r, "used"), UNCHANGED ledgerVars
        PROVE  Extends /\ LedgerInv' /\ There /\ Goes("idle", "used")
    <3>1. Goes("idle", "used")
      BY <1>2, <1>3, <1>5, <2>2, Answered
    <3>2. PICK v \in Wallets : HasLedgerEntry(v, "credit", TopUpRef(p))
      BY <1>3, <2>2 DEF Duplicate
    <3>3. PICK i \in DOMAIN ledger[v] : ledger[v][i].type = "credit"
                                        /\ ledger[v][i].ref = TopUpRef(p)
      BY <3>2 DEF HasLedgerEntry
    <3>4. v = Customer
      BY <1>4, <3>3 DEF RequestsInv, CreditsAtHome
    <3>5. There
      BY <2>2, <3>3, <3>4 DEF ledgerVars
    <3> QED BY <1>7, <2>2, <3>1, <3>5
  <2>3. ASSUME Proceed(r, "unclaim"), UNCHANGED ledgerVars \/ CreditCustomer(r)
        PROVE  Extends /\ LedgerInv' /\ Goes("unclaim", "")
    <3>1. Goes("unclaim", "")
      BY <1>2, <1>3, <2>3, Proceeded
    <3> QED BY <1>6, <1>7, <2>3, <3>1
  <2> QED BY <2>1, <2>2, <2>3 DEF CreditTopUp
<1>9. Extends /\ LedgerInv' /\ \E s \in {"idle", "unclaim"}, a \in Answers : Goes(s, a)
  BY <1>5, <1>8 DEF Answers
<1>10. CallOK(call[r])'
  <2>1. TopUpOK(call[r])'
    BY <1>1, <1>3, <1>9 DEF TopUpOK, Crediting
  <2>2. call'[r].step = "idle" /\ call'[r].reply = "done" => Moved(call[r])'
    BY <1>8
  <2>3. call'[r].op = "topup" /\ call'[r].step # "compare" /\ call'[r] \in CallRecords
    BY <1>9
  <2> QED BY <2>1, <2>2, <2>3 DEF CallOK
<1>11. /\ call' = [call EXCEPT ![r] = call'[r]] /\ call'[r] \in CallRecords \cup {Idle}
       /\ call'[r].ref = call[r].ref /\ \A s \in Callers \ {r} : call'[s] = call[s]
       /\ claimed \subseteq TopUps
  BY <1>3, <1>9 DEF RequestsInv, RequestTypeOK
<1>12. ClaimsFollowed'
  <2>1. ASSUME NEW q \in claimed', call[r].ref = TopUpRef(q)
        PROVE  \/ HasLedgerEntry(Customer, "credit", TopUpRef(q))'
               \/ Crediting(call'[r]) /\ call'[r].ref = TopUpRef(q)
    <3>1. q = p
      BY <1>1, <1>3, <1>4, <1>11, <2>1
    <3>2. CASE There
      BY <3>1, <3>2 DEF HasLedgerEntry
    <3>3. CASE Goes("unclaim", "")
      BY <3>1, <3>3 DEF Crediting
    <3> QED BY <1>8, <3>2, <3>3
  <2> QED BY <1>1, <1>9, <1>11, <2>1, ClaimsStayFollowed
<1>13. \A s \in Callers \ {r} : ~(Crediting(call[s]) /\ call[s].ref = call'[r].ref)
  BY <1>2, <1>11
<1> QED BY <1>1, <1>9, <1>10, <1>11, <1>12, <1>13, RequestStep

\* The claim that is given up is nobody else's.
LEMMA UnclaimStep ==
  ASSUME RequestsInv, NEW r \in Callers, Unclaim(r)
  PROVE  RequestsInv'
<1>1. /\ UNCHANGED <<balance, ledger, sentTo, unread, minute, crashed>> /\ Crediting(call[r])
      /\ Answer(r, "failed") /\ claimed' = claimed \ {call[r].ref.key}
  BY DEF Unclaim, Stands, Crediting
<1>2. /\ call[r] \in CallRecords /\ call[r].op = "topup" /\ call[r].wallet = Customer
      /\ \A s \in Callers \ {r} : ~(Crediting(call[s]) /\ call[s].ref = call[r].ref)
  BY <1>1, ClaimHolder
<1>3. PICK p \in TopUps : call[r].ref = TopUpRef(p) /\ p \in claimed
  BY <1>1, ClaimHolder
<1>4. TopUpRef(p).key = p /\ \A q \in TopUps : TopUpRef(q) = TopUpRef(p) => q = p
  BY DEF TopUpRef, Ref
<1>5. /\ call' = [call EXCEPT ![r] = call'[r]] /\ call'[r] \in CallRecords
      /\ call'[r].step = "idle" /\ call'[r].reply = "failed" /\ call'[r].op = "topup"
      /\ call'[r].wallet = Customer /\ call'[r].ref = TopUpRef(p)
  <2>1. "failed" \in Answers
    BY DEF Answers
  <2> QED BY <1>1, <1>2, <1>3, <2>1, Answered
<1>6. Extends /\ LedgerInv'
  BY <1>1, StillExtends DEF RequestsInv, ledgerVars
<1>7. claimed' = claimed \ {p} /\ claimed \subseteq TopUps
      /\ \A s \in Callers \ {r} : call'[s] = call[s]
  BY <1>1, <1>3, <1>4, <1>5 DEF RequestsInv, RequestTypeOK
<1>8. CallOK(call[r])'
  BY <1>5 DEF CallOK, TopUpOK, Crediting
<1>9. ClaimsFollowed'
  <2>1. \A q \in claimed' : ~(call[r].ref = TopUpRef(q))
    BY <1>3, <1>4, <1>7
  <2> QED BY <1>1, <1>6, <1>7, <2>1, ClaimsStayFollowed
<1>10. \A q \in claimed \ claimed', s \in Callers \ {r} :
         ~(Crediting(call[s]) /\ call[s].ref = TopUpRef(q))
  BY <1>2, <1>3, <1>7
<1>11. ~Crediting(call'[r]) /\ claimed' \subseteq TopUps /\ sentTo' = sentTo /\ minute' = minute
  BY <1>1, <1>5, <1>7 DEF Crediting
<1> QED BY <1>5, <1>6, <1>8, <1>9, <1>10, <1>11, RequestStep

LEMMA RequestDiesStep ==
  ASSUME RequestsInv, NEW r \in Callers, RequestDies(r)
  PROVE  RequestsInv'
<1>1. /\ UNCHANGED <<balance, ledger, claimed, sentTo, unread, minute>> /\ crashed' = TRUE
      /\ call' = [call EXCEPT ![r] = Idle]
  BY DEF RequestDies
<1>2. call'[r] = Idle /\ claimed \subseteq TopUps
  BY <1>1 DEF RequestsInv, RequestTypeOK
<1>3. Extends /\ LedgerInv'
  BY <1>1, StillExtends DEF RequestsInv, ledgerVars
<1>4. CallOK(call[r])' /\ ClaimsFollowed'
  BY <1>1, <1>2 DEF CallOK, ClaimsFollowed
<1>5. ~Crediting(call'[r])
  BY <1>2 DEF Crediting, Idle
<1>6. claimed' \subseteq TopUps /\ claimed \ claimed' = {} /\ sentTo' = sentTo /\ minute' = minute
  BY <1>1, <1>2
<1> QED BY <1>1, <1>2, <1>3, <1>4, <1>5, <1>6, RequestStep

LEMMA RequestInitInv == RequestInit => RequestsInv
<1> SUFFICES ASSUME RequestInit PROVE RequestsInv
  OBVIOUS
<1>1. /\ balance = [w \in Wallets |-> 2] /\ call = [r \in Callers |-> Idle]
      /\ claimed = {} /\ minute = 0
  BY DEF RequestInit
<1>2. /\ Customer \in Wallets /\ 1 \in Amounts /\ 2 \in Amounts /\ LegacyPaid \subseteq Orders
      /\ \A o \in Orders : /\ LegacyRef(o) \in Refs /\ LegacyRef(o) # NoRef
                           /\ DeductRef(o) # NoRef
      /\ \A o, u \in Orders : LegacyRef(o) # DeductRef(u)
  BY RequestAssumption DEF LegacyRef, DeductRef, Ref
<1>3. PICK first : first = Row("credit", 2, 0, NoRef)
  OBVIOUS
<1>4. first = [type |-> "credit", amount |-> 2, before |-> 0, ref |-> NoRef, after |-> 2]
  BY <1>3 DEF Row, After
<1>5. first \in Entry
  BY <1>2, <1>4 DEF Entry, TxnTypes, References
<1> DEFINE Rows1(s) == Len(s) = 1 /\ DOMAIN s = 1..1 /\ s[1] = first
<1>shape. \A s : s = <<first>> => Rows1(s)
  OBVIOUS
<1>fields. /\ first.type = "credit" /\ first.amount = 2 /\ first.before = 0 /\ first.after = 2
      /\ first.ref = NoRef
  BY <1>4
<1>chain. ASSUME NEW w \in Wallets, Rows1(ledger[w]), balance[w] = 2 PROVE ChainOK(w)
  <2>1. \A i \in 1..1 : i = 1
    OBVIOUS
  <2>2. After(0, "credit", 2) = 2
    BY DEF After
  <2> QED BY <1>fields, <1>chain, <2>1, <2>2 DEF ChainOK
<1>6. CASE ledger = Seeded
  <2>1. \A w \in Wallets : ledger[w] = <<first>>
    BY <1>3, <1>6 DEF Seeded
  <2>2. LedgerTypeOK
    BY <1>1, <1>3, <1>5, <1>6 DEF LedgerTypeOK, Seeded
  <2>3. \A w \in Wallets : Rows1(ledger[w]) /\ balance[w] = 2
    BY <1>1, <1>shape, <2>1
  <2>4. AuditChain
    BY <1>chain, <2>3 DEF AuditChain
  <2>5. \A w \in Wallets : \A i \in DOMAIN ledger[w] : /\ ledger[w][i].type = "credit"
                                                       /\ ledger[w][i].ref = NoRef
    BY <1>fields, <2>3
  <2>6. CreditOnce /\ DebitOncePerWallet /\ OldOrNew /\ CreditsAtHome
    BY <1>2, <2>5 DEF CreditOnce, DebitOncePerWallet, OldOrNew, CreditsAtHome, HasLedgerEntry
  <2>7. LedgerInv
    BY <2>2, <2>4, <2>6 DEF LedgerInv
  <2> QED BY <1>1, <2>6, <2>7, RequestAssumption
          DEF RequestsInv, RequestTypeOK, CallsOK, CallOK, OneClaimer, Crediting, Idle, ClaimsFollowed
<1>7. ASSUME NEW o \in LegacyPaid,
             ledger = [Seeded EXCEPT ![Customer] =
               <<Row("credit", 2, 0, NoRef), Row("credit", 1, 2, NoRef),
                 Row("debit", 1, 3, LegacyRef(o))>>]
      PROVE  RequestsInv
  <2>1. PICK second, third : second = Row("credit", 1, 2, NoRef)
                             /\ third = Row("debit", 1, 3, LegacyRef(o))
    OBVIOUS
  <2>2. /\ second = [type |-> "credit", amount |-> 1, before |-> 2, ref |-> NoRef, after |-> 3]
        /\ third = [type |-> "debit", amount |-> 1, before |-> 3, ref |-> LegacyRef(o), after |-> 2]
    BY <2>1 DEF Row, After
  <2>3. second \in Entry /\ third \in Entry
    BY <1>2, <2>2 DEF Entry, TxnTypes, References
  <2> DEFINE three == <<first, second, third>>
  <2>4. ledger = [Seeded EXCEPT ![Customer] = three] /\ \A w \in Wallets : Seeded[w] = <<first>>
    BY <1>3, <1>7, <2>1 DEF Seeded
  <2>5. ledger[Customer] = three /\ \A w \in Wallets \ {Customer} : ledger[w] = <<first>>
    BY <1>2, <2>4 DEF Seeded
  <2>rows. Len(three) = 3 /\ DOMAIN three = 1..3 /\ three[1] = first /\ three[2] = second
        /\ three[3] = third
    OBVIOUS
  <2>6. ledger \in [Wallets -> Seq(Entry)]
    <3>1. <<first>> \in Seq(Entry) /\ <<first, second, third>> \in Seq(Entry)
      BY <1>5, <2>3
    <3> QED BY <1>3, <2>4, <3>1 DEF Seeded
  <2>7. LedgerTypeOK
    BY <1>1, <2>6 DEF LedgerTypeOK
  <2>8. /\ \A w \in Wallets \ {Customer} : Rows1(ledger[w])
        /\ Len(ledger[Customer]) = 3 /\ DOMAIN ledger[Customer] = 1..3
        /\ ledger[Customer][1] = first /\ ledger[Customer][2] = second
        /\ ledger[Customer][3] = third
        /\ \A w \in Wallets : balance[w] = 2
    BY <1>1, <1>shape, <2>5, <2>rows
  <2>9. AuditChain
    <3>1. ChainOK(Customer)
      <4>1. \A i \in 1..3 : i = 1 \/ i = 2 \/ i = 3
        OBVIOUS
      <4>2. /\ After(0, "credit", 2) = 2 /\ After(2, "credit", 1) = 3
            /\ After(3, "debit", 1) = 2
        BY DEF After
      <4>3. /\ second.type = "credit" /\ second.amount = 1 /\ second.before = 2
            /\ second.after = 3 /\ third.type = "debit" /\ third.amount = 1
            /\ third.before = 3 /\ third.after = 2
        BY <2>2
      <4>4. \A i \in 1..3 :
              /\ ledger[Customer][i].type = "debit" => ledger[Customer][i].amount <= ledger[Customer][i].before
              /\ ledger[Customer][i].after = After(ledger[Customer][i].before,
                   ledger[Customer][i].type, ledger[Customer][i].amount)
              /\ ledger[Customer][i].before = IF i = 1 THEN 0 ELSE ledger[Customer][i - 1].after
        BY <1>fields, <2>8, <4>1, <4>2, <4>3
      <4> QED BY <1>2, <2>8, <4>3, <4>4 DEF ChainOK
    <3>2. \A w \in Wallets \ {Customer} : ChainOK(w)
      BY <1>chain, <2>8
    <3> QED BY <3>1, <3>2 DEF AuditChain
  <2>10. \A w \in Wallets : \A i \in DOMAIN ledger[w] :
           \/ ledger[w][i].type = "credit" /\ ledger[w][i].ref = NoRef
           \/ w = Customer /\ i = 3 /\ ledger[w][i].type = "debit" /\ ledger[w][i].ref = LegacyRef(o)
    <3>1. \A i \in 1..3 : i = 1 \/ i = 2 \/ i = 3
      OBVIOUS
    <3>2. \A i \in 1..1 : i = 1
      OBVIOUS
    <3>3. /\ first.type = "credit" /\ first.ref = NoRef /\ second.type = "credit"
          /\ second.ref = NoRef /\ third.type = "debit" /\ third.ref = LegacyRef(o)
      BY <1>fields, <2>2
    <3> QED BY <2>8, <3>1, <3>2, <3>3
  <2>11. CreditOnce /\ DebitOncePerWallet /\ OldOrNew /\ CreditsAtHome
    BY <1>2, <2>10 DEF CreditOnce, DebitOncePerWallet, OldOrNew, CreditsAtHome, HasLedgerEntry
  <2>12. LedgerInv
    BY <2>7, <2>9, <2>11 DEF LedgerInv
  <2> QED BY <1>1, <2>11, <2>12, RequestAssumption
          DEF RequestsInv, RequestTypeOK, CallsOK, CallOK, OneClaimer, Crediting, Idle, ClaimsFollowed
<1> QED BY <1>6, <1>7 DEF RequestInit

LEMMA RequestNextInv == RequestsInv /\ [RequestNext]_requestVars => RequestsInv'
<1> SUFFICES ASSUME RequestsInv, [RequestNext]_requestVars PROVE RequestsInv'
  OBVIOUS
<1>1. CASE UNCHANGED <<balance, ledger, call, claimed, sentTo, unread, crashed>>
           /\ minute' \in 0..LastMinute
  <2>1. LedgerInv'
    BY <1>1, StillExtends DEF RequestsInv, ledgerVars
  <2> QED BY <1>1, <2>1 DEF RequestsInv, RequestTypeOK, CallsOK, CallOK, DeductOK, WithdrawOK,
          TopUpOK, Moved, Crediting, HasLedgerEntry, EntryOf, OldOrNew, OneClaimer,
          CreditsAtHome, ClaimsFollowed, FreeToDebit
<1>2. MinutePasses \/ UNCHANGED requestVars =>
        /\ UNCHANGED <<balance, ledger, call, claimed, sentTo, unread, crashed>>
        /\ minute' \in 0..LastMinute
  BY RequestAssumption DEF MinutePasses, requestVars, RequestsInv, RequestTypeOK
<1>3. ASSUME NEW r \in Callers, \E o \in Orders : StartDeduct(r, o) PROVE RequestsInv'
  BY <1>3, StartDeductStep
<1>4. ASSUME NEW r \in Callers, NEW b \in Bodies,
             (\E k \in Keys : StartWithdrawKeyed(r, b, k)) \/ StartWithdrawDerived(r, b)
      PROVE  RequestsInv'
  BY <1>4, StartWithdrawStep
<1>5. ASSUME NEW r \in Callers, \E p \in TopUps : ClaimTopUp(r, p) PROVE RequestsInv'
  BY <1>5, ClaimTopUpStep
<1>6. ASSUME NEW r \in Callers,
             \/ DeriveKey(r) \/ AdjustDone(r) \/ AdjustRefused(r) \/ AdjustFails(r)
             \/ ReplayCheck(r) \/ Compare(r) \/ CreditTopUp(r) \/ Unclaim(r) \/ RequestDies(r)
      PROVE  RequestsInv'
  BY <1>6, DeriveKeyStep, AdjustStep, LookStep, CreditTopUpStep, UnclaimStep, RequestDiesStep
<1> QED BY <1>1, <1>2, <1>3, <1>4, <1>5, <1>6 DEF RequestNext

\* What the invariant says to the outside.
LEMMA RequestsTell == RequestsInv => OrderDebitedOnce /\ YesMeansMoved /\ ClaimMeansCredited
<1> SUFFICES ASSUME RequestsInv PROVE OrderDebitedOnce /\ YesMeansMoved /\ ClaimMeansCredited
  OBVIOUS
<1>1. OrderDebitedOnce
  <2>1. SUFFICES ASSUME NEW o \in Orders, LegacyRef(o) \notin unread
                 PROVE  Cardinality(Debits(o)) <= 1
    BY DEF OrderDebitedOnce
  <2> DEFINE both == Debits(o)
  <2>2. DeductRef(o) # NoRef /\ LegacyRef(o) # NoRef /\ Customer \in Wallets
    BY RequestAssumption
  <2>3. \A i, j \in both : i = j
    <3>1. EntryOf(Customer, "debit", DeductRef(o)) = {} \/ EntryOf(Customer, "debit", LegacyRef(o)) = {}
      BY <2>1 DEF RequestsInv, OldOrNew, EntryOf, HasLedgerEntry
    <3>2. ASSUME NEW f \in {DeductRef(o), LegacyRef(o)},
                 NEW i \in EntryOf(Customer, "debit", f), NEW j \in EntryOf(Customer, "debit", f)
          PROVE  i = j
      BY <2>2, <3>2 DEF RequestsInv, LedgerInv, DebitOncePerWallet, EntryOf
    <3> QED BY <3>1, <3>2 DEF Debits
  <2>4. both = {} \/ \E i \in both : both = {i}
    BY <2>3
  <2>5. Cardinality({}) = 0
    BY FS_EmptySet
  <2>6. \A i : Cardinality({i}) = 1
    BY FS_Singleton
  <2> HIDE DEF both
  <2>7. Cardinality(both) <= 1
    <3>1. CASE both = {}
      BY <2>5, <3>1
    <3>2. ASSUME NEW i \in both, both = {i} PROVE Cardinality(both) <= 1
      <4>1. Cardinality({i}) = 1
        BY <2>6
      <4>2. Cardinality(both) = 1
        BY <3>2, <4>1, Zenon
      <4> QED BY <4>2
    <3> QED BY <2>4, <3>1, <3>2
  <2> QED BY <2>7 DEF both
<1>2. YesMeansMoved
  <2>1. \A r \in Callers : CallOK(call[r])
    BY DEF RequestsInv, CallsOK
  <2> QED BY <2>1 DEF YesMeansMoved, CallOK, Moved, Stands
<1>3. ClaimMeansCredited
  <2>1. SUFFICES ASSUME ~crashed, \A r \in Callers : Stands(r, "idle"), NEW p \in claimed
                 PROVE  EntryOf(Customer, "credit", TopUpRef(p)) # {}
    BY DEF ClaimMeansCredited
  <2>2. HasLedgerEntry(Customer, "credit", TopUpRef(p))
    BY <2>1 DEF RequestsInv, ClaimsFollowed, Crediting, Stands
  <2> QED BY <2>2 DEF HasLedgerEntry, EntryOf
<1> QED BY <1>1, <1>2, <1>3

\* An order is taken from the wallet once, under either reference, a yes means
\* that the money moved, a charge used for a top-up is credited once nobody is
\* at it, and who has paid is not told that the balance does not suffice, except
\* where a look-up of the reference failed and was taken for a no: for any callers, orders, charges and withdrawals, with failures and deaths
\* (handlers/wallet.go).
THEOREM RequestsAreKept == RequestSpec => RequestsKept
<1>1. RequestInit => RequestsInv
  BY RequestInitInv
<1>2. RequestsInv /\ [RequestNext]_requestVars => RequestsInv'
  BY RequestNextInv
<1>3. RequestsInv => OrderDebitedOnce /\ YesMeansMoved /\ ClaimMeansCredited
  BY RequestsTell
<1> DEFINE Refused == \A r \in Callers :
             Stands(r, "replay") /\ call'[r].step = "idle" /\ call'[r] # Idle =>
               \/ ~HasLedgerEntry(call[r].wallet, "debit", call[r].ref)
               \/ call[r].ref \in unread'
<1>4. RequestsInv /\ RequestNext => Refused
  <2>1. SUFFICES ASSUME RequestsInv, RequestNext, NEW r \in Callers, Stands(r, "replay"),
                        call'[r].step = "idle", call'[r] # Idle
                 PROVE  \/ ~HasLedgerEntry(call[r].wallet, "debit", call[r].ref)
                        \/ call[r].ref \in unread'
    OBVIOUS
  <2>2. call \in [Callers -> CallRecords \cup {Idle}] /\ call[r].step = "replay"
    BY <2>1 DEF RequestsInv, RequestTypeOK, Stands
  <2>3. call' # call
    BY <2>1, <2>2
  <2>4. PICK s \in Callers :
          \/ \E o \in Orders : StartDeduct(s, o)
          \/ \E b \in Bodies, k \in Keys : StartWithdrawKeyed(s, b, k)
          \/ \E b \in Bodies : StartWithdrawDerived(s, b)
          \/ \E p \in TopUps : ClaimTopUp(s, p)
          \/ DeriveKey(s) \/ AdjustDone(s) \/ AdjustRefused(s) \/ AdjustFails(s)
          \/ ReplayCheck(s) \/ Compare(s) \/ CreditTopUp(s) \/ Unclaim(s) \/ RequestDies(s)
    BY <2>1, <2>3 DEF RequestNext, MinutePasses
  <2>5. call'[r] = call[r] \/ s = r
    BY <2>2, <2>4 DEF StartDeduct, StartWithdrawKeyed, StartWithdrawDerived, ClaimTopUp,
       DeriveKey, AdjustDone, AdjustRefused, AdjustFails, ReplayCheck, Compare, CreditTopUp,
       Unclaim, RequestDies, Answer, Proceed
  <2>6. s = r
    BY <2>1, <2>2, <2>5
  <2>7. ReplayCheck(r) \/ RequestDies(r)
    BY <2>2, <2>4, <2>6 DEF StartDeduct, StartWithdrawKeyed, StartWithdrawDerived, ClaimTopUp,
       DeriveKey, AdjustDone, AdjustRefused, AdjustFails, Compare, CreditTopUp, Unclaim, Stands
  <2>8. ReplayCheck(r)
    BY <2>1, <2>2, <2>7 DEF RequestDies
  <2>9. ~Proceed(r, "compare")
    <3>1. call[r] \in CallRecords
      BY <2>1, <2>2, CallShape DEF Stands
    <3> QED BY <2>1, <3>1, Proceeded
  <2> QED BY <2>8, <2>9 DEF ReplayCheck
<1>5. RequestsInv /\ [RequestNext]_requestVars => Refused \/ UNCHANGED requestVars
  BY <1>4
<1> QED BY <1>1, <1>2, <1>3, <1>5, PTL DEF RequestSpec, RequestsKept, PaidIsNotRefused

\* And the tables under the requests are explained row by row, and no reference
\* is credited twice or debited twice from a wallet (handlers/wallet.go on
\* models/wallet.go).
THEOREM RequestsKeepLedger == RequestSpec => []LedgerInv
<1>1. RequestInit => RequestsInv
  BY RequestInitInv
<1>2. RequestsInv /\ [RequestNext]_requestVars => RequestsInv'
  BY RequestNextInv
<1>3. RequestsInv => LedgerInv
  BY DEF RequestsInv
<1> QED BY <1>1, <1>2, <1>3, PTL DEF RequestSpec
=============================================================================
