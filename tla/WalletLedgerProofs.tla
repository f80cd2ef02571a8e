------------------------- MODULE WalletLedgerProofs -------------------------
(***************************************************************************)
(* Theorems about WalletLedger, for every set of wallets, references and    *)
(* amounts and for every number of movements.                               *)
(*                                                                         *)
(* LedgerInv is inductive: the audit chain gives the balance its meaning,   *)
(* and the two uniqueness facts are kept because a movement is refused when *)
(* its reference is already there (Duplicate).                              *)
(***************************************************************************)
EXTENDS WalletLedger, TLAPS

USE LedgerAssumption

\* The row that a movement appends.
NewEntry(w, type, amount, r) ==
  [type |-> type, amount |-> amount, before |-> balance[w],
   after |-> After(balance[w], type, amount), ref |-> r]

-----------------------------------------------------------------------------
\* What a movement of AdjustWalletBalance leaves behind: one more row in its
\* own wallet, nothing else changed, and well-typed tables.
LEMMA PostedRow ==
  ASSUME LedgerTypeOK,
         NEW w \in Wallets, NEW type \in TxnTypes, NEW amount \in Amounts,
         NEW r \in References, AdjustWalletBalance(w, type, amount, r)
  PROVE  /\ LedgerTypeOK'
         /\ \A v \in Wallets \ {w} : balance'[v] = balance[v] /\ ledger'[v] = ledger[v]
         /\ balance'[w] = After(balance[w], type, amount)
         /\ type = "debit" => amount <= balance[w]
         /\ Len(ledger[w]) \in Nat
         /\ DOMAIN ledger[w] = 1..Len(ledger[w])
         /\ DOMAIN ledger'[w] = 1..(Len(ledger[w]) + 1)
         /\ Len(ledger'[w]) = Len(ledger[w]) + 1
         /\ \A i \in 1..Len(ledger[w]) : ledger'[w][i] = ledger[w][i]
         /\ ledger'[w][Len(ledger[w]) + 1] = NewEntry(w, type, amount, r)
<1> DEFINE e == NewEntry(w, type, amount, r)
<1>1. amount \in Nat \ {0} /\ balance[w] \in Nat /\ ledger[w] \in Seq(Entry)
  BY DEF LedgerTypeOK
<1>2. type = "debit" => amount <= balance[w]
  BY <1>1 DEF AdjustWalletBalance, Insufficient
<1>3. After(balance[w], type, amount) \in Nat
  BY <1>1, <1>2 DEF After, TxnTypes
<1>4. e \in Entry
  BY <1>1, <1>3 DEF NewEntry, Entry
<1>5. /\ balance' = [balance EXCEPT ![w] = After(balance[w], type, amount)]
      /\ ledger' = [ledger EXCEPT ![w] = Append(ledger[w], e)]
  BY DEF AdjustWalletBalance, Post, NewEntry, LedgerTypeOK
<1>6. balance'[w] = After(balance[w], type, amount) /\ ledger'[w] = Append(ledger[w], e)
  BY <1>5 DEF LedgerTypeOK
<1>7. Append(ledger[w], e) \in Seq(Entry)
  BY <1>1, <1>4
<1>8. LedgerTypeOK'
  BY <1>3, <1>5, <1>7 DEF LedgerTypeOK
<1>9. \A v \in Wallets \ {w} : balance'[v] = balance[v] /\ ledger'[v] = ledger[v]
  BY <1>5 DEF LedgerTypeOK
<1>10. /\ Len(ledger[w]) \in Nat
       /\ DOMAIN ledger[w] = 1..Len(ledger[w])
       /\ DOMAIN ledger'[w] = 1..(Len(ledger[w]) + 1)
       /\ Len(ledger'[w]) = Len(ledger[w]) + 1
       /\ \A i \in 1..Len(ledger[w]) : ledger'[w][i] = ledger[w][i]
       /\ ledger'[w][Len(ledger[w]) + 1] = e
  BY <1>1, <1>4, <1>6
<1> QED BY <1>2, <1>6, <1>8, <1>9, <1>10

-----------------------------------------------------------------------------
\* A movement extends the audit chain of its wallet and leaves the others.
LEMMA ChainStep ==
  ASSUME LedgerTypeOK, AuditChain,
         NEW w \in Wallets, NEW type \in TxnTypes, NEW amount \in Amounts,
         NEW r \in References, AdjustWalletBalance(w, type, amount, r)
  PROVE  AuditChain'
<1>1. SUFFICES ASSUME NEW v \in Wallets PROVE ChainOK(v)'
  BY DEF AuditChain
<1>2. ChainOK(v)
  BY DEF AuditChain
<1>3. CASE v # w
  <2>1. balance'[v] = balance[v] /\ ledger'[v] = ledger[v]
    BY <1>3, PostedRow
  <2> QED BY <1>2, <2>1 DEF ChainOK
<1>4. CASE v = w
  <2> DEFINE n == Len(ledger[w])
             e == NewEntry(w, type, amount, r)
  <2>1. /\ n \in Nat
        /\ Len(ledger'[w]) = n + 1
        /\ \A i \in 1..n : ledger'[w][i] = ledger[w][i]
        /\ ledger'[w][n + 1] = e
        /\ balance'[w] = After(balance[w], type, amount)
        /\ type = "debit" => amount <= balance[w]
    BY PostedRow
  <2>2. /\ e.type = type /\ e.amount = amount /\ e.before = balance[w]
        /\ e.after = After(balance[w], type, amount)
    BY DEF NewEntry
  <2>3. balance[w] = IF n = 0 THEN 0 ELSE ledger[w][n].after
    BY <1>2, <1>4 DEF ChainOK
  <2>4. ASSUME NEW i \in 1..(n + 1)
        PROVE  /\ ledger'[w][i].type = "debit" => ledger'[w][i].amount <= ledger'[w][i].before
               /\ ledger'[w][i].after =
                    After(ledger'[w][i].before, ledger'[w][i].type, ledger'[w][i].amount)
               /\ ledger'[w][i].before = IF i = 1 THEN 0 ELSE ledger'[w][i - 1].after
    <3>1. CASE i = n + 1
      <4>1. i # 1 => i - 1 \in 1..n /\ i - 1 = n /\ n # 0
        BY <2>1, <3>1
      <4>2. i = 1 => n = 0
        BY <2>1, <3>1
      <4> QED BY <2>1, <2>2, <2>3, <3>1, <4>1, <4>2
    <3>2. CASE i # n + 1
      <4>1. i \in 1..n /\ (i # 1 => i - 1 \in 1..n)
        BY <2>1, <3>2
      <4> HIDE DEF n
      <4>2. /\ ledger[w][i].type = "debit" => ledger[w][i].amount <= ledger[w][i].before
            /\ ledger[w][i].after =
                 After(ledger[w][i].before, ledger[w][i].type, ledger[w][i].amount)
            /\ ledger[w][i].before = IF i = 1 THEN 0 ELSE ledger[w][i - 1].after
        BY <1>2, <1>4, <4>1 DEF ChainOK, n
      <4> QED BY <2>1, <4>1, <4>2
    <3> QED BY <3>1, <3>2
  <2>5. balance'[w] = IF n + 1 = 0 THEN 0 ELSE ledger'[w][n + 1].after
    BY <2>1, <2>2
  <2> QED BY <1>4, <2>1, <2>4, <2>5 DEF ChainOK
<1> QED BY <1>3, <1>4

\* A movement with a reference that Duplicate lets through keeps both
\* uniqueness facts: the new row meets no row with its key.
LEMMA UniqueStep ==
  ASSUME LedgerTypeOK, CreditOnce, DebitOncePerWallet,
         NEW w \in Wallets, NEW type \in TxnTypes, NEW amount \in Amounts,
         NEW r \in References, AdjustWalletBalance(w, type, amount, r)
  PROVE  CreditOnce' /\ DebitOncePerWallet'
<1> DEFINE n == Len(ledger[w])
           e == NewEntry(w, type, amount, r)
           Old(v, i) == i \in DOMAIN ledger[v] /\ ledger'[v][i] = ledger[v][i]
           New(v, i) == v = w /\ i = n + 1 /\ ledger'[v][i] = e
<1>1. \A v \in Wallets : \A i \in DOMAIN ledger'[v] : Old(v, i) \/ New(v, i)
  <2>1. SUFFICES ASSUME NEW v \in Wallets, NEW i \in DOMAIN ledger'[v]
                 PROVE  Old(v, i) \/ New(v, i)
    OBVIOUS
  <2>2. CASE v # w
    BY <2>2, PostedRow
  <2>3. CASE v = w
    <3>1. /\ n \in Nat /\ DOMAIN ledger[w] = 1..n /\ DOMAIN ledger'[w] = 1..(n + 1)
          /\ \A j \in 1..n : ledger'[w][j] = ledger[w][j]
          /\ ledger'[w][n + 1] = e
      BY PostedRow
    <3>2. i \in 1..n \/ i = n + 1
      BY <2>3, <3>1
    <3> QED BY <2>3, <3>1, <3>2
  <2> QED BY <2>2, <2>3
<1>2. e.type = type /\ e.ref = r
  BY DEF NewEntry
<1>3. ASSUME r # NoRef, type = "credit"
      PROVE  \A v \in Wallets : \A i \in DOMAIN ledger[v] :
               ~(ledger[v][i].type = "credit" /\ ledger[v][i].ref = r)
  BY <1>3 DEF AdjustWalletBalance, Duplicate, HasLedgerEntry
<1>4. ASSUME r # NoRef, type = "debit"
      PROVE  \A i \in DOMAIN ledger[w] :
               ~(ledger[w][i].type = "debit" /\ ledger[w][i].ref = r)
  BY <1>4 DEF AdjustWalletBalance, Duplicate, HasLedgerEntry
<1>5. CreditOnce'
  <2>1. SUFFICES ASSUME NEW v \in Wallets, NEW u \in Wallets,
                        NEW i \in DOMAIN ledger'[v], NEW j \in DOMAIN ledger'[u],
                        ledger'[v][i].type = "credit", ledger'[u][j].type = "credit",
                        ledger'[v][i].ref = ledger'[u][j].ref, ledger'[v][i].ref # NoRef
                 PROVE  v = u /\ i = j
    BY DEF CreditOnce
  <2>2. (Old(v, i) \/ New(v, i)) /\ (Old(u, j) \/ New(u, j))
    BY <1>1
  <2>3. CASE Old(v, i) /\ Old(u, j)
    BY <2>1, <2>3 DEF CreditOnce
  <2>4. CASE Old(v, i) /\ New(u, j)
    BY <1>2, <1>3, <2>1, <2>4
  <2>5. CASE New(v, i) /\ Old(u, j)
    BY <1>2, <1>3, <2>1, <2>5
  <2>6. CASE New(v, i) /\ New(u, j)
    BY <2>6
  <2> QED BY <2>2, <2>3, <2>4, <2>5, <2>6
<1>6. DebitOncePerWallet'
  <2>1. SUFFICES ASSUME NEW v \in Wallets,
                        NEW i \in DOMAIN ledger'[v], NEW j \in DOMAIN ledger'[v],
                        ledger'[v][i].type = "debit", ledger'[v][j].type = "debit",
                        ledger'[v][i].ref = ledger'[v][j].ref, ledger'[v][i].ref # NoRef
                 PROVE  i = j
    BY DEF DebitOncePerWallet
  <2>2. (Old(v, i) \/ New(v, i)) /\ (Old(v, j) \/ New(v, j))
    BY <1>1
  <2>3. CASE Old(v, i) /\ Old(v, j)
    BY <2>1, <2>3 DEF DebitOncePerWallet
  <2>4. CASE Old(v, i) /\ New(v, j)
    BY <1>2, <1>4, <2>1, <2>4
  <2>5. CASE New(v, i) /\ Old(v, j)
    BY <1>2, <1>4, <2>1, <2>5
  <2>6. CASE New(v, i) /\ New(v, j)
    BY <2>6
  <2> QED BY <2>2, <2>3, <2>4, <2>5, <2>6
<1> QED BY <1>5, <1>6

-----------------------------------------------------------------------------
LEMMA LedgerInitInv == LedgerInit => LedgerInv
<1> SUFFICES ASSUME LedgerInit PROVE LedgerInv
  OBVIOUS
<1>1. \A w \in Wallets : balance[w] = 0 /\ ledger[w] = <<>>
  BY DEF LedgerInit
<1>2. LedgerTypeOK
  BY DEF LedgerInit, LedgerTypeOK
<1>3. AuditChain
  <2>1. SUFFICES ASSUME NEW w \in Wallets PROVE ChainOK(w)
    BY DEF AuditChain
  <2>2. Len(ledger[w]) = 0 /\ 1..Len(ledger[w]) = {}
    BY <1>1
  <2> QED BY <1>1, <2>2 DEF ChainOK
<1>4. CreditOnce /\ DebitOncePerWallet
  BY <1>1 DEF CreditOnce, DebitOncePerWallet
<1> QED BY <1>2, <1>3, <1>4 DEF LedgerInv

LEMMA LedgerNextInv == LedgerInv /\ [LedgerNext]_ledgerVars => LedgerInv'
<1> SUFFICES ASSUME LedgerInv, [LedgerNext]_ledgerVars PROVE LedgerInv'
  OBVIOUS
<1>1. CASE LedgerNext
  <2>1. PICK w \in Wallets, type \in TxnTypes, amount \in Amounts, r \in References :
          AdjustWalletBalance(w, type, amount, r)
    BY <1>1 DEF LedgerNext
  <2> QED BY <2>1, PostedRow, ChainStep, UniqueStep DEF LedgerInv
<1>2. CASE UNCHANGED ledgerVars
  BY <1>2 DEF ledgerVars, LedgerInv, LedgerTypeOK, AuditChain, ChainOK, CreditOnce,
              DebitOncePerWallet
<1> QED BY <1>1, <1>2

\* Balances are never negative and the tables are well typed, every wallet's
\* rows form an unbroken chain ending at its balance, and no reference is
\* credited twice or debited twice from a wallet: what AdjustWalletBalance
\* (wallet.go) and the two unique indexes promise to their callers.
THEOREM LedgerCorrect == LedgerSpec => []LedgerInv
<1>1. LedgerInit => LedgerInv
  BY LedgerInitInv
<1>2. LedgerInv /\ [LedgerNext]_ledgerVars => LedgerInv'
  BY LedgerNextInv
<1> QED BY <1>1, <1>2, PTL DEF LedgerSpec
=============================================================================
