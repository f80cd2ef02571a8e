---------------------------- MODULE WalletLedger ----------------------------
(***************************************************************************)
(* The money ledger of payment_api, as its callers see it: wallets, their   *)
(* balances and the append-only wallet_transactions table.  One step is one *)
(* committed call of AdjustWalletBalance                                    *)
(* (Backend/payment_api/app/models/wallet.go).  WalletTx shows that the     *)
(* database transactions the code really runs implement this module;        *)
(* PaymentSettlement uses it as its store of money.                         *)
(***************************************************************************)
EXTENDS Naturals, Sequences

CONSTANTS
  Wallets,   \* the (user_id, user_type) pairs that may own a wallet
  Refs,      \* non-empty reference_id values: charge ids, withdrawal keys...
  NoRef,     \* the empty reference_id, outside both partial unique indexes
  Amounts    \* the amounts, in cents, that calls may carry

ASSUME LedgerAssumption == /\ NoRef \notin Refs
                           /\ Amounts \subseteq Nat \ {0}

VARIABLES
  balance,   \* wallets.balance; 0 for a wallet whose row does not exist yet
  ledger     \* the wallet_transactions rows of each wallet, in commit order

ledgerVars == <<balance, ledger>>

References == Refs \cup {NoRef}
TxnTypes   == {"credit", "debit"}

\* A row of wallet_transactions.
Entry == [type : TxnTypes, amount : Amounts, before : Nat, after : Nat,
          ref : References]

LedgerTypeOK == /\ balance \in [Wallets -> Nat]
                /\ ledger \in [Wallets -> Seq(Entry)]

-----------------------------------------------------------------------------
\* HasLedgerEntry: the wallet holds a row of this type and reference.
HasLedgerEntry(w, type, r) ==
  \E i \in DOMAIN ledger[w] : ledger[w][i].type = type /\ ledger[w][i].ref = r

\* Mutant of Duplicate: the credit index covers one wallet at a time.
DuplicatePerWallet(w, type, r) == r # NoRef /\ HasLedgerEntry(w, type, r)

\* Mutant of Duplicate: sql/20 is not applied.
DuplicateCreditsOnly(w, type, r) ==
  r # NoRef /\ type = "credit" /\ \E v \in Wallets : HasLedgerEntry(v, "credit", r)

\* uq_wallet_txns_credit_ref (sql/11) spans every wallet,
\* uq_wallet_txns_debit_ref_wallet (sql/20) one wallet; neither covers ''.
Duplicate(w, type, r) ==
  /\ r # NoRef
  /\ \/ type = "credit" /\ \E v \in Wallets : HasLedgerEntry(v, "credit", r)
     \/ type = "debit" /\ HasLedgerEntry(w, "debit", r)

\* Mutant of Insufficient: one cent short is let through.
InsufficientByTwo(w, type, amount) == type = "debit" /\ balance[w] + 1 < amount

\* The balance guard of a debit; the code tests it before the insert can
\* meet the unique index.
Insufficient(w, type, amount) == type = "debit" /\ balance[w] < amount

After(before, type, amount) ==
  IF type = "credit" THEN before + amount ELSE before - amount

\* The committed effect: the balance and the row move together.
Post(w, type, amount, r) ==
  LET after == After(balance[w], type, amount)
  IN  /\ balance' = [balance EXCEPT ![w] = after]
      /\ ledger' = [ledger EXCEPT ![w] = Append(@,
           [type |-> type, amount |-> amount, before |-> balance[w],
            after |-> after, ref |-> r])]

AdjustWalletBalance(w, type, amount, r) ==
  /\ ~Insufficient(w, type, amount)
  /\ ~Duplicate(w, type, r)
  /\ Post(w, type, amount, r)

-----------------------------------------------------------------------------
LedgerInit == /\ balance = [w \in Wallets |-> 0]
              /\ ledger = [w \in Wallets |-> <<>>]

LedgerNext == \E w \in Wallets, type \in TxnTypes, amount \in Amounts,
                 r \in References : AdjustWalletBalance(w, type, amount, r)

LedgerSpec == LedgerInit /\ [][LedgerNext]_ledgerVars

-----------------------------------------------------------------------------
\* The rows of a wallet form an unbroken audit chain: the first starts from
\* zero, each starts where the previous one ended, each moves the balance by
\* its own amount, and the last one ends at the balance of the wallet
\* (balance_before and balance_after of wallet.go:178-188).
ChainOK(w) ==
  LET rows == ledger[w]
      n    == Len(rows)
  IN  /\ \A i \in 1..n :
           /\ rows[i].type = "debit" => rows[i].amount <= rows[i].before
           /\ rows[i].after = After(rows[i].before, rows[i].type, rows[i].amount)
           /\ rows[i].before = IF i = 1 THEN 0 ELSE rows[i - 1].after
      /\ balance[w] = IF n = 0 THEN 0 ELSE rows[n].after

AuditChain == \A w \in Wallets : ChainOK(w)

\* A non-empty reference is credited at most once in the whole database and
\* debited at most once per wallet, whatever is retried, replayed or raced.
CreditOnce ==
  \A v, w \in Wallets : \A i \in DOMAIN ledger[v] : \A j \in DOMAIN ledger[w] :
    /\ ledger[v][i].type = "credit" /\ ledger[w][j].type = "credit"
    /\ ledger[v][i].ref = ledger[w][j].ref
    /\ ledger[v][i].ref # NoRef
    => v = w /\ i = j

DebitOncePerWallet ==
  \A w \in Wallets : \A i, j \in DOMAIN ledger[w] :
    /\ ledger[w][i].type = "debit" /\ ledger[w][j].type = "debit"
    /\ ledger[w][i].ref = ledger[w][j].ref
    /\ ledger[w][i].ref # NoRef
    => i = j

\* What the ledger promises: balances in range and explained row by row, and no
\* reference used twice (wallet.go:110-210, sql/11, sql/20).
LedgerInv == LedgerTypeOK /\ AuditChain /\ CreditOnce /\ DebitOncePerWallet
=============================================================================
