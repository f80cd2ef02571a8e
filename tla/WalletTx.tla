------------------------------ MODULE WalletTx ------------------------------
(***************************************************************************)
(* AdjustWalletBalance as the database runs it: concurrent Postgres         *)
(* transactions (READ COMMITTED) that create the wallet row, lock it with   *)
(* SELECT ... FOR UPDATE, test the balance, update it and insert the ledger *)
(* row, then commit or roll back.  A caller may see an error although the   *)
(* commit went through, and call again with the same reference.             *)
(*                                                                         *)
(* balance and ledger are the committed tables; what a transaction has      *)
(* written and not committed lives in seen, pc and holder.                  *)
(***************************************************************************)
EXTENDS WalletLedger

CONSTANTS
  Calls,        \* the callers, each one AdjustWalletBalance call at a time
  Nobody,       \* no transaction
  MaxAttempts   \* bound: calls (first try and retries) of one caller

ASSUME TxAssumption == Nobody \notin Calls /\ MaxAttempts \in Nat

Requests == [wallet : Wallets, type : TxnTypes, amount : Amounts, ref : References]

VARIABLES
  exists,    \* wallets whose row is committed
  holder,    \* the transaction holding the row lock, or the uncommitted row
  pc,        \* where each caller's transaction stands
  req,       \* the arguments of the caller's last call
  seen,      \* the balance the transaction read under the lock
  reply,     \* what the last call returned
  attempts   \* calls made

vars == <<balance, ledger, exists, holder, pc, req, seen, reply, attempts>>

Steps   == {"idle", "create", "lock", "check", "insert", "commit"}
Replies == {"none", "ok", "ErrInsufficientBalance", "ErrDuplicateCredit",
            "ErrDuplicateDebit", "error"}

TypeOK == /\ LedgerTypeOK
          /\ exists \subseteq Wallets
          /\ holder \in [Wallets -> Calls \cup {Nobody}]
          /\ pc \in [Calls -> Steps]
          /\ req \in [Calls -> Requests]
          /\ seen \in [Calls -> Nat]
          /\ reply \in [Calls -> Replies]
          /\ attempts \in [Calls -> 0..MaxAttempts]

Init == /\ LedgerInit
        /\ exists = {}
        /\ holder = [w \in Wallets |-> Nobody]
        /\ pc = [t \in Calls |-> "idle"]
        /\ req \in [Calls -> Requests]
        /\ seen = [t \in Calls |-> 0]
        /\ reply = [t \in Calls |-> "none"]
        /\ attempts = [t \in Calls |-> 0]

-----------------------------------------------------------------------------
At(t, step)   == pc[t] = step
Goto(t, step) == pc' = [pc EXCEPT ![t] = step]
WalletOf(t)   == req[t].wallet

ReleaseNever(t) == UNCHANGED holder   \* mutant of Release: no end of transaction

\* The transaction ends: its row lock (and its uncommitted rows) are gone.
Release(t) == holder' = [w \in Wallets |-> IF holder[w] = t THEN Nobody ELSE holder[w]]

Rollback(t, answer) ==
  /\ Goto(t, "idle")
  /\ Release(t)
  /\ reply' = [reply EXCEPT ![t] = answer]
  /\ UNCHANGED <<balance, ledger, exists, req, seen, attempts>>

\* A caller calls, for the first time or again with the same arguments: every
\* caller derives its reference from the payment, the order or the key.
Begin(t) ==
  /\ At(t, "idle") /\ attempts[t] < MaxAttempts
  /\ Goto(t, "create")
  /\ attempts' = [attempts EXCEPT ![t] = @ + 1]
  /\ UNCHANGED <<balance, ledger, exists, holder, req, seen, reply>>

\* INSERT ... ON CONFLICT DO NOTHING, then SELECT.  A committed row makes it a
\* no-op; an uncommitted one of another transaction makes it wait.
GetOrCreateWallet(t) ==
  /\ At(t, "create")
  /\ \/ WalletOf(t) \in exists /\ UNCHANGED holder
     \/ /\ WalletOf(t) \notin exists
        /\ holder[WalletOf(t)] = Nobody
        /\ holder' = [holder EXCEPT ![WalletOf(t)] = t]
  /\ Goto(t, "lock")
  /\ UNCHANGED <<balance, ledger, exists, req, seen, reply, attempts>>

\* Mutant of LockRow: a plain SELECT.
LockRowPlainSelect(t) ==
  /\ At(t, "lock")
  /\ seen' = [seen EXCEPT ![t] = balance[WalletOf(t)]]
  /\ Goto(t, "check")
  /\ UNCHANGED <<balance, ledger, exists, holder, req, reply, attempts>>

\* SELECT ... FOR UPDATE waits for the row and then reads its last version.
LockRow(t) ==
  /\ At(t, "lock")
  /\ holder[WalletOf(t)] \in {Nobody, t}
  /\ holder' = [holder EXCEPT ![WalletOf(t)] = t]
  /\ seen' = [seen EXCEPT ![t] = balance[WalletOf(t)]]
  /\ Goto(t, "check")
  /\ UNCHANGED <<balance, ledger, exists, req, reply, attempts>>

\* Mutant of CheckAndUpdate: a debit may leave one cent of debt.
CheckAndUpdateLoose(t) ==
  /\ At(t, "check")
  /\ \/ /\ req[t].type = "debit" /\ seen[t] + 1 < req[t].amount
        /\ Rollback(t, "ErrInsufficientBalance")
     \/ /\ req[t].type = "debit" => seen[t] + 1 >= req[t].amount
        /\ Goto(t, "insert")
        /\ UNCHANGED <<balance, ledger, exists, holder, req, seen, reply, attempts>>

\* The guard of a debit, then UPDATE wallets SET balance (uncommitted).
CheckAndUpdate(t) ==
  /\ At(t, "check")
  /\ \/ /\ req[t].type = "debit" /\ seen[t] < req[t].amount
        /\ Rollback(t, "ErrInsufficientBalance")
     \/ /\ req[t].type = "debit" => seen[t] >= req[t].amount
        /\ Goto(t, "insert")
        /\ UNCHANGED <<balance, ledger, exists, holder, req, seen, reply, attempts>>

\* Two ledger rows that one of the partial unique indexes keeps apart.
SameKey(t, u) ==
  /\ req[t].ref # NoRef
  /\ req[t].ref = req[u].ref
  /\ req[t].type = req[u].type
  /\ req[t].type = "debit" => WalletOf(t) = WalletOf(u)

\* Mutant of InsertEntry: the program looks the reference up before inserting,
\* with no unique index behind it.
InsertEntryLookup(t) ==
  /\ At(t, "insert")
  /\ \/ /\ Duplicate(WalletOf(t), req[t].type, req[t].ref)
        /\ Rollback(t, "error")
     \/ /\ ~Duplicate(WalletOf(t), req[t].type, req[t].ref)
        /\ Goto(t, "commit")
        /\ UNCHANGED <<balance, ledger, exists, holder, req, seen, reply, attempts>>

\* INSERT INTO wallet_transactions.  A committed duplicate is a unique
\* violation; an uncommitted one makes the insert wait for its transaction.
InsertEntry(t) ==
  /\ At(t, "insert")
  /\ \A u \in Calls \ {t} : At(u, "commit") => ~SameKey(t, u)
  /\ \/ /\ Duplicate(WalletOf(t), req[t].type, req[t].ref)
        /\ Rollback(t, IF req[t].type = "credit" THEN "ErrDuplicateCredit"
                                                 ELSE "ErrDuplicateDebit")
     \/ /\ ~Duplicate(WalletOf(t), req[t].type, req[t].ref)
        /\ Goto(t, "commit")
        /\ UNCHANGED <<balance, ledger, exists, holder, req, seen, reply, attempts>>

\* Mutant of Commit: the two writes are not one transaction, the row may be lost.
CommitTorn(t) ==
  /\ At(t, "commit")
  /\ balance' = [balance EXCEPT ![WalletOf(t)] = After(seen[t], req[t].type, req[t].amount)]
  /\ Goto(t, "idle")
  /\ Release(t)
  /\ reply' = [reply EXCEPT ![t] = "error"]
  /\ UNCHANGED <<ledger, exists, req, seen, attempts>>

\* COMMIT publishes both writes; the caller may lose the answer.
Commit(t) ==
  /\ At(t, "commit")
  /\ LET w     == WalletOf(t)
         after == After(seen[t], req[t].type, req[t].amount)
     IN /\ balance' = [balance EXCEPT ![w] = after]
        /\ ledger' = [ledger EXCEPT ![w] = Append(@,
             [type |-> req[t].type, amount |-> req[t].amount,
              before |-> seen[t], after |-> after, ref |-> req[t].ref])]
        /\ exists' = exists \cup {w}
  /\ Goto(t, "idle")
  /\ Release(t)
  /\ \E answer \in {"ok", "error"} : reply' = [reply EXCEPT ![t] = answer]
  /\ UNCHANGED <<req, seen, attempts>>

AbortSaysOk(t) == ~At(t, "idle") /\ Rollback(t, "ok")   \* mutant of Abort

\* The process dies, the connection drops or a statement fails: rollback.
Abort(t) == ~At(t, "idle") /\ Rollback(t, "error")

\* Nobody has a call left to make.
AllAnswered == /\ \A t \in Calls : At(t, "idle") /\ attempts[t] = MaxAttempts
               /\ UNCHANGED vars

Step(t) == \/ GetOrCreateWallet(t) \/ LockRow(t) \/ CheckAndUpdate(t)
           \/ InsertEntry(t) \/ Commit(t)

Next == (\E t \in Calls : Begin(t) \/ Step(t) \/ Abort(t)) \/ AllAnswered

\* Postgres runs every transaction it is not making wait.
Fairness == \A t \in Calls : WF_vars(Step(t))

Spec == Init /\ [][Next]_vars /\ Fairness

-----------------------------------------------------------------------------
\* The row lock is exclusive and the transaction that passed it works on the
\* committed balance: the inductive core of the refinement of WalletLedger.
Holding(t) == pc[t] \in {"check", "insert", "commit"}

LockInv ==
  \A t \in Calls :
    /\ Holding(t) => /\ holder[WalletOf(t)] = t
                     /\ seen[t] = balance[WalletOf(t)]
    /\ pc[t] \in {"insert", "commit"} /\ req[t].type = "debit"
         => seen[t] >= req[t].amount

\* A transaction about to commit meets no row, committed or not, with its key.
KeyInv ==
  \A t \in Calls : At(t, "commit") =>
    /\ ~Duplicate(WalletOf(t), req[t].type, req[t].ref)
    /\ \A u \in Calls \ {t} : At(u, "commit") => ~SameKey(t, u)

\* The row lock and the uncommitted keys exclude what the ledger must not see:
\* the inductive invariant of the transactions (wallet.go:128-188).
TxInv == TypeOK /\ LockInv /\ KeyInv

\* An answer is never a lie: "ok" means the row is there, and a duplicate
\* answer means an earlier call with the reference was recorded
\* (wallet.go:190-201; callers report success on a duplicate).
ReplyTruthful ==
  \A t \in Calls :
    /\ reply[t] = "ok" => HasLedgerEntry(WalletOf(t), req[t].type, req[t].ref)
    /\ reply[t] = "ErrDuplicateCredit" =>
         \E w \in Wallets : HasLedgerEntry(w, "credit", req[t].ref)
    /\ reply[t] = "ErrDuplicateDebit" =>
         HasLedgerEntry(WalletOf(t), "debit", req[t].ref)

\* No call waits for ever on a row lock or on a unique key: every transaction
\* that begins is answered.
EveryCallAnswered == \A t \in Calls : ~At(t, "idle") ~> At(t, "idle")
=============================================================================
