--------------------------- MODULE WalletRequests ---------------------------
(***************************************************************************)
(* The HTTP requests that move a wallet, on top of the ledger: paying an    *)
(* order from the customer's wallet, a store's withdrawal, and a top-up     *)
(* from a confirmed charge (handlers/wallet.go).  A request is several      *)
(* database calls; two requests, retries and double clicks interleave       *)
(* between them, calls fail before or after they commit, processes die.     *)
(* The ledger step itself is WalletLedger's.                                *)
(***************************************************************************)
EXTENDS WalletLedger, Integers, FiniteSets

CONSTANTS
  Callers,      \* goroutines serving requests
  Customer,      \* the wallet orders are paid from
  Store,         \* the wallet withdrawn from
  Orders,        \* order ids
  Total,         \* order_total of each order document
  LegacyPaid,    \* orders debited before references carried a prefix
  TopUps,        \* confirmed charges of the customer without an order
  Bodies,        \* [amount, destination] of withdrawals
  Keys,          \* Idempotency-Key values; NoKey when the header is absent
  NoKey,
  LastMinute     \* bound: the buckets of 60 seconds that the clock visits

VARIABLES
  call,           \* what each goroutine serves and how far it has come
  claimed,       \* charges with wallet_credited_at set
  sentTo,        \* <<reference, destination>> of the withdrawals made
  unread,        \* references whose look-up failed, which says "not there"
  minute,        \* unix time / 60
  crashed        \* a process has died

requestVars == <<balance, ledger, call, claimed, sentTo, unread, minute, crashed>>

\* deductRef, withdrawRef and the bare id of older entries.
Ref(op, key, bucket) == [op |-> op, key |-> key, bucket |-> bucket]
DeductRef(o)         == Ref("ord", o, 0)
LegacyRef(o)         == Ref("old", o, 0)
TopUpRef(p)          == Ref("top", p, 0)
WithdrawRef(k)       == Ref("wd", k, 0)
DerivedRef(b, m)     == Ref("wd", b, m)   \* hash of amount, destination, bucket

ASSUME RequestAssumption ==
  /\ Customer \in Wallets /\ Store \in Wallets
  /\ {1, 2} \subseteq Amounts           \* of the rows in place at the start
  /\ LegacyPaid \subseteq Orders
  /\ Total \in [Orders -> Amounts]
  /\ \A b \in Bodies : b.amount \in Amounts
  /\ \A o \in Orders : DeductRef(o) \in Refs /\ LegacyRef(o) \in Refs
  /\ \A p \in TopUps : TopUpRef(p) \in Refs
  /\ \A k \in Keys : WithdrawRef(k) \in Refs
  /\ LastMinute \in Nat
  /\ \A b \in Bodies, m \in 0..LastMinute : DerivedRef(b.name, m) \in Refs

Idle == [step |-> "idle"]
Stands(r, step)  == call[r].step = step
Proceed(r, step) == call' = [call EXCEPT ![r].step = step]
Answer(r, what)  == call' = [call EXCEPT ![r].step = "idle", ![r].reply = what]

EntryOf(w, type, ref) ==
  {i \in DOMAIN ledger[w] : ledger[w][i].type = type /\ ledger[w][i].ref = ref}

-----------------------------------------------------------------------------
(* Paying an order from the wallet: DeductFromWallet. *)

\* Mutant of StartDeduct: the older references are not looked up.
StartDeductNewOnly(r, o) ==
  /\ Stands(r, "idle")
  /\ call' = [call EXCEPT ![r] =
       [step |-> "adjust", op |-> "deduct", wallet |-> Customer,
        ref |-> DeductRef(o), amount |-> Total[o], dest |-> "", reply |-> ""]]
  /\ UNCHANGED <<balance, ledger, claimed, sentTo, unread, minute, crashed>>

\* The amount is the document's and the order the caller's; a debit from
\* before the prefixes answers at once, if the look-up finds it: any error of
\* it is taken for "not there".
StartDeduct(r, o) ==
  /\ Stands(r, "idle")
  /\ \E read \in BOOLEAN :
       LET old == IF read THEN EntryOf(Customer, "debit", LegacyRef(o)) ELSE {}
       IN  /\ call' = [call EXCEPT ![r] =
                [step |-> IF old = {} THEN "adjust" ELSE "idle", op |-> "deduct",
                 wallet |-> Customer,
                 ref |-> IF old = {} THEN DeductRef(o) ELSE LegacyRef(o),
                 amount |-> Total[o], dest |-> "",
                 reply |-> IF old = {} THEN ""
                           ELSE IF \A i \in old : ledger[Customer][i].amount = Total[o]
                           THEN "done" ELSE "differs"]]
           /\ unread' = IF read THEN unread ELSE unread \cup {LegacyRef(o)}
  /\ UNCHANGED <<balance, ledger, claimed, sentTo, minute, crashed>>

-----------------------------------------------------------------------------
(* EstablishmentWithdraw. *)

\* With a key the reference is the key's.
StartWithdrawKeyed(r, b, k) ==
  /\ Stands(r, "idle") /\ k # NoKey
  /\ call' = [call EXCEPT ![r] =
       [step |-> "adjust", op |-> "withdraw", wallet |-> Store,
        ref |-> WithdrawRef(k), amount |-> b.amount, dest |-> b.destination,
        reply |-> ""]]
  /\ UNCHANGED <<balance, ledger, claimed, sentTo, unread, minute, crashed>>

\* Without one, the same withdrawal of this minute or the one before is
\* refused, unless the look-up fails; the key of this minute is derived after.
StartWithdrawDerived(r, b) ==
  /\ Stands(r, "idle")
  /\ \E found \in {FALSE, \E m \in {minute, minute - 1} :
                               HasLedgerEntry(Store, "debit", DerivedRef(b.name, m))} :
       call' = [call EXCEPT ![r] =
         [step |-> IF found THEN "idle" ELSE "derive", op |-> "withdraw",
          wallet |-> Store, ref |-> DerivedRef(b.name, minute),
          amount |-> b.amount, dest |-> b.destination,
          reply |-> IF found THEN "twice" ELSE ""]]
  /\ UNCHANGED <<balance, ledger, claimed, sentTo, unread, minute, crashed>>

DeriveKey(r) ==
  /\ Stands(r, "derive")
  /\ call' = [call EXCEPT ![r].step = "adjust", ![r].ref.bucket = minute]
  /\ UNCHANGED <<balance, ledger, claimed, sentTo, unread, minute, crashed>>

-----------------------------------------------------------------------------
(* The debit both requests end in. *)

Debit(r) ==
  AdjustWalletBalance(call[r].wallet, "debit", call[r].amount, call[r].ref)

SendTo(r) == sentTo' = sentTo \cup {<<call[r].ref, call[r].dest>>}

AdjustDone(r) ==
  /\ Stands(r, "adjust")
  /\ Debit(r) /\ SendTo(r)
  /\ Answer(r, "done")
  /\ UNCHANGED <<claimed, unread, minute, crashed>>

\* ErrInsufficientBalance comes before the index can say "duplicate".
AdjustRefused(r) ==
  /\ Stands(r, "adjust")
  /\ \/ /\ Insufficient(call[r].wallet, "debit", call[r].amount)
        /\ Proceed(r, "replay")
     \/ /\ ~Insufficient(call[r].wallet, "debit", call[r].amount)
        /\ Duplicate(call[r].wallet, "debit", call[r].ref)
        /\ Proceed(r, "compare")
  /\ UNCHANGED <<balance, ledger, claimed, sentTo, unread, minute, crashed>>

\* Any other error; the commit itself may have gone through.
AdjustFails(r) ==
  /\ Stands(r, "adjust")
  /\ \/ UNCHANGED <<balance, ledger, sentTo>>
     \/ Debit(r) /\ SendTo(r)
  /\ Answer(r, "failed")
  /\ UNCHANGED <<claimed, unread, minute, crashed>>

\* Mutant of ReplayCheck: short of money is short of money.
ReplayCheckNone(r) ==
  /\ Stands(r, "replay")
  /\ Answer(r, "insufficient")
  /\ UNCHANGED <<balance, ledger, claimed, sentTo, unread, minute, crashed>>

\* replayOf: the money is gone because this very request took it.  An error of
\* the look-up says no.
ReplayCheck(r) ==
  /\ Stands(r, "replay")
  /\ \/ /\ IF HasLedgerEntry(call[r].wallet, "debit", call[r].ref)
           THEN Proceed(r, "compare") ELSE Answer(r, "insufficient")
        /\ UNCHANGED unread
     \/ Answer(r, "insufficient") /\ unread' = unread \cup {call[r].ref}
  /\ UNCHANGED <<balance, ledger, claimed, sentTo, minute, crashed>>

\* Mutant of Compare: the same key is the same withdrawal.
CompareKeyOnly(r) ==
  /\ Stands(r, "compare")
  /\ Answer(r, "done")
  /\ UNCHANGED <<balance, ledger, claimed, sentTo, unread, minute, crashed>>

\* The entry found must be this amount to this destination; it may not be
\* found again.
Compare(r) ==
  /\ Stands(r, "compare")
  /\ \/ Answer(r, "failed")
     \/ Answer(r, IF /\ \A i \in EntryOf(call[r].wallet, "debit", call[r].ref) :
                          ledger[call[r].wallet][i].amount = call[r].amount
                     /\ <<call[r].ref, call[r].dest>> \in sentTo
                  THEN "done" ELSE "differs")
  /\ UNCHANGED <<balance, ledger, claimed, sentTo, unread, minute, crashed>>

-----------------------------------------------------------------------------
(* TopUp: a confirmed charge of its own becomes balance, once. *)

\* UPDATE ... SET wallet_credited_at WHERE wallet_credited_at IS NULL.
ClaimTopUp(r, p) ==
  /\ Stands(r, "idle")
  /\ call' = [call EXCEPT ![r] =
       [step |-> IF p \in claimed THEN "idle" ELSE "credit", op |-> "topup",
        wallet |-> Customer, ref |-> TopUpRef(p), amount |-> 1, dest |-> "",
        reply |-> IF p \in claimed THEN "used" ELSE ""]]
  /\ claimed' = claimed \cup {p}
  /\ UNCHANGED <<balance, ledger, sentTo, unread, minute, crashed>>

CreditCustomer(r) == AdjustWalletBalance(Customer, "credit", call[r].amount, call[r].ref)

CreditTopUp(r) ==
  /\ Stands(r, "credit")
  /\ \/ CreditCustomer(r) /\ Answer(r, "done")
     \/ /\ Duplicate(Customer, "credit", call[r].ref)
        /\ Answer(r, "used") /\ UNCHANGED ledgerVars
     \/ Proceed(r, "unclaim") /\ UNCHANGED ledgerVars      \* the call failed
     \/ CreditCustomer(r) /\ Proceed(r, "unclaim")                 \* after its commit
  /\ UNCHANGED <<claimed, sentTo, unread, minute, crashed>>

\* Mutant of Unclaim: the failed top-up keeps its claim.
UnclaimNever(r) ==
  /\ Stands(r, "unclaim")
  /\ Answer(r, "failed")
  /\ UNCHANGED <<balance, ledger, claimed, sentTo, unread, minute, crashed>>

Unclaim(r) ==
  /\ Stands(r, "unclaim")
  /\ claimed' = claimed \ {call[r].ref.key}
  /\ Answer(r, "failed")
  /\ UNCHANGED <<balance, ledger, sentTo, unread, minute, crashed>>

-----------------------------------------------------------------------------
RequestDies(r) ==
  /\ ~Stands(r, "idle") /\ ~crashed
  /\ crashed' = TRUE
  /\ call' = [call EXCEPT ![r] = Idle]
  /\ UNCHANGED <<balance, ledger, claimed, sentTo, unread, minute>>

MinutePasses ==
  /\ minute < LastMinute
  /\ minute' = minute + 1
  /\ UNCHANGED <<balance, ledger, call, claimed, sentTo, unread, crashed>>

Row(type, amount, before, ref) ==
  [type |-> type, amount |-> amount, before |-> before, ref |-> ref,
   after |-> After(before, type, amount)]

\* ensureWalletSeeded brought a balance of 2 to each wallet, and a debit of
\* before the prefixes may be on the customer's.
Seeded == [w \in Wallets |-> <<Row("credit", 2, 0, NoRef)>>]

RequestInit ==
  /\ balance = [w \in Wallets |-> 2]
  /\ \/ ledger = Seeded
     \/ \E o \in LegacyPaid : ledger = [Seeded EXCEPT ![Customer] =
          <<Row("credit", 2, 0, NoRef), Row("credit", 1, 2, NoRef),
            Row("debit", 1, 3, LegacyRef(o))>>]
  /\ call = [r \in Callers |-> Idle]
  /\ claimed = {}
  /\ sentTo = {}
  /\ unread = {}
  /\ minute = 0
  /\ crashed = FALSE

RequestNext ==
  \/ \E r \in Callers :
       \/ \E o \in Orders : StartDeduct(r, o)
       \/ \E b \in Bodies, k \in Keys : StartWithdrawKeyed(r, b, k)
       \/ \E b \in Bodies : StartWithdrawDerived(r, b)
       \/ \E p \in TopUps : ClaimTopUp(r, p)
       \/ DeriveKey(r) \/ AdjustDone(r) \/ AdjustRefused(r) \/ AdjustFails(r)
       \/ ReplayCheck(r) \/ Compare(r) \/ CreditTopUp(r) \/ Unclaim(r)
       \/ RequestDies(r)
  \/ MinutePasses

RequestSpec == RequestInit /\ [][RequestNext]_requestVars

-----------------------------------------------------------------------------
Debits(o) == EntryOf(Customer, "debit", DeductRef(o)) \cup EntryOf(Customer, "debit", LegacyRef(o))

\* An order is taken from the wallet once, whatever reference the debit was
\* written under (wallet.go:288-296), if the older one could be looked up.
OrderDebitedOnce == \A o \in Orders : LegacyRef(o) \notin unread => Cardinality(Debits(o)) <= 1

\* A yes means that the money moved: this amount, to this destination, under
\* the reference of this request (wallet.go:350-354, 615-618).
YesMeansMoved ==
  \A r \in Callers : Stands(r, "idle") /\ call[r] # Idle /\ call[r].reply = "done" =>
    /\ \E i \in DOMAIN ledger[call[r].wallet] :
         LET row == ledger[call[r].wallet][i]
         IN  row.ref = call[r].ref /\ row.amount = call[r].amount
    /\ call[r].op = "withdraw" => <<call[r].ref, call[r].dest>> \in sentTo

\* Who has already paid is not told that the balance does not suffice
\* (wallet.go:327-332), if the debit could be looked up.
PaidIsNotRefused ==
  [][\A r \in Callers :
       Stands(r, "replay") /\ call'[r].step = "idle" /\ call'[r] # Idle =>
         \/ ~HasLedgerEntry(call[r].wallet, "debit", call[r].ref)
         \/ call[r].ref \in unread']_requestVars

\* Once no request is under way and nobody has died, a charge that is marked
\* as used for a top-up has been credited (wallet.go:202-206).
ClaimMeansCredited ==
  (~crashed /\ \A r \in Callers : Stands(r, "idle")) =>
    \A p \in claimed : EntryOf(Customer, "credit", TopUpRef(p)) # {}

\* What a wallet request answers is what the ledger holds, once.
RequestsKept == [](OrderDebitedOnce /\ YesMeansMoved /\ ClaimMeansCredited) /\ PaidIsNotRefused

-----------------------------------------------------------------------------
(* What comments of the code say and the model refutes.                     *)

\* "o mesmo pedido seria debitado duas vezes, exatamente o que a idempotencia
\* existe para impedir" (wallet.go:291-292): it is, when the look-up of the
\* older reference fails.
NeverDebitedTwice == \A o \in Orders : Cardinality(Debits(o)) <= 1

\* "the double click is barred even across the turn of the minute"
\* (wallet.go:70-71): two withdrawals of the same amount to the same
\* destination, without a key, are never made in two consecutive minutes.
DoubleClickBarred ==
  \A b \in Bodies : \A m \in 0..(LastMinute - 1) :
    ~(/\ HasLedgerEntry(Store, "debit", DerivedRef(b.name, m))
      /\ HasLedgerEntry(Store, "debit", DerivedRef(b.name, m + 1)))
=============================================================================
