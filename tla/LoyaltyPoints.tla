---------------------------- MODULE LoyaltyPoints ----------------------------
(***************************************************************************)
(* The points of the loyalty programme (orders_api): accounts, the history,  *)
(* and the transactions that credit an order or redeem points.  A transaction *)
(* holds the lock of its phone from its first read to its commit.             *)
(***************************************************************************)
EXTENDS Integers, Sequences, FiniteSets, Functions

CONSTANTS
  Members,           \* phones
  Clerks,            \* goroutines: the webhook, the application
  Opening,           \* rows of loyalty_points at the start: [id, user, points], by their key
  Gold,              \* points from which an order earns twice its total
  OrderPoints,       \* the whole reais of an order
  PointsPerReal,
  NoClerk

ASSUME LoyaltyAssumption ==
  /\ Opening \subseteq [id : Nat \ {0}, user : Members, points : Nat] /\ IsFiniteSet(Opening)
  /\ \A a, b \in Opening : a.id = b.id => a = b
  /\ OrderPoints \in Nat /\ PointsPerReal \in Nat \ {0} /\ NoClerk \notin Clerks

VARIABLES accounts, history, lock, txn

loyaltyVars == <<accounts, history, lock, txn>>

Resting == [pc |-> "idle", user |-> NoClerk, row |-> NoClerk, order |-> NoClerk]

LoyaltyInit ==
  /\ accounts = Opening /\ history = <<>>
  /\ lock = [u \in Members |-> NoClerk]
  /\ txn = [k \in Clerks |-> Resting]

RowsOf(u) == {a \in accounts : a.user = u}
Oldest(rows) == CHOOSE a \in rows : \A b \in rows : a.id <= b.id

\* The account of a phone, made if there is none.  Only ids of rows of one phone
\* are compared, and the first row of a phone may be numbered 1.
AccountOf(u) == IF RowsOf(u) = {} THEN [id |-> 1, user |-> u, points |-> 0] ELSE Oldest(RowsOf(u))

Credit(row, points) == (accounts \ {a \in RowsOf(row.user) : a.id = row.id})
                         \cup {[row EXCEPT !.points = @ + points]}
Note(u, points, type, order) ==
  history' = Append(history, [user |-> u, points |-> points, type |-> type, order |-> order])

Multiplier(points) == IF points >= Gold THEN 2 ELSE 1

Begins(k, pc, u, order) ==
  txn' = [txn EXCEPT ![k] = [pc |-> pc, user |-> u, row |-> AccountOf(u), order |-> order]]

LockNoWait(k, pc, u, order) ==   \* mutant of LockLoyaltyAccount: who finds it locked reads on
  /\ txn[k].pc = "idle"
  /\ lock' = [lock EXCEPT ![u] = k] /\ Begins(k, pc, u, order)
  /\ UNCHANGED <<accounts, history>>

\* An advisory lock on the phone, then the row.
LockLoyaltyAccount(k, pc, u, order) ==
  /\ txn[k].pc = "idle" /\ lock[u] = NoClerk
  /\ lock' = [lock EXCEPT ![u] = k] /\ Begins(k, pc, u, order)
  /\ UNCHANGED <<accounts, history>>

Ends(k) == /\ txn' = [txn EXCEPT ![k] = Resting]
           /\ lock' = [u \in Members |-> IF lock[u] = k THEN NoClerk ELSE lock[u]]

CountNothing(k) ==   \* mutant of CountEarned: an order may earn again
  /\ txn[k].pc = "earn" /\ txn' = [txn EXCEPT ![k].pc = "credit"]
  /\ UNCHANGED <<accounts, history, lock>>

\* Has the order earned, for whichever phone?  Only what is committed counts, and
\* the lock is that of one phone.
CountEarned(k) ==
  LET again == \E i \in 1..Len(history) : history[i].type = "earn" /\ history[i].order = txn[k].order
  IN /\ txn[k].pc = "earn"
     /\ IF again THEN Ends(k) ELSE txn' = [txn EXCEPT ![k].pc = "credit"] /\ UNCHANGED lock
     /\ UNCHANGED <<accounts, history>>

\* EarnPoints and EarnPointsForOrder: the rest of the transaction.
EarnPoints(k) ==
  LET t == txn[k]  points == OrderPoints * Multiplier(t.row.points)
  IN /\ t.pc = "credit" /\ Ends(k)
     /\ accounts' = Credit(t.row, points) /\ Note(t.user, points, "earn", t.order)

RedeemBeyond(k, points) ==   \* mutant of Redeem: the balance is not looked at
  LET t == txn[k]
  IN /\ t.pc = "redeem" /\ points % PointsPerReal = 0 /\ Ends(k)
     /\ accounts' = Credit(t.row, -points) /\ Note(t.user, -points, "redeem", NoClerk)

\* The part of RedeemPoints that is about the account.
Redeem(k, points) ==
  LET t == txn[k]
  IN /\ t.pc = "redeem" /\ points <= t.row.points /\ points % PointsPerReal = 0 /\ Ends(k)
     /\ accounts' = Credit(t.row, -points) /\ Note(t.user, -points, "redeem", NoClerk)

\* A refusal, or a call that fails: nothing is kept.
RollBack(k) ==
  /\ txn[k].pc # "idle" /\ Ends(k) /\ UNCHANGED <<accounts, history>>

\* The part of the reward's transaction that is about the account.
CreditReferral(u, points, order) ==
  /\ lock[u] = NoClerk
  /\ accounts' = Credit(AccountOf(u), points)
  /\ Note(u, points, "referral", order)
  /\ UNCHANGED <<lock, txn>>

PointsIn(rows) == SumFunction([a \in rows |-> a.points])

MergeKeepsOldest(u) ==   \* mutant of MergeDuplicates: the points of the others are not added
  /\ Cardinality(RowsOf(u)) > 1 /\ lock[u] = NoClerk
  /\ accounts' = (accounts \ RowsOf(u)) \cup {Oldest(RowsOf(u))}
  /\ UNCHANGED <<history, lock, txn>>

\* When a process starts, the accounts of a phone are made one.  The table is
\* locked: a transaction on the phone ends, or is rolled back, before.
MergeDuplicates(u) ==
  /\ Cardinality(RowsOf(u)) > 1 /\ lock[u] = NoClerk
  /\ accounts' = (accounts \ RowsOf(u))
                   \cup {[Oldest(RowsOf(u)) EXCEPT !.points = PointsIn(RowsOf(u))]}
  /\ UNCHANGED <<history, lock, txn>>

LoyaltyCrash ==
  /\ txn' = [k \in Clerks |-> Resting] /\ lock' = [u \in Members |-> NoClerk]
  /\ UNCHANGED <<accounts, history>>

-----------------------------------------------------------------------------
Notes    == 1..Len(history)
Noted(u) == SumFunctionOnSet([i \in Notes |-> history[i].points], {i \in Notes : history[i].user = u})

\* Whoever credits, redeems or merges at a time, what a phone has is what it
\* started with and what its history says ("Credito em linha morta entre o
\* UPDATE e o DELETE seria perdido", sql/29; loyalty.go:76-86).
PointsMatchHistory ==
  \A u \in Members :
    PointsIn(RowsOf(u)) = PointsIn({a \in Opening : a.user = u}) + Noted(u)

NeverOverdrawn == \A a \in accounts : a.points >= 0
=============================================================================
