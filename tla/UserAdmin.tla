------------------------------ MODULE UserAdmin ------------------------------
(***************************************************************************)
(* Who may work on what (auth_api): users and their roles, stores and the      *)
(* users linked to them, the button that opens a store and the administrator   *)
(* who disables it.  Sessions come from the module of that name.              *)
(***************************************************************************)
EXTENDS Sessions

CONSTANTS
  Stores, NoStore,
  Emails, Lower,     \* addresses, and each of them in lower case
  UniqueEmail,       \* users_email_key: some databases have it
  OneAdminAtATime,   \* no two administrators demote or delete at once
  MaxCopies          \* bound: requests that read a row of a store

ASSUME UserAdminAssumption ==
  /\ Users \subseteq Nat
  /\ UniqueEmail \in BOOLEAN /\ OneAdminAtATime \in BOOLEAN
  /\ Lower \in [Emails -> Emails] /\ \A e \in Emails : Lower[Lower[e]] = Lower[e]

VARIABLES
  users,       \* id |-> row
  stores,      \* id |-> row of establishments
  ordered,     \* stores with orders, payments or debts
  copies       \* rows of stores that handlers read and will save or delete

userVars  == <<users, stores, ordered, copies>>
adminVars == <<sessionVars, userVars>>

Row(role, email, store) == [role |-> role, email |-> email, store |-> store]
NewStore == [open |-> FALSE, disabled |-> FALSE, wallet |-> "none"]

\* A new system, or one with its administrator.
UserAdminInit ==
  /\ SessionsInit
  /\ \E e \in Emails, first \in Users : \E some \in SUBSET {first} :
       users = [u \in some |-> Row("admin", e, NoStore)]
  /\ stores = [s \in Stores |-> NewStore] /\ ordered = {} /\ copies = {}

FreeId      == CHOOSE u \in Users : u \notin DOMAIN users /\ \A v \in Users \ DOMAIN users : u <= v
HasEmail(e) == {u \in DOMAIN users : users[u].email = e}
Spelt(e)    == {u \in DOMAIN users : Lower[users[u].email] = Lower[e]}
CountAdmins == Cardinality({u \in DOMAIN users : users[u].role = "admin"})
MayInsert(e) == DOMAIN users # Users /\ (UniqueEmail => HasEmail(e) = {})

-----------------------------------------------------------------------------
(* Registration and log-in *)

FindAnyCase(e) ==   \* mutant of FindUserByLoginEmail: the case is ignored at once
  IF Spelt(e) = {} THEN NoUser ELSE CHOOSE u \in Spelt(e) : \A v \in Spelt(e) : u <= v

\* The address as it was typed; else in any case, the oldest account.
FindUserByLoginEmail(e) ==
  LET found == IF HasEmail(e) # {} THEN HasEmail(e) ELSE Spelt(e)
  IN IF found = {} THEN NoUser ELSE CHOOSE u \in found : \A v \in found : u <= v

\* A user whose store is gone does not get in.
LoginUser(r, e) ==
  LET u == FindUserByLoginEmail(e)
  IN /\ u # NoUser /\ users[u].store \in DOMAIN stores \cup {NoStore}
     /\ Login(r, u, password[u])
     /\ UNCHANGED userVars

\* CreateUser and RegisterEstablishment: the user and their store, together; only
\* the index refuses an address twice.
RegisterEstablishment(e) ==
  /\ MayInsert(e) /\ Stores \ DOMAIN stores # {}
  /\ LET s == CHOOSE s \in Stores : s \notin DOMAIN stores
     IN /\ users' = AddRow(users, FreeId, Row("restaurant", e, s))
        /\ stores' = AddRow(stores, s, NewStore)
  /\ UNCHANGED <<sessionVars, ordered, copies>>

\* CreateUserAdmin: the store the new user is linked to must exist, when one
\* looks; nobody may have the address, in any spelling, when one counts; then the
\* user is inserted with the link.
CheckNewUser(r, e, s) ==
  /\ s \in DOMAIN stores \cup {NoStore} /\ Start(r, "count", e, s)
  /\ UNCHANGED <<tokens, codes, password, cut, past, userVars>>

CountEmail(r) ==
  /\ work[r].pc = "count"
  /\ IF Spelt(work[r].user) = {} THEN Proceed(r, "insert") ELSE Answer(r)
  /\ UNCHANGED <<tokens, codes, password, cut, past, userVars>>

InsertUser(r, role) ==
  LET e == Lower[work[r].user]
  IN /\ work[r].pc = "insert"
     /\ users' = IF MayInsert(e) THEN AddRow(users, FreeId, Row(role, e, work[r].id)) ELSE users
     /\ Answer(r)
     /\ UNCHANGED <<tokens, codes, password, cut, past, stores, ordered, copies>>

\* BootstrapAdmin: while nobody is administrator, somebody may become it.
CountForBootstrap(r, e) ==
  /\ CountAdmins = 0 /\ Start(r, "promote", e, 0)
  /\ UNCHANGED <<tokens, codes, password, cut, past, userVars>>

Promote(r) ==
  LET e == work[r].user
  IN /\ work[r].pc = "promote"
     /\ users' = IF HasEmail(e) # {}
                   THEN [users EXCEPT ![CHOOSE u \in HasEmail(e) : TRUE].role = "admin"]
                 ELSE IF MayInsert(e) THEN AddRow(users, FreeId, Row("admin", e, NoStore)) ELSE users
     /\ Answer(r)
     /\ UNCHANGED <<tokens, codes, password, cut, past, stores, ordered, copies>>

-----------------------------------------------------------------------------
(* UpdateUser and DeleteUser: a request writes one column of the row it found.  *)
(* One that takes an administrator away notes how many there were.            *)

Turn == OneAdminAtATime => \A q \in Requests : work[q].pc \notin {"demote", "delete"}

UncountedDemotion(r, u, role) ==   \* mutant of CheckRole: the last one may be demoted
  /\ u \in DOMAIN users /\ Turn
  /\ Start(r, IF role = "admin" THEN "role" ELSE "demote", u, CountAdmins)
  /\ UNCHANGED <<tokens, codes, password, cut, past, userVars>>

CheckRole(r, u, role) ==
  /\ u \in DOMAIN users /\ Turn
  /\ users[u].role = "admin" /\ role # "admin" => CountAdmins > 1
  /\ Start(r, IF role = "admin" THEN "role" ELSE "demote", u, CountAdmins)
  /\ UNCHANGED <<tokens, codes, password, cut, past, userVars>>

SaveRawRole(r) ==   \* mutant of SaveRole: the word of the panel is stored (adminRoleValue)
  LET u == work[r].user
  IN /\ work[r].pc \in {"role", "demote"}
     /\ users' = IF u \in DOMAIN users THEN [users EXCEPT ![u].role = work[r].pc] ELSE users
     /\ Proceed(r, "revoke")
     /\ UNCHANGED <<tokens, codes, password, cut, past, stores, ordered, copies>>

\* UPDATE changes nothing in a row that was deleted; the sessions go all the same.
SaveRole(r) ==
  LET u == work[r].user
  IN /\ work[r].pc \in {"role", "demote"}
     /\ users' = IF u \in DOMAIN users
                   THEN [users EXCEPT ![u].role = IF work[r].pc = "role" THEN "admin" ELSE "restaurant"]
                   ELSE users
     /\ Proceed(r, "revoke")
     /\ UNCHANGED <<tokens, codes, password, cut, past, stores, ordered, copies>>

\* The store one is linked to must exist, when one looks.
CheckStore(r, u, s) ==
  /\ u \in DOMAIN users /\ s \in DOMAIN stores \cup {NoStore} /\ Start(r, "link", u, s)
  /\ UNCHANGED <<tokens, codes, password, cut, past, userVars>>

SaveLink(r) ==
  LET u == work[r].user
  IN /\ work[r].pc = "link"
     /\ users' = IF u \in DOMAIN users THEN [users EXCEPT ![u].store = work[r].id] ELSE users
     /\ Proceed(r, "revoke")
     /\ UNCHANGED <<tokens, codes, password, cut, past, stores, ordered, copies>>

\* An address is written as it was typed; only the index refuses it.
ReadUser(r, u, e) ==
  /\ u \in DOMAIN users /\ Start(r, "mail", u, e)
  /\ UNCHANGED <<tokens, codes, password, cut, past, userVars>>

SaveEmail(r) ==
  LET u == work[r].user
      e == work[r].id
  IN /\ work[r].pc = "mail"
     /\ users' = IF u \in DOMAIN users /\ (UniqueEmail => HasEmail(e) \subseteq {u})
                   THEN [users EXCEPT ![u].email = e] ELSE users
     /\ Answer(r)
     /\ UNCHANGED <<tokens, codes, password, cut, past, stores, ordered, copies>>

CheckDelete(r, u) ==
  /\ u \in DOMAIN users /\ Turn
  /\ users[u].role = "admin" => CountAdmins > 1
  /\ Start(r, "delete", u, CountAdmins)
  /\ UNCHANGED <<tokens, codes, password, cut, past, userVars>>

\* The row goes; its sessions stay, but no refresh finds a user any more.
DeleteUser(r) ==
  /\ work[r].pc = "delete" /\ Answer(r)
  /\ users' = KeepRows(users, DOMAIN users \ {work[r].user})
  /\ UNCHANGED <<tokens, codes, password, cut, past, stores, ordered, copies>>

-----------------------------------------------------------------------------
(* establishment_handler.go *)

ReadDisabled(s, pc) ==   \* mutant of ReadStore: a disabled store opens itself
  /\ s \in DOMAIN stores /\ Cardinality(copies) < MaxCopies
  /\ copies' = copies \cup {[pc |-> pc, store |-> s, row |-> stores[s], stale |-> FALSE]}
  /\ UNCHANGED <<sessionVars, users, stores, ordered>>

\* A handler reads the whole row: to toggle it, to write other columns, to point
\* it at a wallet or to delete it.
ReadStore(s, pc) ==
  /\ s \in DOMAIN stores /\ Cardinality(copies) < MaxCopies
  /\ pc = "toggle" => stores[s].open \/ ~stores[s].disabled
  /\ copies' = copies \cup {[pc |-> pc, store |-> s, row |-> stores[s], stale |-> FALSE]}
  /\ UNCHANGED <<sessionVars, users, stores, ordered>>

\* Copies of a row that is written are stale.
AgedBy(s, c) == {[d EXCEPT !.stale = @ \/ d.store = s] : d \in copies \ {c}}

\* Save writes every column, and inserts the row again if it is gone.
SaveStore(c) ==
  /\ c \in copies /\ c.pc \in {"toggle", "edit", "wallet"}
  /\ stores' = AddRow(stores, c.store,
       CASE c.pc = "toggle" -> [c.row EXCEPT !.open = ~@]
         [] c.pc = "wallet" -> [c.row EXCEPT !.wallet = "set"]
         [] c.pc = "edit"   -> c.row)
  /\ copies' = AgedBy(c.store, c)
  /\ UNCHANGED <<sessionVars, users, ordered>>

SetEstablishmentDisabled(s, disabled) ==
  /\ s \in DOMAIN stores
  /\ stores' = [stores EXCEPT ![s] = IF disabled
                  THEN [@ EXCEPT !.open = FALSE, !.disabled = TRUE] ELSE [@ EXCEPT !.disabled = FALSE]]
  /\ copies' = AgedBy(s, [pc |-> "none"])
  /\ UNCHANGED <<sessionVars, users, ordered>>

LinkedTo(s) == {u \in DOMAIN users : users[u].store = s}

DeleteKeepsUsers(c) ==   \* mutant of DeleteEstablishment: users stay linked
  /\ c \in copies /\ c.pc = "delete" /\ c.store \notin ordered
  /\ stores' = KeepRows(stores, DOMAIN stores \ {c.store})
  /\ copies' = AgedBy(c.store, c)
  /\ UNCHANGED <<sessionVars, users, ordered>>

\* One transaction: nothing in the history, the store's own rows, the sessions
\* and the links of its users, the store.
DeleteEstablishment(c) ==
  /\ c \in copies /\ c.pc = "delete" /\ c.store \notin ordered
  /\ tokens' = [t \in DOMAIN tokens |-> IF tokens[t].user \in LinkedTo(c.store)
                                          THEN [tokens[t] EXCEPT !.revoked = TRUE] ELSE tokens[t]]
  /\ \A u \in LinkedTo(c.store) : cut[u] < MaxCuts
  /\ cut' = [u \in Users |-> IF u \in LinkedTo(c.store) THEN cut[u] + 1 ELSE cut[u]]
  /\ users' = [u \in DOMAIN users |-> IF u \in LinkedTo(c.store)
                                        THEN [users[u] EXCEPT !.store = NoStore] ELSE users[u]]
  /\ stores' = KeepRows(stores, DOMAIN stores \ {c.store})
  /\ copies' = AgedBy(c.store, c)
  /\ UNCHANGED <<codes, password, work, past, ordered>>

\* A handler gives up: no history allowed, not its store, a failed call.
GiveUp(c) ==
  /\ c \in copies /\ copies' = copies \ {c} /\ UNCHANGED <<sessionVars, users, stores, ordered>>

\* An order of orders_api, at a store whose button is on.
OrderArrives(s) ==
  /\ s \in DOMAIN stores /\ stores[s].open
  /\ ordered' = ordered \cup {s} /\ UNCHANGED <<sessionVars, users, stores, copies>>

UserAdminNext ==
  \/ UNCHANGED userVars /\ \/ Tokens
                           \/ \E r \in Requests : Continue(r) \/ \E u \in DOMAIN users : Begin(r, u)
  \/ \E e \in Emails : RegisterEstablishment(e)
  \/ \E r \in Requests :
       \/ \E e \in Emails : \/ LoginUser(r, e) \/ CountForBootstrap(r, e)
                           \/ \E s \in Stores \cup {NoStore} : CheckNewUser(r, e, s)
                           \/ \E u \in Users : ReadUser(r, u, e)
       \/ \E role \in {"admin", "restaurant"} :
            InsertUser(r, role) \/ \E u \in Users : CheckRole(r, u, role)
       \/ \E u \in Users : CheckDelete(r, u) \/ \E s \in Stores \cup {NoStore} : CheckStore(r, u, s)
       \/ CountEmail(r) \/ Promote(r) \/ SaveRole(r) \/ SaveEmail(r) \/ SaveLink(r) \/ DeleteUser(r)
  \/ \E s \in Stores :
       \/ \E pc \in {"toggle", "edit", "wallet", "delete"} : ReadStore(s, pc)
       \/ \E disabled \in BOOLEAN : SetEstablishmentDisabled(s, disabled)
       \/ OrderArrives(s)
  \/ \E c \in copies : SaveStore(c) \/ DeleteEstablishment(c) \/ GiveUp(c)

UserAdminSpec == UserAdminInit /\ [][UserAdminNext]_adminVars

-----------------------------------------------------------------------------
AccountsTypeOK ==
  /\ DOMAIN users \subseteq Users /\ DOMAIN stores \subseteq Stores
  /\ \A u \in DOMAIN users : users[u].role \in {"admin", "restaurant"} /\ users[u].email \in Emails
  /\ \A t \in DOMAIN tokens : tokens[t].user \in Users
  /\ password \in [Users -> 0..MaxPasswords]

\* Who has an account is the one its address finds, whatever accounts differ
\* from it in the spelling only ("para nao trocar de conta onde houver duas que
\* so diferem na caixa", user_handler.go:543), where the index exists.
LoginFindsOwn == UniqueEmail => \A u \in DOMAIN users : FindUserByLoginEmail(users[u].email) = u

\* The last administrator is neither demoted nor deleted, by any order of
\* registrations, promotions, demotions and deletions ("trancaria todo mundo
\* fora do painel", user_handler.go:396), as long as administrators take turns
\* and there was one when the request looked.
Uncounted(r) == work[r].pc \in {"demote", "delete"} /\ work[r].id = 0 /\ (SaveRole(r) \/ DeleteUser(r))
LastOneStays == CountAdmins > 0 => CountAdmins' > 0 \/ \E r \in Requests : Uncounted(r)
AdminRemains == [][OneAdminAtATime => LastOneStays]_adminVars

\* A store the administrator disabled stays disabled and closed, until the
\* administrator enables it or a handler saves a row it read before ("impede
\* que ela se reabra", establishment_handler.go:531).
DisabledStaysClosed ==
  [][\A s \in DOMAIN stores \cap DOMAIN stores' :
       stores[s].disabled /\ ~(stores'[s].disabled /\ ~stores'[s].open) =>
         \/ SetEstablishmentDisabled(s, FALSE)
         \/ \E c \in copies : c.stale /\ SaveStore(c)]_adminVars

\* Nobody is left behind in a store that is deleted ("os usuarios da loja ficam
\* sem loja", establishment_handler.go:447), with the one exception of a user whose
\* new link was checked before the store went and written after.
Stranded == {u \in DOMAIN users : users[u].store \notin DOMAIN stores \cup {NoStore}}
LateLink(r, u) == /\ users'[u].store = work[r].id
                  /\ SaveLink(r) \/ \E role \in {"admin", "restaurant"} : InsertUser(r, role)
NobodyStranded == [][\A u \in Stranded' \ Stranded : \E r \in Requests : LateLink(r, u)]_adminVars

\* Accounts stay findable, run by someone and attached to a store; what is
\* closed stays closed.
AccountsKept ==
  [](AccountsTypeOK /\ LoginFindsOwn) /\ AdminRemains /\ DisabledStaysClosed /\ NobodyStranded

-----------------------------------------------------------------------------
(* What comments of the code say and the model refutes.                       *)

\* An administrator is left ("Rebaixar o ultimo admin trancaria todo mundo fora do
\* painel", user_handler.go:396): two that demote or delete each other both count
\* two.
NeverLockedOut == [][LastOneStays]_adminVars

\* Users of a deleted store are without a store, not in it ("o dono nao conseguia
\* mais entrar no painel", establishment_handler.go:446).
NobodyIsStranded == Stranded = {}

\* A wallet that was set stays set ("define PARA ONDE vai o dinheiro",
\* establishment_handler.go:408): an edit saves the row it read before.
WalletStays ==
  [][\A s \in DOMAIN stores \cap DOMAIN stores' :
       stores[s].wallet = "set" => stores'[s].wallet = "set"]_adminVars
=============================================================================
