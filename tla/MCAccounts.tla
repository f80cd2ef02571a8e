----------------------------- MODULE MCAccounts ------------------------------
(* Instances of the parts of auth_api for TLC: a behaviour is about one part.  *)
EXTENDS UserAdmin, Subscriptions, StoreHours, CourierAccounts, TLC

CONSTANTS r1, r2, s1, c1, c2, ann, bob, w1, w2, ana, Ana, eva

TwoRequests == {r1, r2}
OneStore    == {s1}
TwoUsers    == {1, 2}
ThreeEmails == {ana, Ana, eva}
LowerCase   == [e \in ThreeEmails |-> IF e = eva THEN eva ELSE ana]
TwoCouriers == {c1, c2}
TwoWallets  == {w1, w2}
TwoClients  == {ann, bob}
OnePhone    == {"phone"}
OneAddress  == {"address"}
Hours(o, c, b, e) == [open |-> o, close |-> c, breakStart |-> b, breakEnd |-> e]
FiveRows    == {Hours(1, 4, 2, 3), Hours(3, 1, 0, 0), Hours(0, 0, 0, 0), Hours(0, 0, 1, 2), Hours(2, 1, 3, 4)}
ASSUME RowsAssumption == ClockTimes /\ BreaksInside
Alike       == Permutations(TwoRequests) \cup Permutations(TwoCouriers) \cup Permutations(TwoWallets)
                 \cup Permutations(TwoClients)

VARIABLE part

accountVars == <<adminVars, clubVars, hourVars, courierVars, part>>

Everybody == [u \in {1} |-> Row("admin", ana, NoStore)]
TokenParts == {"tokens", "codes"}

PartInit ==
  /\ \/ /\ part \in TokenParts /\ SessionsInit /\ users = Everybody
        /\ stores = [s \in {} |-> NewStore] /\ ordered = {} /\ copies = {}
     \/ part \in {"stores", "club", "hours", "couriers"} /\ UserAdminInit /\ users = Everybody
     \/ part = "users" /\ UserAdminInit /\ \A u \in DOMAIN users : u = 1 /\ users[u].email = ana
  /\ SubscriptionsInit /\ CouriersInit
  /\ IF part = "hours" THEN HoursInit
     ELSE hours = [d \in DaysOfWeek |-> NoDay] /\ manual = FALSE /\ clock = 0

AtMost(t, c, p) == past'.tokens <= t /\ past'.codes <= c /\ past'.passwords <= p
Avoiding(pcs)   == \A r \in Requests : work'[r].pc \notin pcs

AdminPart ==
  /\ UserAdminNext
  /\ part \in TokenParts => UNCHANGED userVars /\ Avoiding({"count", "insert", "promote", "role", "demote", "mail", "link", "delete"})
  /\ part = "tokens" => AtMost(3, 0, 0) /\ Avoiding({"code", "change"})
  /\ part = "codes"  => /\ AtMost(1, 1, 1) \/ AtMost(0, 2, 1)
                        /\ Avoiding({"claimed", "reuse"}) /\ \A t \in DOMAIN tokens' : ~tokens'[t].expired
  /\ part = "users"  => /\ AtMost(0, 0, 0) /\ past'.faults = 0
                        /\ Avoiding({"code", "change", "claimed", "reuse", "store"})
                        /\ \A c \in copies' : copies' = {c} /\ c.pc = "delete" /\ ~c.stale
                        /\ cut'[1] + cut'[2] <= 1 /\ UNCHANGED ordered
                        /\ \A r, q \in Requests : work'[r].pc = "mail" /\ work'[q].pc = "mail" => r = q
                        /\ \A s \in DOMAIN stores' : ~stores'[s].disabled
  /\ part = "stores" => UNCHANGED sessionVars

PartNext ==
  /\ UNCHANGED part
  /\ \/ part \in TokenParts \cup {"users", "stores"} /\ AdminPart /\ UNCHANGED <<clubVars, hourVars, courierVars>>
     \/ part = "club" /\ ClubNext /\ UNCHANGED <<adminVars, hourVars, courierVars>>
     \/ part = "hours" /\ HoursNext /\ UNCHANGED <<adminVars, clubVars, courierVars>>
     \/ part = "couriers" /\ CouriersNext /\ UNCHANGED <<adminVars, clubVars, hourVars>>
PartSpec == PartInit /\ [][PartNext]_accountVars
=============================================================================
