---------------------------- MODULE GatewayRouter ----------------------------
(***************************************************************************)
(* Charging through pkg/gateway: a chain of payment gateways, each behind a *)
(* circuit breaker.  CreateTransactionWithFallback walks the chain and asks *)
(* one gateway after another until one creates the charge.                  *)
(*                                                                         *)
(* Each breaker operation runs under the breaker's own mutex and is one     *)
(* step; between two of them, and while a gateway is being called, any      *)
(* number of other requests pass through the same breakers.                 *)
(***************************************************************************)
EXTENDS Naturals, Sequences, FiniteSets

CONSTANTS
  Callers,       \* request goroutines
  Gateways,
  Chain,         \* the gateways in order of priority, see buildPaymentGateways
  NoGateway,
  ChargeRequests, \* what is asked for, see ChargeRequest
  Threshold      \* failures in a row that open a breaker

\* able: the gateways that support the method, the split and the pre-capture
\* asked for; preferred: the only one allowed, or NoGateway.
ChargeRequest == [able : SUBSET Gateways, preferred : Gateways \cup {NoGateway}]

ASSUME RouterAssumption ==
  /\ Chain \in Seq(Gateways)
  /\ NoGateway \notin Gateways
  /\ ChargeRequests \subseteq ChargeRequest
  /\ Threshold \in Nat \ {0}

VARIABLES
  breaker,   \* the circuit breaker of each gateway
  job,       \* the request a caller is working on
  charged,   \* the gateways that created a charge for that request
  wasted     \* history: the gateways whose test went to a request they cannot serve

routerVars == <<breaker, job, charged, wasted>>

\* fails: failCount, exact up to the threshold; cooled: the cooldown has passed
\* since lastFailure; tested: halfOpenUsed.
Breaker == [state : {"closed", "open", "half_open"}, fails : 0..Threshold,
            cooled : BOOLEAN, tested : BOOLEAN]

\* at: the place in the chain; test: the breaker was half open when it let the
\* request through.
Job == [pc : {"idle", "choose", "call"}, request : ChargeRequests,
        at : 0..Len(Chain), test : BOOLEAN]

RouterTypeOK ==
  /\ breaker \in [Gateways -> Breaker]
  /\ job \in [Callers -> Job]
  /\ charged \in [Callers -> SUBSET Gateways]
  /\ wasted \subseteq Gateways

NewBreaker == [state |-> "closed", fails |-> 0, cooled |-> TRUE, tested |-> FALSE]

RouterInit ==
  /\ breaker = [g \in Gateways |-> NewBreaker]
  /\ job \in [Callers -> {[pc |-> "idle", request |-> r, at |-> 0, test |-> FALSE]
                          : r \in ChargeRequests}]
  /\ charged = [c \in Callers |-> {}]
  /\ wasted = {}

-----------------------------------------------------------------------------
(* circuitbreaker.go *)

IsOpen(b) == \/ b.state = "open" /\ ~b.cooled
             \/ b.state = "half_open" /\ b.tested

\* What IsOpen leaves behind when it lets a request through: an open breaker
\* whose cooldown has passed is half open, a half open one has been tested.
LetThrough(b) ==
  CASE b.state = "closed"    -> b
    [] b.state = "open"      -> [b EXCEPT !.state = "half_open", !.tested = FALSE]
    [] b.state = "half_open" -> [b EXCEPT !.tested = TRUE]

\* Mutant of RecordSuccess: only the failures in a row are forgotten.
RecordSuccessCountOnly(b) == [b EXCEPT !.fails = 0]

RecordSuccess(b) == [b EXCEPT !.fails = 0, !.state = "closed", !.tested = FALSE]

\* Mutant of RecordFailure: nothing stops the count.
RecordFailureNeverOpens(b) == [b EXCEPT !.fails = @ + 1, !.cooled = FALSE]

RecordFailure(b) ==
  LET fails == IF b.fails < Threshold THEN b.fails + 1 ELSE Threshold
      opens == b.state = "half_open" \/ (b.state = "closed" /\ fails >= Threshold)
  IN [b EXCEPT !.fails = fails, !.cooled = FALSE,
               !.state = IF opens THEN "open" ELSE @,
               !.tested = IF b.state = "half_open" THEN FALSE ELSE @]

\* A minute passes since the last failure.
Cooldown(g) ==
  /\ ~breaker[g].cooled
  /\ breaker' = [breaker EXCEPT ![g].cooled = TRUE]
  /\ UNCHANGED <<job, charged, wasted>>

-----------------------------------------------------------------------------
(* CreateTransactionWithFallback *)

Here(c)      == Chain[job[c].at]
Following(j) == [j EXCEPT !.pc = "choose", !.at = @ + 1, !.test = FALSE]
Done(j)      == [j EXCEPT !.pc = "idle", !.at = 0, !.test = FALSE]
Advanced(j)  == IF j.at = Len(Chain) THEN Done(j) ELSE Following(j)

\* A charge is asked for.
CreateTransaction(c, r) ==
  /\ job[c].pc = "idle"
  /\ job' = [job EXCEPT ![c] = Advanced([@ EXCEPT !.request = r])]
  /\ charged' = [charged EXCEPT ![c] = {}]
  /\ UNCHANGED <<breaker, wasted>>

WantedByNobody(r, g) == TRUE   \* mutant of Wanted: no gateway is locked in

Wanted(r, g) == r.preferred \in {g, NoGateway}

\* The next gateway of the chain: skipped when another one is preferred, when
\* its breaker is open, and (once the breaker has been asked) when it cannot do
\* what the request needs.
Consider(c) ==
  LET g == Here(c)  r == job[c].request  b == breaker[g]
  IN /\ job[c].pc = "choose"
     /\ IF ~Wanted(r, g) \/ IsOpen(b)
          THEN /\ job' = [job EXCEPT ![c] = Advanced(@)]
               /\ UNCHANGED <<breaker, wasted>>
          ELSE /\ breaker' = [breaker EXCEPT ![g] = LetThrough(b)]
               /\ wasted' = IF g \notin r.able /\ LetThrough(b).tested
                              THEN wasted \cup {g} ELSE wasted
               /\ job' = [job EXCEPT ![c] =
                            IF g \in r.able
                              THEN [@ EXCEPT !.pc = "call",
                                             !.test = LetThrough(b).state = "half_open"]
                              ELSE Advanced(@)]
     /\ UNCHANGED charged

\* The gateway creates the charge and says so.
Succeeds(c) ==
  LET g == Here(c)
  IN /\ job[c].pc = "call"
     /\ charged' = [charged EXCEPT ![c] = @ \cup {g}]
     /\ breaker' = [breaker EXCEPT ![g] = RecordSuccess(@)]
     /\ job' = [job EXCEPT ![c] = Done(@)]
     /\ wasted' = wasted \ {g}

\* The gateway refuses or cannot be reached, or it creates the charge and its
\* answer is lost: the next one of the chain is tried.
Fails(c) ==
  LET g == Here(c)
  IN /\ job[c].pc = "call"
     /\ charged' \in {charged, [charged EXCEPT ![c] = @ \cup {g}]}
     /\ breaker' = [breaker EXCEPT ![g] = RecordFailure(@)]
     /\ job' = [job EXCEPT ![c] = Advanced(@)]
     /\ wasted' = wasted \ {g}

RouterStep(c) == Consider(c) \/ Succeeds(c) \/ Fails(c)

RouterNext ==
  \/ \E c \in Callers : RouterStep(c) \/ \E r \in ChargeRequests : CreateTransaction(c, r)
  \/ \E g \in Gateways : Cooldown(g)

\* A goroutine runs on, and a call ends: every adapter has a client timeout.
RouterFairness == \A c \in Callers : WF_routerVars(RouterStep(c))

RouterSpec == RouterInit /\ [][RouterNext]_routerVars /\ RouterFairness

-----------------------------------------------------------------------------
\* A request tied to one gateway is charged nowhere else ("cair no fallback
\* para outro gateway ignoraria o token e jogaria o dinheiro em custodia",
\* router.go:181-187), however the breakers and the chain stand and whatever
\* answers are lost.
PreferredOnly ==
  \A c \in Callers : job[c].request.preferred # NoGateway =>
    charged[c] \subseteq {job[c].request.preferred}

UnderTest(g) == breaker[g].state = "half_open" /\ breaker[g].tested

\* The one test of a half open breaker is on its way, unless it went to a request
\* that the gateway cannot serve and that is therefore never sent (the breaker is
\* asked before the method, the split and the pre-capture: router.go:189-211).  A
\* test that nobody is making would keep the gateway closed off for good.
TestRuns ==
  \A g \in Gateways \ wasted : UnderTest(g) =>
    \E c \in Callers : job[c].pc = "call" /\ Here(c) = g

\* Breakers and walks are well formed, a walk tied to a gateway stays there, and
\* tests are made.
RouterOK == RouterTypeOK /\ PreferredOnly /\ TestRuns

\* A breaker under test is judged ("Se sucesso, fecha o circuit. Se falha,
\* reabre", circuitbreaker.go:41), unless the test was wasted as above.
TestIsJudged == \A g \in Gateways : UnderTest(g) ~> ~UnderTest(g) \/ g \in wasted

-----------------------------------------------------------------------------
(* What comments of the code say and the model refutes; README names the     *)
(* constants that show it.  No passing run checks these.                      *)

\* A request charges at one gateway ("Garante idempotency key para evitar
\* duplicatas em retries", router.go:213): the gateway whose answer was lost has
\* charged, and the key means nothing to the next one.
OneCharge == \A c \in Callers : Cardinality(charged[c]) <= 1

\* Every test is judged ("Se sucesso, fecha o circuit. Se falha, reabre",
\* circuitbreaker.go:41), the wasted ones too.
EveryTestIsJudged == \A g \in Gateways : UnderTest(g) ~> ~UnderTest(g)

\* A half open breaker has one test request on its way ("permite uma unica
\* requisicao de teste", circuitbreaker.go:40-41).
OneTest ==
  \A g \in Gateways : breaker[g].state = "half_open" =>
    Cardinality({c \in Callers : job[c].test /\ Here(c) = g}) <= 1

\* An open breaker closes by way of the test ("Apos um periodo de cooldown,
\* entra em half-open ... Se sucesso, fecha", circuitbreaker.go:40-41).
ClosesByTest ==
  [][\A g \in Gateways : breaker[g].state = "open" => breaker'[g].state # "closed"]_routerVars
=============================================================================
