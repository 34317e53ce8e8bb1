---- MODULE WanRouting ----
(* A PRIMARY_SECONDARY policy over the WAN connections of a MikroTik router: operators drain,
   disable and renumber connections, rebalances decide and write routes one request at a time
   (load-balancing.service.ts, load-balancing.engine.ts, mikrotik-wan-routing.adapter.ts), and a
   monitor reports the health of a connection (wan-health-state.ts). *)
EXTENDS Integers, FiniteSets, SequencesExt

CONSTANTS
  NumWans,        \* WAN connections, ordered by name
  Rebalancers,    \* requests to rebalance that may run at the same time
  Gateways,
  RecoveryThreshold,
  MaxWanChanges,  \* bound on the operators' changes
  MaxProbes,      \* bound on the monitor's reports
  MaxRebalances,  \* bound on rebalances
  MaxWanFaults,   \* bound on requests that fail
  NumPolicies,    \* policies the operators' page may come to know
  MaxFlows,       \* bound on what is asked for on the page
  MaxPicks        \* bound on policies picked on the page

ASSUME WanAssumption ==
  /\ NumWans \in Nat \ {0} /\ RecoveryThreshold \in Nat \ {0} /\ IsFiniteSet(Rebalancers) /\ Gateways # {}
  /\ NumPolicies \in Nat /\ MaxFlows \in Nat \ {0}

Wans == 1..NumWans

VARIABLES
  wan,         \* wan_connections: gateway, enabled, drain, health, answers in a row
  priority,    \* load_balance_members, written once by createPolicy
  routes,      \* the router's managed routes, in the order it lists them
  reb,         \* the locals of each rebalance
  applied,     \* the last plan that was read back, or NoPlan
  raced,       \* two rebalances ran at the same time
  wanFaults, wanChanges, probes, rebalances

wanVars == <<wan, priority, routes, reb, applied, raced, wanFaults, wanChanges, probes, rebalances>>

NoPlan == <<>>
IdleReb == [at |-> "idle", plan |-> NoPlan, seen |-> [w \in Wans |-> 0], next |-> 0, verified |-> FALSE]

------------------------
(* The decision. *)

\* Members are enabled; a disabled connection is out by its health.
Available(w) == ~wan[w].drain /\ wan[w].health \in {"HEALTHY", "DEGRADED", "RECOVERING"}

\* Capacity, headroom and health scale the weights of the selected members and never
\* bring one to zero, so that selection alone decides.
Eligible(w) == Available(w) /\ \A v \in Wans : Available(v) => priority[w] <= priority[v]

\* The place of a connection by priority, then by name, and the connection in a place.
Place(w) == Cardinality({v \in Wans : priority[v] < priority[w] \/ (priority[v] = priority[w] /\ v <= w)})
Ordered == [i \in 1..NumWans |-> CHOOSE w \in Wans : Place(w) = i]

Plan == [i \in 1..NumWans |-> [wan |-> Ordered[i], gateway |-> wan[Ordered[i]].gateway,
                               distance |-> i, disabled |-> ~Eligible(Ordered[i])]]

------------------------
(* Operators and the monitor. *)

WanInit ==
  /\ \E health \in [Wans -> {"UNKNOWN", "HEALTHY"}] :
       wan = [w \in Wans |-> [gateway |-> CHOOSE g \in Gateways : TRUE, enabled |-> TRUE, drain |-> FALSE,
                              health |-> health[w], answers |-> 0]]
  /\ priority \in [Wans -> 1..NumWans]
  /\ routes = <<>> /\ reb = [r \in Rebalancers |-> IdleReb] /\ applied = NoPlan /\ raced = FALSE
  /\ wanFaults = 0 /\ wanChanges = 0 /\ probes = 0 /\ rebalances = 0

UpdateWan(w, gateway, enabled, drain) ==
  /\ wanChanges < MaxWanChanges /\ wanChanges' = wanChanges + 1
  /\ wan' = [wan EXCEPT ![w].gateway = gateway, ![w].enabled = enabled, ![w].drain = drain,
       ![w].health = IF ~enabled THEN "DISABLED" ELSE IF drain THEN "DRAINING" ELSE @]
  /\ wan' # wan
  /\ UNCHANGED <<priority, routes, reb, applied, raced, wanFaults, probes, rebalances>>

\* evaluateWanHealth on one answer; one failure is the threshold of failures.  Who calls
\* it and stores the result is not in the repository.
HealthAfter(health, success, answers, busy) ==
  IF health \in {"DISABLED", "DRAINING"} THEN health
  ELSE IF ~success THEN "UNAVAILABLE"
  ELSE IF health = "UNAVAILABLE" /\ answers < RecoveryThreshold THEN "RECOVERING"
  ELSE IF health = "RECOVERING" /\ answers >= RecoveryThreshold THEN "HEALTHY"
  ELSE IF busy THEN "DEGRADED"
  ELSE IF health \in {"UNKNOWN", "DEGRADED"} THEN "HEALTHY"
  ELSE health

Probe(w, success, busy) ==
  /\ probes < MaxProbes /\ probes' = probes + 1
  /\ LET answers == IF ~success THEN 0
                    ELSE IF wan[w].answers < RecoveryThreshold THEN wan[w].answers + 1 ELSE RecoveryThreshold
     IN wan' = [wan EXCEPT ![w].answers = answers, ![w].health = HealthAfter(@, success, answers, busy)]
  /\ UNCHANGED <<priority, routes, reb, applied, raced, wanFaults, wanChanges, rebalances>>

------------------------
(* A rebalance. *)

RebAt(r, at) == reb[r].at = at
RebMove(r, local) == reb' = [reb EXCEPT ![r] = local]

Decide(r) ==
  /\ rebalances < MaxRebalances /\ rebalances' = rebalances + 1
  /\ RebAt(r, "idle") /\ RebMove(r, [IdleReb EXCEPT !.at = "list", !.plan = Plan])
  /\ raced' = (raced \/ \E s \in Rebalancers : ~RebAt(s, "idle"))
  /\ UNCHANGED <<wan, priority, routes, applied, wanFaults, wanChanges, probes>>

RoutesOf(w) == {i \in DOMAIN routes : routes[i].wan = w}

\* The map keeps the last of several routes with one comment.
ListRoutes(r) ==
  /\ RebAt(r, "list")
  /\ RebMove(r, [reb[r] EXCEPT !.at = "write", !.next = 1, !.seen = [w \in Wans |->
       IF RoutesOf(w) = {} THEN 0 ELSE CHOOSE i \in RoutesOf(w) : \A j \in RoutesOf(w) : j <= i]])
  /\ UNCHANGED <<wan, priority, routes, applied, raced, wanFaults, wanChanges, probes, rebalances>>

\* Mutant: every plan is written as new routes.
WrittenAgain(target, i) == Append(routes, target)
Written(target, i) == IF i = 0 THEN Append(routes, target) ELSE [routes EXCEPT ![i] = target]

WriteRoute(r) ==
  /\ RebAt(r, "write")
  /\ LET target == reb[r].plan[reb[r].next] IN routes' = Written(target, reb[r].seen[target.wan])
  /\ RebMove(r, IF reb[r].next = NumWans THEN [reb[r] EXCEPT !.at = "verify"] ELSE [reb[r] EXCEPT !.next = reb[r].next + 1])
  /\ UNCHANGED <<wan, priority, applied, raced, wanFaults, wanChanges, probes, rebalances>>

\* The read-back looks at the first route of each connection.
InForceFirst(plan) == \A i \in DOMAIN plan :
  /\ RoutesOf(plan[i].wan) # {}
  /\ plan[i] = routes[CHOOSE j \in RoutesOf(plan[i].wan) : \A k \in RoutesOf(plan[i].wan) : j <= k]

VerifyRoutes(r) ==
  /\ RebAt(r, "verify") /\ RebMove(r, IdleReb)
  /\ applied' = IF InForceFirst(reb[r].plan) THEN reb[r].plan ELSE NoPlan
  /\ UNCHANGED <<wan, priority, routes, raced, wanFaults, wanChanges, probes, rebalances>>

\* A request fails, before or after the router did what it asks: the rebalance ends
\* with TRAFFIC_REBALANCED_FAILED.
RebalanceFails(r) ==
  /\ ~RebAt(r, "idle") /\ RebMove(r, IdleReb)
  /\ wanFaults < MaxWanFaults /\ wanFaults' = wanFaults + 1
  /\ applied' = NoPlan
  /\ \/ UNCHANGED routes
     \/ /\ RebAt(r, "write")
        /\ LET target == reb[r].plan[reb[r].next] IN routes' = Written(target, reb[r].seen[target.wan])
  /\ UNCHANGED <<wan, priority, raced, wanChanges, probes, rebalances>>

WanNext ==
  \/ \E w \in Wans : \/ \E g \in Gateways : UpdateWan(w, g, wan[w].enabled, wan[w].drain)
                     \/ UpdateWan(w, wan[w].gateway, ~wan[w].enabled, wan[w].drain)
                     \/ UpdateWan(w, wan[w].gateway, wan[w].enabled, ~wan[w].drain)
  \/ \E w \in Wans, success, busy \in BOOLEAN : Probe(w, success, busy)
  \/ \E r \in Rebalancers :
       Decide(r) \/ ListRoutes(r) \/ WriteRoute(r) \/ VerifyRoutes(r) \/ RebalanceFails(r)

------------------------
(* The operators' page (load-balancing/page.tsx): the lists it loads, the policy picked in them, the
   panel with that policy's status, and what is asked for in its forms and buttons. Answers come in
   any order. *)

Policies == 1..NumPolicies

VARIABLES
  policies,    \* policies on the server, in the order they are listed
  listing,     \* policies in the lists shown
  picked,      \* selectedPolicy, 0 for none
  panel,       \* whose status is shown, 0 for none
  panelLoading, working, saving,
  verdict,     \* lastApply: the policy whose application is told of, 0 for none
  flow,        \* what was asked for: operation, request under way, policy, lists read
  flows, picks,
  mishap       \* why the page may be wrong: "panel", "verdict", "list"

pageVars == <<policies, listing, picked, panel, panelLoading, working, saving, verdict, flow, flows, picks, mishap>>

NoFlow == [op |-> "none", at |-> "none", of |-> 0, lists |-> {}]
Flows == 1..MaxFlows

PageInit ==
  /\ policies \in {1..n : n \in 0..NumPolicies}
  /\ listing = {} /\ picked = 0 /\ panel = 0 /\ panelLoading = FALSE /\ working = FALSE /\ saving = FALSE
  /\ verdict = 0 /\ flows = 1 /\ picks = 0 /\ mishap = {}
  /\ flow = [f \in Flows |-> IF f = 1 THEN [NoFlow EXCEPT !.op = "load", !.at = "lists"] ELSE NoFlow]

Ask(state, op, at, p) ==
  flows < MaxFlows /\ flows' = flows + 1 /\ flow' = [state EXCEPT ![flows + 1] = [NoFlow EXCEPT !.op = op, !.at = at, !.of = p]]

(* The effect of a changed selection asks for the status of what is picked; the panel keeps the
   earlier policy's until the answer. *)
Select(p, state) ==
  /\ picked' = p
  /\ IF p = picked THEN flow' = state /\ UNCHANGED <<flows, panel, panelLoading>>
     ELSE IF p = 0 THEN flow' = state /\ panel' = 0 /\ UNCHANGED <<flows, panelLoading>>
     ELSE Ask(state, "load", "status", p) /\ panelLoading' = TRUE /\ UNCHANGED panel

Refresh ==
  /\ \A f \in Flows : flow[f].at # "lists" /\ Ask(flow, "load", "lists", 0)
  /\ UNCHANGED <<policies, listing, picked, panel, panelLoading, working, saving, verdict, picks, mishap>>

PickPolicy(p) ==
  /\ p \in listing \cup {0} /\ p # picked /\ picks < MaxPicks /\ picks' = picks + 1
  /\ verdict' = 0 /\ Select(p, flow)
  /\ mishap' = IF working THEN mishap \cup {"verdict"} ELSE mishap \ {"verdict"}
  /\ UNCHANGED <<policies, listing, working, saving>>

(* The panel's button, enabled when it shows a status with eligible members. *)
PanelVisible == picked # 0 /\ ~panelLoading /\ panel # 0

AskRebalance ==
  /\ PanelVisible /\ ~working /\ working' = TRUE /\ Ask(flow, "rebalance", "write", picked)
  /\ UNCHANGED <<policies, listing, picked, panel, panelLoading, saving, verdict, picks, mishap>>

(* toggleDrain, on any connection of the list. *)
AskDrain ==
  /\ listing # {} /\ ~working /\ working' = TRUE /\ Ask(flow, "drain", "write", picked)
  /\ UNCHANGED <<policies, listing, picked, panel, panelLoading, saving, verdict, picks, mishap>>

(* createWan and createPolicy, whose members are taken from the list shown. *)
AskCreate ==
  /\ ~saving /\ saving' = TRUE /\ Ask(flow, "create", "write", 0)
  /\ UNCHANGED <<policies, listing, picked, panel, panelLoading, working, verdict, picks, mishap>>

(* A request of an operation ends it, or goes on to the lists, or the status. *)
Onward(f, at) == [flow EXCEPT ![f].at = at]
Ended(f) == [flow EXCEPT ![f] = NoFlow]
Release(f) ==
  /\ working' = (working /\ flow[f].op \notin {"rebalance", "drain"})
  /\ saving' = (saving /\ flow[f].op # "create")

WriteAnswered(f, ok) ==
  /\ flow[f].at = "write"
  /\ IF ~ok
     THEN flow' = Ended(f) /\ Release(f) /\ UNCHANGED <<policies, verdict, panelLoading>>
     ELSE /\ flow' = Onward(f, IF flow[f].op = "rebalance" THEN "status" ELSE "lists")
          /\ verdict' = IF flow[f].op = "rebalance" THEN flow[f].of ELSE verdict
          /\ panelLoading' = (panelLoading \/ flow[f].op = "rebalance")
          /\ IF flow[f].op = "create" /\ policies # Policies
             THEN policies' = policies \cup {Cardinality(policies) + 1} ELSE UNCHANGED policies
          /\ UNCHANGED <<working, saving>>
  /\ UNCHANGED <<listing, picked, panel, flows, picks, mishap>>

ServeLists(f) ==
  /\ flow[f].at = "lists" /\ flow' = [flow EXCEPT ![f].at = "listed", ![f].lists = policies]
  /\ UNCHANGED <<policies, listing, picked, panel, panelLoading, working, saving, verdict, flows, picks, mishap>>

(* load keeps what is picked if it is listed and takes the first otherwise, the one updated last; a
   list may have been read before what is picked was made. *)
ListsArrive(f) ==
  LET lists == flow[f].lists
      lost == picked # 0 /\ picked \notin lists
  IN /\ flow[f].at = "listed" /\ listing' = lists
     /\ IF picked \in lists THEN Select(picked, Onward(f, "loaded"))
        ELSE \E p \in (IF lists = {} THEN {0} ELSE lists) : Select(p, Onward(f, "loaded"))
     /\ mishap' = (mishap \ {"list"}) \cup (IF lists # policies THEN {"list"} ELSE {})
                                       \cup (IF lost THEN {"verdict"} ELSE {})
     /\ UNCHANGED <<policies, working, saving, verdict, picks>>

ListsFail(f) ==
  /\ flow[f].at = "listed" /\ flow' = Onward(f, "loaded") /\ mishap' = mishap \cup {"list"}
  /\ UNCHANGED <<policies, listing, picked, panel, panelLoading, working, saving, verdict, flows, picks>>

(* A drain goes on to the status of the policy that was picked when it began. *)
GoOn(f) ==
  /\ flow[f].at = "loaded"
  /\ IF flow[f].op = "drain" /\ flow[f].of # 0
     THEN flow' = Onward(f, "status") /\ panelLoading' = TRUE /\ UNCHANGED <<working, saving>>
     ELSE flow' = Ended(f) /\ Release(f) /\ UNCHANGED panelLoading
  /\ UNCHANGED <<policies, listing, picked, panel, verdict, flows, picks, mishap>>

(* loadStatus: a failure leaves the status that was shown. *)
StatusArrives(f, ok) ==
  /\ flow[f].at = "status" /\ flow' = Ended(f) /\ Release(f) /\ panelLoading' = FALSE
  /\ IF ok
     THEN /\ panel' = flow[f].of
          /\ mishap' = IF flow[f].of = picked THEN mishap \ {"panel"} ELSE mishap \cup {"panel"}
     ELSE UNCHANGED panel /\ mishap' = mishap \cup {"panel"}
  /\ UNCHANGED <<policies, listing, picked, verdict, flows, picks>>

PageNext ==
  \/ Refresh \/ AskRebalance \/ AskDrain \/ AskCreate
  \/ \E p \in Policies \cup {0} : PickPolicy(p)
  \/ \E f \in Flows :
       \/ ServeLists(f) \/ ListsArrive(f) \/ ListsFail(f) \/ GoOn(f)
       \/ \E ok \in BOOLEAN : WriteAnswered(f, ok) \/ StatusArrives(f, ok)

WanSpec ==
  /\ WanInit /\ PageInit
  /\ [][\/ WanNext /\ UNCHANGED pageVars
        \/ PageNext /\ UNCHANGED wanVars]_<<wanVars, pageVars>>

------------------------
(* Properties. *)

Routes == [wan : Wans, gateway : Gateways, distance : Wans, disabled : BOOLEAN]

\* Connections, plans and routes keep their types.
WanTypeOK ==
  /\ wan \in [Wans -> [gateway : Gateways, enabled : BOOLEAN, drain : BOOLEAN, answers : 0..RecoveryThreshold,
                health : {"UNKNOWN", "HEALTHY", "DEGRADED", "UNAVAILABLE", "RECOVERING", "DISABLED", "DRAINING"}]]
  /\ routes \in Seq(Routes) /\ applied \in Seq(Routes)

\* A connection has one route, unless two rebalances ran at once, and even then no more
\* than there were rebalances: only a rebalance that saw none adds one.
RoutesAreNotDoubled == \A w \in Wans :
  Cardinality(RoutesOf(w)) <= IF raced THEN Cardinality(Rebalancers) ELSE 1

\* A plan that was read back is what the router does, when no other rebalance came
\* between: the routes of the connections in service, and no other route, are enabled.
AppliedIsInForce ==
  ~raced /\ applied # NoPlan /\ (\A r \in Rebalancers : reb[r].at \in {"idle", "list"}) =>
    ToSet(routes) = ToSet(applied)

\* Traffic never has two primaries of different rank: of the connections that were
\* eligible in a plan all have the best priority of that moment.
OnePrimaryRank ==
  \A r \in Rebalancers : \A i, j \in DOMAIN reb[r].plan :
    ~reb[r].plan[i].disabled /\ ~reb[r].plan[j].disabled =>
      priority[reb[r].plan[i].wan] = priority[reb[r].plan[j].wan]

\* Without a failed request or a second rebalance, a router whose plan was carried out
\* with a connection in service has a default route.
NoFaultNoBlackHole ==
  ~raced /\ wanFaults = 0 /\ (\A r \in Rebalancers : RebAt(r, "idle")) /\ (\E i \in DOMAIN routes : TRUE) =>
    \/ \E i \in DOMAIN routes : ~routes[i].disabled
    \/ applied # NoPlan /\ \A i \in DOMAIN applied : applied[i].disabled

\* wan-health-state.spec.ts:20, "enters recovering before returning healthy": a link that
\* was down is not HEALTHY before it answered as often as the threshold asks, unless it
\* was busy in between.  With a threshold of one it never recovers: only a busy answer
\* brings it back.
RecoversInSteps ==
  [][\A w \in Wans : wan[w].health = "UNAVAILABLE" /\ wan'[w].health # "UNAVAILABLE" =>
       wan'[w].health \in {"RECOVERING", "DISABLED", "DRAINING"} \cup
                          (IF RecoveryThreshold = 1 THEN {"DEGRADED"} ELSE {})]_wan

PageTypeOK ==
  /\ policies \subseteq Policies /\ listing \subseteq policies /\ picked \in listing \cup {0} /\ panel \in Policies \cup {0}
  /\ \A f \in Flows : flow[f].lists \subseteq policies /\ flow[f].of \in Policies \cup {0}

\* The panel whose button rebalances the picked policy shows that policy, unless a
\* status failed, or came for a policy no longer picked.
PanelIsOfPicked == PanelVisible /\ "panel" \notin mishap => panel = picked

\* What is told of an application is about the picked policy, unless another was picked
\* while it was under way, or a list that did not have it yet took its place.
VerdictIsOfPicked == verdict # 0 /\ "verdict" \notin mishap => verdict = picked

\* The buttons come back when, and only when, what they began has ended, and one thing
\* is under way at a time; at rest the lists are the server's, unless the last ones
\* failed or were read before the latest policy was made.
ButtonsComeBack ==
  /\ working <=> \E f \in Flows : flow[f].op \in {"rebalance", "drain"}
  /\ saving <=> \E f \in Flows : flow[f].op = "create"
  /\ (\A f \in Flows : flow[f] = NoFlow) /\ "list" \notin mishap => listing = policies

WanPageHolds == PageTypeOK /\ PanelIsOfPicked /\ VerdictIsOfPicked /\ ButtonsComeBack

WanRoutesHold ==
  /\ [](WanTypeOK /\ RoutesAreNotDoubled /\ AppliedIsInForce /\ OnePrimaryRank /\ NoFaultNoBlackHole
       /\ WanPageHolds)
  /\ RecoversInSteps
====
