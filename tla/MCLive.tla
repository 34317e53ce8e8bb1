---- MODULE MCLive ----
(* The two refinements with their liveness: the renewal saga implements WalletCharge and the command
   fabric CommandLifecycle. The two components share no state here: turn says whose behaviour this
   one is. *)
EXTENDS NetworkCommand

CONSTANTS Schedules, Reconcilers, Executions, Purchases, Prices, InitialPrice,
          InitialBalance, FailureLimit, CompensationLimit, RenewalEnv, FailingSteps,
          LostAcks, MaxRenewalDisturbances

VARIABLES schedule, purchase, settlement, cancellation, wallet, debit, refund,
          compensation, worker, reconciler, package, issued, renewalBudget, turn

R == INSTANCE Renewal WITH Env <- RenewalEnv, MaxDisturbances <- MaxRenewalDisturbances,
                           budget <- renewalBudget

renewalVars == <<schedule, purchase, settlement, cancellation, wallet, debit, refund,
                 compensation, worker, reconciler, package, issued, renewalBudget>>

LiveInit == turn \in {"renewal", "commands"} /\ R!Init /\ Init

Renewing == turn = "renewal" /\ R!Next /\ UNCHANGED <<vars, turn>>
Commanding == turn = "commands" /\ Next /\ UNCHANGED <<renewalVars, turn>>

\* The fairness of Renewal and of NetworkCommand, each on the behaviours of its own.
RenewalIsFair ==
  /\ \A w \in Workers : /\ WF_renewalVars(turn = "renewal" /\ R!ClaimDue(w))
                        /\ WF_renewalVars(turn = "renewal" /\ R!RowStep(w))
                        /\ WF_renewalVars(turn = "renewal" /\ R!HandlerStep(w))
  /\ \A r \in Reconcilers : /\ WF_renewalVars(turn = "renewal" /\ R!ClaimCompensations(r))
                            /\ WF_renewalVars(turn = "renewal" /\ R!ReconcilerStep(r))
  /\ \A s \in Schedules : /\ WF_renewalVars(turn = "renewal" /\ R!FallDue(s))
                          /\ WF_renewalVars(turn = "renewal" /\ R!ClaimGrowsStale(s))
  /\ \A e \in Executions : WF_renewalVars(turn = "renewal" /\ R!CompensationGrowsStale(e))
  /\ WF_renewalVars(turn = "renewal" /\ R!ThawWallet)
CommandsAreFair ==
  /\ \A w \in Workers : WF_vars(turn = "commands" /\ WorkerStep(w))
  /\ \A e \in Enforcers : WF_vars(turn = "commands" /\ (Step(e) \/ Prune(e)))
  /\ \A c \in Commands : WF_vars(turn = "commands" /\ LeaseExpires(c))

LiveSpec ==
  /\ LiveInit /\ [][Renewing \/ Commanding]_<<vars, renewalVars, turn>>
  /\ RenewalIsFair /\ CommandsAreFair

\* The saga implements the promise of WalletCharge, its liveness included: a debit is
\* in the end settled or refunded, never both.
WalletChargeSpec == R!WalletChargeSpec
====
