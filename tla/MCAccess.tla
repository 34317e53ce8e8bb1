---- MODULE MCAccess ----
(* Who may use the network and the workspace, for TLC: sessions and grants, the fair-share
   evaluation of a router, what a hotspot user touches, the members of a workspace, its secrets and
   its addresses. They share no state; a behaviour exercises one of them. *)
EXTENDS AccessReconciliation, TrafficPolicy, Hotspot, Account, Vault, Addresses

CONSTANT FirstKey   \* the vault key everything begins under

VARIABLE turn

workspaceVars == <<avars, signUpVars, vvars, ivars>>
accessVars == <<turn, vars, tvars, hotspotVars, workspaceVars>>

\* Overlapping networks and a network apart.
TheNetworks == {[net |-> {"a1", "a2"}, gateway |-> "a1"],
                [net |-> {"a2", "a3"}, gateway |-> "a3"],
                [net |-> {"a3"},       gateway |-> "a3"]}

AccessInit ==
  /\ turn \in {"sessions", "policy", "sign-on", "accounting", "portal", "account", "sign-up", "vault", "addresses"}
  /\ Init /\ PolicyInit /\ HotspotInit /\ AccountInit /\ SignUpInit /\ VaultInit /\ AddressesInit
  /\ turn # "sessions" => \A s \in Sessions : grant[s] = "valid" /\ session[s] = "ACTIVE"
  /\ turn # "policy" => \A u \in Users : \A o \in Offered : offered[u] >= o
  /\ turn # "account" => member[CHOOSE m \in Members : TRUE].role = "OWNER"
  /\ turn # "vault" => retired = FirstKey

\* Sign-ons are looked at two at a time, accounting with its retransmissions.
HotspotTurn ==
  \/ turn = "sign-on" /\ AccessNext /\ handled' <= 2
  \/ turn = "accounting" /\ AccountingNext
  \/ turn = "portal" /\ PortalNext
WorkspaceTurn ==
  \/ turn = "account" /\ AccountNext /\ UNCHANGED <<signUpVars, vvars, ivars>>
  \/ turn = "sign-up" /\ SignUpNext /\ UNCHANGED <<avars, vvars, ivars>>
  \/ turn = "vault" /\ VaultNext /\ UNCHANGED <<avars, signUpVars, ivars>>
  \/ turn = "addresses" /\ AddressesNext /\ UNCHANGED <<avars, signUpVars, vvars>>

AccessTurnNext ==
  /\ UNCHANGED turn
  /\ \/ turn = "sessions" /\ Next /\ UNCHANGED <<tvars, hotspotVars, workspaceVars>>
     \/ turn = "policy" /\ PolicyNext /\ UNCHANGED <<vars, hotspotVars, workspaceVars>>
     \/ HotspotTurn /\ UNCHANGED <<vars, tvars, workspaceVars>>
     \/ WorkspaceTurn /\ UNCHANGED <<vars, tvars, hotspotVars>>

\* The fairness of AccessReconciliation, on the behaviours of its own.
SessionsAreFair ==
  /\ \A r \in Reconcilers : WF_vars(turn = "sessions" /\ Reconcile(r))
  /\ WF_vars(turn = "sessions" /\ Poll)
  /\ \A s \in Sessions : WF_vars(turn = "sessions" /\ Collect(s))
  /\ \A w \in Workers : WF_vars(turn = "sessions" /\ (Work(w) \/ Refuse(w)))
  /\ \A c \in Commands : WF_vars(turn = "sessions" /\ Lease(c))

AccessSpec == AccessInit /\ [][AccessTurnNext]_accessVars /\ SessionsAreFair

\* What belongs to a workspace stays apart: its owners' authority, the keys of its
\* secrets and the holders of its addresses, under overlapping requests.
WorkspaceHolds == [](VaultHolds /\ AccountTypeOK) /\ AccountHolds /\ AddressesHold
====
