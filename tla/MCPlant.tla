---- MODULE MCPlant ----
(* The network for TLC: the command fabric, the WAN connections of a router and their page, its row,
   and the collector. They share no state; a behaviour exercises one of them. *)
EXTENDS NetworkCommand, WanRouting, RouterFleet, Telemetry, TLC

CONSTANTS w1, w2, k1, k2, ip1, ip2

VARIABLE turn

Symmetry == Permutations(Workers)

(* Rebalancers, collectors and clients are alike: which of them is first does not matter. *)
FirstOf(S) == CHOOSE x \in S : TRUE

(* One session was opened by the first client at the first address, the other with the
   username that both clients share. *)
OneUsername == [k \in {k1, k2} |-> "family"]
TwoSessions == {[mac |-> k1, address |-> ip1, username |-> "none"],
                [mac |-> "none", address |-> "none", username |-> "family"]}

plantVars == <<turn, vars, wanVars, pageVars, fleetVars, telemetryVars>>

PlantInit ==
  /\ turn \in {"commands", "wan", "probes", "row", "hand", "telemetry", "page"}
  /\ Init /\ WanInit /\ PageInit /\ FleetInit /\ TelemetryInit
  /\ turn # "probes" => \A w \in Wans : wan[w].health = "HEALTHY"
  /\ \A w \in Wans : priority[1] <= priority[w]
  /\ turn \notin {"wan", "probes"} => \A w \in Wans : priority[w] = 1
  /\ turn # "page" => policies = {}
  /\ turn # "row" => device.vendor = "MikroTik"
  /\ turn # "telemetry" => listed = << >> /\ clientListing = "whole"
  /\ listed # << >> => listed[1].client = FirstOf(Clients)
  /\ lease[k1] = ip1 /\ lease[k2] = ip2

(* Operators' changes and rebalances with one report of the monitor, or the monitor and the
   operators without a rebalance. *)
WanTurn ==
  /\ turn = "wan" /\ WanNext /\ probes' <= 1
  /\ rebalances = 0 /\ rebalances' = 1 => reb'[FirstOf(Rebalancers)].at # "idle"
ProbeTurn == turn = "probes" /\ WanNext /\ rebalances' = 0

(* The shared session is open; in the second reading, and of the first client, counters are numbers;
   nobody comes, goes or roams after a fault. *)
TelemetryTurn ==
  /\ turn = "telemetry" /\ TelemetryNext /\ (collectFaults = 0 \/ churn' = churn)
  /\ \A c \in Collectors :
       /\ reading'[c].at = "record" => \E s \in reading'[c].sessions : s.username = "family"
       /\ SkipSample(c) => Head(reading[c].left).client # k1 /\ readings = 1
  /\ readings = 0 /\ readings' = 1 => reading'[FirstOf(Collectors)].at # "idle"

PlantNext ==
  \/ turn = "commands" /\ Next /\ UNCHANGED <<turn, wanVars, pageVars, fleetVars, telemetryVars>>
  \/ (WanTurn \/ ProbeTurn) /\ UNCHANGED <<turn, vars, pageVars, fleetVars, telemetryVars>>
  \/ turn = "row" /\ DeviceNext /\ UNCHANGED <<turn, vars, wanVars, pageVars, telemetryVars>>
  \/ turn = "hand" /\ HandNext /\ UNCHANGED <<turn, vars, wanVars, pageVars, telemetryVars>>
  \/ TelemetryTurn /\ UNCHANGED <<turn, vars, wanVars, pageVars, fleetVars>>
  \/ turn = "page" /\ PageNext /\ UNCHANGED <<turn, vars, wanVars, fleetVars, telemetryVars>>

PlantSpec == PlantInit /\ [][PlantNext]_plantVars
====
