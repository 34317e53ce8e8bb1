---- MODULE Assistant ----
(* The operators' assistant: a chat whose provider may choose a tool, tools that need a
   confirmation, the command line behind them and the bots (communication.ai.ts,
   communication.command.ts, communication.bot.ts). A request is a sequence of statements; requests
   of one operator may overlap. *)
EXTENDS Integers, FiniteSets

CONSTANTS
  AiRuns,        \* rows of ai_executions
  Confirmers,    \* requests to confirm that may be open at once
  MaxQueued,     \* bound on disconnections
  MaxAiFaults    \* bound on statements that fail and requests that end between two

ASSUME AssistAssumption == IsFiniteSet(AiRuns) /\ "none" \notin AiRuns /\ MaxQueued \in Nat

VARIABLES
  aiRole,      \* role of the operator
  target,      \* the session a command names: "ACTIVE", "ENDED", or "UNMANAGED"
  aiRun,       \* ai_executions: tool and status
  chatting,    \* the tool a chat is carrying out, before its row is written
  confirmer,   \* the locals of each confirmation
  disconnects, \* network commands queued per execution
  tickets, posts, \* what the other tools brought about
  metTwice,    \* executions confirmed by two requests at once
  broken,      \* executions of which a statement failed, or a request ended, behind the queue
  aiFaults,
  commandLine, \* command_executions of the operator's own commands, by status
  ownDisconnects,
  botRun       \* the last bot command: its row and the message about it

aiVars == <<aiRole, target, aiRun, chatting, confirmer, disconnects, tickets, posts, metTwice, broken, aiFaults>>
commandVars == <<commandLine, ownDisconnects>>
assistVars == <<aiVars, commandVars, botRun>>

NoRunYet == [tool |-> "none", status |-> "none"]
IdleConfirm == [at |-> "idle", run |-> "none"]
NoBotRun == [status |-> "none", confirmed |-> FALSE, posted |-> FALSE]

AssistInit ==
  /\ aiRole \in {"NOC_ENGINEER", "SUPPORT_AGENT", "READ_ONLY"} /\ target = "ACTIVE"
  /\ aiRun = [e \in AiRuns |-> NoRunYet] /\ chatting = "none"
  /\ confirmer = [c \in Confirmers |-> IdleConfirm] /\ disconnects = [e \in AiRuns |-> 0]
  /\ tickets = 0 /\ posts = 0 /\ metTwice = {} /\ broken = {} /\ aiFaults = 0
  /\ commandLine = [awaiting |-> 0, done |-> 0] /\ ownDisconnects = 0 /\ botRun = NoBotRun

------------------------
(* Who may do what. *)

ToolPermission(tool) == IF tool = "terminateSession" THEN "network.commands.execute"
                        ELSE IF tool = "getInvoice" THEN "billing.read" ELSE "other"

\* The assistant counts support agents among the operators, the command line does not.
MayUse(tool) == ToolPermission(tool) = "other" \/ aiRole \in {"NOC_ENGINEER", "SUPPORT_AGENT"}
MayCommand == aiRole = "NOC_ENGINEER"

CanTerminate == target = "ACTIVE"

SessionChanges(to) ==
  /\ target' = to /\ target' # target /\ target # "ENDED"
  /\ UNCHANGED <<aiRole, aiRun, chatting, confirmer, disconnects, tickets, posts, metTwice, broken, aiFaults, commandVars, botRun>>

------------------------
(* A chat: the provider answers, or chooses a tool. *)

ReadTools == {"getSubscriber", "getInvoice"}
EffectTools == {"createTicket", "sendMessage"}

\* A tool that needs none is carried out, and its row written afterwards.
ExecuteTool(tool) ==
  /\ chatting = "none" /\ tool \in ReadTools \union EffectTools /\ MayUse(tool)
  /\ \E e \in AiRuns : aiRun[e] = NoRunYet
  /\ chatting' = tool
  /\ tickets' = IF tool = "createTicket" THEN tickets + 1 ELSE tickets
  /\ posts' = IF tool = "sendMessage" THEN posts + 1 ELSE posts
  /\ UNCHANGED <<aiRole, target, aiRun, confirmer, disconnects, metTwice, broken, aiFaults, commandVars, botRun>>

RecordTool(e) ==
  /\ chatting # "none" /\ aiRun[e] = NoRunYet /\ chatting' = "none"
  /\ aiRun' = [aiRun EXCEPT ![e] = [tool |-> chatting, status |-> "SUCCESS"]]
  /\ UNCHANGED <<aiRole, target, confirmer, disconnects, tickets, posts, metTwice, broken, aiFaults, commandVars, botRun>>

ChatBreaksOff ==
  /\ chatting # "none" /\ chatting' = "none"
  /\ aiFaults < MaxAiFaults /\ aiFaults' = aiFaults + 1
  /\ UNCHANGED <<aiRole, target, aiRun, confirmer, disconnects, tickets, posts, metTwice, broken, commandVars, botRun>>

\* The preview is a command that is not confirmed: the command line asks for its own
\* role, and looks whether the session is there without asking that it be.
ProposeTermination(e) ==
  /\ chatting = "none" /\ aiRun[e] = NoRunYet /\ MayUse("terminateSession") /\ MayCommand
  /\ aiRun' = [aiRun EXCEPT ![e] = [tool |-> "terminateSession", status |-> "AWAITING_CONFIRMATION"]]
  /\ commandLine' = [commandLine EXCEPT !.awaiting = @ + 1]
  /\ UNCHANGED <<aiRole, target, chatting, confirmer, disconnects, tickets, posts, metTwice, broken, aiFaults, ownDisconnects, botRun>>

------------------------
(* A confirmation: the row is read, and its lock given back with the statement. *)

ConfirmerTo(c, next) == confirmer' = [confirmer EXCEPT ![c] = next]

ReadRun(c, e) ==
  /\ confirmer[c].at = "idle" /\ aiRun[e].status = "AWAITING_CONFIRMATION" /\ MayUse(aiRun[e].tool)
  /\ ConfirmerTo(c, [at |-> "execute", run |-> e])
  /\ metTwice' = IF \E d \in Confirmers : confirmer[d].run = e THEN metTwice \union {e} ELSE metTwice
  /\ UNCHANGED <<aiRole, target, aiRun, chatting, disconnects, tickets, posts, broken, aiFaults, commandVars, botRun>>

\* The disconnection is queued, and committed there; without a session, or the role, the
\* command line throws.
ExecuteConfirmed(c) ==
  /\ confirmer[c].at = "execute" /\ disconnects[confirmer[c].run] < MaxQueued
  /\ LET ok == MayCommand /\ CanTerminate IN
     /\ ConfirmerTo(c, [confirmer[c] EXCEPT !.at = IF ok THEN "record" ELSE "catch"])
     /\ disconnects' = [disconnects EXCEPT ![confirmer[c].run] = IF ok THEN @ + 1 ELSE @]
  /\ UNCHANGED <<aiRole, target, aiRun, chatting, tickets, posts, metTwice, broken, aiFaults, commandVars, botRun>>

RecordConfirmed(c) ==
  /\ confirmer[c].at = "record" /\ ConfirmerTo(c, [confirmer[c] EXCEPT !.at = "close"])
  /\ commandLine' = [commandLine EXCEPT !.done = @ + 1]
  /\ UNCHANGED <<aiRole, target, aiRun, chatting, disconnects, tickets, posts, metTwice, broken, aiFaults, ownDisconnects, botRun>>

\* Mutant: the row is closed whatever it says.
ClosesAny(e) == TRUE
Closes(e) == aiRun[e].status = "AWAITING_CONFIRMATION"

ClosesAs(c, status) ==
  /\ ConfirmerTo(c, IdleConfirm)
  /\ aiRun' = IF Closes(confirmer[c].run) THEN [aiRun EXCEPT ![confirmer[c].run].status = status] ELSE aiRun
  /\ UNCHANGED <<aiRole, target, chatting, disconnects, tickets, posts, metTwice, broken, aiFaults, commandVars, botRun>>

CloseRun(c) == confirmer[c].at = "close" /\ ClosesAs(c, "SUCCESS")

\* Whatever was thrown, the catch says FAILED, also of a disconnection that is queued.
FailRun(c) == confirmer[c].at = "catch" /\ ClosesAs(c, "FAILED")

QueuedBy(c) == IF confirmer[c].at \in {"record", "close"} THEN {confirmer[c].run} ELSE {}

\* The queueing, the record or the closing fails, with or without its effect: a statement
\* that took effect and failed is the failure of the one after it, and the audit after
\* the closing leaves a row the catch does not close again.
ConfirmingFails(c) ==
  /\ confirmer[c].at \in {"execute", "record", "close"} /\ ConfirmerTo(c, [confirmer[c] EXCEPT !.at = "catch"])
  /\ broken' = broken \union QueuedBy(c) /\ aiFaults < MaxAiFaults /\ aiFaults' = aiFaults + 1
  /\ UNCHANGED <<aiRole, target, aiRun, chatting, disconnects, tickets, posts, metTwice, commandVars, botRun>>

\* The request ends where it is, in the catch too, whose own statement may fail.
ConfirmBreaksOff(c) ==
  /\ confirmer[c].at # "idle" /\ ConfirmerTo(c, IdleConfirm)
  /\ broken' = broken \union QueuedBy(c) /\ aiFaults < MaxAiFaults /\ aiFaults' = aiFaults + 1
  /\ UNCHANGED <<aiRole, target, aiRun, chatting, disconnects, tickets, posts, metTwice, commandVars, botRun>>

------------------------
(* The command line and the bots. *)

ExecuteCommand(dangerous, terminates, confirm) ==
  /\ commandLine.awaiting + commandLine.done < 2 * MaxQueued
  /\ dangerous => MayCommand
  /\ \/ /\ dangerous /\ ~confirm
        /\ commandLine' = [commandLine EXCEPT !.awaiting = @ + 1] /\ UNCHANGED ownDisconnects
     \/ /\ dangerous /\ confirm /\ terminates /\ CanTerminate
        /\ commandLine' = [commandLine EXCEPT !.done = @ + 1] /\ ownDisconnects' = ownDisconnects + 1
     \/ /\ ~dangerous
        /\ commandLine' = [commandLine EXCEPT !.done = @ + 1] /\ UNCHANGED ownDisconnects
  /\ UNCHANGED <<aiVars, botRun>>

\* Every bot command answers with a reading, whatever it was configured to need.
ExecuteBot(manages, needsConfirmation, confirm) ==
  /\ botRun.status # "SUCCESS" \/ botRun.posted
  /\ \/ /\ needsConfirmation /\ ~confirm
        /\ botRun' = [status |-> "AWAITING_CONFIRMATION", confirmed |-> FALSE, posted |-> FALSE]
     \/ /\ needsConfirmation => confirm
        /\ manages => aiRole \in {"NOC_ENGINEER", "SUPPORT_AGENT"}
        /\ botRun' = [status |-> "SUCCESS", confirmed |-> needsConfirmation => confirm, posted |-> FALSE]
  /\ UNCHANGED <<aiVars, commandVars>>

PostBotResult ==
  /\ botRun.status = "SUCCESS" /\ ~botRun.posted /\ botRun' = [botRun EXCEPT !.posted = TRUE]
  /\ UNCHANGED <<aiVars, commandVars>>

AiNext ==
  \/ \E to \in {"ACTIVE", "ENDED", "UNMANAGED"} : SessionChanges(to)
  \/ \E tool \in ReadTools \union EffectTools : ExecuteTool(tool)
  \/ \E e \in AiRuns : RecordTool(e) \/ ProposeTermination(e) \/ \E c \in Confirmers : ReadRun(c, e)
  \/ ChatBreaksOff
  \/ \E c \in Confirmers : ExecuteConfirmed(c) \/ RecordConfirmed(c) \/ CloseRun(c) \/ FailRun(c)
  \/ \E c \in Confirmers : ConfirmingFails(c) \/ ConfirmBreaksOff(c)
CommandNext ==
  \/ \E dangerous, terminates, confirm \in BOOLEAN : ExecuteCommand(dangerous, terminates, confirm)
  \/ \E manages, needs, confirm \in BOOLEAN : ExecuteBot(manages, needs, confirm)
  \/ PostBotResult

AssistNext == AiNext \/ CommandNext
AssistSpec == AssistInit /\ [][AssistNext]_assistVars

------------------------
(* Properties. *)

\* Executions and requests keep their types.
AssistTypeOK ==
  /\ aiRun \in [AiRuns -> [tool : {"none", "terminateSession"} \union ReadTools \union EffectTools,
                           status : {"none", "AWAITING_CONFIRMATION", "SUCCESS", "FAILED"}]]
  /\ disconnects \in [AiRuns -> 0..MaxQueued] /\ aiRole \in {"NOC_ENGINEER", "SUPPORT_AGENT", "READ_ONLY"}

\* One execution disconnects once, unless two confirmations were open at the same time or
\* one broke off behind the queue, before the row was closed, and was asked again.
OneDisconnectPerRun == \A e \in AiRuns \ (metTwice \union broken) : disconnects[e] <= 1

\* Only whoever may use the command line disconnects, and only what was proposed.
DisconnectsWereProposed ==
  \A e \in AiRuns : disconnects[e] > 0 => aiRun[e].tool = "terminateSession" /\ MayCommand

\* A closed execution says what became of its command: SUCCESS means that one is queued,
\* and FAILED that none is, unless two confirmations met or a statement failed behind the
\* queue, whose row the catch calls FAILED.
ClosedAsDone == \A e \in AiRuns : aiRun[e].tool = "terminateSession" =>
  /\ aiRun[e].status = "SUCCESS" => disconnects[e] > 0
  /\ aiRun[e].status = "FAILED" /\ e \notin metTwice \union broken => disconnects[e] = 0

\* A ticket or a message of the assistant has its execution, unless the chat broke off.
EffectsAreRecorded ==
  tickets + posts <= Cardinality({e \in AiRuns : aiRun[e].tool \in EffectTools}) + aiFaults + IF chatting \in EffectTools THEN 1 ELSE 0

\* What an execution ended as is not changed again, also by a second confirmation.
AssistantHolds ==
  /\ [](AssistTypeOK /\ OneDisconnectPerRun /\ DisconnectsWereProposed /\ ClosedAsDone /\ EffectsAreRecorded)
  /\ [][\A e \in AiRuns : aiRun[e].status \in {"SUCCESS", "FAILED"} => aiRun'[e] = aiRun[e]]_aiRun
====
