---- MODULE MCRecords ----
(* Components whose operations are requests, with no process behind them that owes anyone progress:
   conversations, receipts, procurement, and the authors of workflows. They share no state; a
   behaviour exercises one of them, or one part of one. The runs of workflows are here too, for
   what they never do; that they end is checked in MCOperations. *)
EXTENDS Messages, Procurement, Workflows

CONSTANTS
  Awake,      \* workers while authors write
  MaxStarted, \* bound: runs that workers and operators race for
  MaxTexts,   \* bound: messages while texts are looked at
  MaxEdited   \* bound: those of them that are edited

VARIABLE turn

vars == <<turn, msgVars, receiptVars, procVars, comVars, wfVars>>

ThePrograms == {<<"CONDITION", "EMIT", "APPROVAL", "EFFECT">>, <<"TRANSFORM", "BRANCH", "APPROVAL", "HTTP">>}

Init ==
  /\ turn \in {"texts", "pins", "members", "receipts", "stock", "bills", "credit", "commissions", "authoring", "running"}
  /\ MsgInit /\ ReceiptInit /\ ProcInit /\ CommissionInit /\ WorkflowInit
  /\ turn # "members" => \A p \in People \ {Founder} : role[p] = "MEMBER"
  /\ turn # "authoring" => integration.idempotent
  /\ turn \notin {"authoring", "running"} => versions[1][1] = "TRANSFORM"

(* Texts are looked at with few messages, pins with all. *)
TextTurn ==
  /\ turn = "texts" /\ TextNext /\ Cardinality(Sent') <= MaxTexts
  /\ Cardinality({m \in Posts : Cardinality(texts'[m]) > 1}) <= MaxEdited
PinTurn == turn = "pins" /\ PinNext
MemberTurn == turn = "members" /\ MemberNext

(* Invoices of an order that is written, submitted and approved meanwhile. *)
Ordering == \E o \in Orders, l \in Lines, i \in Items, q \in Quantities \cap {2}, c \in Costs \cap {5} :
  CreatePurchaseOrder(o) \/ AddPurchaseOrderLine(o, l, i, q, c) \/ RequestPurchaseOrderApproval(o) \/ ApprovePurchaseOrder(o)

StockTurn == turn = "stock" /\ StockNext
BillTurn == turn = "bills" /\ (BillNext \/ Ordering)
CreditTurn == turn = "credit" /\ CreditNext

(* A run of a changing definition and its replay, which no worker keeps for ten minutes; and a run of
   one definition, which workers take from each other, with few faults and slow workers together. *)
AuthorTurn ==
  /\ turn = "authoring"
  /\ \/ SetWfEnabled \/ AuthorNext \/ \E p \in WfWorkers \cap Awake : WorkerStep(p) \/ StepFails(p)
     \/ \E r \in WfRuns : CancelRun(r) \/ ComesDueRun(r) \/ (Started = {} /\ Trigger(r, "met"))
RunTurn == turn = "running" /\ RunsNext /\ Cardinality(Started') <= MaxStarted /\ wfFaults' + slow' <= MaxWfFaults

Next ==
  \/ (TextTurn \/ PinTurn \/ MemberTurn) /\ UNCHANGED <<turn, receiptVars, procVars, comVars, wfVars>>
  \/ turn = "receipts" /\ ReceiptNext /\ UNCHANGED <<turn, msgVars, procVars, comVars, wfVars>>
  \/ (StockTurn \/ BillTurn \/ CreditTurn) /\ UNCHANGED <<turn, msgVars, receiptVars, comVars, wfVars>>
  \/ turn = "commissions" /\ CommissionNext /\ UNCHANGED <<turn, msgVars, receiptVars, procVars, wfVars>>
  \/ (AuthorTurn \/ RunTurn) /\ UNCHANGED <<turn, msgVars, receiptVars, procVars, comVars>>

Spec == Init /\ [][Next]_vars

\* No operation leaves a row of its tables outside its type.
RecordsTypeOK == MsgTypeOK /\ ReceiptTypeOK /\ ProcTypeOK /\ WorkflowTypeOK

\* Members' overlapping requests leave a conversation with its three pins at most, one
\* message per key of a client, every text of an edited message in its history, and an
\* administrator.
ConversationIsWhole == RecordsTypeOK /\ PinsWithinLimit /\ OneMessagePerKey /\ EditsAreComplete /\ AdminRemains

\* What a reader marked as read has the receipt READ, which never goes back, in any order
\* of the statements of screens and sockets; it is no longer counted as unread, and the
\* two pointers agree, unless screens of one reader overlap (or, of pointers, one fails).
ReceiptsAgree == [](SeenIsRead /\ SeenIsNotCounted /\ PointersAgree) /\ ReceiptsMoveForward

\* Stock is the sum of its movements at their average cost, what is received came in,
\* what is owed is what was invoiced less what was paid, a submitted order keeps its
\* lines, a credit note fits the balance when it is issued, and a commission is
\* settled once.
BooksAgree ==
  [](StockIsItsMovements /\ ReceivedCameIn /\ PayablesAgree /\ CommissionPaidOnce) /\ SubmittedStays /\ CreditFitsBalance

\* Two workers, retries and hasty operators: no effect of a step twice; on one way through
\* the program, what its version says and nothing behind an approval before it is given;
\* a question that can be answered while the run waits for it, unless it was answered
\* before; and an ended run stays ended, unless a living worker was overtaken or the
\* answer to a write was lost.
RunsAreSafe ==
  [](SucceededAsWritten /\ EffectsOnce /\ GateHolds /\ WaitingCanBeDecided) /\ EndedStaysEnded
====
