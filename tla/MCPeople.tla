---- MODULE MCPeople ----
(* What people do, for TLC: the automatic renewal of one schedule, what people share beside
   messages, the operators' assistant, the pages of purchases and field work, and the web
   application's own store. They share no state; a behaviour exercises one of them. *)
EXTENDS Renewal, Community, Assistant, DemoStore, PurchaseDesk, FieldDesk

VARIABLE turn

peopleVars == <<turn, vars, folkVars, assistVars, demoVars, deskVars, fieldDeskVars>>

PeopleInit ==
  /\ turn \in {"renewal", "direct", "polls", "preferences", "stories", "apps", "assistant", "commands", "shelf", "lists", "desk",
                "scanner", "checklist"}
  /\ Init /\ CommunityInit /\ AssistInit /\ DemoInit /\ DeskInit /\ FieldDeskInit
  /\ bought[1].customer = CHOOSE c \in Buyers : TRUE
  /\ IF turn = "scanner" THEN 2 \in kept => 1 \in kept ELSE kept = {}
  /\ turn # "checklist" => ticked = {}
  /\ turn \notin {"assistant", "commands"} => aiRole = "READ_ONLY"

FolkTurn ==
  \/ turn = "direct" /\ DirectNext
  \/ turn = "polls" /\ PollNext
  \/ turn = "preferences" /\ PreferenceNext
  \/ turn = "stories" /\ (StoryNext \/ DirectNext)
  \/ turn = "apps" /\ AppNext
AssistTurn == (turn = "assistant" /\ AiNext) \/ (turn = "commands" /\ CommandNext)
DemoTurn ==
  \/ turn = "shelf" /\ (DemoTick \/ ShelfNext)
  \/ turn = "lists" /\ (DemoTick \/ ListNext)

PeopleNext ==
  \/ turn = "renewal" /\ Next /\ UNCHANGED <<turn, folkVars, assistVars, demoVars, deskVars, fieldDeskVars>>
  \/ FolkTurn /\ UNCHANGED <<turn, vars, assistVars, demoVars, deskVars, fieldDeskVars>>
  \/ AssistTurn /\ UNCHANGED <<turn, vars, folkVars, demoVars, deskVars, fieldDeskVars>>
  \/ DemoTurn /\ UNCHANGED <<turn, vars, folkVars, assistVars, deskVars, fieldDeskVars>>
  \/ turn = "desk" /\ DeskNext /\ UNCHANGED <<turn, vars, folkVars, assistVars, demoVars, fieldDeskVars>>
  \/ /\ (turn = "scanner" /\ ScanNext) \/ (turn = "checklist" /\ TickNext)
     /\ UNCHANGED <<turn, vars, folkVars, assistVars, demoVars, deskVars>>

PeopleSpec == PeopleInit /\ [][PeopleNext]_peopleVars

\* What a page shows and offers is of what is selected, scanned or queued on it, in
\* whatever order answers arrive; and only the open overlay's camera is looked at.
DeskHolds == [](PurchaseDeskHolds /\ FieldDeskHolds) /\ ScannedFromOverlay

TheMentions == [d \in Assets |-> IF d = 1 THEN {} ELSE {1}]
====
