---- MODULE Messages ----
(* One conversation: its members and who administers it, the messages, their edits, deletion and
   expiry, and the pinned ones; and, in the second half, what its readers have received and read. A
   request that reads and writes in two statements is a call with two steps, and the calls of
   different people, or of one person twice, overlap. Of messages, created_at is taken to be the
   moment of the commit; of receipts, the difference matters. *)
EXTENDS Integers, FiniteSets

CONSTANTS
  People,     \* users of the tenant
  Operators,  \* those whose tenant role is OWNER or ADMIN
  Founder,    \* who created the conversation
  Posts,      \* message ids
  MsgKeys,    \* idempotency keys clients send
  Calls,      \* requests that may be open at once
  PinLimit,   \* pinned messages of a conversation (3 in the code)
  MaxBodies,  \* bound: texts one message ever has
  NoPost, NoKey

VARIABLES
  role,       \* conversation_members: the role, or that the person left or never came
  post,       \* messages
  expiring,   \* message_expirations: messages with a time to live
  edits,      \* message_edits: the texts recorded as previous
  pins,       \* pinned_messages: not pinned, pinned for good, or until an hour
  call,       \* the open requests
  texts,      \* every text each message has had
  crossed,    \* messages two edits of which were open at once
  disowned    \* an administrator was made less, or removed by one who no longer was

msgVars == <<role, post, expiring, edits, pins, call, texts, crossed, disowned>>

ConvRoles == {"OWNER", "ADMIN", "MEMBER"}
Admins == {p \in People : role[p] \in {"OWNER", "ADMIN"}}
Members == {p \in People : role[p] # "out"}
Quiet == [op |-> "none"]

PostRows == [by : People, key : MsgKeys \cup {NoKey}, text : 1 .. MaxBodies, deleted : BOOLEAN]
Requests ==
  [op : {"send"}, who : People, key : MsgKeys \cup {NoKey}]
    \cup [op : {"edit"}, who : People, post : Posts, read : 1 .. MaxBodies]
    \cup [op : {"add"}, who : People, whom : People, as : {"ADMIN", "MEMBER"}]
    \cup [op : {"remove"}, who : People, whom : People]

ASSUME MessagesAssumption ==
  /\ IsFiniteSet(Posts) /\ IsFiniteSet(Calls)
  /\ Operators \subseteq People /\ Founder \in People
  /\ PinLimit \in Nat \ {0} /\ MaxBodies \in Nat \ {0}
  /\ NoPost \notin PostRows /\ NoKey \notin MsgKeys

MsgTypeOK ==
  /\ role \in [People -> ConvRoles \cup {"out"}]
  /\ post \in [Posts -> {NoPost} \cup PostRows]
  /\ expiring \subseteq Posts /\ crossed \subseteq Posts /\ disowned \in BOOLEAN
  /\ edits \in [Posts -> SUBSET (1 .. MaxBodies)] /\ texts \in [Posts -> SUBSET (1 .. MaxBodies)]
  /\ pins \in [Posts -> {"none", "kept", "ends"}]
  /\ call \in [Calls -> {Quiet} \cup Requests]

MsgInit ==
  /\ role \in {r \in [People -> ConvRoles \cup {"out"}] : \A p \in People : r[p] = "OWNER" <=> p = Founder}
  /\ post = [m \in Posts |-> NoPost] /\ expiring = {} /\ crossed = {} /\ disowned = FALSE
  /\ edits = [m \in Posts |-> {}] /\ texts = [m \in Posts |-> {}]
  /\ pins = [m \in Posts |-> "none"] /\ call = [c \in Calls |-> Quiet]

Open(c, request) == call[c] = Quiet /\ call' = [call EXCEPT ![c] = request]
Close(c) == call' = [call EXCEPT ![c] = Quiet]
Sent == {m \in Posts : post[m] # NoPost}
MayChange(p, m) == p \in Members /\ (post[m].by = p \/ p \in Operators)

------------------------
(* Messages. Forwarding inserts a message as sending does, without a key. *)

AskToSend(c, p, k) ==
  /\ p \in Members /\ Open(c, [op |-> "send", who |-> p, key |-> k])
  /\ UNCHANGED <<role, post, expiring, edits, pins, texts, crossed, disowned>>

KeyTaken(k) == k # NoKey /\ \E m \in Sent : post[m].key = k

Insert(p, k) ==
  \E m \in Posts \ Sent :
    /\ post' = [post EXCEPT ![m] = [by |-> p, key |-> k, text |-> 1, deleted |-> FALSE]]
    /\ texts' = [texts EXCEPT ![m] = {1}]

(* The transaction of sendMessage: a key that is known, or that another transaction inserts
   meanwhile (23505), answers with the first message. *)
SendMessage(c) ==
  /\ call[c].op = "send" /\ Close(c)
  /\ IF KeyTaken(call[c].key) THEN UNCHANGED <<post, texts>> ELSE Insert(call[c].who, call[c].key)
  /\ UNCHANGED <<role, expiring, edits, pins, crossed, disowned>>

AskToEdit(c, p, m) ==
  /\ m \in Sent /\ ~post[m].deleted /\ MayChange(p, m)
  /\ LET open == {d \in Calls : call[d].op = "edit" /\ call[d].post = m} IN
       /\ Cardinality(texts[m]) + Cardinality(open) < MaxBodies
       /\ crossed' = IF open # {} THEN crossed \cup {m} ELSE crossed
  /\ Open(c, [op |-> "edit", who |-> p, post |-> m, read |-> post[m].text])
  /\ UNCHANGED <<role, post, expiring, edits, pins, texts, disowned>>

(* The text it read before the transaction becomes the previous one. *)
\* Mutant: the text that goes is not kept.
EditUnkept(c) ==
  /\ call[c].op = "edit" /\ Close(c)
  /\ LET m == call[c].post text == Cardinality(texts[call[c].post]) + 1 IN
       /\ post' = [post EXCEPT ![m].text = text]
       /\ texts' = [texts EXCEPT ![m] = @ \cup {text}]
  /\ UNCHANGED <<role, expiring, edits, pins, crossed, disowned>>
EditMessage(c) ==
  /\ call[c].op = "edit" /\ Close(c)
  /\ LET m == call[c].post text == Cardinality(texts[call[c].post]) + 1 IN
       /\ edits' = [edits EXCEPT ![m] = @ \cup {call[c].read}]
       /\ post' = [post EXCEPT ![m].text = text]
       /\ texts' = [texts EXCEPT ![m] = @ \cup {text}]
  /\ UNCHANGED <<role, expiring, pins, crossed, disowned>>

DeleteMessage(p, m) ==
  /\ m \in Sent /\ ~post[m].deleted /\ MayChange(p, m)
  /\ post' = [post EXCEPT ![m].deleted = TRUE]
  /\ UNCHANGED <<role, expiring, edits, pins, call, texts, crossed, disowned>>

SetMessageExpiry(p, m) ==
  /\ m \in Sent /\ MayChange(p, m) /\ expiring' = expiring \cup {m}
  /\ UNCHANGED <<role, post, edits, pins, call, texts, crossed, disowned>>

(* processExpired, whenever a time to live is over. *)
ExpireMessages ==
  /\ \E ms \in SUBSET (expiring \cap Sent) :
       post' = [m \in Posts |-> IF m \in ms THEN [post[m] EXCEPT !.deleted = TRUE] ELSE post[m]]
  /\ UNCHANGED <<role, expiring, edits, pins, call, texts, crossed, disowned>>

------------------------
(* Pins. The advisory lock of the conversation makes the transaction one step. What it evicts is
   the row at OFFSET 2 in the order of created_at: the beginning of a transaction that may then have
   waited for the lock, so that it may be any of them. *)

Pinned(ps) == {m \in Posts : ps[m] # "none"}
Without(ps, ms) == [m \in Posts |-> IF m \in ms THEN "none" ELSE ps[m]]
Rooms(ps) == IF Cardinality(Pinned(ps)) >= PinLimit THEN {Without(ps, {m}) : m \in Pinned(ps)} ELSE {ps}
Pruned(ps, over) == Without(ps, {m \in over : ps[m] = "ends"})

PinMessage(p, m, for) ==
  /\ m \in Sent /\ p \in Members /\ p \in Operators
  /\ \E over \in SUBSET Posts : \E room \in Rooms(Pruned(pins, over)) : pins' = [room EXCEPT ![m] = for]
  /\ UNCHANGED <<role, post, expiring, edits, call, texts, crossed, disowned>>

UnpinMessage(p, m) ==
  /\ m \in Sent /\ p \in Members /\ p \in Operators
  /\ pins' = Without(pins, {m})
  /\ UNCHANGED <<role, post, expiring, edits, call, texts, crossed, disowned>>

ExpirePins ==
  /\ \E over \in SUBSET Posts : pins' = Pruned(pins, over)
  /\ UNCHANGED <<role, post, expiring, edits, call, texts, crossed, disowned>>

------------------------
(* Members: assertConversationAdmin first, the write in a statement after it. *)

AskToAdd(c, p, q, as) ==
  /\ p \in Admins /\ Open(c, [op |-> "add", who |-> p, whom |-> q, as |-> as])
  /\ UNCHANGED <<role, post, expiring, edits, pins, texts, crossed, disowned>>

AddMember(c) ==
  /\ call[c].op = "add" /\ Close(c)
  /\ role' = [role EXCEPT ![call[c].whom] = call[c].as]
  /\ disowned' = (disowned \/ (call[c].whom \in Admins /\ call[c].as = "MEMBER"))
  /\ UNCHANGED <<post, expiring, edits, pins, texts, crossed>>

AskToRemove(c, p, q) ==
  /\ p \in Admins /\ p # q /\ Open(c, [op |-> "remove", who |-> p, whom |-> q])
  /\ UNCHANGED <<role, post, expiring, edits, pins, texts, crossed, disowned>>

RemoveMember(c) ==
  /\ call[c].op = "remove" /\ Close(c)
  /\ role' = [role EXCEPT ![call[c].whom] = "out"]
  /\ disowned' = (disowned \/ call[c].who \notin Admins)
  /\ UNCHANGED <<post, expiring, edits, pins, texts, crossed>>

SendNext == \E c \in Calls : SendMessage(c) \/ \E p \in People, k \in MsgKeys \cup {NoKey} : AskToSend(c, p, k)

TextNext ==
  \/ SendNext \/ ExpireMessages \/ \E c \in Calls : EditMessage(c)
  \/ \E p \in People, m \in Posts : \/ DeleteMessage(p, m) \/ SetMessageExpiry(p, m)
                                   \/ \E c \in Calls : AskToEdit(c, p, m)

PinNext ==
  \/ SendNext \/ ExpirePins
  \/ \E p \in People, m \in Posts : UnpinMessage(p, m) \/ \E for \in {"kept", "ends"} : PinMessage(p, m, for)

MemberNext ==
  \/ \E c \in Calls : AddMember(c) \/ RemoveMember(c)
  \/ \E c \in Calls, p, q \in People : \/ AskToRemove(c, p, q)
                                       \/ \E as \in {"ADMIN", "MEMBER"} : AskToAdd(c, p, q, as)

MsgNext == TextNext \/ PinNext \/ MemberNext
MsgSpec == MsgInit /\ [][MsgNext]_msgVars

------------------------
(* Properties. *)

(* Whoever pins, again or anew, with pins ending in between: never more than three. *)
PinsWithinLimit == Cardinality(Pinned(pins)) <= PinLimit

(* A client that repeats a request, while the first one is still open too, has one message. *)
OneMessagePerKey ==
  \A m, n \in Sent : m # n => post[m].key # post[n].key \/ post[m].key = NoKey

(* The history of edits holds every text a message has had and no longer has: right as long as no
   two edits of it overlap, for the text recorded is the one read before the transaction. *)
EditsAreComplete == \A m \in Sent \ crossed : texts[m] \ {post[m].text} = edits[m]

(* Removing members never leaves a conversation without an administrator: that takes an
   administrator who is made a member by addMember, or two removals that overlap. *)
AdminRemains == Admins # {} \/ disowned

------------------------
(* What the readers of the conversation have received and read: the delivery rows of its messages,
   the two pointers and the moment markRead writes, the unread counter that is computed from it, and
   the sockets that mark deliveries when they connect. A message is created when the transaction of
   sendMessage begins and appears when it commits, and these orders may differ; message i is the
   i-th created. *)

CONSTANTS
  Readers,     \* members of the conversation other than the sender
  Screens,     \* requests readers may have open at once
  NumMessages, \* bound: messages of the conversation
  MaxReadFaults \* bound: failed statements of markRead

ASSUME ReceiptsAssumption == NumMessages \in Nat /\ MaxReadFaults \in Nat

VARIABLES
  begun,    \* messages created so far
  visible,  \* those committed
  forwarded, \* those that were forwarded here: nobody has a delivery row
  receipt,  \* message_deliveries
  readAt,   \* message_reads.read_at: how many messages were created before
  readUpTo, \* message_reads.last_read_message_id (0 is none)
  memberUpTo, \* conversation_members.last_read_message_id
  online,   \* readers with a socket
  reading,  \* markRead in each screen
  seen,       \* messages each reader had before it when a markRead that succeeded began
  overlapped, \* readers two readings of whom were open at once
  readFaults

receiptVars == <<begun, visible, forwarded, receipt, readAt, readUpTo, memberUpTo, online, reading, seen, overlapped,
                 readFaults>>

Numbers == 1 .. NumMessages
Closed == [at |-> "closed"]
Rank == [none |-> 0, SENT |-> 1, DELIVERED |-> 2, READ |-> 3]
Readings == [at : {"reads", "member", "receipts"}, who : Readers, upTo : 0 .. NumMessages,
             from : 0 .. NumMessages, saw : SUBSET Numbers]

ReceiptTypeOK ==
  /\ begun \in 0 .. NumMessages /\ visible \subseteq 1 .. begun /\ forwarded \subseteq visible
  /\ receipt \in [Readers -> [Numbers -> DOMAIN Rank]]
  /\ readAt \in [Readers -> 0 .. NumMessages] /\ readUpTo \in [Readers -> 0 .. NumMessages]
  /\ memberUpTo \in [Readers -> 0 .. NumMessages]
  /\ online \subseteq Readers /\ overlapped \subseteq Readers
  /\ reading \in [Screens -> {Closed} \cup Readings]
  /\ seen \in [Readers -> SUBSET Numbers]
  /\ readFaults \in 0 .. MaxReadFaults

ReceiptInit ==
  /\ begun = 0 /\ visible = {} /\ forwarded = {} /\ online = {} /\ overlapped = {} /\ readFaults = 0
  /\ receipt = [r \in Readers |-> [i \in Numbers |-> "none"]]
  /\ readAt = [r \in Readers |-> 0] /\ readUpTo = [r \in Readers |-> 0]
  /\ memberUpTo = [r \in Readers |-> 0] /\ reading = [s \in Screens |-> Closed]
  /\ seen = [r \in Readers |-> {}]

BeginMessage ==
  /\ begun < NumMessages /\ begun' = begun + 1
  /\ UNCHANGED <<visible, forwarded, receipt, readAt, readUpTo, memberUpTo, online, reading, seen, overlapped, readFaults>>

CommitMessage ==
  /\ \E i \in (1 .. begun) \ visible :
       /\ visible' = visible \cup {i}
       /\ receipt' = [r \in Readers |-> [receipt[r] EXCEPT ![i] = "SENT"]]
  /\ UNCHANGED <<begun, forwarded, readAt, readUpTo, memberUpTo, online, reading, seen, overlapped, readFaults>>

(* forwardMessage writes the message and nothing else. *)
CommitForward ==
  /\ \E i \in (1 .. begun) \ visible : visible' = visible \cup {i} /\ forwarded' = forwarded \cup {i}
  /\ UNCHANGED <<begun, receipt, readAt, readUpTo, memberUpTo, online, reading, seen, overlapped, readFaults>>

(* connection: what was sent while the reader was away is delivered now; what arrives later stays
   SENT until the next connection or reading. *)
Connect(r) ==
  /\ r \notin online /\ online' = online \cup {r}
  /\ receipt' = [receipt EXCEPT ![r] = [i \in Numbers |-> IF @[i] = "SENT" THEN "DELIVERED" ELSE @[i]]]
  /\ UNCHANGED <<begun, visible, forwarded, readAt, readUpTo, memberUpTo, reading, seen, overlapped, readFaults>>

Disconnect(r) ==
  /\ r \in online /\ online' = online \ {r}
  /\ UNCHANGED <<begun, visible, forwarded, receipt, readAt, readUpTo, memberUpTo, reading, seen, overlapped, readFaults>>

(* markRead: three statements without a transaction. *)
MarkRead(s, r, i) ==
  /\ reading[s] = Closed /\ i \in visible \cup {0}
  /\ reading' = [reading EXCEPT ![s] = [at |-> "reads", who |-> r, upTo |-> i, from |-> begun,
                                         saw |-> {j \in visible : j <= i}]]
  /\ overlapped' = IF \E t \in Screens : reading[t] # Closed /\ reading[t].who = r
                   THEN overlapped \cup {r} ELSE overlapped
  /\ UNCHANGED <<begun, visible, forwarded, receipt, readAt, readUpTo, memberUpTo, online, seen, readFaults>>

ReadStep(s, step) == reading' = [reading EXCEPT ![s].at = step]

(* now() is the moment the statement began, though it may have waited for the row. *)
WriteReads(s) ==
  /\ reading[s].at = "reads" /\ ReadStep(s, "member")
  /\ readUpTo' = [readUpTo EXCEPT ![reading[s].who] = reading[s].upTo]
  /\ \E n \in reading[s].from .. begun : readAt' = [readAt EXCEPT ![reading[s].who] = n]
  /\ UNCHANGED <<begun, visible, forwarded, receipt, memberUpTo, online, seen, overlapped, readFaults>>

WriteMember(s) ==
  /\ reading[s].at = "member" /\ ReadStep(s, "receipts")
  /\ memberUpTo' = [memberUpTo EXCEPT ![reading[s].who] = reading[s].upTo]
  /\ UNCHANGED <<begun, visible, forwarded, receipt, readAt, readUpTo, online, seen, overlapped, readFaults>>

\* Mutant: only rows that were delivered become READ.
WriteDelivered(s) ==
  /\ reading[s].at = "receipts" /\ reading' = [reading EXCEPT ![s] = Closed]
  /\ seen' = [seen EXCEPT ![reading[s].who] = @ \cup reading[s].saw]
  /\ receipt' = [receipt EXCEPT ![reading[s].who] = [i \in Numbers |->
                   IF i <= reading[s].upTo /\ @[i] = "DELIVERED" THEN "READ" ELSE @[i]]]
  /\ UNCHANGED <<begun, visible, forwarded, readAt, readUpTo, memberUpTo, online, overlapped, readFaults>>
WriteReceipts(s) ==
  /\ reading[s].at = "receipts" /\ reading' = [reading EXCEPT ![s] = Closed]
  /\ seen' = [seen EXCEPT ![reading[s].who] = @ \cup reading[s].saw]
  /\ receipt' = [receipt EXCEPT ![reading[s].who] = [i \in Numbers |->
                   IF i <= reading[s].upTo /\ @[i] # "none" THEN "READ" ELSE @[i]]]
  /\ UNCHANGED <<begun, visible, forwarded, readAt, readUpTo, memberUpTo, online, overlapped, readFaults>>

ReadFails(s) ==
  /\ reading[s] # Closed /\ readFaults < MaxReadFaults /\ readFaults' = readFaults + 1
  /\ reading' = [reading EXCEPT ![s] = Closed]
  /\ UNCHANGED <<begun, visible, forwarded, receipt, readAt, readUpTo, memberUpTo, online, seen, overlapped>>

ReceiptNext ==
  \/ BeginMessage \/ CommitMessage \/ CommitForward
  \/ \E r \in Readers : Connect(r) \/ Disconnect(r) \/ \E s \in Screens, i \in 0 .. begun : MarkRead(s, r, i)
  \/ \E s \in Screens : WriteReads(s) \/ WriteMember(s) \/ WriteReceipts(s) \/ ReadFails(s)

ReceiptSpec == ReceiptInit /\ [][ReceiptNext]_receiptVars

------------------------
(* Properties. *)

Resting(r) == \A s \in Screens : reading[s] # Closed => reading[s].who # r

(* What a reader had before it when it marked a message as read has the receipt READ once the
   request is over, and keeps it: delivered before or not, whatever other screens and sockets of the
   reader do. Only what was forwarded has no receipt. *)
SeenIsRead == \A r \in Readers : \A i \in seen[r] : receipt[r][i] = "READ" \/ i \in forwarded

(* unreadCount of listConversations: what was created after the moment of the last reading. *)
Unread(r) == {i \in visible : i > readAt[r]}

(* What a reader marked as read is not counted as unread afterwards, unless two of the reader's
   screens marked at the same time: the later write may have the earlier moment. That the counter
   counts all the rest is not so: what was created before a reading and committed after it is
   passed over. *)
SeenIsNotCounted == \A r \in Readers \ overlapped : seen[r] \cap Unread(r) = {}

(* The two pointers of a reader at rest name the same message, unless a statement failed or two of
   the reader's screens marked at the same time. *)
PointersAgree ==
  \A r \in Readers : Resting(r) /\ readFaults = 0 /\ r \notin overlapped => readUpTo[r] = memberUpTo[r]

(* A receipt never goes back, whatever reconnects while the reader reads. *)
ReceiptsMoveForward ==
  [][\A r \in Readers, i \in Numbers : Rank[receipt[r][i]] <= Rank[receipt'[r][i]]]_receiptVars
====
