---- MODULE RecordsProofs ----
(* What holds of conversations, receipts, the books of procurement and the runs of workflows for
   every number of people, requests, messages, rows and workers: the inductive invariant of each,
   and that each of its steps keeps it. *)
EXTENDS MCRecords, Sums, FiniteSetTheorems, TLAPS

------------------------
(* Conversations. A message that was sent has had the texts 1, 2, ... up to its present one; an
   open edit has read the present one unless another edit of the message was open with it; and
   whoever removes somebody removes another person. *)
OpenEdits(m) == {c \in Calls : call[c].op = "edit" /\ call[c].post = m}
TextsCounted == \A m \in Posts : IF post[m] = NoPost THEN texts[m] = {} /\ edits[m] = {} ELSE texts[m] = 1..post[m].text
TextsBounded == \A m \in Posts : post[m] # NoPost => post[m].text + Cardinality(OpenEdits(m)) <= MaxBodies
EditsAreOfSent == \A c \in Calls : call[c].op = "edit" => post[call[c].post] # NoPost
ReadIsCurrent == \A m \in Posts \ crossed : \A c, d \in OpenEdits(m) : c = d /\ call[c].read = post[m].text
RemovesAnother == \A c \in Calls : call[c].op = "remove" => call[c].who # call[c].whom

TextInv == TextsCounted /\ TextsBounded /\ EditsAreOfSent /\ ReadIsCurrent /\ OneMessagePerKey /\ EditsAreComplete
MsgInv == MsgTypeOK /\ TextInv /\ PinsWithinLimit /\ RemovesAnother /\ AdminRemains

LEMMA MsgRowsAreReal ==
  /\ NoPost \notin PostRows /\ Quiet \notin Requests /\ NoKey \notin MsgKeys
  /\ MaxBodies \in Nat \ {0} /\ PinLimit \in Nat \ {0} /\ IsFiniteSet(Posts) /\ IsFiniteSet(Calls)
  /\ Operators \subseteq People /\ Founder \in People BY MessagesAssumption DEF Quiet, Requests

LEMMA MsgInitOK == MsgInit => MsgInv
<1> SUFFICES ASSUME MsgInit PROVE MsgInv OBVIOUS
<1> USE MsgRowsAreReal
<1>1. MsgTypeOK BY DEF MsgInit, MsgTypeOK
<1>2. \A c \in Calls : call[c].op = "none" BY DEF MsgInit, Quiet
<1>3. Sent = {} BY DEF MsgInit, Sent
<1>4. TextInv
  BY <1>2,<1>3 DEF MsgInit, TextInv, TextsCounted, TextsBounded, EditsAreOfSent, ReadIsCurrent, OpenEdits, OneMessagePerKey, EditsAreComplete
<1>5. Pinned(pins) = {} BY DEF MsgInit, Pinned
<1>6. PinsWithinLimit BY <1>5, FS_EmptySet DEF PinsWithinLimit
<1>7. role[Founder] = "OWNER" BY DEF MsgInit
<1>8. AdminRemains /\ RemovesAnother BY <1>2,<1>7 DEF AdminRemains, Admins, RemovesAnother
<1> QED BY <1>1,<1>4,<1>6,<1>8 DEF MsgInv

(* What the texts of a step rest on: the calls that are not edits may come and go, and nothing else. *)
LEMMA EditsUntouched ==
  ASSUME MsgTypeOK, MsgTypeOK', NEW c \in Calls, NEW new, call' = [call EXCEPT ![c] = new], call[c].op # "edit", new.op # "edit"
  PROVE  /\ \A d \in Calls : call'[d].op = "edit" => call'[d] = call[d]
         /\ \A m \in Posts : OpenEdits(m)' = OpenEdits(m)
<1>1. \A d \in Calls : d # c => call'[d] = call[d] BY DEF MsgTypeOK
<1>2. call'[c] = new BY DEF MsgTypeOK
<1> QED BY <1>1,<1>2 DEF OpenEdits

LEMMA TextsStand ==
  ASSUME MsgTypeOK, TextInv, UNCHANGED <<edits, texts, crossed>>, \A m \in Posts : OpenEdits(m)' = OpenEdits(m),
      \A d \in Calls : call'[d].op = "edit" => call'[d] = call[d],
      \A m \in Posts : /\ post'[m] # NoPost <=> post[m] # NoPost
                       /\ post'[m].text = post[m].text /\ post'[m].key = post[m].key
  PROVE TextInv'
<1>1. TextsCounted' /\ TextsBounded' BY DEF TextInv, TextsCounted, TextsBounded
<1>2. EditsAreOfSent'
 <2> SUFFICES ASSUME NEW d \in Calls, call'[d].op = "edit" PROVE post'[call'[d].post] # NoPost BY DEF EditsAreOfSent
 <2>1. call'[d] = call[d] /\ post[call[d].post] # NoPost BY DEF TextInv, EditsAreOfSent
 <2>2. call[d] \in Requests BY <2>1, MsgRowsAreReal DEF MsgTypeOK, Quiet
 <2>3. call[d].post \in Posts BY <2>1,<2>2 DEF Requests
 <2> QED BY <2>1,<2>3
<1>3. ReadIsCurrent' BY DEF TextInv, ReadIsCurrent, OpenEdits
<1>4. OneMessagePerKey' BY DEF TextInv, OneMessagePerKey, Sent
<1>5. EditsAreComplete' BY DEF TextInv, EditsAreComplete, Sent
<1> QED BY <1>1,<1>2,<1>3,<1>4,<1>5 DEF TextInv

LEMMA EditCalls ==
  ASSUME MsgTypeOK, NEW c \in Calls
  PROVE  /\ call[c].op = "edit" => call[c] \in [op : {"edit"}, who : People, post : Posts, read : 1 .. MaxBodies]
         /\ call[c].op = "send" => call[c] \in [op : {"send"}, who : People, key : MsgKeys \cup {NoKey}]
         /\ call[c].op = "add" => call[c] \in [op : {"add"}, who : People, whom : People, as : {"ADMIN", "MEMBER"}]
         /\ call[c].op = "remove" => call[c] \in [op : {"remove"}, who : People, whom : People] BY MsgRowsAreReal DEF MsgTypeOK, Requests, Quiet

(* A call that is no edit: everything about texts stands. *)
LEMMA OtherCall ==
  ASSUME MsgInv, MsgTypeOK', NEW c \in Calls, NEW new, call' = [call EXCEPT ![c] = new],
      call[c].op # "edit", new.op # "edit", UNCHANGED <<post, edits, texts, crossed>>
  PROVE TextInv' BY EditsUntouched, TextsStand DEF MsgInv

LEMMA RemovesStand ==
  ASSUME MsgTypeOK, MsgTypeOK', RemovesAnother, NEW c \in Calls, NEW new, call' = [call EXCEPT ![c] = new], new.op = "remove" => new.who # new.whom
  PROVE RemovesAnother' BY DEF MsgTypeOK, RemovesAnother

LEMMA AskToSendOK == ASSUME MsgInv, NEW c \in Calls, NEW p \in People, NEW k \in MsgKeys \cup {NoKey}, AskToSend(c, p, k) PROVE MsgInv'
<1> USE MsgRowsAreReal
<1> PICK new : new = [op |-> "send", who |-> p, key |-> k] OBVIOUS
<1>1. call[c] = Quiet /\ call' = [call EXCEPT ![c] = new] BY DEF AskToSend, Open
<1>2. new \in Requests BY DEF Requests
<1>3. UNCHANGED <<role, post, expiring, edits, pins, texts, crossed, disowned>> BY DEF AskToSend
<1>4. MsgTypeOK' BY <1>1,<1>2,<1>3 DEF MsgInv, MsgTypeOK
<1>5. TextInv'
 <2>1. call[c].op # "edit" /\ new.op # "edit" BY <1>1 DEF Quiet
 <2> QED BY <1>1,<1>3,<1>4,<2>1, OtherCall
<1>6. RemovesAnother' BY <1>1,<1>4, RemovesStand DEF MsgInv
<1>7. PinsWithinLimit' /\ AdminRemains' BY <1>3 DEF MsgInv, PinsWithinLimit, Pinned, AdminRemains, Admins
<1> QED BY <1>4,<1>5,<1>6,<1>7 DEF MsgInv

LEMMA SendMessageOK == ASSUME MsgInv, NEW c \in Calls, SendMessage(c) PROVE MsgInv'
<1> USE MsgRowsAreReal
<1>1. call[c].op = "send" /\ call' = [call EXCEPT ![c] = Quiet] BY DEF SendMessage, Close
<1>2. UNCHANGED <<role, expiring, edits, pins, crossed, disowned>> BY DEF SendMessage
<1> DEFINE p == call[c].who  k == call[c].key
<1>3. p \in People /\ k \in MsgKeys \cup {NoKey} BY <1>1, EditCalls DEF MsgInv
<1>4. CASE UNCHANGED <<post, texts>>
 <2>1. MsgTypeOK' BY <1>1,<1>2,<1>4 DEF MsgInv, MsgTypeOK
 <2>2. TextInv'
  <3>1. call[c].op # "edit" /\ Quiet.op # "edit" BY <1>1 DEF Quiet
  <3> QED BY <1>1,<1>2,<1>4,<2>1,<3>1, OtherCall
 <2>3. RemovesAnother' BY <1>1,<2>1, RemovesStand DEF MsgInv, Quiet
 <2>4. PinsWithinLimit' /\ AdminRemains' BY <1>2 DEF MsgInv, PinsWithinLimit, Pinned, AdminRemains, Admins
 <2> QED BY <2>1,<2>2,<2>3,<2>4 DEF MsgInv
<1>5. CASE ~KeyTaken(k) /\ Insert(p, k)
 <2> DEFINE new == [by |-> p, key |-> k, text |-> 1, deleted |-> FALSE]
 <2>1. PICK m \in Posts \ Sent : post' = [post EXCEPT ![m] = new] /\ texts' = [texts EXCEPT ![m] = {1}] BY <1>5 DEF Insert
 <2>2. new \in PostRows /\ new # NoPost /\ new.text = 1
  <3>1. 1 \in 1..MaxBodies OBVIOUS
  <3>2. new \in PostRows BY <1>3,<3>1 DEF PostRows
  <3> QED BY <3>2
 <2>3. MsgTypeOK' BY <1>1,<1>2,<2>1,<2>2 DEF MsgInv, MsgTypeOK
 <2>4. post[m] = NoPost /\ post'[m] = new /\ texts'[m] = {1} /\ m \in Posts
       /\ \A n \in Posts \ {m} : post'[n] = post[n] /\ texts'[n] = texts[n] BY <2>1 DEF MsgInv, MsgTypeOK, Sent
 <2>5. (\A d \in Calls : call'[d].op = "edit" => call'[d] = call[d]) /\ \A n \in Posts : OpenEdits(n)' = OpenEdits(n)
  <3>1. call[c].op # "edit" /\ Quiet.op # "edit" BY <1>1 DEF Quiet
  <3> QED BY <1>1,<2>3,<3>1, EditsUntouched DEF MsgInv
 <2>6. OpenEdits(m) = {} BY <2>4 DEF MsgInv, TextInv, EditsAreOfSent, OpenEdits
 <2>7. TextsCounted'
  <3> SUFFICES ASSUME NEW q \in Posts
    PROVE IF post'[q] = NoPost THEN texts'[q] = {} /\ edits'[q] = {} ELSE texts'[q] = 1..post'[q].text BY DEF TextsCounted
  <3>1. CASE q = m
   <4>1. texts'[m] = 1..1 BY <2>4
   <4> QED BY <2>2,<2>4,<3>1,<4>1
  <3>2. CASE q # m
   <4>1. post'[q] = post[q] /\ texts'[q] = texts[q] /\ edits'[q] = edits[q] BY <1>2,<2>4,<3>2
   <4> QED BY <4>1 DEF MsgInv, TextInv, TextsCounted
  <3> QED BY <3>1,<3>2
 <2>8. TextsBounded'
  <3>1. Cardinality(OpenEdits(m)') = 0 BY <2>4,<2>5,<2>6, FS_EmptySet
  <3>2. post'[m].text + Cardinality(OpenEdits(m)') <= MaxBodies BY <2>4,<3>1
  <3> QED BY <2>4,<2>5,<3>2 DEF MsgInv, TextInv, TextsBounded
 <2>9. EditsAreOfSent'
  <3> SUFFICES ASSUME NEW d \in Calls, call'[d].op = "edit" PROVE post'[call'[d].post] # NoPost BY DEF EditsAreOfSent
  <3>1. call'[d] = call[d] /\ call[d].op = "edit" BY <2>5
  <3>2. call[d].post \in Posts /\ post[call[d].post] # NoPost BY <3>1, EditCalls DEF MsgInv, TextInv, EditsAreOfSent
  <3> QED BY <2>2,<2>4,<3>1,<3>2
 <2>10. ReadIsCurrent' BY <1>2,<2>4,<2>5,<2>6 DEF MsgInv, TextInv, ReadIsCurrent, OpenEdits
 <2>11. Sent' = Sent \cup {m} BY <2>2,<2>4 DEF Sent
 <2>12. OneMessagePerKey'
  <3>1. k = NoKey \/ \A n \in Sent : post[n].key # k BY <1>5 DEF KeyTaken
  <3>2. post'[m].key = k BY <2>4
  <3>3. \A n \in Sent : n \in Posts /\ n # m /\ post'[n] = post[n] BY <2>4 DEF Sent
  <3> QED BY <2>11,<3>1,<3>2,<3>3 DEF MsgInv, TextInv, OneMessagePerKey
 <2>13. EditsAreComplete'
  <3>1. \A n \in Sent : n \in Posts /\ n # m BY <2>4 DEF Sent
  <3>2. \A n \in Sent \ crossed : texts'[n] \ {post'[n].text} = edits'[n] BY <1>2,<2>4,<3>1 DEF MsgInv, TextInv, EditsAreComplete
  <3>3. edits[m] = {} BY <2>4 DEF MsgInv, TextInv, TextsCounted
  <3>4. texts'[m] \ {post'[m].text} = edits'[m] BY <1>2,<2>4,<3>3
  <3> QED BY <1>2,<2>11,<3>2,<3>4 DEF EditsAreComplete
 <2>14. TextInv' BY <2>7,<2>8,<2>9,<2>10,<2>12,<2>13 DEF TextInv
 <2>15. RemovesAnother' BY <1>1,<2>3, RemovesStand DEF MsgInv, Quiet
 <2>16. PinsWithinLimit' /\ AdminRemains' BY <1>2 DEF MsgInv, PinsWithinLimit, Pinned, AdminRemains, Admins
 <2> QED BY <2>3,<2>14,<2>15,<2>16 DEF MsgInv
<1> QED BY <1>4,<1>5 DEF SendMessage, KeyTaken

LEMMA OpenEditsFinite == \A m : IsFiniteSet(OpenEdits(m)) /\ Cardinality(OpenEdits(m)) \in Nat
<1> TAKE m
<1>1. OpenEdits(m) \subseteq Calls BY DEF OpenEdits
<1> QED BY <1>1, MsgRowsAreReal, FS_Subset, FS_CardinalityType

LEMMA AskToEditOK == ASSUME MsgInv, NEW c \in Calls, NEW p \in People, NEW m \in Posts, AskToEdit(c, p, m) PROVE MsgInv'
<1> USE MsgRowsAreReal
<1> DEFINE new == [op |-> "edit", who |-> p, post |-> m, read |-> post[m].text]
<1>1. call[c] = Quiet /\ call' = [call EXCEPT ![c] = new] BY DEF AskToEdit, Open
<1>2. UNCHANGED <<role, post, expiring, edits, pins, texts, disowned>> BY DEF AskToEdit
<1>3. post[m] # NoPost /\ post[m] \in PostRows BY DEF AskToEdit, Sent, MsgInv, MsgTypeOK
<1>4. new \in Requests BY <1>3 DEF Requests, PostRows
<1>5. crossed' = IF OpenEdits(m) # {} THEN crossed \cup {m} ELSE crossed BY DEF AskToEdit, OpenEdits
<1>6. MsgTypeOK' BY <1>1,<1>2,<1>4,<1>5 DEF MsgInv, MsgTypeOK
<1>7. call'[c] = new /\ c \in Calls /\ \A d \in Calls \ {c} : call'[d] = call[d] BY <1>1,<1>6 DEF MsgInv, MsgTypeOK
<1>8. OpenEdits(m)' = OpenEdits(m) \cup {c} /\ c \notin OpenEdits(m) /\ \A n \in Posts \ {m} : OpenEdits(n)' = OpenEdits(n)
  BY <1>1,<1>7 DEF OpenEdits, Quiet
<1>9. texts[m] = 1..post[m].text /\ post[m].text \in Nat BY <1>3 DEF MsgInv, TextInv, TextsCounted, PostRows
<1>10. Cardinality(texts[m]) = post[m].text BY <1>9, FS_Interval
<1>11. TextsBounded'
 <2>1. Cardinality(OpenEdits(m)') = Cardinality(OpenEdits(m)) + 1 BY <1>8, OpenEditsFinite, FS_AddElement
 <2>2. Cardinality(texts[m]) + Cardinality(OpenEdits(m)) < MaxBodies BY DEF AskToEdit, OpenEdits
 <2>3. Cardinality(OpenEdits(m)) \in Nat BY OpenEditsFinite
 <2>4. post'[m].text + Cardinality(OpenEdits(m)') <= MaxBodies BY <1>2,<1>9,<1>10,<2>1,<2>2,<2>3
 <2> QED BY <1>2,<1>8,<2>4 DEF MsgInv, TextInv, TextsBounded
<1>12. TextsCounted' /\ OneMessagePerKey' BY <1>2 DEF MsgInv, TextInv, TextsCounted, OneMessagePerKey, Sent
<1>13. EditsAreOfSent' BY <1>2,<1>3,<1>7 DEF MsgInv, TextInv, EditsAreOfSent
<1>14. crossed \subseteq crossed' BY <1>5
<1>15. EditsAreComplete' BY <1>2,<1>14 DEF MsgInv, TextInv, EditsAreComplete, Sent
<1>16. ReadIsCurrent'
 <2> SUFFICES ASSUME NEW n \in Posts \ crossed', NEW d \in OpenEdits(n)', NEW e \in OpenEdits(n)'
   PROVE d = e /\ call'[d].read = post'[n].text BY DEF ReadIsCurrent
 <2>1. CASE n = m
  <3>1. OpenEdits(m) = {} BY <1>5,<2>1
  <3>2. d = c /\ e = c BY <1>8,<2>1,<3>1
  <3> QED BY <1>2,<1>7,<2>1,<3>2
 <2>2. CASE n # m
  <3>1. n \in Posts \ crossed /\ d \in OpenEdits(n) /\ e \in OpenEdits(n) BY <1>8,<1>14,<2>2
  <3>2. d # c BY <1>1,<3>1 DEF OpenEdits, Quiet
  <3>3. call'[d] = call[d] BY <1>7,<3>1,<3>2 DEF OpenEdits
  <3> QED BY <1>2,<3>1,<3>3 DEF MsgInv, TextInv, ReadIsCurrent
 <2> QED BY <2>1,<2>2
<1>17. RemovesAnother' BY <1>1,<1>6, RemovesStand DEF MsgInv
<1>18. PinsWithinLimit' /\ AdminRemains' BY <1>2 DEF MsgInv, PinsWithinLimit, Pinned, AdminRemains, Admins
<1> QED BY <1>6,<1>11,<1>12,<1>13,<1>15,<1>16,<1>17,<1>18 DEF MsgInv, TextInv

LEMMA EditMessageOK == ASSUME MsgInv, NEW c \in Calls, EditMessage(c) PROVE MsgInv'
<1> USE MsgRowsAreReal
<1>1. call[c].op = "edit" /\ call' = [call EXCEPT ![c] = Quiet] BY DEF EditMessage, Close
<1>2. UNCHANGED <<role, expiring, pins, crossed, disowned>> BY DEF EditMessage
<1>3. call[c] \in [op : {"edit"}, who : People, post : Posts, read : 1..MaxBodies] BY <1>1, EditCalls DEF MsgInv
<1> PICK m \in Posts : m = call[c].post BY <1>3
<1> PICK n : n = post[m].text OBVIOUS
<1>4. post[m] # NoPost /\ post[m] \in PostRows BY <1>1 DEF MsgInv, TextInv, EditsAreOfSent, MsgTypeOK
<1>5. n \in 1..MaxBodies /\ texts[m] = 1..n BY <1>4 DEF MsgInv, TextInv, TextsCounted, PostRows
<1>6. Cardinality(texts[m]) = n BY <1>5, FS_Interval
<1>7. c \in OpenEdits(m) BY <1>1 DEF OpenEdits
<1>8. OpenEdits(m)' = OpenEdits(m) \ {c} /\ \A q \in Posts \ {m} : OpenEdits(q)' = OpenEdits(q)
 <2>1. call'[c] = Quiet /\ \A d \in Calls \ {c} : call'[d] = call[d] BY <1>1 DEF MsgInv, MsgTypeOK
 <2> QED BY <1>1,<2>1 DEF OpenEdits, Quiet
<1>9. Cardinality(OpenEdits(m)') = Cardinality(OpenEdits(m)) - 1
 <2>1. IsFiniteSet(OpenEdits(m)) BY OpenEditsFinite
 <2> QED BY ONLY <1>7,<1>8,<2>1, FS_RemoveElement
<1>10. n + Cardinality(OpenEdits(m)) <= MaxBodies BY <1>4 DEF MsgInv, TextInv, TextsBounded
<1>11. Cardinality(OpenEdits(m)) \in Nat /\ Cardinality(OpenEdits(m)') \in Nat BY OpenEditsFinite, <1>7,<1>8, FS_RemoveElement, FS_CardinalityType
<1>12. n + 1 \in 1..MaxBodies BY <1>5,<1>9,<1>10,<1>11
<1>13. /\ edits' = [edits EXCEPT ![m] = @ \cup {call[c].read}]
       /\ post' = [post EXCEPT ![m].text = n + 1]
       /\ texts' = [texts EXCEPT ![m] = @ \cup {n + 1}] BY <1>6 DEF EditMessage
<1>14. [post[m] EXCEPT !.text = n + 1] \in PostRows BY <1>4,<1>12 DEF PostRows
<1>15. MsgTypeOK' BY <1>1,<1>2,<1>3,<1>12,<1>13,<1>14 DEF MsgInv, MsgTypeOK
<1>16. /\ post'[m] = [post[m] EXCEPT !.text = n + 1] /\ texts'[m] = texts[m] \cup {n + 1} /\ edits'[m] = edits[m] \cup {call[c].read}
       /\ \A q \in Posts \ {m} : post'[q] = post[q] /\ texts'[q] = texts[q] /\ edits'[q] = edits[q] BY <1>13 DEF MsgInv, MsgTypeOK
<1>17. post'[m].text = n + 1 /\ post'[m].key = post[m].key /\ post'[m] # NoPost BY <1>4,<1>14,<1>16 DEF PostRows
<1>18. TextsCounted'
 <2>1. texts'[m] = 1..n + 1 BY <1>5,<1>16
 <2> SUFFICES ASSUME NEW q \in Posts
   PROVE IF post'[q] = NoPost THEN texts'[q] = {} /\ edits'[q] = {} ELSE texts'[q] = 1..post'[q].text BY DEF TextsCounted
 <2>2. CASE q = m BY <1>17,<2>1,<2>2
 <2>3. CASE q # m
  <3>1. post'[q] = post[q] /\ texts'[q] = texts[q] /\ edits'[q] = edits[q] BY <1>16,<2>3
  <3> QED BY <3>1 DEF MsgInv, TextInv, TextsCounted
 <2> QED BY <2>2,<2>3
<1>19. TextsBounded'
 <2>1. post'[m].text + Cardinality(OpenEdits(m)') <= MaxBodies BY <1>5,<1>9,<1>10,<1>11,<1>17
 <2> QED BY <1>8,<1>16,<2>1 DEF MsgInv, TextInv, TextsBounded
<1>20. EditsAreOfSent'
 <2> SUFFICES ASSUME NEW d \in Calls, call'[d].op = "edit" PROVE post'[call'[d].post] # NoPost BY DEF EditsAreOfSent
 <2>1. call'[d] = call[d] BY <1>1 DEF MsgInv, MsgTypeOK, Quiet
 <2>2. call[d].post \in Posts /\ post[call[d].post] # NoPost BY <2>1, EditCalls DEF MsgInv, TextInv, EditsAreOfSent
 <2> QED BY <1>16,<1>17,<2>1,<2>2
<1>21. ReadIsCurrent'
 <2> SUFFICES ASSUME NEW q \in Posts \ crossed', NEW d \in OpenEdits(q)', NEW e \in OpenEdits(q)'
   PROVE d = e /\ call'[d].read = post'[q].text BY DEF ReadIsCurrent
 <2>1. q # m
  <3>1. q = m => c = d BY <1>2,<1>7,<1>8 DEF MsgInv, TextInv, ReadIsCurrent
  <3> QED BY <1>8,<3>1
 <2>2. d \in OpenEdits(q) /\ e \in OpenEdits(q) BY <1>8,<2>1
 <2>3. d # c BY <2>1,<2>2 DEF OpenEdits
 <2>4. call'[d] = call[d] BY <1>1,<2>2,<2>3 DEF OpenEdits, MsgInv, MsgTypeOK
 <2> QED BY <1>2,<1>16,<2>1,<2>2,<2>4 DEF MsgInv, TextInv, ReadIsCurrent
<1>22. Sent' = Sent BY <1>4,<1>16,<1>17 DEF Sent
<1>23. OneMessagePerKey'
 <2>1. \A q \in Posts : post'[q].key = post[q].key BY <1>16,<1>17
 <2> QED BY <1>22,<2>1 DEF MsgInv, TextInv, OneMessagePerKey, Sent
<1>24. EditsAreComplete'
 <2>1. ASSUME m \notin crossed PROVE texts'[m] \ {post'[m].text} = edits'[m]
  <3>1. call[c].read = n BY <1>7,<2>1 DEF MsgInv, TextInv, ReadIsCurrent
  <3>2. texts[m] \ {n} = edits[m] BY <1>4,<2>1 DEF MsgInv, TextInv, EditsAreComplete, Sent
  <3>3. n + 1 \notin 1..n BY <1>5
  <3> QED BY <1>5,<1>16,<1>17,<3>1,<3>2,<3>3
 <2> SUFFICES ASSUME NEW q \in Sent \ crossed' PROVE texts'[q] \ {post'[q].text} = edits'[q] BY <1>22 DEF EditsAreComplete
 <2>2. CASE q = m BY <1>2,<2>1,<2>2
 <2>3. CASE q # m
  <3>1. q \in Posts /\ texts[q] \ {post[q].text} = edits[q] BY <1>2 DEF MsgInv, TextInv, EditsAreComplete, Sent
  <3> QED BY <1>16,<2>3,<3>1
 <2> QED BY <2>2,<2>3
<1>25. RemovesAnother' BY <1>1,<1>15, RemovesStand DEF MsgInv, Quiet
<1>26. PinsWithinLimit' /\ AdminRemains' BY <1>2 DEF MsgInv, PinsWithinLimit, Pinned, AdminRemains, Admins
<1> QED BY <1>15,<1>18,<1>19,<1>20,<1>21,<1>23,<1>24,<1>25,<1>26 DEF MsgInv, TextInv

(* Deletion, by hand or by time, keeps every text. *)
LEMMA DeletionOK ==
  ASSUME MsgInv, NEW ms \in SUBSET Sent, post' = [m \in Posts |-> IF m \in ms THEN [post[m] EXCEPT !.deleted = TRUE] ELSE post[m]],
         UNCHANGED <<role, expiring, edits, pins, call, texts, crossed, disowned>>
  PROVE MsgInv'
<1> USE MsgRowsAreReal
<1>1. ASSUME NEW m \in ms
  PROVE  /\ [post[m] EXCEPT !.deleted = TRUE] \in PostRows /\ post[m] # NoPost
         /\ [post[m] EXCEPT !.deleted = TRUE].text = post[m].text
         /\ [post[m] EXCEPT !.deleted = TRUE].key = post[m].key
 <2>1. post[m] \in PostRows /\ post[m] # NoPost BY DEF Sent, MsgInv, MsgTypeOK
 <2> QED BY <2>1 DEF PostRows
<1>2. MsgTypeOK' BY <1>1 DEF MsgInv, MsgTypeOK
<1>3. \A m \in Posts : /\ post'[m] # NoPost <=> post[m] # NoPost
                        /\ post'[m].text = post[m].text /\ post'[m].key = post[m].key BY <1>1
<1>4. TextInv' BY <1>3, TextsStand DEF MsgInv, OpenEdits
<1>5. (RemovesAnother /\ PinsWithinLimit /\ AdminRemains)' BY DEF MsgInv, RemovesAnother, PinsWithinLimit, Pinned, AdminRemains, Admins
<1> QED BY <1>2,<1>4,<1>5 DEF MsgInv

LEMMA DeleteMessageOK == ASSUME MsgInv, NEW p \in People, NEW m \in Posts, DeleteMessage(p, m) PROVE MsgInv'
<1>1. m \in Sent /\ post' = [post EXCEPT ![m].deleted = TRUE] BY DEF DeleteMessage
<1>2. post' = [q \in Posts |-> IF q \in {m} THEN [post[q] EXCEPT !.deleted = TRUE] ELSE post[q]] BY <1>1 DEF MsgInv, MsgTypeOK
<1>3. {m} \in SUBSET Sent BY <1>1
<1> QED BY <1>2,<1>3, DeletionOK DEF DeleteMessage

LEMMA ExpireMessagesOK == ASSUME MsgInv, ExpireMessages PROVE MsgInv'
<1>1. PICK ms \in SUBSET (expiring \cap Sent) :
        post' = [m \in Posts |-> IF m \in ms THEN [post[m] EXCEPT !.deleted = TRUE] ELSE post[m]] BY DEF ExpireMessages
<1>2. ms \in SUBSET Sent OBVIOUS
<1> QED BY <1>1,<1>2, DeletionOK DEF ExpireMessages

LEMMA SetMessageExpiryOK == ASSUME MsgInv, NEW p \in People, NEW m \in Posts, SetMessageExpiry(p, m) PROVE MsgInv'
  BY DEF SetMessageExpiry, MsgInv, MsgTypeOK, TextInv, TextsCounted, TextsBounded, EditsAreOfSent, ReadIsCurrent, OpenEdits, OneMessagePerKey,
    EditsAreComplete, Sent, RemovesAnother, PinsWithinLimit, Pinned, AdminRemains, Admins

(* Pins. *)
PinRows == [Posts -> {"none", "kept", "ends"}]

LEMMA PinsOnly ==
  ASSUME MsgInv, pins' \in PinRows, Cardinality(Pinned(pins')) <= PinLimit, UNCHANGED <<role, post, expiring, edits, call, texts, crossed, disowned>>
  PROVE MsgInv'
<1>1. MsgTypeOK' BY DEF MsgInv, MsgTypeOK, PinRows
<1>2. PinsWithinLimit' BY DEF PinsWithinLimit
<1>3. TextInv' /\ RemovesAnother' /\ AdminRemains'
  BY DEF MsgInv, TextInv, TextsCounted, TextsBounded, EditsAreOfSent, ReadIsCurrent, OpenEdits, OneMessagePerKey, EditsAreComplete, Sent,
    RemovesAnother, AdminRemains, Admins
<1> QED BY <1>1,<1>2,<1>3 DEF MsgInv

LEMMA PinnedFinite == ASSUME NEW ps PROVE IsFiniteSet(Pinned(ps)) /\ Cardinality(Pinned(ps)) \in Nat
<1>1. Pinned(ps) \subseteq Posts BY DEF Pinned
<1> QED BY <1>1, MsgRowsAreReal, FS_Subset, FS_CardinalityType

LEMMA WithoutIsLess ==
  ASSUME NEW ps \in PinRows, NEW ms
  PROVE Without(ps, ms) \in PinRows /\ Pinned(Without(ps, ms)) = Pinned(ps) \ ms /\ Cardinality(Pinned(Without(ps, ms))) <= Cardinality(Pinned(ps))
<1>1. Without(ps, ms) \in PinRows /\ Pinned(Without(ps, ms)) = Pinned(ps) \ ms BY DEF Without, PinRows, Pinned
<1>2. Pinned(Without(ps, ms)) \subseteq Pinned(ps) BY <1>1
<1> QED BY <1>1,<1>2, PinnedFinite, FS_Subset

LEMMA UnpinMessageOK == ASSUME MsgInv, NEW p \in People, NEW m \in Posts, UnpinMessage(p, m) PROVE MsgInv'
<1>1. pins \in PinRows /\ Cardinality(Pinned(pins)) <= PinLimit BY DEF MsgInv, MsgTypeOK, PinRows, PinsWithinLimit
<1>2. pins' = Without(pins, {m}) BY DEF UnpinMessage
<1>3. pins' \in PinRows /\ Cardinality(Pinned(pins')) <= Cardinality(Pinned(pins)) BY <1>1,<1>2, WithoutIsLess
<1>4. Cardinality(Pinned(pins')) <= PinLimit BY <1>1,<1>3, PinnedFinite, MsgRowsAreReal
<1> QED BY <1>3,<1>4, PinsOnly DEF UnpinMessage

LEMMA ExpirePinsOK == ASSUME MsgInv, ExpirePins PROVE MsgInv'
<1>1. pins \in PinRows /\ Cardinality(Pinned(pins)) <= PinLimit BY DEF MsgInv, MsgTypeOK, PinRows, PinsWithinLimit
<1>2. PICK ms : pins' = Without(pins, ms) BY DEF ExpirePins, Pruned
<1>3. pins' \in PinRows /\ Cardinality(Pinned(pins')) <= Cardinality(Pinned(pins)) BY <1>1,<1>2, WithoutIsLess
<1>4. Cardinality(Pinned(pins')) <= PinLimit BY <1>1,<1>3, PinnedFinite, MsgRowsAreReal
<1> QED BY <1>3,<1>4, PinsOnly DEF ExpirePins

LEMMA PinMessageOK == ASSUME MsgInv, NEW p \in People, NEW m \in Posts, NEW for \in {"kept", "ends"}, PinMessage(p, m, for) PROVE MsgInv'
<1> USE MsgRowsAreReal
<1>1. pins \in PinRows /\ Cardinality(Pinned(pins)) <= PinLimit BY DEF MsgInv, MsgTypeOK, PinRows, PinsWithinLimit
<1> PICK over \in SUBSET Posts : \E room \in Rooms(Pruned(pins, over)) : pins' = [room EXCEPT ![m] = for] BY DEF PinMessage
<1> PICK ps : ps = Pruned(pins, over) OBVIOUS
<1>2. PICK room \in Rooms(ps) : pins' = [room EXCEPT ![m] = for] OBVIOUS
<1>3. ps \in PinRows /\ Cardinality(Pinned(ps)) <= PinLimit
 <2>1. ps \in PinRows /\ Cardinality(Pinned(ps)) <= Cardinality(Pinned(pins)) BY <1>1, WithoutIsLess DEF Pruned
 <2> QED BY <1>1,<2>1, PinnedFinite
<1>4. room \in PinRows /\ Cardinality(Pinned(room)) < PinLimit
 <2>1. CASE Cardinality(Pinned(ps)) >= PinLimit
  <3>1. PICK q \in Pinned(ps) : room = Without(ps, {q}) BY <2>1 DEF Rooms
  <3>2. room \in PinRows /\ Pinned(room) = Pinned(ps) \ {q} BY <1>3,<3>1, WithoutIsLess
  <3>4. IsFiniteSet(Pinned(ps)) BY PinnedFinite
  <3>5. Cardinality(Pinned(ps) \ {q}) = Cardinality(Pinned(ps)) - 1 BY <3>1,<3>4, FS_RemoveElement
  <3>3. Cardinality(Pinned(room)) = Cardinality(Pinned(ps)) - 1 BY <3>2,<3>5
  <3> QED BY <1>3,<3>2,<3>3, PinnedFinite
 <2>2. CASE ~(Cardinality(Pinned(ps)) >= PinLimit)
  <3>1. room = ps BY <2>2 DEF Rooms
  <3> QED BY <1>3,<2>2,<3>1, PinnedFinite
 <2> QED BY <2>1,<2>2
<1>5. pins' \in PinRows BY <1>2,<1>4 DEF PinRows
<1>6. Pinned(pins') = Pinned(room) \cup {m} BY <1>2,<1>4 DEF Pinned, PinRows
<1>7. Cardinality(Pinned(pins')) <= PinLimit
 <2>1. CASE m \in Pinned(room)
  <3>1. Pinned(pins') = Pinned(room) BY <1>6,<2>1
  <3> QED BY <1>4,<3>1, PinnedFinite
 <2>2. CASE m \notin Pinned(room)
  <3>1. Cardinality(Pinned(pins')) = Cardinality(Pinned(room)) + 1 BY <1>6,<2>2, PinnedFinite, FS_AddElement
  <3> QED BY <1>4,<3>1, PinnedFinite
 <2> QED BY <2>1,<2>2
<1> QED BY <1>5,<1>7, PinsOnly DEF PinMessage

(* Members. *)
LEMMA MembersOnly ==
  ASSUME MsgInv, MsgTypeOK', NEW c \in Calls, NEW new, call' = [call EXCEPT ![c] = new],
      call[c].op # "edit", new.op # "edit", new.op = "remove" => new.who # new.whom,
      AdminRemains', UNCHANGED <<post, expiring, edits, pins, texts, crossed>>
  PROVE MsgInv'
<1>1. TextInv' BY OtherCall
<1>2. RemovesAnother' BY RemovesStand DEF MsgInv
<1>3. PinsWithinLimit' BY DEF MsgInv, PinsWithinLimit, Pinned
<1> QED BY <1>1,<1>2,<1>3 DEF MsgInv

LEMMA AskToAddOK ==
  ASSUME MsgInv, NEW c \in Calls, NEW p \in People, NEW q \in People, NEW as \in {"ADMIN", "MEMBER"}, AskToAdd(c, p, q, as) PROVE MsgInv'
<1> PICK new : new = [op |-> "add", who |-> p, whom |-> q, as |-> as] OBVIOUS
<1>1. call[c] = Quiet /\ call' = [call EXCEPT ![c] = new] BY DEF AskToAdd, Open
<1>2. new \in Requests /\ new.op = "add" /\ call[c].op = "none"
 <2>1. new \in [op : {"add"}, who : People, whom : People, as : {"ADMIN", "MEMBER"}] OBVIOUS
 <2>2. new.op = "add" OBVIOUS
 <2>3. new \in Requests BY Zenon, <2>1 DEF Requests
 <2> QED BY <1>1,<2>2,<2>3 DEF Quiet
<1>3. UNCHANGED <<role, post, expiring, edits, pins, texts, crossed, disowned>> BY DEF AskToAdd
<1>4. MsgTypeOK' BY <1>1,<1>2,<1>3 DEF MsgInv, MsgTypeOK
<1>5. AdminRemains' BY <1>3 DEF MsgInv, AdminRemains, Admins
<1> QED BY <1>1,<1>2,<1>3,<1>4,<1>5, MembersOnly

LEMMA AskToRemoveOK == ASSUME MsgInv, NEW c \in Calls, NEW p \in People, NEW q \in People, AskToRemove(c, p, q) PROVE MsgInv'
<1> PICK new : new = [op |-> "remove", who |-> p, whom |-> q] OBVIOUS
<1>1. call[c] = Quiet /\ call' = [call EXCEPT ![c] = new] /\ p # q BY DEF AskToRemove, Open
<1>2. new \in Requests /\ new.op = "remove" /\ call[c].op = "none" /\ new.who # new.whom BY <1>1 DEF Requests, Quiet
<1>3. UNCHANGED <<role, post, expiring, edits, pins, texts, crossed, disowned>> BY DEF AskToRemove
<1>4. MsgTypeOK' BY <1>1,<1>2,<1>3 DEF MsgInv, MsgTypeOK
<1>5. AdminRemains' BY <1>3 DEF MsgInv, AdminRemains, Admins
<1> QED BY <1>1,<1>2,<1>3,<1>4,<1>5, MembersOnly

LEMMA AddMemberOK == ASSUME MsgInv, NEW c \in Calls, AddMember(c) PROVE MsgInv'
<1>1. call[c].op = "add" /\ call' = [call EXCEPT ![c] = Quiet] BY DEF AddMember, Close
<1>2. UNCHANGED <<post, expiring, edits, pins, texts, crossed>> BY DEF AddMember
<1>3. call[c].whom \in People /\ call[c].as \in {"ADMIN", "MEMBER"} BY <1>1, EditCalls DEF MsgInv
<1> PICK q \in People, as \in {"ADMIN", "MEMBER"} : q = call[c].whom /\ as = call[c].as BY <1>3
<1>4. role' = [role EXCEPT ![q] = as] /\ disowned' = (disowned \/ (q \in Admins /\ as = "MEMBER")) BY DEF AddMember
<1>5. disowned' \in BOOLEAN BY Zenon, <1>4 DEF MsgInv, MsgTypeOK
<1>6. MsgTypeOK' BY <1>1,<1>2,<1>4,<1>5 DEF MsgInv, MsgTypeOK, ConvRoles
<1>7. AdminRemains'
 <2>1. CASE disowned' BY <2>1 DEF AdminRemains
 <2>2. CASE ~disowned'
  <3>1. ~disowned /\ ~(q \in Admins /\ as = "MEMBER") BY <1>4,<2>2
  <3>2. PICK a \in People : role[a] \in {"OWNER", "ADMIN"} BY <3>1 DEF MsgInv, AdminRemains, Admins
  <3>3. CASE a = q
   <4>1. as = "ADMIN" BY <3>1,<3>2,<3>3 DEF Admins
   <4>2. role'[q] = "ADMIN" BY <1>4,<4>1 DEF MsgInv, MsgTypeOK
   <4> QED BY <4>2 DEF AdminRemains, Admins
  <3>4. CASE a # q
   <4>1. role'[a] = role[a] BY <1>4,<3>4 DEF MsgInv, MsgTypeOK
   <4> QED BY <3>2,<4>1 DEF AdminRemains, Admins
  <3> QED BY <3>3,<3>4
 <2> QED BY <2>1,<2>2
<1>8. call[c].op # "edit" /\ Quiet.op = "none" BY <1>1 DEF Quiet
<1> QED BY <1>1,<1>2,<1>6,<1>7,<1>8, MembersOnly

LEMMA RemoveMemberOK == ASSUME MsgInv, NEW c \in Calls, RemoveMember(c) PROVE MsgInv'
<1>1. call[c].op = "remove" /\ call' = [call EXCEPT ![c] = Quiet] BY DEF RemoveMember, Close
<1>2. UNCHANGED <<post, expiring, edits, pins, texts, crossed>> BY DEF RemoveMember
<1>3. call[c].who \in People /\ call[c].whom \in People /\ call[c].who # call[c].whom BY <1>1, EditCalls DEF MsgInv, RemovesAnother
<1> PICK p \in People, q \in People : p = call[c].who /\ q = call[c].whom BY <1>3
<1>4. role' = [role EXCEPT ![q] = "out"] /\ disowned' = (disowned \/ p \notin Admins) BY DEF RemoveMember
<1>5. disowned' \in BOOLEAN BY Zenon, <1>4 DEF MsgInv, MsgTypeOK
<1>6. MsgTypeOK' BY <1>1,<1>2,<1>4,<1>5 DEF MsgInv, MsgTypeOK
<1>7. AdminRemains'
 <2>1. CASE disowned' BY <2>1 DEF AdminRemains
 <2>2. CASE ~disowned'
  <3>1. p \in Admins BY <1>4,<2>2
  <3>2. role'[p] = role[p] BY <1>3,<1>4 DEF MsgInv, MsgTypeOK
  <3> QED BY <3>1,<3>2 DEF AdminRemains, Admins
 <2> QED BY <2>1,<2>2
<1>8. call[c].op # "edit" /\ Quiet.op = "none" BY <1>1 DEF Quiet
<1> QED BY <1>1,<1>2,<1>6,<1>7,<1>8, MembersOnly

LEMMA MsgStep == MsgInv /\ [MsgNext]_msgVars => MsgInv'
<1> SUFFICES ASSUME MsgInv, [MsgNext]_msgVars PROVE MsgInv' OBVIOUS
<1>1. CASE UNCHANGED msgVars BY <1>1 DEF msgVars, MsgInv, MsgTypeOK, TextInv, TextsCounted, TextsBounded, EditsAreOfSent, ReadIsCurrent, OpenEdits,
  OneMessagePerKey, EditsAreComplete, Sent, RemovesAnother, PinsWithinLimit, Pinned, AdminRemains, Admins
<1>2. CASE SendNext BY <1>2, SendMessageOK, AskToSendOK DEF SendNext
<1>3. CASE TextNext BY <1>2,<1>3, ExpireMessagesOK, EditMessageOK, DeleteMessageOK, SetMessageExpiryOK, AskToEditOK DEF TextNext
<1>4. CASE PinNext BY <1>2,<1>4, ExpirePinsOK, UnpinMessageOK, PinMessageOK DEF PinNext
<1>5. CASE MemberNext BY <1>5, AddMemberOK, RemoveMemberOK, AskToRemoveOK, AskToAddOK DEF MemberNext
<1> QED BY <1>1,<1>3,<1>4,<1>5 DEF MsgNext

------------------------
(* Receipts. Rows exist just for what has committed and was not forwarded; what a reading saw had
   committed and is not behind the message it marks; of a reader who never overlapped one screen at most is reading; and
   the two pointers differ only between the two statements that write them. *)
Committed == \A r \in Readers, i \in Numbers : receipt[r][i] # "none" <=> i \in visible \ forwarded
SeenCommitted == \A r \in Readers : seen[r] \subseteq visible
SawCommitted == \A s \in Screens : reading[s] # Closed => /\ reading[s].saw \subseteq visible
                                                          /\ \A j \in reading[s].saw : j <= reading[s].upTo
ReadsAlone ==
  \A s, t \in Screens : /\ reading[s] # Closed /\ reading[t] # Closed
                        /\ reading[s].who = reading[t].who /\ reading[s].who \notin overlapped
                        => s = t
Between(s, r) == reading[s] # Closed /\ reading[s].at = "member" /\ reading[s].who = r
PointersMeet ==
  readFaults = 0 => \A r \in Readers \ overlapped :
    /\ (\A s \in Screens : ~Between(s, r)) => readUpTo[r] = memberUpTo[r]
    /\ \A s \in Screens : Between(s, r) => readUpTo[r] = reading[s].upTo

ReceiptInv ==
  ReceiptTypeOK /\ Committed /\ SeenCommitted /\ SawCommitted /\ ReadsAlone /\ SeenIsRead /\ PointersMeet

LEMMA ReceiptFacts == NumMessages \in Nat /\ MaxReadFaults \in Nat /\ Closed \notin Readings BY ReceiptsAssumption DEF Closed, Readings

LEMMA PointersAgreeThen == ReceiptInv => SeenIsRead /\ PointersAgree BY DEF ReceiptInv, PointersMeet, PointersAgree, Resting, Between

LEMMA ReceiptInitOK == ReceiptInit => ReceiptInv
  BY ReceiptFacts DEF ReceiptInit, ReceiptInv, ReceiptTypeOK, Committed, SeenCommitted, SawCommitted, ReadsAlone, SeenIsRead, PointersMeet, Between,
    Rank, Readings

\* A receipt keeps its rank or gains.
Forward == \A r \in Readers, i \in Numbers : Rank[receipt[r][i]] <= Rank[receipt'[r][i]]

LEMMA RanksAre ==
  /\ DOMAIN Rank = {"none", "SENT", "DELIVERED", "READ"}
  /\ Rank["none"] = 0 /\ Rank["SENT"] = 1 /\ Rank["DELIVERED"] = 2 /\ Rank["READ"] = 3 BY DEF Rank

LEMMA ForwardIfSame == ASSUME ReceiptTypeOK, receipt' = receipt PROVE Forward BY RanksAre DEF ReceiptTypeOK, Forward

LEMMA ReceiptStep == ReceiptInv /\ [ReceiptNext]_receiptVars => ReceiptInv' /\ Forward
<1> SUFFICES ASSUME ReceiptInv, [ReceiptNext]_receiptVars PROVE ReceiptInv' /\ Forward OBVIOUS
<1> USE ReceiptFacts
<1>0. ReceiptTypeOK /\ Committed /\ SeenCommitted /\ SawCommitted /\ ReadsAlone /\ SeenIsRead /\ PointersMeet BY DEF ReceiptInv
<1>1. CASE UNCHANGED receiptVars
  BY <1>0,<1>1, ForwardIfSame DEF receiptVars, ReceiptInv, ReceiptTypeOK, Committed, SeenCommitted, SawCommitted, ReadsAlone, SeenIsRead,
    PointersMeet, Between
<1>2. CASE BeginMessage
 <2>1. ReceiptTypeOK' BY <1>0,<1>2 DEF BeginMessage, ReceiptTypeOK
 <2> QED BY <1>0,<1>2,<2>1, ForwardIfSame DEF BeginMessage, ReceiptInv, Committed, SeenCommitted, SawCommitted, ReadsAlone, SeenIsRead,
   PointersMeet, Between
<1>3. CASE CommitMessage
 <2>1. PICK i \in (1 .. begun) \ visible : /\ i \notin forwarded /\ visible' = visible \cup {i}
                                           /\ receipt' = [r \in Readers |-> [receipt[r] EXCEPT ![i] = "SENT"]]
   BY <1>0,<1>3 DEF CommitMessage, ReceiptTypeOK
 <2>2. UNCHANGED <<begun, forwarded, readAt, readUpTo, memberUpTo, online, reading, seen, overlapped, readFaults>> BY <1>3 DEF CommitMessage
 <2>3. i \in Numbers BY <1>0,<2>1 DEF Numbers, ReceiptTypeOK
 <2>4. \A r \in Readers : receipt'[r] = [receipt[r] EXCEPT ![i] = "SENT"] /\ receipt[r] \in [Numbers -> DOMAIN Rank] BY <1>0,<2>1 DEF ReceiptTypeOK
 <2>5. \A r \in Readers : receipt'[r][i] = "SENT" /\ \A j \in Numbers \ {i} : receipt'[r][j] = receipt[r][j] BY <2>3,<2>4
 <2>6. ReceiptTypeOK' BY <1>0,<2>1,<2>2,<2>3,<2>4, RanksAre DEF ReceiptTypeOK
 <2>7. Committed' BY <1>0,<2>1,<2>2,<2>3,<2>5 DEF Committed
 <2>8. (SeenCommitted /\ SawCommitted /\ ReadsAlone /\ PointersMeet)'
   BY <1>0,<2>1,<2>2 DEF SeenCommitted, SawCommitted, ReadsAlone, PointersMeet, Between
 <2>9. SeenIsRead'
  <3>1. \A r \in Readers : \A j \in seen[r] : j \in Numbers /\ j # i BY <1>0,<2>1 DEF SeenCommitted, ReceiptTypeOK
  <3> QED BY <1>0,<2>2,<2>5,<3>1 DEF SeenIsRead
 <2>10. Forward BY <1>0,<2>1,<2>3,<2>5, RanksAre DEF Forward, Committed, ReceiptTypeOK
 <2> QED BY <2>6,<2>7,<2>8,<2>9,<2>10 DEF ReceiptInv
<1>3a. CASE CommitForward
 <2>1. PICK i \in (1 .. begun) \ visible : visible' = visible \cup {i} /\ forwarded' = forwarded \cup {i} BY <1>3a DEF CommitForward
 <2>2. UNCHANGED <<begun, receipt, readAt, readUpTo, memberUpTo, online, reading, seen, overlapped, readFaults>> BY <1>3a DEF CommitForward
 <2>3. ReceiptTypeOK' BY <1>0,<2>1,<2>2 DEF ReceiptTypeOK
 <2>4. Committed' BY <1>0,<2>1,<2>2 DEF Committed
 <2>5. (SeenCommitted /\ SawCommitted /\ ReadsAlone /\ PointersMeet)'
   BY <1>0,<2>1,<2>2 DEF SeenCommitted, SawCommitted, ReadsAlone, PointersMeet, Between
 <2>6. SeenIsRead' BY <1>0,<2>1,<2>2 DEF SeenIsRead
 <2> QED BY <1>0,<2>2,<2>3,<2>4,<2>5,<2>6, ForwardIfSame DEF ReceiptInv
<1>4. ASSUME NEW r \in Readers, Connect(r) PROVE ReceiptInv' /\ Forward
 <2>1. /\ online' = online \cup {r}
       /\ receipt' = [receipt EXCEPT ![r] = [i \in Numbers |-> IF @[i] = "SENT" THEN "DELIVERED" ELSE @[i]]]
       /\ UNCHANGED <<begun, visible, forwarded, readAt, readUpTo, memberUpTo, reading, seen, overlapped, readFaults>> BY <1>4 DEF Connect
 <2>2. /\ \A q \in Readers \ {r} : receipt'[q] = receipt[q]
       /\ \A i \in Numbers : receipt'[r][i] = IF receipt[r][i] = "SENT" THEN "DELIVERED" ELSE receipt[r][i] BY <1>0,<2>1 DEF ReceiptTypeOK
 <2>3. ReceiptTypeOK'
  <3>1. [i \in Numbers |-> IF receipt[r][i] = "SENT" THEN "DELIVERED" ELSE receipt[r][i]] \in [Numbers -> DOMAIN Rank]
    BY <1>0, RanksAre DEF ReceiptTypeOK
  <3> QED BY <1>0,<2>1,<3>1 DEF ReceiptTypeOK
 <2>4. (Committed /\ SeenIsRead)'
  <3>1. \A q \in Readers : seen[q] \subseteq Numbers BY <1>0 DEF ReceiptTypeOK
  <3> QED BY <1>0,<2>1,<2>2,<3>1 DEF Committed, SeenIsRead
 <2>5. Forward BY <1>0,<2>2, RanksAre DEF Forward, ReceiptTypeOK
 <2>6. (SeenCommitted /\ SawCommitted /\ ReadsAlone /\ PointersMeet)'
   BY <1>0,<2>1 DEF SeenCommitted, SawCommitted, ReadsAlone, PointersMeet, Between
 <2> QED BY <2>3,<2>4,<2>5,<2>6 DEF ReceiptInv
<1>5. ASSUME NEW r \in Readers, Disconnect(r) PROVE ReceiptInv' /\ Forward
 <2>1. ReceiptTypeOK' BY <1>0,<1>5 DEF Disconnect, ReceiptTypeOK
 <2> QED BY <1>0,<1>5,<2>1, ForwardIfSame DEF Disconnect, ReceiptInv, Committed, SeenCommitted, SawCommitted, ReadsAlone, SeenIsRead, PointersMeet,
   Between
<1>6. ASSUME NEW s \in Screens, NEW r \in Readers, NEW i \in 0..begun, MarkRead(s, r, i) PROVE ReceiptInv' /\ Forward
 <2> PICK new : new = [at |-> "reads", who |-> r, upTo |-> i, from |-> begun, saw |-> {j \in visible : j <= i}] OBVIOUS
 <2>1. /\ reading[s] = Closed /\ i \in visible \cup {0} /\ reading' = [reading EXCEPT ![s] = new]
       /\ overlapped' = IF \E t \in Screens : reading[t] # Closed /\ reading[t].who = r THEN overlapped \cup {r} ELSE overlapped
       /\ UNCHANGED <<begun, visible, forwarded, receipt, readAt, readUpTo, memberUpTo, online, seen, readFaults>> BY <1>6 DEF MarkRead
 <2>2. visible \subseteq Numbers /\ i \in 0..NumMessages /\ begun \in 0..NumMessages BY <1>0,<2>1 DEF ReceiptTypeOK, Numbers
 <2>3. new \in Readings BY <2>2 DEF Readings
 <2>4. ReceiptTypeOK' BY <1>0,<2>1,<2>3 DEF ReceiptTypeOK
 <2>5. reading'[s] = new /\ new # Closed /\ \A t \in Screens \ {s} : reading'[t] = reading[t] BY <1>0,<2>1,<2>3 DEF ReceiptTypeOK
 <2>6. (Committed /\ SeenCommitted /\ SeenIsRead)' BY <1>0,<2>1 DEF Committed, SeenCommitted, SeenIsRead
 <2>7. SawCommitted' BY <1>0,<2>1,<2>5 DEF SawCommitted
 <2>8. overlapped \subseteq overlapped' BY <2>1
 <2>9. ReadsAlone'
  <3>1. \A t \in Screens \ {s} : reading'[t] # Closed /\ reading'[t].who = r => r \in overlapped' BY <2>1,<2>5
  <3> QED BY <1>0,<2>5,<2>8,<3>1 DEF ReadsAlone
 <2>10. PointersMeet'
  <3>1. \A t \in Screens, q \in Readers : Between(t, q)' <=> Between(t, q) BY <2>1,<2>5 DEF Between
  <3>2. \A t \in Screens, q \in Readers : Between(t, q) => reading'[t] = reading[t] BY <2>1,<2>5 DEF Between
  <3> QED BY <1>0,<2>1,<2>8,<3>1,<3>2 DEF PointersMeet
 <2> QED BY <1>0,<2>1,<2>4,<2>6,<2>7,<2>9,<2>10, ForwardIfSame DEF ReceiptInv
<1>7. ASSUME NEW s \in Screens, WriteReads(s) PROVE ReceiptInv' /\ Forward
 <2>1. reading[s] \in Readings /\ reading[s] # Closed BY <1>0,<1>7 DEF WriteReads, ReceiptTypeOK, Closed
 <2> PICK r \in Readers, up \in 0..NumMessages : r = reading[s].who /\ up = reading[s].upTo BY <2>1 DEF Readings
 <2>2. /\ reading[s].at = "reads" /\ reading' = [reading EXCEPT ![s].at = "member"]
       /\ readUpTo' = [readUpTo EXCEPT ![r] = up] /\ \E n \in reading[s].from..begun : readAt' = [readAt EXCEPT ![r] = n]
       /\ UNCHANGED <<begun, visible, forwarded, receipt, memberUpTo, online, seen, overlapped, readFaults>> BY <1>7 DEF WriteReads, ReadStep
 <2>a. reading[s].from \in 0..NumMessages /\ begun \in 0..NumMessages BY <1>0,<2>1 DEF ReceiptTypeOK, Readings
 <2>b. readAt' \in [Readers -> 0..NumMessages] BY <1>0,<2>2,<2>a DEF ReceiptTypeOK
 <2>3. /\ reading'[s] = [reading[s] EXCEPT !.at = "member"] /\ reading'[s] \in Readings /\ reading'[s] # Closed
       /\ \A t \in Screens \ {s} : reading'[t] = reading[t]
  <3> PICK old \in Readings : old = reading[s] BY <2>1
  <3> PICK new : new = [old EXCEPT !.at = "member"] OBVIOUS
  <3>1. new \in Readings BY DEF Readings
  <3>2. reading \in [Screens -> Readings \cup {Closed}] BY <1>0 DEF ReceiptTypeOK
  <3>3. reading' = [reading EXCEPT ![s] = new] BY <2>2
  <3>4. reading'[s] = new /\ \A t \in Screens \ {s} : reading'[t] = reading[t] BY ONLY <3>2,<3>3
  <3> QED BY <3>1,<3>4, ReceiptFacts
 <2>4. reading'[s].who = r /\ reading'[s].upTo = up /\ reading'[s].saw = reading[s].saw /\ reading'[s].at = "member" BY <2>1,<2>3 DEF Readings
 <2>5. ReceiptTypeOK' BY <1>0,<2>2,<2>3,<2>b DEF ReceiptTypeOK
 <2>6. (Committed /\ SeenCommitted /\ SeenIsRead)' BY <1>0,<2>2 DEF Committed, SeenCommitted, SeenIsRead
 <2>7. SawCommitted' BY <1>0,<2>1,<2>2,<2>3,<2>4 DEF SawCommitted
 <2>8. \A t \in Screens : (reading'[t] # Closed <=> reading[t] # Closed) /\ (reading[t] # Closed => reading'[t].who = reading[t].who)
   BY <2>1,<2>3,<2>4
 <2>9. ReadsAlone' BY <1>0,<2>2,<2>8 DEF ReadsAlone
 <2>10. PointersMeet'
  <3> SUFFICES ASSUME readFaults' = 0, NEW q \in Readers \ overlapped'
    PROVE  /\ (\A t \in Screens : ~Between(t, q)') => readUpTo'[q] = memberUpTo'[q]
           /\ \A t \in Screens : Between(t, q)' => readUpTo'[q] = reading'[t].upTo BY DEF PointersMeet
  <3>1. CASE q = r
   <4>1. Between(s, q)' BY <2>3,<2>4,<3>1 DEF Between
   <4>2. \A t \in Screens : Between(t, q)' => t = s BY <1>0,<2>1,<2>2,<2>8,<3>1 DEF Between, ReadsAlone
   <4>3. readUpTo'[r] = up BY <1>0,<2>2 DEF ReceiptTypeOK
   <4> QED BY <2>4,<3>1,<4>1,<4>2,<4>3
  <3>2. CASE q # r
   <4>1. readUpTo'[q] = readUpTo[q] BY <1>0,<2>2,<3>2 DEF ReceiptTypeOK
   <4>2. \A t \in Screens : Between(t, q)' <=> Between(t, q) BY <2>1,<2>3,<2>4,<3>2 DEF Between
   <4>3. \A t \in Screens : Between(t, q) => reading'[t] = reading[t] BY <2>3,<3>2 DEF Between
   <4> QED BY <1>0,<2>2,<4>1,<4>2,<4>3 DEF PointersMeet
  <3> QED BY <3>1,<3>2
 <2> QED BY <1>0,<2>2,<2>5,<2>6,<2>7,<2>9,<2>10, ForwardIfSame DEF ReceiptInv
<1>8. ASSUME NEW s \in Screens, WriteMember(s) PROVE ReceiptInv' /\ Forward
 <2>1. reading[s] \in Readings /\ reading[s] # Closed BY <1>0,<1>8 DEF WriteMember, ReceiptTypeOK, Closed
 <2> PICK r \in Readers, up \in 0..NumMessages : r = reading[s].who /\ up = reading[s].upTo BY <2>1 DEF Readings
 <2>2. /\ reading[s].at = "member" /\ reading' = [reading EXCEPT ![s].at = "receipts"]
       /\ memberUpTo' = [memberUpTo EXCEPT ![r] = up]
       /\ UNCHANGED <<begun, visible, forwarded, receipt, readAt, readUpTo, online, seen, overlapped, readFaults>> BY <1>8 DEF WriteMember, ReadStep
 <2>3. /\ reading'[s] = [reading[s] EXCEPT !.at = "receipts"] /\ reading'[s] \in Readings /\ reading'[s] # Closed
       /\ \A t \in Screens \ {s} : reading'[t] = reading[t]
  <3> PICK old \in Readings : old = reading[s] BY <2>1
  <3> PICK new : new = [old EXCEPT !.at = "receipts"] OBVIOUS
  <3>1. new \in Readings BY DEF Readings
  <3>2. reading \in [Screens -> Readings \cup {Closed}] BY <1>0 DEF ReceiptTypeOK
  <3>3. reading' = [reading EXCEPT ![s] = new] BY <2>2
  <3>4. reading'[s] = new /\ \A t \in Screens \ {s} : reading'[t] = reading[t] BY ONLY <3>2,<3>3
  <3> QED BY <3>1,<3>4, ReceiptFacts
 <2>4. reading'[s].who = r /\ reading'[s].upTo = up /\ reading'[s].saw = reading[s].saw /\ reading'[s].at = "receipts" BY <2>1,<2>3 DEF Readings
 <2>5. ReceiptTypeOK' BY <1>0,<2>2,<2>3 DEF ReceiptTypeOK
 <2>6. (Committed /\ SeenCommitted /\ SeenIsRead)' BY <1>0,<2>2 DEF Committed, SeenCommitted, SeenIsRead
 <2>7. SawCommitted' BY <1>0,<2>1,<2>2,<2>3,<2>4 DEF SawCommitted
 <2>8. \A t \in Screens : (reading'[t] # Closed <=> reading[t] # Closed) /\ (reading[t] # Closed => reading'[t].who = reading[t].who)
   BY <2>1,<2>3,<2>4
 <2>9. ReadsAlone' BY <1>0,<2>2,<2>8 DEF ReadsAlone
 <2>10. PointersMeet'
  <3> SUFFICES ASSUME readFaults' = 0, NEW q \in Readers \ overlapped'
    PROVE  /\ (\A t \in Screens : ~Between(t, q)') => readUpTo'[q] = memberUpTo'[q]
           /\ \A t \in Screens : Between(t, q)' => readUpTo'[q] = reading'[t].upTo BY DEF PointersMeet
  <3>1. CASE q = r
   <4>1. Between(s, r) /\ readUpTo[r] = up BY <1>0,<2>1,<2>2,<3>1 DEF Between, PointersMeet
   <4>2. \A t \in Screens : ~Between(t, q)' BY <1>0,<2>1,<2>2,<2>4,<2>8,<3>1 DEF Between, ReadsAlone
   <4>3. memberUpTo'[r] = up BY <1>0,<2>2 DEF ReceiptTypeOK
   <4> QED BY <2>2,<3>1,<4>1,<4>2,<4>3
  <3>2. CASE q # r
   <4>1. memberUpTo'[q] = memberUpTo[q] BY <1>0,<2>2,<3>2 DEF ReceiptTypeOK
   <4>2. \A t \in Screens : Between(t, q)' <=> Between(t, q) BY <2>1,<2>3,<2>4,<3>2 DEF Between
   <4>3. \A t \in Screens : Between(t, q) => reading'[t] = reading[t] BY <2>3,<3>2 DEF Between
   <4> QED BY <1>0,<2>2,<4>1,<4>2,<4>3 DEF PointersMeet
  <3> QED BY <3>1,<3>2
 <2> QED BY <1>0,<2>2,<2>5,<2>6,<2>7,<2>9,<2>10, ForwardIfSame DEF ReceiptInv
<1>closed. ASSUME NEW s \in Screens, reading[s] # Closed, reading' = [reading EXCEPT ![s] = Closed], reading[s].at # "member" \/ readFaults' > 0,
    UNCHANGED <<readUpTo, memberUpTo, overlapped, visible>>, readFaults' = 0 => readFaults = 0
  PROVE (SawCommitted /\ ReadsAlone /\ PointersMeet)'
 <2>1. reading'[s] = Closed /\ \A t \in Screens \ {s} : reading'[t] = reading[t] BY <1>0,<1>closed DEF ReceiptTypeOK
 <2>2. (SawCommitted /\ ReadsAlone)' BY <1>0,<1>closed,<2>1 DEF SawCommitted, ReadsAlone
 <2>3. ASSUME readFaults' = 0, NEW q \in Readers, NEW t \in Screens
   PROVE (Between(t, q)' <=> Between(t, q)) /\ (Between(t, q) => reading'[t] = reading[t]) BY <1>closed,<2>1,<2>3 DEF Between
 <2>4. PointersMeet' BY <1>0,<1>closed,<2>3 DEF PointersMeet
 <2> QED BY <2>2,<2>4
<1>9. ASSUME NEW s \in Screens, WriteReceipts(s) PROVE ReceiptInv' /\ Forward
 <2>1. reading[s] \in Readings /\ reading[s] # Closed BY <1>0,<1>9 DEF WriteReceipts, ReceiptTypeOK, Closed
 <2> PICK r \in Readers, up \in 0..NumMessages, saw \in SUBSET Numbers : r = reading[s].who /\ up = reading[s].upTo /\ saw = reading[s].saw
   BY <2>1 DEF Readings
 <2>2. /\ reading[s].at = "receipts" /\ reading' = [reading EXCEPT ![s] = Closed]
       /\ seen' = [seen EXCEPT ![r] = @ \cup saw]
       /\ receipt' = [receipt EXCEPT ![r] = [i \in Numbers |-> IF i <= up /\ @[i] # "none" THEN "READ" ELSE @[i]]]
       /\ UNCHANGED <<begun, visible, forwarded, readAt, readUpTo, memberUpTo, online, overlapped, readFaults>> BY <1>9 DEF WriteReceipts
 <2>3. /\ \A q \in Readers \ {r} : receipt'[q] = receipt[q] /\ seen'[q] = seen[q]
       /\ \A i \in Numbers : receipt'[r][i] = IF i <= up /\ receipt[r][i] # "none" THEN "READ" ELSE receipt[r][i]
       /\ seen'[r] = seen[r] \cup saw BY <1>0,<2>2 DEF ReceiptTypeOK
 <2>4. ReceiptTypeOK'
  <3>1. [i \in Numbers |-> IF i <= up /\ receipt[r][i] # "none" THEN "READ" ELSE receipt[r][i]] \in [Numbers -> DOMAIN Rank]
    BY <1>0, RanksAre DEF ReceiptTypeOK
  <3>2. seen' \in [Readers -> SUBSET Numbers] BY <1>0,<2>2 DEF ReceiptTypeOK
  <3> QED BY <1>0,<2>2,<3>1,<3>2 DEF ReceiptTypeOK
 <2>5. (SawCommitted /\ ReadsAlone /\ PointersMeet)' BY <1>0,<1>closed,<2>1,<2>2
 <2>6. saw \subseteq visible /\ \A j \in saw : j <= up BY <1>0,<2>1 DEF SawCommitted
 <2>7. SeenCommitted' BY <1>0,<2>2,<2>3,<2>6 DEF SeenCommitted
 <2>8. Committed'
  <3>1. \A i \in Numbers : receipt'[r][i] # "none" <=> receipt[r][i] # "none" BY <2>3
  <3> QED BY <1>0,<2>2,<2>3,<3>1 DEF Committed
 <2>9. SeenIsRead'
  <3>1. \A i \in saw : receipt'[r][i] = "READ" \/ i \in forwarded BY <1>0,<2>3,<2>6 DEF Committed
  <3>2. \A i \in seen[r] : receipt'[r][i] = "READ" \/ i \in forwarded BY <1>0,<2>3 DEF SeenIsRead, ReceiptTypeOK
  <3> QED BY <1>0,<2>2,<2>3,<3>1,<3>2 DEF SeenIsRead
 <2>10. Forward BY <1>0,<2>3, RanksAre DEF Forward, ReceiptTypeOK
 <2> QED BY <2>4,<2>5,<2>7,<2>8,<2>9,<2>10 DEF ReceiptInv
<1>10. ASSUME NEW s \in Screens, ReadFails(s) PROVE ReceiptInv' /\ Forward
 <2>1. /\ reading[s] # Closed /\ readFaults < MaxReadFaults /\ readFaults' = readFaults + 1 /\ reading' = [reading EXCEPT ![s] = Closed]
       /\ UNCHANGED <<begun, visible, forwarded, receipt, readAt, readUpTo, memberUpTo, online, seen, overlapped>> BY <1>10 DEF ReadFails
 <2>2. readFaults \in 0..MaxReadFaults BY <1>0 DEF ReceiptTypeOK
 <2>3. readFaults' \in 0..MaxReadFaults /\ readFaults' > 0 BY <2>1,<2>2
 <2>4. ReceiptTypeOK' BY <1>0,<2>1,<2>3 DEF ReceiptTypeOK
 <2>a. readFaults' = 0 => readFaults = 0 BY <2>3
 <2>b. reading[s].at # "member" \/ readFaults' > 0 BY <2>3
 <2>5. (SawCommitted /\ ReadsAlone /\ PointersMeet)' BY <1>closed,<2>1,<2>a,<2>b
 <2>6. (Committed /\ SeenCommitted /\ SeenIsRead)' BY <1>0,<2>1 DEF Committed, SeenCommitted, SeenIsRead
 <2> QED BY <1>0,<2>1,<2>4,<2>5,<2>6, ForwardIfSame DEF ReceiptInv
<1> QED BY <1>1,<1>2,<1>3,<1>3a,<1>4,<1>5,<1>6,<1>7,<1>8,<1>9,<1>10 DEF ReceiptNext

(* The unread counter. The moment of a reading is not before it began; until it is written, the
   moment of the last one is not behind it; from then on, what the reading saw is not counted. *)
CountedSince == \A r \in Readers : readAt[r] <= begun /\ (r \notin overlapped => \A i \in seen[r] : i <= readAt[r])
SawInTime ==
  \A s \in Screens : reading[s] # Closed =>
    /\ reading[s].from <= begun /\ \A i \in reading[s].saw : i <= reading[s].from
    /\ reading[s].who \notin overlapped =>
         IF reading[s].at = "reads" THEN readAt[reading[s].who] <= reading[s].from
         ELSE \A i \in reading[s].saw : i <= readAt[reading[s].who]
CounterInv == CountedSince /\ SawInTime

LEMMA CounterInitOK == ReceiptInit => CounterInv BY DEF ReceiptInit, CounterInv, CountedSince, SawInTime

LEMMA CounterAgrees == ASSUME ReceiptTypeOK, CounterInv PROVE SeenIsNotCounted
<1>1. \A r \in Readers : readAt[r] \in 0..NumMessages /\ seen[r] \subseteq Numbers BY DEF ReceiptTypeOK
<1> QED BY <1>1, ReceiptFacts DEF CounterInv, CountedSince, SeenIsNotCounted, Unread, Numbers

LEMMA CounterStep == ASSUME ReceiptInv, CounterInv, [ReceiptNext]_receiptVars PROVE CounterInv'
<1> USE ReceiptFacts
<1>0. ReceiptTypeOK /\ ReadsAlone /\ CountedSince /\ SawInTime BY DEF ReceiptInv, CounterInv
<1>n. /\ begun \in 0..NumMessages /\ visible \subseteq 1..begun /\ \A r \in Readers : readAt[r] \in 0..NumMessages /\ seen[r] \subseteq Numbers
  BY <1>0 DEF ReceiptTypeOK
<1>k. \A s \in Screens : reading[s] # Closed => /\ reading[s] \in Readings /\ reading[s].who \in Readers
                                                 /\ reading[s].from \in 0..NumMessages /\ reading[s].saw \subseteq Numbers
  BY <1>0 DEF ReceiptTypeOK, Readings
<1>1. CASE UNCHANGED <<begun, readAt, reading, seen, overlapped>> BY <1>0,<1>1 DEF CounterInv, CountedSince, SawInTime
<1>2. CASE BeginMessage
 <2>1. begun' = begun + 1 /\ UNCHANGED <<readAt, reading, seen, overlapped>> BY <1>2 DEF BeginMessage
 <2> QED BY <1>0,<1>n,<1>k,<2>1 DEF CounterInv, CountedSince, SawInTime
<1>3. ASSUME NEW s \in Screens, NEW r \in Readers, NEW i \in 0..begun, MarkRead(s, r, i) PROVE CounterInv'
 <2> PICK new : new = [at |-> "reads", who |-> r, upTo |-> i, from |-> begun, saw |-> {j \in visible : j <= i}] OBVIOUS
 <2>1. /\ reading' = [reading EXCEPT ![s] = new] /\ overlapped \subseteq overlapped'
       /\ UNCHANGED <<begun, readAt, seen>> BY <1>3 DEF MarkRead
 <2>2. reading'[s] = new /\ \A t \in Screens \ {s} : reading'[t] = reading[t] BY <1>0,<2>1 DEF ReceiptTypeOK
 <2>3. CountedSince' BY <1>0,<2>1 DEF CountedSince
 <2>4. new.from = begun /\ new.who = r /\ new.at = "reads" /\ \A j \in new.saw : j <= begun BY <1>n
 <2>5. readAt[r] <= begun BY <1>0 DEF CountedSince
 <2>6. new.from <= begun BY <1>n,<2>4
 <2>7. \A j \in new.saw : j <= new.from BY <2>4
 <2>8. SawInTime'
  <3> SUFFICES ASSUME NEW t \in Screens, reading'[t] # Closed
      PROVE /\ reading'[t].from <= begun /\ \A j \in reading'[t].saw : j <= reading'[t].from
            /\ reading'[t].who \notin overlapped' =>
                 IF reading'[t].at = "reads" THEN readAt[reading'[t].who] <= reading'[t].from
                 ELSE \A j \in reading'[t].saw : j <= readAt[reading'[t].who] BY <2>1 DEF SawInTime
  <3>1. CASE t = s BY <2>2,<2>4,<2>5,<2>6,<2>7,<3>1
  <3>2. CASE t # s BY <1>0,<2>1,<2>2,<3>2 DEF SawInTime
  <3> QED BY <3>1,<3>2
 <2> QED BY <2>3,<2>8 DEF CounterInv
<1>4. ASSUME NEW s \in Screens, WriteReads(s) PROVE CounterInv'
 <2> PICK r \in Readers : r = reading[s].who BY <1>4,<1>k DEF WriteReads, Closed
 <2>1. /\ reading[s].at = "reads" /\ reading[s] # Closed /\ reading' = [reading EXCEPT ![s].at = "member"]
       /\ UNCHANGED <<begun, seen, overlapped>> BY <1>4 DEF WriteReads, ReadStep, Closed
 <2> PICK n \in reading[s].from..begun : readAt' = [readAt EXCEPT ![r] = n] BY <1>4 DEF WriteReads
 <2>2. n \in Int /\ reading[s].from <= n /\ n <= begun BY <1>n,<1>k,<2>1
 <2>3. readAt'[r] = n /\ \A q \in Readers \ {r} : readAt'[q] = readAt[q] BY <1>0 DEF ReceiptTypeOK
 <2>4. \A t \in Screens \ {s} : reading'[t] = reading[t] BY <1>0,<2>1 DEF ReceiptTypeOK
 <2>5. reading'[s].at = "member" /\ reading'[s].who = r /\ reading'[s].from = reading[s].from /\ reading'[s].saw = reading[s].saw
   BY <1>0,<1>k,<2>1 DEF ReceiptTypeOK, Readings
 <2>6. CountedSince' BY <1>0,<1>n,<1>k,<2>1,<2>2,<2>3 DEF CountedSince, SawInTime, Numbers
 <2>7. ASSUME NEW t \in Screens, reading'[t] # Closed
   PROVE /\ reading'[t].from <= begun /\ \A i \in reading'[t].saw : i <= reading'[t].from
         /\ reading'[t].who \notin overlapped =>
              IF reading'[t].at = "reads" THEN readAt'[reading'[t].who] <= reading'[t].from
              ELSE \A i \in reading'[t].saw : i <= readAt'[reading'[t].who]
  <3>1. CASE t = s
   <4>1. \A i \in reading[s].saw : i \in Int /\ i <= reading[s].from /\ i <= n BY <1>0,<1>n,<1>k,<2>1,<2>2 DEF SawInTime, Numbers
   <4> QED BY <1>0,<2>1,<2>3,<2>5,<3>1,<4>1 DEF SawInTime
  <3>2. CASE t # s
   <4>1. reading'[t] = reading[t] BY <2>4,<3>2
   <4>2. reading[t].who \notin overlapped => reading[t].who # r BY <1>0,<2>1,<2>7,<3>2,<4>1 DEF ReadsAlone
   <4>3. reading[t].who \in Readers BY <1>k,<2>7,<4>1
   <4> QED BY <1>0,<2>3,<2>7,<4>1,<4>2,<4>3 DEF SawInTime
  <3> QED BY <3>1,<3>2
 <2>8. SawInTime' BY <2>1,<2>7 DEF SawInTime
 <2> QED BY <2>6,<2>8 DEF CounterInv
<1>5. ASSUME NEW s \in Screens, WriteMember(s) PROVE CounterInv'
 <2>1. /\ reading[s].at = "member" /\ reading[s] # Closed /\ reading' = [reading EXCEPT ![s].at = "receipts"]
       /\ UNCHANGED <<begun, readAt, seen, overlapped>> BY <1>5 DEF WriteMember, ReadStep, Closed
 <2>2. \A t \in Screens \ {s} : reading'[t] = reading[t] BY <1>0,<2>1 DEF ReceiptTypeOK
 <2>3. reading'[s].at = "receipts" /\ \A x \in {"who", "from", "saw"} : reading'[s][x] = reading[s][x]
   BY <1>0,<1>k,<2>1 DEF ReceiptTypeOK, Readings
 <2>4. reading'[s].who = reading[s].who /\ reading'[s].from = reading[s].from /\ reading'[s].saw = reading[s].saw BY <2>3
 <2> QED BY <1>0,<2>1,<2>2,<2>3,<2>4 DEF CounterInv, CountedSince, SawInTime
<1>6. ASSUME NEW s \in Screens, WriteReceipts(s) PROVE CounterInv'
 <2> PICK r \in Readers : r = reading[s].who BY <1>6,<1>k DEF WriteReceipts, Closed
 <2>1. /\ reading[s].at = "receipts" /\ reading[s] # Closed /\ reading' = [reading EXCEPT ![s] = Closed]
       /\ seen' = [seen EXCEPT ![r] = @ \cup reading[s].saw] /\ UNCHANGED <<begun, readAt, overlapped>> BY <1>6 DEF WriteReceipts, Closed
 <2>2. reading'[s] = Closed /\ \A t \in Screens \ {s} : reading'[t] = reading[t] BY <1>0,<2>1 DEF ReceiptTypeOK
 <2>3. seen'[r] = seen[r] \cup reading[s].saw /\ \A q \in Readers \ {r} : seen'[q] = seen[q] BY <1>0,<2>1 DEF ReceiptTypeOK
 <2>4. r \notin overlapped => \A i \in reading[s].saw : i <= readAt[r] BY <1>0,<2>1 DEF SawInTime
 <2> QED BY <1>0,<2>1,<2>2,<2>3,<2>4 DEF CounterInv, CountedSince, SawInTime
<1>7. ASSUME NEW s \in Screens, ReadFails(s) PROVE CounterInv'
 <2>1. reading' = [reading EXCEPT ![s] = Closed] /\ UNCHANGED <<begun, readAt, seen, overlapped>> BY <1>7 DEF ReadFails
 <2>2. reading'[s] = Closed /\ \A t \in Screens \ {s} : reading'[t] = reading[t] BY <1>0,<2>1 DEF ReceiptTypeOK
 <2> QED BY <1>0,<2>1,<2>2 DEF CounterInv, CountedSince, SawInTime
<1>8. CASE CommitMessage BY <1>1,<1>8 DEF CommitMessage
<1>9. CASE CommitForward BY <1>1,<1>9 DEF CommitForward
<1>10. ASSUME NEW r \in Readers, Connect(r) \/ Disconnect(r) PROVE CounterInv' BY <1>1,<1>10 DEF Connect, Disconnect
<1> QED BY <1>1,<1>2,<1>3,<1>4,<1>5,<1>6,<1>7,<1>8,<1>9,<1>10 DEF ReceiptNext, receiptVars

------------------------
(* Workflows. What a worker holds are runs that have been started, at a step of theirs: at most two
   behind the last one, which a BRANCH at the end may reach; no run changes its definition, and
   definitions are only appended. *)
Slack == [begin |-> 2, step |-> 2, saved |-> 1, park |-> 0, threw |-> 2]
FitsRuns(w) ==
  /\ w.at \notin {"idle", "next"} => /\ w.job \in Copies /\ w.job.run \in Started
                                     /\ w.job.step \in 1..Len(row[w.job.run].steps) + Slack[w.at]
  /\ \A c \in w.rest : c.run \in Started /\ c.step \in 1..Len(row[c.run].steps) + 2
WorkersFit == \A p \in WfWorkers : FitsRuns(worker[p])
RunsStand ==
  /\ row \in [WfRuns -> {NoRow} \cup RunRows]
  /\ \A r \in Started : /\ row[r].step \in 1 .. Len(row[r].steps) + 2
                        /\ row[r].status = "WAITING_APPROVAL" => row[r].step <= Len(row[r].steps)
                        /\ row[r].version \in 1..Len(versions) /\ row[r].steps = versions[row[r].version]
AroundRuns ==
  /\ wfEnabled \in BOOLEAN /\ versions \in Seq(Programs) /\ Len(versions) \in 1..MaxVersions
  /\ approval \in [WfRuns -> [StepNumbers -> {"none", "PENDING", "APPROVED", "REJECTED"}]]
  /\ performed \in [WfRuns -> [StepNumbers -> Nat]] /\ integration \in [on : BOOLEAN, idempotent : BOOLEAN]
  /\ worker \in [WfWorkers -> WorkerStates] /\ replays \in [WfRuns -> WfRuns \cup {NoRun}]
  /\ overtaken \subseteq WfRuns /\ hasty \subseteq WfRuns /\ rewound \subseteq WfRuns /\ unheard \subseteq WfRuns
  /\ wfFaults \in 0..MaxWfFaults /\ slow \in 0..MaxSlow
WorkflowInv == RunsStand /\ WorkersFit /\ AroundRuns

LEMMA WfFacts ==
  /\ NoRow \notin RunRows /\ NoJob \notin Copies /\ NoRun \notin WfRuns
  /\ MaxSteps \in Nat /\ MaxVersions \in Nat \ {0} /\ MaxWfFaults \in Nat /\ MaxSlow \in Nat
  /\ \A steps \in Programs : steps \in Seq(StepTypes) /\ Len(steps) \in 1..MaxSteps
  BY WorkflowsAssumption DEF NoRow, RunRows, Final, NoJob, Copies, ValidSteps

LEMMA WorkflowInvImplies == WorkflowInv => WorkflowTypeOK /\ RunsItsVersion BY DEF WorkflowInv, RunsStand, AroundRuns, WorkflowTypeOK, RunsItsVersion

LEMMA WorkflowInitOK == WorkflowInit => WorkflowInv
<1> SUFFICES ASSUME WorkflowInit PROVE WorkflowInv OBVIOUS
<1> USE WfFacts
<1>1. Started = {} BY DEF WorkflowInit, Started
<1>2. RunsStand BY <1>1 DEF WorkflowInit, RunsStand
<1>3. IdleWorker \in WorkerStates BY DEF IdleWorker, WorkerStates
<1>4. WorkersFit BY DEF WorkflowInit, WorkersFit, FitsRuns, IdleWorker
<1>5. PICK program \in Programs : versions = <<program>> BY DEF WorkflowInit
<1>6. versions \in Seq(Programs) /\ Len(versions) \in 1..MaxVersions BY <1>5
<1>7. /\ approval \in [WfRuns -> [StepNumbers -> {"none", "PENDING", "APPROVED", "REJECTED"}]]
      /\ performed \in [WfRuns -> [StepNumbers -> Nat]] /\ replays \in [WfRuns -> WfRuns \cup {NoRun}] BY DEF WorkflowInit
<1>8. worker \in [WfWorkers -> WorkerStates] BY <1>3 DEF WorkflowInit
<1>9. wfEnabled \in BOOLEAN /\ integration \in [on : BOOLEAN, idempotent : BOOLEAN] BY DEF WorkflowInit
<1>10. overtaken = {} /\ hasty = {} /\ rewound = {} /\ unheard = {} /\ wfFaults \in 0..MaxWfFaults /\ slow \in 0..MaxSlow BY DEF WorkflowInit
<1>11. AroundRuns BY <1>6,<1>7,<1>8,<1>9,<1>10 DEF AroundRuns
<1> QED BY <1>2,<1>4,<1>11 DEF WorkflowInv

(* Runs keep what they were started with, whatever else is written. *)
SameRuns == \A r \in Started : r \in Started' /\ row'[r].steps = row[r].steps

LEMMA RowWritten ==
  ASSUME RunsStand, NEW r \in Started, NEW new \in RunRows, row' = [row EXCEPT ![r] = new], versions' = versions,
      new.steps = row[r].steps, new.version = row[r].version, new.step \in 1..Len(new.steps) + 2,
      new.status = "WAITING_APPROVAL" => new.step <= Len(new.steps)
  PROVE RunsStand' /\ SameRuns
<1> USE WfFacts
<1>1. row'[r] = new /\ \A q \in WfRuns \ {r} : row'[q] = row[q] BY DEF RunsStand, Started
<1>2. Started' = Started BY <1>1 DEF Started
<1>3. row' \in [WfRuns -> {NoRow} \cup RunRows] BY DEF RunsStand
<1> QED BY <1>1,<1>2,<1>3 DEF RunsStand, SameRuns, Started

LEMMA RowTouched ==
  ASSUME RunsStand, NEW r \in Started, NEW new \in RunRows, row' = [row EXCEPT ![r] = new], versions' = versions,
      new.steps = row[r].steps, new.version = row[r].version, new.step = row[r].step, new.status = row[r].status \/ new.status # "WAITING_APPROVAL"
  PROVE RunsStand' /\ SameRuns
<1>1. new.step \in 1..Len(new.steps) + 2 /\ (new.status = "WAITING_APPROVAL" => new.step <= Len(new.steps)) BY DEF RunsStand
<1> QED BY <1>1, RowWritten

LEMMA WorkerMoves ==
  ASSUME WorkersFit, worker \in [WfWorkers -> WorkerStates], SameRuns, NEW p \in WfWorkers, NEW w, worker' = [worker EXCEPT ![p] = w], FitsRuns(w)'
  PROVE WorkersFit'
<1>1. worker'[p] = w /\ \A q \in WfWorkers \ {p} : worker'[q] = worker[q] OBVIOUS
<1>2. \A q \in WfWorkers \ {p} : FitsRuns(worker[q])' BY <1>1 DEF WorkersFit, FitsRuns, SameRuns
<1> QED BY <1>1,<1>2 DEF WorkersFit, FitsRuns

LEMMA WorkersStay == ASSUME WorkersFit, SameRuns, worker' = worker PROVE WorkersFit' BY DEF WorkersFit, FitsRuns, SameRuns

(* What is written of the run in hand, and what the worker holds next. *)
LEMMA InHand ==
  ASSUME WorkflowInv, NEW p \in WfWorkers, worker[p].at \notin {"idle", "next"}
  PROVE  /\ worker[p] \in WorkerStates /\ Job(p) \in Copies /\ Job(p).run \in Started /\ row[Job(p).run] \in RunRows
         /\ Job(p).step \in 1..Len(Steps(p)) + Slack[worker[p].at] /\ Job(p).step \in 1..Len(Steps(p)) + 2
         /\ Steps(p) \in Programs /\ Len(Steps(p)) \in 1..MaxSteps /\ \A c \in worker[p].rest : c.run \in Started /\ c.step \in 1..Len(row[c.run].steps) + 2
<1> USE WfFacts
<1>1. worker[p] \in WorkerStates BY DEF WorkflowInv, AroundRuns
<1>2. FitsRuns(worker[p]) BY DEF WorkflowInv, WorkersFit
<1>3. row[Job(p).run] \in RunRows BY <1>2 DEF FitsRuns, WorkflowInv, RunsStand, Started, Job
<1>4. Job(p).step \in 1..Len(Steps(p)) + Slack[worker[p].at] /\ Len(Steps(p)) \in 1..MaxSteps BY <1>2,<1>3 DEF FitsRuns, Job, Steps, RunRows
<1>5. Slack[worker[p].at] \in {0, 1, 2} BY <1>1 DEF Slack, WorkerStates
<1>6. Job(p).step \in 1..Len(Steps(p)) + 2 BY <1>4,<1>5
<1> QED BY <1>1,<1>2,<1>3,<1>4,<1>6 DEF FitsRuns, Job, Steps, RunRows

LEMMA LeaveFits == ASSUME WorkflowInv, SameRuns, NEW p \in WfWorkers, Leave(p) PROVE WorkersFit' /\ worker' \in [WfWorkers -> WorkerStates]
<1>1. worker[p] \in WorkerStates BY DEF WorkflowInv, AroundRuns
<1> PICK rest \in SUBSET Copies : rest = worker[p].rest BY <1>1 DEF WorkerStates
<1> PICK w : w = [at |-> "next", job |-> NoJob, rest |-> rest] OBVIOUS
<1>2. worker' = [worker EXCEPT ![p] = w] BY DEF Leave
<1>3. \A c \in rest : c.run \in Started /\ c.step \in 1..Len(row[c.run].steps) + 2 BY DEF WorkflowInv, WorkersFit, FitsRuns
<1>4. FitsRuns(w)' BY <1>3 DEF FitsRuns, SameRuns
<1>5. w \in WorkerStates BY DEF WorkerStates
<1>6. worker \in [WfWorkers -> WorkerStates] BY DEF WorkflowInv, AroundRuns
<1> QED BY <1>2,<1>4,<1>5,<1>6, WorkerMoves DEF WorkflowInv

LEMMA GoesFits ==
  ASSUME WorkflowInv, SameRuns, NEW p \in WfWorkers, worker[p].at \notin {"idle", "next"},
      NEW at \in DOMAIN Slack, NEW job \in Copies, Hold(p, at, job), job.run = Job(p).run, job.step \in 1..Len(Steps(p)) + Slack[at]
  PROVE WorkersFit' /\ worker' \in [WfWorkers -> WorkerStates]
<1>1. worker[p] \in WorkerStates /\ Job(p).run \in Started
      /\ \A c \in worker[p].rest : c.run \in Started /\ c.step \in 1..Len(row[c.run].steps) + 2 BY InHand
<1> PICK rest \in SUBSET Copies : rest = worker[p].rest BY <1>1 DEF WorkerStates
<1> PICK w : w = [at |-> at, job |-> job, rest |-> rest] OBVIOUS
<1>2. worker \in [WfWorkers -> WorkerStates] BY DEF WorkflowInv, AroundRuns
<1>3. worker' = [worker EXCEPT ![p] = w] BY DEF Hold
<1>4. at \in {"begin", "step", "saved", "park", "threw"} BY DEF Slack
<1>5. w \in WorkerStates BY <1>4 DEF WorkerStates
<1>6. FitsRuns(w)' BY <1>1 DEF FitsRuns, SameRuns, Steps
<1>7. WorkersFit' BY <1>2,<1>3,<1>6, WorkerMoves DEF WorkflowInv
<1> QED BY <1>2,<1>3,<1>5,<1>7

LEMMA RowEnds ==
  ASSUME WorkflowInv, NEW r \in Started, row[r] \in RunRows, NEW status \in Final, NEW step \in 1..Len(row[r].steps) + 2,
      row' = [row EXCEPT ![r] = [@ EXCEPT !.status = status, !.step = step]], versions' = versions
  PROVE RunsStand' /\ SameRuns
<1> PICK old \in RunRows : old = row[r] OBVIOUS
<1> PICK new : new = [old EXCEPT !.status = status, !.step = step] OBVIOUS
<1>1. new \in RunRows /\ new.status = status /\ new.step = step /\ new.steps = old.steps /\ new.version = old.version
 <2>1. step \in Nat BY DEF RunRows
 <2> QED BY <2>1 DEF RunRows
<1>2. row' = [row EXCEPT ![r] = new] BY DEF WorkflowInv, RunsStand, Started
<1>3. status # "WAITING_APPROVAL" BY DEF Final
<1>4. new.step \in 1..Len(new.steps) + 2 /\ new.steps = row[r].steps /\ new.version = row[r].version BY <1>1
<1>5. new.status = "WAITING_APPROVAL" => new.step <= Len(new.steps) BY <1>1,<1>3
<1>6. RunsStand BY DEF WorkflowInv
<1>7. new \in RunRows BY <1>1
<1> QED BY <1>2,<1>4,<1>5,<1>6,<1>7, RowWritten

LEMMA CatchFits ==
  ASSUME WorkflowInv, NEW p \in WfWorkers, worker[p].at \notin {"idle", "next"}, Catch(p), versions' = versions
  PROVE RunsStand' /\ SameRuns /\ WorkersFit' /\ worker' \in [WfWorkers -> WorkerStates]
<1> PICK r \in Started, old \in RunRows : r = Job(p).run /\ old = row[r] BY InHand
<1>1. old.step \in 1..Len(old.steps) + 2 BY DEF WorkflowInv, RunsStand
<1> PICK new : new = IF Job(p).attempts >= MaxAttempts THEN [old EXCEPT !.status = "FAILED"]
                     ELSE [old EXCEPT !.status = "QUEUED", !.later = TRUE] OBVIOUS
<1>2. new \in RunRows /\ new.status \in {"FAILED", "QUEUED"} /\ new.step = old.step /\ new.steps = old.steps /\ new.version = old.version
  BY DEF RunRows, Final
<1>3. row' = [row EXCEPT ![r] = new] BY DEF Catch, Put, RowOf, WorkflowInv, RunsStand, Started
<1>4. RunsStand' /\ SameRuns BY <1>1,<1>2,<1>3, RowWritten DEF WorkflowInv
<1>5. Leave(p) BY DEF Catch
<1> QED BY <1>4,<1>5, LeaveFits

LEMMA EndRowFits ==
  ASSUME WorkflowInv, NEW p \in WfWorkers, worker[p].at \notin {"idle", "next"}, NEW status \in Final, EndRow(p, status), versions' = versions
  PROVE RunsStand' /\ SameRuns
<1> PICK r \in Started : r = Job(p).run /\ row[r] \in RunRows BY InHand
<1> PICK step \in 1..Len(row[r].steps) + 2 : step = Job(p).step BY InHand DEF Steps
<1>1. row' = [row EXCEPT ![r] = [@ EXCEPT !.status = status, !.step = step]] BY DEF EndRow, Put, RowOf, WorkflowInv, RunsStand, Started
<1> QED BY <1>1, RowEnds

LEMMA EndRunFits ==
  ASSUME WorkflowInv, NEW p \in WfWorkers, worker[p].at \notin {"idle", "next"}, NEW status \in Final, EndRun(p, status), versions' = versions
  PROVE RunsStand' /\ SameRuns /\ WorkersFit' /\ worker' \in [WfWorkers -> WorkerStates]
BY EndRowFits, LeaveFits DEF EndRun

(* A run that is put down stands at a step of its definition, or behind a WAIT of it. *)
LEMMA PutDownFits ==
  ASSUME WorkflowInv, NEW p \in WfWorkers, worker[p].at \notin {"idle", "next"}, Job(p).step <= Len(Steps(p)), ParkRow(p) \/ WaitRow(p), versions' = versions
  PROVE RunsStand' /\ SameRuns
<1>0. RunsStand BY DEF WorkflowInv
<1> PICK r \in Started, old \in RunRows : r = Job(p).run /\ old = row[r] /\ Job(p) \in Copies BY InHand
<1> PICK k : k = Job(p).step OBVIOUS
<1>1. k \in 1..Len(old.steps) /\ Len(old.steps) \in Nat BY InHand DEF Steps
<1> PICK j : j = k + 1 OBVIOUS
<1>2. j \in 1..Len(old.steps) + 1 /\ j \in Nat /\ k \in Nat BY <1>1
<1> PICK payload : payload = Job(p).payload OBVIOUS
<1>3. payload \in Payloads BY DEF Copies
<1>4. CASE ParkRow(p)
 <2> PICK new : new = [old EXCEPT !.status = "WAITING_APPROVAL", !.step = k, !.payload = payload, !.fresh = TRUE] OBVIOUS
 <2>1. new \in RunRows /\ new.step = k /\ new.steps = old.steps /\ new.version = old.version BY <1>2,<1>3 DEF RunRows
 <2>2. row' = [row EXCEPT ![r] = new] BY <1>4 DEF ParkRow, Put, RowOf
 <2>3. new.step \in 1..Len(new.steps) + 2 /\ new.step <= Len(new.steps) BY <1>1,<2>1
 <2>4. new.steps = row[r].steps /\ new.version = row[r].version BY <2>1
 <2> QED BY <1>0,<2>1,<2>2,<2>3,<2>4, RowWritten
<1>5. CASE WaitRow(p)
 <2> PICK new : new = [old EXCEPT !.status = "QUEUED", !.later = TRUE, !.step = j, !.payload = payload, !.fresh = TRUE] OBVIOUS
 <2>1. new \in RunRows /\ new.status = "QUEUED" /\ new.step = j /\ new.steps = old.steps /\ new.version = old.version BY <1>2,<1>3 DEF RunRows
 <2>2. row' = [row EXCEPT ![r] = new] BY <1>5 DEF WaitRow, Put, RowOf
 <2>3. new.step \in 1..Len(new.steps) + 2 /\ new.status # "WAITING_APPROVAL" BY <1>1,<1>2,<2>1
 <2>4. new.steps = row[r].steps /\ new.version = row[r].version BY <2>1
 <2> QED BY <1>0,<2>1,<2>2,<2>3,<2>4, RowWritten
<1> QED BY <1>4,<1>5

LEMMA RowsStay == ASSUME WorkflowInv, row' = row, versions' = versions PROVE RunsStand' /\ SameRuns BY DEF WorkflowInv, RunsStand, SameRuns, Started

LEMMA SaveRowFits ==
  ASSUME WorkflowInv, NEW p \in WfWorkers, worker[p].at \notin {"idle", "next"}, SaveRow(p), versions' = versions
  PROVE RunsStand' /\ SameRuns
<1>0. RunsStand BY DEF WorkflowInv
<1> PICK r \in Started, old \in RunRows : r = Job(p).run /\ old = row[r] /\ Job(p) \in Copies BY InHand
<1> PICK payload \in Payloads : payload = Job(p).payload BY DEF Copies
<1>1. CASE old.status = "RUNNING"
 <2> PICK fresh : fresh = (old.fresh /\ Steps(p)[Job(p).step] \notin Changing) OBVIOUS
 <2>1. fresh \in BOOLEAN BY DEF RunRows
 <2> PICK new : new = [old EXCEPT !.payload = payload, !.fresh = fresh] OBVIOUS
 <2>2. new \in RunRows /\ new.status = old.status /\ new.step = old.step /\ new.steps = old.steps /\ new.version = old.version BY <2>1 DEF RunRows
 <2>3. row' = [row EXCEPT ![r] = new] BY <1>1 DEF SaveRow, Put, RowOf
 <2> QED BY <1>0,<2>2,<2>3, RowTouched
<1>2. CASE old.status # "RUNNING"
 <2>1. row' = row BY <1>2 DEF SaveRow, RowOf
 <2> QED BY <2>1, RowsStay
<1> QED BY <1>1,<1>2

LEMMA WorkflowStep == WorkflowInv /\ [WorkflowNext]_wfVars => WorkflowInv'
<1> SUFFICES ASSUME WorkflowInv, [WorkflowNext]_wfVars PROVE WorkflowInv' OBVIOUS
<1> USE WfFacts
<1>types. RunsStand /\ WorkersFit /\ AroundRuns BY DEF WorkflowInv
<1>stay. ASSUME row' = row, versions' = versions, worker' = worker PROVE RunsStand' /\ WorkersFit' BY <1>types,<1>stay, RowsStay, WorkersStay
<1>0. CASE UNCHANGED wfVars
 <2>1. RunsStand' /\ WorkersFit' BY <1>0,<1>stay DEF wfVars
 <2> QED BY <1>0,<1>types,<2>1 DEF wfVars, AroundRuns, WorkflowInv
<1>1. CASE SetWfEnabled \/ SetIntegrationEnabled
 <2>1. RunsStand' /\ WorkersFit' BY <1>1,<1>stay DEF SetWfEnabled, SetIntegrationEnabled
 <2>2. wfEnabled' \in BOOLEAN /\ integration' \in [on : BOOLEAN, idempotent : BOOLEAN]
   BY <1>1,<1>types DEF SetWfEnabled, SetIntegrationEnabled, AroundRuns
 <2> QED BY <1>1,<1>types,<2>1,<2>2 DEF SetWfEnabled, SetIntegrationEnabled, wfGhosts, AroundRuns, WorkflowInv
<1>2. CASE UpdateDefinition
 <2> PICK program \in Programs : versions' = Append(versions, program) BY <1>2 DEF UpdateDefinition
 <2>1. /\ versions' \in Seq(Programs) /\ Len(versions') = Len(versions) + 1 /\ Len(versions') \in 1 .. MaxVersions
       /\ \A i \in 1..Len(versions) : versions'[i] = versions[i] BY <1>2,<1>types DEF UpdateDefinition, AroundRuns
 <2>2. row' = row /\ worker' = worker BY <1>2 DEF UpdateDefinition
 <2>3. Started' = Started BY <2>2 DEF Started
 <2>4. RunsStand' BY <1>types,<2>1,<2>2,<2>3 DEF RunsStand, AroundRuns
 <2>5. WorkersFit' BY <1>types,<2>2,<2>3, WorkersStay DEF SameRuns
 <2> QED BY <1>2,<1>types,<2>1,<2>4,<2>5 DEF UpdateDefinition, wfGhosts, AroundRuns, WorkflowInv
<1>enqueue. ASSUME NEW r \in WfRuns, NEW payload \in Payloads, Enqueue(r, payload), versions' = versions, worker' = worker
  PROVE RunsStand' /\ WorkersFit'
 <2> PICK k : k = Len(versions) OBVIOUS
 <2> PICK new : new = [status |-> "QUEUED", steps |-> versions[k], version |-> k, step |-> 1, payload |-> payload, trigger |-> payload,
                       fresh |-> TRUE, attempts |-> 0, later |-> FALSE, old |-> FALSE] OBVIOUS
 <2>1. k \in 1..Len(versions) /\ k \in 1..MaxVersions /\ versions[k] \in Programs BY <1>types DEF AroundRuns
 <2>2. new \in RunRows BY <2>1 DEF RunRows
 <2>3. row' = [row EXCEPT ![r] = new] /\ row[r] = NoRow BY <1>enqueue DEF Enqueue, Started
 <2>4. row'[r] = new /\ \A q \in WfRuns \ {r} : row'[q] = row[q] BY <1>types,<2>3 DEF RunsStand
 <2>5. row' \in [WfRuns -> {NoRow} \cup RunRows] BY <1>types,<2>2,<2>3 DEF RunsStand
 <2>6. Started' = Started \cup {r} /\ r \notin Started BY <2>2,<2>3,<2>4 DEF Started
 <2>7. Len(new.steps) \in Nat BY <2>1
 <2>a. new.step = 1 /\ new.version = k /\ new.steps = versions'[k] /\ new.status = "QUEUED" BY <1>enqueue
 <2>b. /\ new.step \in 1 .. Len(new.steps) + 2 /\ (new.status = "WAITING_APPROVAL" => new.step <= Len(new.steps))
       /\ new.version \in 1..Len(versions') /\ new.steps = versions'[new.version] BY <1>enqueue,<2>1,<2>7,<2>a
 <2>c. ASSUME NEW q \in Started'
   PROVE  /\ row'[q].step \in 1 .. Len(row'[q].steps) + 2 /\ (row'[q].status = "WAITING_APPROVAL" => row'[q].step <= Len(row'[q].steps))
          /\ row'[q].version \in 1..Len(versions') /\ row'[q].steps = versions'[row'[q].version]
  <3>1. CASE q = r BY <2>4,<2>b,<3>1
  <3>2. CASE q # r
   <4>1. q \in Started /\ row'[q] = row[q] BY <2>4,<2>6,<3>2 DEF Started
   <4> QED BY <1>enqueue,<1>types,<4>1 DEF RunsStand
  <3> QED BY <3>1,<3>2
 <2>8. RunsStand' BY <2>5,<2>c DEF RunsStand
 <2>9. SameRuns BY <2>4,<2>6 DEF SameRuns, Started
 <2> QED BY <1>enqueue,<1>types,<2>8,<2>9, WorkersStay
<1>3. ASSUME NEW r \in WfRuns, NEW payload \in Payloads, Trigger(r, payload) PROVE WorkflowInv'
 <2>1. RunsStand' /\ WorkersFit' BY <1>3,<1>enqueue DEF Trigger
 <2> QED BY <1>3,<1>types,<2>1 DEF Trigger, wfGhosts, AroundRuns, WorkflowInv
<1>4. ASSUME NEW r \in WfRuns, NEW new \in WfRuns, ReplayRun(r, new) PROVE WorkflowInv'
 <2> PICK payload \in Payloads : payload = row[r].trigger BY <1>4,<1>types DEF ReplayRun, RunsStand, Started, RunRows
 <2>1. Enqueue(new, payload) BY <1>4 DEF ReplayRun
 <2>2. RunsStand' /\ WorkersFit' BY <1>4,<1>enqueue,<2>1 DEF ReplayRun
 <2>3. replays' \in [WfRuns -> WfRuns \cup {NoRun}] BY <1>4,<1>types DEF ReplayRun, AroundRuns
 <2> QED BY <1>4,<1>types,<2>2,<2>3 DEF ReplayRun, wfGhosts, AroundRuns, WorkflowInv
<1>runs. ASSUME NEW r \in Started PROVE row[r] \in RunRows /\ row[r].step \in 1 .. Len(row[r].steps) + 2
                                        /\ (row[r].status = "WAITING_APPROVAL" => row[r].step <= Len(row[r].steps)) BY <1>types DEF RunsStand, Started
<1>5. ASSUME NEW r \in WfRuns, CancelRun(r) PROVE WorkflowInv'
 <2>1. r \in Started /\ row' = [row EXCEPT ![r].status = "CANCELLED"] BY <1>5 DEF CancelRun
 <2> PICK old \in RunRows : old = row[r] BY <1>runs,<2>1
 <2> PICK new : new = [old EXCEPT !.status = "CANCELLED"] OBVIOUS
 <2>2. new \in RunRows /\ new.status = "CANCELLED" /\ new.step = old.step /\ new.steps = old.steps /\ new.version = old.version BY DEF RunRows, Final
 <2>3. row' = [row EXCEPT ![r] = new] BY <1>types,<2>1 DEF RunsStand
 <2>b. versions' = versions BY <1>5 DEF CancelRun
 <2>4. RunsStand' /\ SameRuns BY <1>types,<2>1,<2>2,<2>3,<2>b, RowTouched
 <2>5. WorkersFit' BY <1>5,<1>types,<2>4, WorkersStay DEF CancelRun
 <2> QED BY <1>5,<1>types,<2>4,<2>5 DEF CancelRun, wfGhosts, AroundRuns, WorkflowInv
<1>6. ASSUME NEW r \in WfRuns, ComesDueRun(r) PROVE WorkflowInv'
 <2>1. r \in Started /\ row' = [row EXCEPT ![r].later = FALSE] BY <1>6 DEF ComesDueRun
 <2> PICK old \in RunRows : old = row[r] BY <1>runs,<2>1
 <2> PICK new : new = [old EXCEPT !.later = FALSE] OBVIOUS
 <2>2. new \in RunRows /\ new.status = old.status /\ new.step = old.step /\ new.steps = old.steps /\ new.version = old.version BY DEF RunRows
 <2>3. row' = [row EXCEPT ![r] = new] BY <1>types,<2>1 DEF RunsStand
 <2>b. versions' = versions BY <1>6 DEF ComesDueRun
 <2>4. RunsStand' /\ SameRuns BY <1>types,<2>1,<2>2,<2>3,<2>b, RowTouched
 <2>5. WorkersFit' BY <1>6,<1>types,<2>4, WorkersStay DEF ComesDueRun
 <2> QED BY <1>6,<1>types,<2>4,<2>5 DEF ComesDueRun, wfGhosts, AroundRuns, WorkflowInv
<1>7. ASSUME NEW r \in WfRuns, LockAges(r) PROVE WorkflowInv'
 <2>1. r \in Started /\ row' = [row EXCEPT ![r].old = TRUE] BY <1>7 DEF LockAges
 <2> PICK old \in RunRows : old = row[r] BY <1>runs,<2>1
 <2> PICK new : new = [old EXCEPT !.old = TRUE] OBVIOUS
 <2>2. new \in RunRows /\ new.status = old.status /\ new.step = old.step /\ new.steps = old.steps /\ new.version = old.version BY DEF RunRows
 <2>3. row' = [row EXCEPT ![r] = new] BY <1>types,<2>1 DEF RunsStand
 <2>b. versions' = versions BY <1>7 DEF LockAges
 <2>4. RunsStand' /\ SameRuns BY <1>types,<2>1,<2>2,<2>3,<2>b, RowTouched
 <2>5. WorkersFit' BY <1>7,<1>types,<2>4, WorkersStay DEF LockAges
 <2>6. slow' \in 0..MaxSlow BY <1>7,<1>types DEF LockAges, AroundRuns
 <2> QED BY <1>7,<1>types,<2>4,<2>5,<2>6 DEF LockAges, AroundRuns, WorkflowInv
<1>8. ASSUME NEW r \in WfRuns, NEW i \in StepNumbers, NEW decision \in {"APPROVED", "REJECTED"}, DecideApproval(r, i, decision) PROVE WorkflowInv'
 <2>1. approval' \in [WfRuns -> [StepNumbers -> {"none", "PENDING", "APPROVED", "REJECTED"}]] BY <1>8,<1>types DEF DecideApproval, AroundRuns
 <2>2. RunsStand' /\ SameRuns
  <3>1. CASE row[r].status # "WAITING_APPROVAL" BY <1>8,<3>1, RowsStay DEF DecideApproval
  <3>2. CASE row[r].status = "WAITING_APPROVAL"
   <4>1. r \in Started BY <3>2 DEF Started, NoRow
   <4> PICK old \in RunRows : old = row[r] BY <1>runs,<4>1
   <4>2. old.step \in 1..Len(old.steps) /\ Len(old.steps) \in Nat
    <5>1. old.steps \in Programs BY DEF RunRows
    <5> QED BY <1>runs,<3>2,<4>1,<5>1
   <4>3. CASE decision = "APPROVED"
    <5> PICK k \in Nat : k = old.step + 1 BY <4>2
    <5> PICK new : new = [old EXCEPT !.status = "QUEUED", !.step = k, !.later = FALSE] OBVIOUS
    <5>1. new \in RunRows /\ new.status = "QUEUED" /\ new.step = old.step + 1 /\ new.steps = old.steps /\ new.version = old.version BY DEF RunRows
    <5>a. row' = [row EXCEPT ![r] = [@ EXCEPT !.status = "QUEUED", !.step = row[r].step + 1, !.later = FALSE]]
      BY <1>8,<3>2,<4>3 DEF DecideApproval
    <5>c. [row[r] EXCEPT !.status = "QUEUED", !.step = row[r].step + 1, !.later = FALSE] = new OBVIOUS
    <5>2. row' = [row EXCEPT ![r] = new] BY <5>a,<5>c
    <5>3. new.step \in 1..Len(new.steps) + 2 /\ new.status # "WAITING_APPROVAL" BY <4>2,<5>1
    <5>4. versions' = versions BY <1>8 DEF DecideApproval
    <5>5. new \in RunRows /\ new.steps = row[r].steps /\ new.version = row[r].version BY <5>1
    <5> QED BY <1>types,<4>1,<5>2,<5>3,<5>4,<5>5, RowWritten
   <4>4. CASE decision # "APPROVED"
    <5> PICK new : new = [old EXCEPT !.status = "CANCELLED"] OBVIOUS
    <5>1. new \in RunRows /\ new.status = "CANCELLED" /\ new.step = old.step /\ new.steps = old.steps /\ new.version = old.version
      BY DEF RunRows, Final
    <5>2. row' = [row EXCEPT ![r] = new] BY <1>8,<1>types,<3>2,<4>1,<4>4 DEF DecideApproval, RunsStand
    <5>4. versions' = versions BY <1>8 DEF DecideApproval
    <5> QED BY <1>types,<4>1,<5>1,<5>2,<5>4, RowTouched
   <4> QED BY <4>3,<4>4
  <3> QED BY <3>1,<3>2
 <2>3. WorkersFit' BY <1>8,<1>types,<2>2, WorkersStay DEF DecideApproval
 <2> QED BY <1>8,<1>types,<2>1,<2>2,<2>3 DEF DecideApproval, AroundRuns, WorkflowInv
<1>9. ASSUME NEW p \in WfWorkers, Claim(p) PROVE WorkflowInv'
 <2>0. PICK rs \in SUBSET {r \in Started : Claimable(r)} :
      /\ row' = [r \in WfRuns |-> IF r \notin rs THEN row[r]
                   ELSE [row[r] EXCEPT !.status = "RUNNING", !.attempts = @ + 1, !.old = FALSE]]
      /\ worker' = [worker EXCEPT ![p] = [at |-> "next", job |-> NoJob, rest |->
           {[run |-> r, step |-> row[r].step, payload |-> row[r].payload, attempts |-> row[r].attempts + 1] : r \in rs}]]
      /\ overtaken' = overtaken \cup (rs \cap Held)
      /\ rewound' = rewound \cup {r \in rs : ~row[r].fresh} BY <1>9 DEF Claim
 <2>1. UNCHANGED <<wfEnabled, versions, approval, performed, integration, replays, hasty, unheard, wfFaults, slow>> BY <1>9 DEF Claim
 <2>2. rs \subseteq Started /\ Started \subseteq WfRuns BY <2>0 DEF Started
 <2>3. \A r \in WfRuns \ rs : row'[r] = row[r] BY <2>0,<2>2
 <2>4. ASSUME NEW r \in rs
   PROVE  /\ row'[r] \in RunRows /\ row'[r].status = "RUNNING" /\ row'[r].step = row[r].step /\ row'[r].steps = row[r].steps
          /\ row'[r].version = row[r].version
  <3> PICK old \in RunRows : old = row[r] BY <1>runs,<2>2
  <3>a. old.attempts \in Nat BY DEF RunRows
  <3> PICK k \in Nat : k = old.attempts + 1 BY <3>a
  <3> PICK new : new = [old EXCEPT !.status = "RUNNING", !.attempts = k, !.old = FALSE] OBVIOUS
  <3>1. new \in RunRows /\ new.status = "RUNNING" /\ new.step = old.step /\ new.steps = old.steps /\ new.version = old.version BY DEF RunRows
  <3>2. row'[r] = new BY <2>0,<2>2
  <3> QED BY <3>1,<3>2
 <2>5. Started' = Started
  <3>1. \A r \in rs : row'[r] # NoRow BY <2>4
  <3>2. \A r \in rs : row[r] # NoRow BY <2>2 DEF Started
  <3> QED BY <2>3,<3>1,<3>2 DEF Started
 <2>6. row' \in [WfRuns -> {NoRow} \cup RunRows]
  <3>1. \A r \in WfRuns : row'[r] \in {NoRow} \cup RunRows BY <1>types,<2>3,<2>4 DEF RunsStand
  <3>2. row' = [r \in WfRuns |-> row'[r]] BY <2>0
  <3> QED BY <3>1,<3>2
 <2>a. ASSUME NEW q \in Started'
   PROVE  /\ row'[q].step \in 1 .. Len(row'[q].steps) + 2 /\ (row'[q].status = "WAITING_APPROVAL" => row'[q].step <= Len(row'[q].steps))
          /\ row'[q].version \in 1..Len(versions') /\ row'[q].steps = versions'[row'[q].version]
  <3>1. q \in Started /\ q \in WfRuns BY <2>2,<2>5
  <3>2. CASE q \in rs BY <1>types,<2>1,<2>4,<3>1,<3>2 DEF RunsStand
  <3>3. CASE q \notin rs
   <4>1. row'[q] = row[q] BY <2>3,<3>1,<3>3
   <4> QED BY <1>types,<2>1,<3>1,<4>1 DEF RunsStand
  <3> QED BY <3>2,<3>3
 <2>7. RunsStand' BY <2>6,<2>a DEF RunsStand
 <2>8. SameRuns BY <2>2,<2>3,<2>4,<2>5 DEF SameRuns
 <2>z. PICK rest : rest = {[run |-> r, step |-> row[r].step, payload |-> row[r].payload, attempts |-> row[r].attempts + 1] : r \in rs} OBVIOUS
 <2>9. rest \subseteq Copies
  <3> SUFFICES ASSUME NEW r \in rs PROVE [run |-> r, step |-> row[r].step, payload |-> row[r].payload, attempts |-> row[r].attempts + 1] \in Copies
    BY <2>z
  <3>1. row[r] \in RunRows /\ r \in WfRuns BY <1>runs,<2>2
  <3>2. row[r].step \in Nat /\ row[r].payload \in Payloads /\ row[r].attempts \in Nat BY <3>1 DEF RunRows
  <3>3. row[r].attempts + 1 \in Nat BY <3>2
  <3> QED BY <3>1,<3>2,<3>3 DEF Copies
 <2> PICK w : w = [at |-> "next", job |-> NoJob, rest |-> rest] OBVIOUS
 <2>10. worker' = [worker EXCEPT ![p] = w] BY <2>0,<2>z
 <2>11. FitsRuns(w)'
  <3>1. ASSUME NEW c \in rest PROVE c.run \in rs /\ c.step = row[c.run].step
   <4> PICK r \in rs : c = [run |-> r, step |-> row[r].step, payload |-> row[r].payload, attempts |-> row[r].attempts + 1] BY <2>z
   <4> QED OBVIOUS
  <3>2. \A r \in rs : r \in Started' /\ row'[r].steps = row[r].steps /\ row[r].step \in 1..Len(row[r].steps) + 2 BY <1>runs,<2>2,<2>4,<2>5
  <3>3. \A c \in rest : c.run \in Started' /\ c.step \in 1..Len(row'[c.run].steps) + 2 BY <3>1,<3>2
  <3> QED BY <3>3 DEF FitsRuns
 <2>12. w \in WorkerStates BY <2>9 DEF WorkerStates
 <2>13. WorkersFit' BY <1>types,<2>8,<2>10,<2>11, WorkerMoves DEF AroundRuns
 <2>14. worker' \in [WfWorkers -> WorkerStates] BY <1>types,<2>10,<2>12 DEF AroundRuns
 <2>15. overtaken' \subseteq WfRuns /\ rewound' \subseteq WfRuns BY <1>types,<2>0,<2>2 DEF AroundRuns
 <2> QED BY <1>types,<2>1,<2>7,<2>13,<2>14,<2>15 DEF AroundRuns, WorkflowInv
<1>10. ASSUME NEW p \in WfWorkers, NextOfBatch(p) PROVE WorkflowInv'
 <2>1. row' = row /\ versions' = versions BY <1>10 DEF NextOfBatch, wfOutside
 <2>2. RunsStand' /\ SameRuns BY <2>1, RowsStay
 <2>3. WorkersFit' /\ worker' \in [WfWorkers -> WorkerStates]
  <3>1. worker[p] \in WorkerStates /\ worker \in [WfWorkers -> WorkerStates] BY <1>types DEF AroundRuns
  <3> PICK rest \in SUBSET Copies : rest = worker[p].rest BY <3>1 DEF WorkerStates
  <3>2. \A c \in rest : c.run \in Started /\ c.step \in 1..Len(row[c.run].steps) + 2 BY <1>types DEF WorkersFit, FitsRuns
  <3> PICK c : c = CHOOSE d \in rest : TRUE OBVIOUS
  <3> PICK w : w = IF rest = {} THEN IdleWorker ELSE [at |-> "begin", job |-> c, rest |-> rest \ {c}] OBVIOUS
  <3>3. worker' = [worker EXCEPT ![p] = w] BY <1>10 DEF NextOfBatch
  <3>4. CASE rest = {}
   <4>1. w \in WorkerStates /\ FitsRuns(w)' BY <3>4 DEF IdleWorker, WorkerStates, FitsRuns
   <4> QED BY <1>types,<2>2,<3>1,<3>3,<4>1, WorkerMoves
  <3>5. CASE rest # {}
   <4>1. c \in rest BY <3>5
   <4>2. w = [at |-> "begin", job |-> c, rest |-> rest \ {c}] BY <3>5
   <4>3. w \in WorkerStates BY <4>1,<4>2 DEF WorkerStates
   <4>4. \A d \in rest : d.run \in Started' /\ d.step \in 1..Len(row'[d.run].steps) + 2 BY <2>2,<3>2 DEF SameRuns
   <4>5. FitsRuns(w)' BY <4>1,<4>2,<4>4 DEF FitsRuns, Slack
   <4> QED BY <1>types,<2>2,<3>1,<3>3,<4>3,<4>5, WorkerMoves
  <3> QED BY <3>4,<3>5
 <2> QED BY <1>10,<1>types,<2>2,<2>3 DEF NextOfBatch, wfOutside, wfGhosts, AroundRuns, WorkflowInv
<1>around. ASSUME RunsStand', WorkersFit', worker' \in [WfWorkers -> WorkerStates], UNCHANGED wfOutside, UNCHANGED <<overtaken, hasty, rewound, slow>>,
    unheard' \subseteq WfRuns, wfFaults' \in 0..MaxWfFaults, performed' \in [WfRuns -> [StepNumbers -> Nat]],
    approval' \in [WfRuns -> [StepNumbers -> {"none", "PENDING", "APPROVED", "REJECTED"}]]
  PROVE WorkflowInv' BY <1>around,<1>types DEF wfOutside, AroundRuns, WorkflowInv
<1>same. UNCHANGED <<performed, approval, unheard, wfFaults>> => /\ unheard' \subseteq WfRuns /\ wfFaults' \in 0 .. MaxWfFaults /\ performed' \in [WfRuns -> [StepNumbers -> Nat]]
           /\ approval' \in [WfRuns -> [StepNumbers -> {"none", "PENDING", "APPROVED", "REJECTED"}]] BY <1>types DEF AroundRuns
<1>11. ASSUME NEW p \in WfWorkers, Begin(p) PROVE WorkflowInv'
 <2>1. worker[p].at = "begin" /\ UNCHANGED <<wfOutside, approval, performed, wfGhosts>> BY <1>11 DEF Begin
 <2>2. versions' = versions BY <2>1 DEF wfOutside
 <2>3. RunsStand' /\ WorkersFit' /\ worker' \in [WfWorkers -> WorkerStates]
  <3>1. CASE wfEnabled
   <4>1. Hold(p, "step", Job(p)) /\ row' = row BY <1>11,<3>1 DEF Begin, Goes
   <4>2. RunsStand' /\ SameRuns BY <2>2,<4>1, RowsStay
   <4>3. Job(p) \in Copies /\ Job(p).step \in 1..Len(Steps(p)) + Slack["step"] BY <2>1, InHand DEF Slack
   <4> QED BY <2>1,<4>1,<4>2,<4>3, GoesFits DEF Slack
  <3>2. CASE ~wfEnabled
   <4>1. EndRun(p, "CANCELLED") BY <1>11,<3>2 DEF Begin
   <4> QED BY <2>1,<2>2,<4>1, EndRunFits DEF Final
  <3> QED BY <3>1,<3>2
 <2> QED BY <1>around,<1>same,<2>1,<2>3 DEF wfGhosts
<1>kept. ASSUME NEW p \in WfWorkers, NEW type, AtStep(p, type)
  PROVE  /\ worker[p].at = "step" /\ Job(p) \in Copies /\ Job(p).run \in WfRuns /\ Job(p).run \in Started /\ row[Job(p).run] \in RunRows
         /\ Job(p).step \in 1..Len(Steps(p)) /\ Job(p).step \in StepNumbers /\ Len(Steps(p)) \in Nat
 <2>1. worker[p].at = "step" /\ Job(p).step <= Len(Steps(p)) BY <1>kept DEF AtStep
 <2>2. /\ Job(p) \in Copies /\ Job(p).run \in Started /\ row[Job(p).run] \in RunRows
       /\ Job(p).step \in 1..Len(Steps(p)) + 2 /\ Len(Steps(p)) \in 1..MaxSteps BY <2>1, InHand DEF Slack
 <2>3. Job(p).run \in WfRuns BY <2>2 DEF Started
 <2> QED BY <2>1,<2>2,<2>3 DEF StepNumbers
<1>hold. ASSUME NEW p \in WfWorkers, NEW type, AtStep(p, type), NEW at \in {"saved", "park"}, NEW job \in Copies, job.run = Job(p).run,
    job.step = Job(p).step, Hold(p, at, job), UNCHANGED <<row, versions>>
  PROVE RunsStand' /\ WorkersFit' /\ worker' \in [WfWorkers -> WorkerStates]
 <2>1. worker[p].at = "step" /\ job.step \in 1..Len(Steps(p)) /\ Len(Steps(p)) \in Nat BY <1>hold,<1>kept
 <2>2. job.step \in 1..Len(Steps(p)) + Slack[at] /\ at \in DOMAIN Slack BY <1>hold,<2>1 DEF Slack
 <2>3. RunsStand' /\ SameRuns BY <1>hold, RowsStay
 <2> QED BY <1>hold,<2>1,<2>2,<2>3, GoesFits
<1>12. ASSUME NEW p \in WfWorkers, Log(p) PROVE WorkflowInv'
 <2>1. AtStep(p, "LOG") /\ Hold(p, "saved", Job(p)) /\ UNCHANGED <<wfOutside, row, approval, performed, wfGhosts>> BY <1>12 DEF Log, Goes
 <2>2. Job(p) \in Copies BY <1>kept,<2>1
 <2>3. RunsStand' /\ WorkersFit' /\ worker' \in [WfWorkers -> WorkerStates] BY <1>hold,<2>1,<2>2 DEF wfOutside
 <2> QED BY <1>around,<1>same,<2>1,<2>3 DEF wfGhosts
<1>13. ASSUME NEW p \in WfWorkers, Transform(p) PROVE WorkflowInv'
 <2>1. AtStep(p, "TRANSFORM") /\ UNCHANGED <<wfOutside, row, approval, performed, wfGhosts>> BY <1>13 DEF Transform
 <2> PICK v \in Payloads : Hold(p, "saved", [Job(p) EXCEPT !.payload = v]) BY <1>13 DEF Transform
 <2> PICK job : job = [Job(p) EXCEPT !.payload = v] OBVIOUS
 <2>2. Job(p) \in Copies BY <1>kept,<2>1
 <2>3. job \in Copies /\ job.run = Job(p).run /\ job.step = Job(p).step BY <2>2 DEF Copies
 <2>4. Hold(p, "saved", job) OBVIOUS
 <2>5. RunsStand' /\ WorkersFit' /\ worker' \in [WfWorkers -> WorkerStates] BY <1>hold,<2>1,<2>3,<2>4 DEF wfOutside
 <2> QED BY <1>around,<1>same,<2>1,<2>5 DEF wfGhosts
<1>14. ASSUME NEW p \in WfWorkers, Condition(p) PROVE WorkflowInv'
 <2>1. UNCHANGED <<wfOutside, row, approval, performed, wfGhosts>> BY <1>14 DEF Condition
 <2>2. worker[p].at = "step" /\ Job(p) \in Copies /\ Job(p).step \in 1..Len(Steps(p)) /\ Len(Steps(p)) \in Nat BY <1>14,<1>kept DEF Condition
 <2>3. RunsStand' /\ SameRuns BY <2>1, RowsStay DEF wfOutside
 <2>step. ASSUME NEW k \in Nat, NEW at \in {"saved", "step"}, Hold(p, at, [Job(p) EXCEPT !.step = k]), k \in 1..Len(Steps(p)) + 1
   PROVE WorkersFit' /\ worker' \in [WfWorkers -> WorkerStates]
  <3> PICK job : job = [Job(p) EXCEPT !.step = k] OBVIOUS
  <3>1. job \in Copies /\ job.run = Job(p).run /\ job.step = k BY <2>2 DEF Copies
  <3>2. job.step \in 1..Len(Steps(p)) + Slack[at] /\ at \in DOMAIN Slack BY <2>2,<2>step,<3>1 DEF Slack
  <3> QED BY <2>2,<2>3,<2>step,<3>1,<3>2, GoesFits
 <2>4. ASSUME Hold(p, "saved", Job(p)) PROVE WorkersFit' /\ worker' \in [WfWorkers -> WorkerStates]
  <3>1. Job(p).step \in 1..Len(Steps(p)) + Slack["saved"] BY <2>2 DEF Slack
  <3> QED BY <2>2,<2>3,<2>4,<3>1, GoesFits DEF Slack
 <2>5. ASSUME Hold(p, "saved", [Job(p) EXCEPT !.step = @ + 1]) PROVE WorkersFit' /\ worker' \in [WfWorkers -> WorkerStates]
  <3> PICK k : k = Job(p).step + 1 OBVIOUS
  <3>1. k \in Nat /\ k \in 1..Len(Steps(p)) + 1 BY <2>2
  <3> QED BY <2>5,<2>step,<3>1
 <2>6. ASSUME Hold(p, "step", [Job(p) EXCEPT !.step = Len(Steps(p)) + 1]) PROVE WorkersFit' /\ worker' \in [WfWorkers -> WorkerStates]
  <3> PICK k : k = Len(Steps(p)) + 1 OBVIOUS
  <3>1. k \in Nat /\ k \in 1..Len(Steps(p)) + 1 BY <2>2
  <3> QED BY <2>6,<2>step,<3>1
 <2>7. WorkersFit' /\ worker' \in [WfWorkers -> WorkerStates] BY <1>14,<2>4,<2>5,<2>6 DEF Condition, Goes
 <2> QED BY <1>around,<1>same,<2>1,<2>3,<2>7 DEF wfGhosts
<1>does. ASSUME NEW p \in WfWorkers, NEW type, AtStep(p, type), NEW times \in Nat, Do(p, times) PROVE performed' \in [WfRuns -> [StepNumbers -> Nat]]
 <2> PICK r \in WfRuns, i \in StepNumbers : r = Job(p).run /\ i = Job(p).step BY <1>does,<1>kept
 <2>1. performed' = [performed EXCEPT ![r] = [@ EXCEPT ![i] = times]] BY <1>does DEF Do
 <2>2. performed[r] \in [StepNumbers -> Nat] BY <1>types DEF AroundRuns
 <2>3. [performed[r] EXCEPT ![i] = times] \in [StepNumbers -> Nat] BY <2>2
 <2> QED BY <1>types,<2>1,<2>3 DEF AroundRuns
<1>did. ASSUME NEW p \in WfWorkers, NEW type, AtStep(p, type) PROVE Did(p) \in Nat /\ Did(p) + 1 \in Nat
 <2> PICK r \in WfRuns, i \in StepNumbers : r = Job(p).run /\ i = Job(p).step BY <1>did,<1>kept
 <2>1. performed[r][i] \in Nat BY <1>types DEF AroundRuns
 <2> QED BY <2>1 DEF Did
<1>sends. ASSUME NEW p \in WfWorkers, Notifies(p) \/ Emits(p) \/ SendsHttp(p)
  PROVE performed' \in [WfRuns -> [StepNumbers -> Nat]] /\ \E type \in {"EFFECT", "EMIT", "HTTP"} : AtStep(p, type)
 <2>1. PICK type \in {"EFFECT", "EMIT", "HTTP"} : AtStep(p, type) BY <1>sends DEF Notifies, Emits, SendsHttp
 <2>2. Did(p) \in Nat /\ Did(p) + 1 \in Nat BY <1>did,<2>1
 <2>3. \E times \in Nat : Do(p, times)
  <3>1. CASE Notifies(p) BY <3>1 DEF Notifies
  <3>2. CASE Emits(p) BY <2>2,<3>2 DEF Emits
  <3>3. CASE SendsHttp(p) BY <2>2,<3>3 DEF SendsHttp
  <3> QED BY <1>sends,<3>1,<3>2,<3>3
 <2> QED BY <1>does,<2>1,<2>3
<1>15. ASSUME NEW p \in WfWorkers, Effect(p) \/ EmitWebhook(p) \/ HttpRequest(p) PROVE WorkflowInv'
 <2>1. UNCHANGED <<wfOutside, row, approval, wfGhosts>> BY <1>15 DEF Effect, EmitWebhook, HttpRequest
 <2>2. Notifies(p) \/ Emits(p) \/ SendsHttp(p) BY <1>15 DEF Effect, EmitWebhook, HttpRequest
 <2>3. PICK type \in {"EFFECT", "EMIT", "HTTP"} : AtStep(p, type) BY <1>sends,<2>2
 <2>4. performed' \in [WfRuns -> [StepNumbers -> Nat]] BY <1>sends,<2>2
 <2>5. Job(p) \in Copies BY <1>kept,<2>3
 <2>6. PICK job \in Copies : job.run = Job(p).run /\ job.step = Job(p).step /\ Hold(p, "saved", job)
  <3>1. CASE Effect(p) \/ EmitWebhook(p) BY <2>5,<3>1 DEF Effect, EmitWebhook, Goes
  <3>2. CASE HttpRequest(p)
   <4> PICK v \in Payloads : Hold(p, "saved", [Job(p) EXCEPT !.payload = v]) BY <3>2 DEF HttpRequest
   <4> PICK job : job = [Job(p) EXCEPT !.payload = v] OBVIOUS
   <4>1. job \in Copies /\ job.run = Job(p).run /\ job.step = Job(p).step BY <2>5 DEF Copies
   <4> QED BY <4>1
  <3> QED BY <1>15,<3>1,<3>2
 <2>7. RunsStand' /\ WorkersFit' /\ worker' \in [WfWorkers -> WorkerStates] BY <1>hold,<2>1,<2>3,<2>6 DEF wfOutside
 <2> QED BY <1>around,<1>types,<2>1,<2>4,<2>7 DEF wfGhosts, AroundRuns
<1>throws. ASSUME NEW p \in WfWorkers, worker[p].at \notin {"idle", "next"}, SameRuns, Goes(p, "threw")
  PROVE WorkersFit' /\ worker' \in [WfWorkers -> WorkerStates]
 <2>1. Job(p) \in Copies /\ Job(p).step \in 1..Len(Steps(p)) + Slack["threw"] /\ "threw" \in DOMAIN Slack BY <1>throws, InHand DEF Slack
 <2> QED BY <1>throws,<2>1, GoesFits DEF Goes
<1>16. ASSUME NEW p \in WfWorkers, RefuseRequest(p) PROVE WorkflowInv'
 <2>1. AtStep(p, "HTTP") /\ Goes(p, "threw") /\ UNCHANGED <<wfOutside, row, approval, performed, wfGhosts>> BY <1>16 DEF RefuseRequest
 <2>2. worker[p].at = "step" BY <1>kept,<2>1
 <2>3. RunsStand' /\ SameRuns BY <2>1, RowsStay DEF wfOutside
 <2>4. WorkersFit' /\ worker' \in [WfWorkers -> WorkerStates] BY <1>throws,<2>1,<2>2,<2>3
 <2> QED BY <1>around,<1>same,<2>1,<2>3,<2>4 DEF wfGhosts
<1>caught. ASSUME NEW p \in WfWorkers, Catch(p) PROVE WorkflowInv'
 <2>1. worker[p].at \notin {"idle", "next"} /\ UNCHANGED <<wfOutside, approval, performed, wfGhosts>> BY <1>caught DEF Catch
 <2>2. RunsStand' /\ WorkersFit' /\ worker' \in [WfWorkers -> WorkerStates] BY <1>caught,<2>1, CatchFits DEF wfOutside
 <2> QED BY <1>around,<1>same,<2>1,<2>2 DEF wfGhosts
<1>asks. ASSUME NEW p \in WfWorkers, Asks(p) PROVE approval' \in [WfRuns -> [StepNumbers -> {"none", "PENDING", "APPROVED", "REJECTED"}]]
 <2>1. AtStep(p, "APPROVAL") BY <1>asks DEF Asks
 <2> PICK r \in WfRuns, i \in StepNumbers : r = Job(p).run /\ i = Job(p).step BY <1>kept,<2>1
 <2> PICK a : a = Asked(r, i) OBVIOUS
 <2>2. approval[r] \in [StepNumbers -> {"none", "PENDING", "APPROVED", "REJECTED"}] BY <1>types DEF AroundRuns
 <2>3. a \in {"none", "PENDING", "APPROVED", "REJECTED"} BY <2>2 DEF Asked
 <2>4. [approval[r] EXCEPT ![i] = a] \in [StepNumbers -> {"none", "PENDING", "APPROVED", "REJECTED"}] BY <2>2,<2>3
 <2>5. approval' = [approval EXCEPT ![r] = [approval[r] EXCEPT ![i] = a]] BY <1>asks DEF Asks
 <2> QED BY <1>types,<2>4,<2>5 DEF AroundRuns
<1>17. ASSUME NEW p \in WfWorkers, Approval(p) PROVE WorkflowInv'
 <2>1. AtStep(p, "APPROVAL") /\ UNCHANGED <<wfOutside, performed, wfGhosts>> BY <1>17 DEF Approval, Asks
 <2>2. \/ EndRun(p, "CANCELLED")
       \/ Goes(p, "park") /\ UNCHANGED row
       \/ Goes(p, "saved") /\ UNCHANGED row BY <1>17 DEF Approval
 <2>5. approval' \in [WfRuns -> [StepNumbers -> {"none", "PENDING", "APPROVED", "REJECTED"}]] BY <1>17,<1>asks DEF Approval
 <2>6. Job(p) \in Copies /\ worker[p].at = "step" BY <1>kept,<2>1
 <2>7. versions' = versions BY <2>1 DEF wfOutside
 <2>8. RunsStand' /\ WorkersFit' /\ worker' \in [WfWorkers -> WorkerStates]
  <3>1. CASE EndRun(p, "CANCELLED") BY <2>6,<2>7,<3>1, EndRunFits DEF Final
  <3>2. CASE Goes(p, "park") /\ UNCHANGED row BY <1>hold,<2>1,<2>6,<2>7,<3>2 DEF Goes
  <3>3. CASE Goes(p, "saved") /\ UNCHANGED row BY <1>hold,<2>1,<2>6,<2>7,<3>3 DEF Goes
  <3> QED BY <2>2,<3>1,<3>2,<3>3
 <2> QED BY <1>around,<1>types,<2>1,<2>5,<2>8 DEF wfGhosts, AroundRuns
<1>parks. ASSUME NEW p \in WfWorkers, worker[p].at = "park" \/ AtStep(p, "WAIT") PROVE worker[p].at \notin {"idle", "next"} /\ Job(p).step <= Len(Steps(p))
 <2>1. CASE worker[p].at = "park"
  <3>1. Job(p).step \in 1..Len(Steps(p)) + 0 /\ Len(Steps(p)) \in 1..MaxSteps BY <2>1, InHand DEF Slack
  <3> QED BY <2>1,<3>1
 <2>2. CASE AtStep(p, "WAIT") BY <2>2 DEF AtStep
 <2> QED BY <1>parks,<2>1,<2>2
<1>18. ASSUME NEW p \in WfWorkers, Park(p) \/ Wait(p) PROVE WorkflowInv'
 <2>1. Leave(p) /\ UNCHANGED <<wfOutside, approval, performed, wfGhosts>> BY <1>18 DEF Park, Wait
 <2>2. worker[p].at \notin {"idle", "next"} /\ Job(p).step <= Len(Steps(p)) BY <1>18,<1>parks DEF Park, Wait
 <2>3. RunsStand' /\ SameRuns BY <1>18,<2>1,<2>2, PutDownFits DEF Park, Wait, wfOutside
 <2>4. WorkersFit' /\ worker' \in [WfWorkers -> WorkerStates] BY <2>1,<2>3, LeaveFits
 <2> QED BY <1>around,<1>same,<2>1,<2>3,<2>4 DEF wfGhosts
<1>19. ASSUME NEW p \in WfWorkers, SavePayload(p) PROVE WorkflowInv'
 <2>1. worker[p].at = "saved" /\ UNCHANGED <<wfOutside, approval, performed, wfGhosts>> BY <1>19 DEF SavePayload
 <2>2. Job(p) \in Copies /\ Job(p).step \in 1..Len(Steps(p)) + 1 BY <2>1, InHand DEF Slack
 <2>5. RunsStand' /\ SameRuns BY <1>19,<2>1, SaveRowFits DEF SavePayload, wfOutside
 <2> PICK k \in Nat : k = Job(p).step + 1 BY <2>2 DEF Copies
 <2> PICK job : job = [Job(p) EXCEPT !.step = k] OBVIOUS
 <2>6. job \in Copies /\ job.run = Job(p).run /\ job.step = k BY <2>2 DEF Copies
 <2>7. job.step \in 1..Len(Steps(p)) + Slack["step"] /\ "step" \in DOMAIN Slack
  <3>1. Len(Steps(p)) \in Nat BY <2>1, InHand
  <3>2. k \in 1..Len(Steps(p)) + 2 BY <2>2,<3>1
  <3> QED BY <2>6,<3>2 DEF Slack
 <2>8. Hold(p, "step", job) BY <1>19 DEF SavePayload
 <2>9. WorkersFit' /\ worker' \in [WfWorkers -> WorkerStates] BY <2>1,<2>5,<2>6,<2>7,<2>8, GoesFits
 <2> QED BY <1>around,<1>same,<2>1,<2>5,<2>9 DEF wfGhosts
<1>20. ASSUME NEW p \in WfWorkers, Finish(p) PROVE WorkflowInv'
 <2>1. worker[p].at = "step" /\ EndRun(p, "SUCCEEDED") /\ UNCHANGED <<wfOutside, approval, performed, wfGhosts>> BY <1>20 DEF Finish, Through
 <2>2. versions' = versions BY <2>1 DEF wfOutside
 <2>3. RunsStand' /\ WorkersFit' /\ worker' \in [WfWorkers -> WorkerStates] BY <2>1,<2>2, EndRunFits DEF Final
 <2> QED BY <1>around,<1>same,<2>1,<2>3 DEF wfGhosts
<1>lost. ASSUME NEW p \in WfWorkers, Lost(p), worker[p].at \notin {"idle", "next"}, versions' = versions
  PROVE /\ RunsStand' /\ SameRuns /\ unheard' \subseteq WfRuns /\ performed' \in [WfRuns -> [StepNumbers -> Nat]]
        /\ approval' \in [WfRuns -> [StepNumbers -> {"none", "PENDING", "APPROVED", "REJECTED"}]]
 <2>1. \/ (Notifies(p) \/ Emits(p) \/ SendsHttp(p)) /\ UNCHANGED <<row, approval, unheard>>
       \/ Asks(p) /\ UNCHANGED <<row, performed, unheard>>
       \/ /\ \/ EndRow(p, "CANCELLED") \/ EndRow(p, "SUCCEEDED") \/ SaveRow(p)
             \/ (worker[p].at = "park" \/ AtStep(p, "WAIT")) /\ (ParkRow(p) \/ WaitRow(p))
          /\ unheard' = unheard \cup {Job(p).run} /\ UNCHANGED <<approval, performed>> BY <1>lost DEF Lost
 <2>2. performed' \in [WfRuns -> [StepNumbers -> Nat]] BY <1>sends,<1>types,<2>1 DEF AroundRuns
 <2>3. approval' \in [WfRuns -> [StepNumbers -> {"none", "PENDING", "APPROVED", "REJECTED"}]] BY <1>asks,<1>types,<2>1 DEF AroundRuns
 <2>4. unheard' \subseteq WfRuns
  <3>1. Job(p).run \in WfRuns BY <1>lost, InHand DEF Started
  <3> QED BY <1>types,<2>1,<3>1 DEF AroundRuns
 <2>5. RunsStand' /\ SameRuns
  <3>1. CASE row' = row BY <1>lost,<3>1, RowsStay
  <3>2. CASE EndRow(p, "CANCELLED") \/ EndRow(p, "SUCCEEDED") BY <1>lost,<3>2, EndRowFits DEF Final
  <3>3. CASE SaveRow(p) BY <1>lost,<3>3, SaveRowFits
  <3>4. CASE (worker[p].at = "park" \/ AtStep(p, "WAIT")) /\ (ParkRow(p) \/ WaitRow(p)) BY <1>lost,<1>parks,<3>4, PutDownFits
  <3> QED BY <2>1,<3>1,<3>2,<3>3,<3>4
 <2> QED BY <2>2,<2>3,<2>4,<2>5
<1>21. ASSUME NEW p \in WfWorkers, StepFails(p) PROVE WorkflowInv'
 <2>1. /\ worker[p].at \notin {"idle", "next"} /\ Goes(p, "threw") /\ wfFaults' = wfFaults + 1 /\ wfFaults < MaxWfFaults
       /\ Lost(p) \/ UNCHANGED <<row, approval, performed, unheard>>
       /\ UNCHANGED <<wfOutside, overtaken, hasty, rewound, slow>> BY <1>21 DEF StepFails
 <2>2. versions' = versions BY <2>1 DEF wfOutside
 <2>3. /\ RunsStand' /\ SameRuns /\ unheard' \subseteq WfRuns /\ performed' \in [WfRuns -> [StepNumbers -> Nat]]
       /\ approval' \in [WfRuns -> [StepNumbers -> {"none", "PENDING", "APPROVED", "REJECTED"}]]
  <3>1. CASE Lost(p) BY <1>lost,<2>1,<2>2,<3>1
  <3>2. CASE UNCHANGED <<row, approval, performed, unheard>> BY <1>types,<2>2,<3>2, RowsStay DEF AroundRuns
  <3> QED BY <2>1,<3>1,<3>2
 <2>4. WorkersFit' /\ worker' \in [WfWorkers -> WorkerStates] BY <1>throws,<2>1,<2>3
 <2>5. wfFaults' \in 0..MaxWfFaults BY <1>types,<2>1 DEF AroundRuns
 <2> QED BY <1>around,<2>1,<2>3,<2>4,<2>5
<1>22. ASSUME NEW p \in WfWorkers, CrashWorker(p) PROVE WorkflowInv'
 <2>1. /\ worker' = [worker EXCEPT ![p] = IdleWorker] /\ wfFaults' = wfFaults + 1 /\ wfFaults < MaxWfFaults
       /\ UNCHANGED <<wfOutside, row, approval, performed, overtaken, hasty, rewound, unheard, slow>> BY <1>22 DEF CrashWorker
 <2>2. RunsStand' /\ SameRuns BY <2>1, RowsStay DEF wfOutside
 <2> PICK w : w = IdleWorker OBVIOUS
 <2>3. w \in WorkerStates /\ FitsRuns(w)' BY DEF IdleWorker, WorkerStates, FitsRuns
 <2>4. WorkersFit' BY <1>types,<2>1,<2>2,<2>3, WorkerMoves DEF AroundRuns
 <2>5. worker' \in [WfWorkers -> WorkerStates] BY <1>types,<2>1,<2>3 DEF AroundRuns
 <2>6. wfFaults' \in 0..MaxWfFaults BY <1>types,<2>1 DEF AroundRuns
 <2> QED BY <1>around,<1>types,<2>1,<2>2,<2>4,<2>5,<2>6 DEF AroundRuns
<1>23. ASSUME NEW p \in WfWorkers, WorkerNext(p) PROVE WorkflowInv'
  BY <1>9,<1>10,<1>11,<1>12,<1>13,<1>14,<1>15,<1>16,<1>caught,<1>17,<1>18,<1>19,<1>20,<1>21,<1>22,<1>23 DEF WorkerNext, WorkerStep
<1>24. ASSUME NEW r \in WfRuns, RunNext(r) PROVE WorkflowInv' BY <1>3,<1>5,<1>6,<1>7,<1>8,<1>24 DEF RunNext
<1>25. CASE AuthorNext BY <1>1,<1>2,<1>4,<1>25 DEF AuthorNext
<1> QED BY <1>0,<1>1,<1>23,<1>24,<1>25 DEF WorkflowNext, RunsNext

------------------------
(* What workers hold. A run is in one hand unless it was overtaken; as long as it is, it is RUNNING,
   unless the hand is about to catch what a write of unknown outcome threw; and what waits, or is
   about to, has its question pending. *)
Hands(w) == {c.run : c \in w.rest} \cup (IF w.at \in {"idle", "next"} THEN {} ELSE {w.job.run})
HandOnce(w) == /\ \A c, d \in w.rest : c.run = d.run => c = d
               /\ w.at \notin {"idle", "next"} => \A c \in w.rest : c.run # w.job.run
OneHolder == \A p, q \in WfWorkers : \A r \in Hands(worker[p]) \cap Hands(worker[q]) : p = q \/ r \in overtaken
Throwing(w, r) == w.at = "threw" /\ w.job.run = r /\ r \in unheard
HeldRuns == \A p \in WfWorkers : \A r \in Hands(worker[p]) \ overtaken : row[r].status = "RUNNING" \/ Throwing(worker[p], r)
HoldInv == (\A p \in WfWorkers : HandOnce(worker[p])) /\ OneHolder /\ HeldRuns
AboutToWait ==
  \A p \in WfWorkers : worker[p].at = "park" /\ Job(p).run \notin hasty \cup overtaken => approval[Job(p).run][Job(p).step] = "PENDING"
RunInv == HoldInv /\ AboutToWait /\ WaitingCanBeDecided /\ EffectsOnce

LEMMA RunInitOK == WorkflowInit => RunInv
<1> SUFFICES ASSUME WorkflowInit PROVE RunInv OBVIOUS
<1>1. \A p \in WfWorkers : worker[p] = IdleWorker BY DEF WorkflowInit
<1>2. HoldInv BY <1>1 DEF HoldInv, OneHolder, HeldRuns, HandOnce, Hands, IdleWorker
<1>3. AboutToWait BY <1>1 DEF AboutToWait, IdleWorker
<1>4. WaitingCanBeDecided BY DEF WorkflowInit, WaitingCanBeDecided, Started
<1>5. EffectsOnce BY DEF WorkflowInit, EffectsOnce
<1> QED BY <1>2,<1>3,<1>4,<1>5 DEF RunInv

(* What a worker does to the run in its hand: it keeps it or lets it go, and asks no question away. *)
AsParked(p) == row'[Job(p).run].status = "WAITING_APPROVAL" => worker[p].at = "park" /\ row'[Job(p).run].step = Job(p).step
Keeps(p, at, job) ==
  /\ Hold(p, at, job) /\ at \notin {"idle", "next"} /\ job.run = Job(p).run
  /\ at = "park" => approval'[job.run][job.step] = "PENDING"
  /\ \/ worker[p].at # "threw" /\ row'[job.run].status = row[job.run].status /\ row'[job.run].step = row[job.run].step
     \/ at = "threw" /\ job.run \in unheard' /\ AsParked(p)
Around(p) ==
  /\ overtaken' = overtaken /\ hasty' = hasty /\ unheard \subseteq unheard'
  /\ \A r \in WfRuns \ {Job(p).run} : row'[r] = row[r] /\ performed'[r] = performed[r]
  /\ \A r \in WfRuns, i \in StepNumbers : /\ approval[r][i] = "PENDING" => approval'[r][i] = "PENDING"
                                          /\ performed[r][i] <= 1 => performed'[r][i] <= 1
OwnStep(p) ==
  /\ worker[p].at \notin {"idle", "next"} /\ Around(p)
  /\ \/ Leave(p) /\ AsParked(p)
     \/ \E at \in {"step", "saved", "park", "threw"}, job \in Copies : Keeps(p, at, job)

LEMMA OwnHold == ASSUME WorkflowInv, HoldInv, NEW p \in WfWorkers, OwnStep(p) PROVE HoldInv'
<1>0. (\A q \in WfWorkers : HandOnce(worker[q])) /\ OneHolder /\ HeldRuns BY DEF HoldInv
<1>1. worker \in [WfWorkers -> WorkerStates] BY DEF WorkflowInv, AroundRuns
<1> PICK r \in Started : r = Job(p).run BY InHand DEF OwnStep
<1>r. r = worker[p].job.run BY DEF Job
<1>a. worker[p].at \notin {"idle", "next"} /\ Around(p) BY DEF OwnStep
<1>2. PICK w : /\ worker' = [worker EXCEPT ![p] = w] /\ w.rest = worker[p].rest
               /\ \/ w.at = "next"
                  \/ /\ w.at \notin {"idle", "next"} /\ w.job.run = r
                     /\ \/ worker[p].at # "threw" /\ row'[r].status = row[r].status
                        \/ w.at = "threw" /\ r \in unheard'
 <2>1. CASE Leave(p)
  <3> PICK w : w = [at |-> "next", job |-> NoJob, rest |-> worker[p].rest] OBVIOUS
  <3>1. worker' = [worker EXCEPT ![p] = w] BY <2>1 DEF Leave
  <3>2. w.at = "next" /\ w.rest = worker[p].rest OBVIOUS
  <3> QED BY <3>1,<3>2
 <2>2. CASE \E at \in {"step", "saved", "park", "threw"}, job \in Copies : Keeps(p, at, job)
  <3> PICK at \in {"step", "saved", "park", "threw"}, job \in Copies : Keeps(p, at, job) BY <2>2
  <3> PICK w : w = [at |-> at, job |-> job, rest |-> worker[p].rest] OBVIOUS
  <3>1. worker' = [worker EXCEPT ![p] = w] BY DEF Keeps, Hold
  <3>2. w.at = at /\ w.job.run = r /\ w.rest = worker[p].rest BY DEF Keeps
  <3>3. \/ worker[p].at # "threw" /\ row'[r].status = row[r].status
        \/ w.at = "threw" /\ r \in unheard' BY DEF Keeps
  <3> QED BY <3>1,<3>2,<3>3
 <2> QED BY <2>1,<2>2 DEF OwnStep
<1>3. worker'[p] = w /\ \A q \in WfWorkers \ {p} : worker'[q] = worker[q] BY <1>1,<1>2
<1>4. Hands(w) \subseteq Hands(worker[p]) BY <1>2,<1>a,<1>r DEF Hands
<1>5. HandOnce(w) BY <1>0,<1>2,<1>a,<1>r DEF HandOnce
<1>6. \A q \in WfWorkers : HandOnce(worker'[q]) /\ Hands(worker'[q]) \subseteq Hands(worker[q]) BY <1>0,<1>3,<1>4,<1>5
<1>7. OneHolder' BY <1>0,<1>6,<1>a DEF OneHolder, Around
<1>8. ASSUME NEW q \in WfWorkers, NEW s \in Hands(worker'[q]), s \notin overtaken
  PROVE row'[s].status = "RUNNING" \/ Throwing(worker[q], s)'
 <2>1. s \in Hands(worker[q]) /\ (row[s].status = "RUNNING" \/ Throwing(worker[q], s)) BY <1>0,<1>6,<1>8 DEF HeldRuns
 <2>2. s \in WfRuns BY <2>1 DEF WorkflowInv, WorkersFit, FitsRuns, Hands, Started
 <2>3. CASE s # r
  <3>1. row'[s] = row[s] BY <1>a,<2>2,<2>3 DEF Around
  <3>2. CASE q = p
   <4>1. ~Throwing(worker[p], s) BY <1>r,<2>3 DEF Throwing
   <4> QED BY <2>1,<3>1,<3>2,<4>1
  <3>3. CASE q # p BY <1>3,<1>a,<2>1,<3>1,<3>3 DEF Throwing, Around
  <3> QED BY <3>2,<3>3
 <2>4. CASE s = r
  <3>1. r \in Hands(worker[p]) BY <1>a,<1>r DEF Hands
  <3>2. q = p BY <1>0,<1>8,<2>1,<2>4,<3>1 DEF OneHolder
  <3>3. s \in Hands(w) BY <1>3,<1>8,<3>2
  <3>4. w.at # "next"
   <4>1. w.at = "next" => \E c \in worker[p].rest : c.run = r BY <1>2,<2>4,<3>3 DEF Hands
   <4> QED BY <1>0,<1>a,<1>r,<4>1 DEF HandOnce
  <3>5. CASE worker[p].at # "threw" /\ row'[r].status = row[r].status
   <4>1. row[r].status = "RUNNING" BY <2>1,<2>4,<3>2,<3>5 DEF Throwing
   <4> QED BY <2>4,<3>5,<4>1
  <3>6. CASE w.at = "threw" /\ r \in unheard' BY <1>2,<1>3,<2>4,<3>2,<3>4,<3>6 DEF Throwing
  <3> QED BY <1>2,<3>4,<3>5,<3>6
 <2> QED BY <2>3,<2>4
<1>9. HeldRuns' BY <1>8,<1>a DEF HeldRuns, Around
<1> QED BY <1>6,<1>7,<1>9 DEF HoldInv

LEMMA OwnAsks == ASSUME WorkflowInv, RunInv, NEW p \in WfWorkers, OwnStep(p) PROVE (AboutToWait /\ WaitingCanBeDecided /\ EffectsOnce)'
<1>0. AboutToWait /\ WaitingCanBeDecided /\ EffectsOnce BY DEF RunInv
<1>1. worker \in [WfWorkers -> WorkerStates] BY DEF WorkflowInv, AroundRuns
<1> PICK r \in Started : r = Job(p).run BY InHand DEF OwnStep
<1>a. /\ worker[p].at \notin {"idle", "next"} /\ overtaken' = overtaken /\ hasty' = hasty
      /\ \A s \in WfRuns \ {r} : row'[s] = row[s]
      /\ \A s \in WfRuns, i \in StepNumbers : /\ approval[s][i] = "PENDING" => approval'[s][i] = "PENDING"
                                              /\ performed[s][i] <= 1 => performed'[s][i] <= 1 BY DEF OwnStep, Around
<1>2. EffectsOnce' BY <1>0,<1>a DEF EffectsOnce
<1>b. \A q \in WfWorkers : worker[q].at = "park" => Job(q).run \in WfRuns /\ Job(q).step \in StepNumbers
 <2> SUFFICES ASSUME NEW q \in WfWorkers, worker[q].at = "park" PROVE Job(q).run \in WfRuns /\ Job(q).step \in StepNumbers OBVIOUS
 <2>1. Job(q).run \in Started /\ Job(q).step \in 1..Len(Steps(q)) + 0 /\ Len(Steps(q)) \in 1..MaxSteps BY InHand DEF Slack
 <2> QED BY <2>1, WfFacts DEF Started, StepNumbers
<1>3. ASSUME NEW q \in WfWorkers, worker'[q].at = "park", Job(q)'.run \notin hasty \cup overtaken
  PROVE approval'[Job(q)'.run][Job(q)'.step] = "PENDING"
 <2>1. CASE q # p
  <3>1. worker'[q] = worker[q]
   <4>1. CASE Leave(p) BY <1>1,<2>1,<4>1 DEF Leave
   <4>2. CASE \E at \in {"step", "saved", "park", "threw"}, job \in Copies : Keeps(p, at, job) BY <1>1,<2>1,<4>2 DEF Keeps, Hold
   <4> QED BY <4>1,<4>2 DEF OwnStep
  <3>2. approval[Job(q).run][Job(q).step] = "PENDING" /\ Job(q)' = Job(q) BY <1>0,<1>3,<3>1 DEF AboutToWait, Job
  <3> QED BY <1>3,<1>a,<1>b,<3>1,<3>2
 <2>2. CASE q = p
  <3>1. ~Leave(p) BY <1>1,<1>3,<2>2 DEF Leave
  <3> PICK at \in {"step", "saved", "park", "threw"}, job \in Copies : Keeps(p, at, job) BY <3>1 DEF OwnStep
  <3>2. worker'[p].at = at /\ Job(p)' = job BY <1>1 DEF Keeps, Hold, Job
  <3> QED BY <1>3,<2>2,<3>2 DEF Keeps
 <2> QED BY <2>1,<2>2
<1>4. AboutToWait' BY <1>3,<1>a DEF AboutToWait
<1>5. ASSUME NEW s \in Started' \ (hasty \cup overtaken), row'[s].status = "WAITING_APPROVAL" PROVE approval'[s][row'[s].step] = "PENDING"
 <2>1. s \in WfRuns BY DEF Started
 <2>same. ASSUME row[s].status = "WAITING_APPROVAL", row'[s].step = row[s].step PROVE approval'[s][row'[s].step] = "PENDING"
  <3>1. s \in Started BY <2>1,<2>same DEF Started, NoRow
  <3>2. approval[s][row[s].step] = "PENDING" BY <1>0,<1>5,<2>same,<3>1 DEF WaitingCanBeDecided
  <3>3. row[s].step \in StepNumbers
   <4>1. row[s] \in RunRows /\ row[s].step \in 1..Len(row[s].steps) + 2 /\ row[s].step <= Len(row[s].steps)
     BY <2>same,<3>1 DEF WorkflowInv, RunsStand, Started
   <4>2. row[s].steps \in Programs BY <4>1 DEF RunRows
   <4>3. Len(row[s].steps) \in 1..MaxSteps /\ MaxSteps \in Nat BY <4>2, WfFacts
   <4> QED BY <4>1,<4>3 DEF StepNumbers
  <3> QED BY <1>a,<2>1,<2>same,<3>2,<3>3
 <2>2. CASE s # r BY <1>5,<1>a,<2>1,<2>2,<2>same
 <2>3. CASE s = r
  <3>1. ASSUME AsParked(p) PROVE approval'[s][row'[s].step] = "PENDING"
   <4>1. worker[p].at = "park" /\ row'[r].step = Job(p).step BY <1>5,<2>3,<3>1 DEF AsParked
   <4>2. approval[r][Job(p).step] = "PENDING" BY <1>0,<1>5,<2>3,<4>1 DEF AboutToWait
   <4> QED BY <1>a,<1>b,<2>3,<4>1,<4>2
  <3>2. CASE Leave(p) /\ AsParked(p) BY <3>1,<3>2
  <3>3. CASE \E at \in {"step", "saved", "park", "threw"}, job \in Copies : Keeps(p, at, job)
   <4> PICK at \in {"step", "saved", "park", "threw"}, job \in Copies : Keeps(p, at, job) BY <3>3
   <4>1. CASE row'[r].status = row[r].status /\ row'[r].step = row[r].step BY <1>5,<2>3,<2>same,<4>1
   <4>2. CASE AsParked(p) BY <3>1,<4>2
   <4> QED BY <4>1,<4>2 DEF Keeps
  <3> QED BY <3>2,<3>3 DEF OwnStep
 <2> QED BY <2>2,<2>3
<1>6. WaitingCanBeDecided' BY <1>5,<1>a DEF WaitingCanBeDecided
<1> QED BY <1>2,<1>4,<1>6

(* Every step of a worker at a run is of that kind: what is written of the run, *)
LEMMA PutsOnly ==
  ASSUME WorkflowInv, NEW p \in WfWorkers, worker[p].at \notin {"idle", "next"}, NEW new, Put(p, new)
  PROVE row'[Job(p).run] = new /\ \A r \in WfRuns \ {Job(p).run} : row'[r] = row[r]
BY InHand DEF Put, WorkflowInv, RunsStand, Started

LEMMA WritesAsParked ==
  ASSUME WorkflowInv, NEW p \in WfWorkers, worker[p].at \notin {"idle", "next"},
      \/ EndRow(p, "CANCELLED") \/ EndRow(p, "SUCCEEDED") \/ WaitRow(p) \/ Catch(p)
      \/ worker[p].at = "park" /\ ParkRow(p)
  PROVE AsParked(p) /\ \A r \in WfRuns \ {Job(p).run} : row'[r] = row[r]
<1> PICK old \in RunRows : old = RowOf(p) BY InHand DEF RowOf
<1>1. CASE EndRow(p, "CANCELLED") \/ EndRow(p, "SUCCEEDED")
 <2> PICK status \in {"CANCELLED", "SUCCEEDED"} : EndRow(p, status) BY <1>1
 <2> PICK new : new = [old EXCEPT !.status = status, !.step = Job(p).step] OBVIOUS
 <2>1. Put(p, new) /\ new.status = status BY DEF EndRow, RunRows
 <2> QED BY <2>1, PutsOnly DEF AsParked
<1>2. CASE WaitRow(p)
 <2> PICK new : new = [old EXCEPT !.status = "QUEUED", !.later = TRUE, !.step = Job(p).step + 1, !.payload = Job(p).payload, !.fresh = TRUE] OBVIOUS
 <2>1. Put(p, new) /\ new.status = "QUEUED" BY <1>2 DEF WaitRow, RunRows
 <2> QED BY <2>1, PutsOnly DEF AsParked
<1>3. CASE Catch(p)
 <2> PICK new : new = IF Job(p).attempts >= MaxAttempts THEN [old EXCEPT !.status = "FAILED"] ELSE [old EXCEPT !.status = "QUEUED", !.later = TRUE] OBVIOUS
 <2>1. Put(p, new) /\ new.status \in {"FAILED", "QUEUED"} BY <1>3 DEF Catch, RunRows
 <2> QED BY <2>1, PutsOnly DEF AsParked
<1>4. CASE worker[p].at = "park" /\ ParkRow(p)
 <2> PICK new : new = [old EXCEPT !.status = "WAITING_APPROVAL", !.step = Job(p).step, !.payload = Job(p).payload, !.fresh = TRUE] OBVIOUS
 <2>1. Put(p, new) /\ new.step = Job(p).step BY <1>4 DEF ParkRow, RunRows
 <2> QED BY <1>4,<2>1, PutsOnly DEF AsParked
<1> QED BY <1>1,<1>2,<1>3,<1>4

LEMMA SavesOnly ==
  ASSUME WorkflowInv, NEW p \in WfWorkers, worker[p].at \notin {"idle", "next"}, SaveRow(p)
  PROVE /\ row'[Job(p).run].status = row[Job(p).run].status /\ row'[Job(p).run].step = row[Job(p).run].step
        /\ \A r \in WfRuns \ {Job(p).run} : row'[r] = row[r]
<1> PICK old \in RunRows : old = RowOf(p) BY InHand DEF RowOf
<1>1. CASE old.status # "RUNNING" BY <1>1 DEF SaveRow
<1>2. CASE old.status = "RUNNING"
 <2> PICK fresh : fresh = (old.fresh /\ Steps(p)[Job(p).step] \notin Changing) OBVIOUS
 <2> PICK new : new = [old EXCEPT !.payload = Job(p).payload, !.fresh = fresh] OBVIOUS
 <2>1. Put(p, new) /\ new.status = old.status /\ new.step = old.step BY <1>2 DEF SaveRow, RunRows
 <2> QED BY <2>1, PutsOnly DEF RowOf
<1> QED BY <1>1,<1>2

(* what it has done, and what it asks; *)
LEMMA SendsOnce ==
  ASSUME WorkflowInv, NEW p \in WfWorkers, Notifies(p) \/ Emits(p) \/ SendsHttp(p)
  PROVE /\ \A r \in WfRuns \ {Job(p).run} : performed'[r] = performed[r]
        /\ \A r \in WfRuns, i \in StepNumbers : performed[r][i] <= 1 => performed'[r][i] <= 1
<1>1. worker[p].at = "step" /\ Job(p).step <= Len(Steps(p)) BY DEF Notifies, Emits, SendsHttp, AtStep
<1> PICK r \in WfRuns, i \in StepNumbers : r = Job(p).run /\ i = Job(p).step
 <2>1. Job(p).run \in Started /\ Job(p).step \in 1..Len(Steps(p)) + 2 /\ Len(Steps(p)) \in 1..MaxSteps BY <1>1, InHand
 <2>2. Job(p).step \in 1..MaxSteps BY <1>1,<2>1, WfFacts
 <2> QED BY <2>1,<2>2 DEF Started, StepNumbers
<1>2. performed \in [WfRuns -> [StepNumbers -> Nat]] BY DEF WorkflowInv, AroundRuns
<1>3. PICK times : performed' = [performed EXCEPT ![r][i] = times] /\ (performed[r][i] <= 1 => times <= 1)
 <2>1. CASE Notifies(p)
  <3> PICK times : times = 1 OBVIOUS
  <3>1. performed' = [performed EXCEPT ![r][i] = times] BY <2>1 DEF Notifies, Do
  <3>2. times <= 1 OBVIOUS
  <3> QED BY <3>1,<3>2
 <2>2. CASE SendsHttp(p)
  <3> PICK times : times = 1 OBVIOUS
  <3>1. performed' = [performed EXCEPT ![r][i] = times] BY <2>2 DEF SendsHttp, MayRequest, Do
  <3>2. times <= 1 OBVIOUS
  <3> QED BY <3>1,<3>2
 <2>3. CASE Emits(p)
  <3> PICK times : times = IF Did(p) = 0 THEN 1 ELSE Did(p) OBVIOUS
  <3>1. Do(p, times) BY <2>3 DEF Emits
  <3>2. performed[r][i] <= 1 => times <= 1 BY DEF Did
  <3> QED BY <3>1,<3>2 DEF Do
 <2> QED BY <2>1,<2>2,<2>3
<1>4. \A q \in WfRuns \ {r} : performed'[q] = performed[q] BY <1>2,<1>3
<1>5. \A k \in StepNumbers : performed'[r][k] = IF k = i THEN times ELSE performed[r][k] BY <1>2,<1>3
<1> QED BY <1>2,<1>3,<1>4,<1>5

LEMMA AsksOnly ==
  ASSUME WorkflowInv, NEW p \in WfWorkers, Asks(p)
  PROVE /\ approval'[Job(p).run][Job(p).step] = Asked(Job(p).run, Job(p).step)
        /\ \A r \in WfRuns, i \in StepNumbers : approval[r][i] = "PENDING" => approval'[r][i] = "PENDING"
<1>1. worker[p].at = "step" /\ Job(p).step <= Len(Steps(p)) BY DEF Asks, AtStep
<1> PICK r \in WfRuns, i \in StepNumbers : r = Job(p).run /\ i = Job(p).step
 <2>1. Job(p).run \in Started /\ Job(p).step \in 1..Len(Steps(p)) + 2 /\ Len(Steps(p)) \in 1..MaxSteps BY <1>1, InHand
 <2>2. Job(p).step \in 1..MaxSteps BY <1>1,<2>1, WfFacts
 <2> QED BY <2>1,<2>2 DEF Started, StepNumbers
<1>2. approval \in [WfRuns -> [StepNumbers -> {"none", "PENDING", "APPROVED", "REJECTED"}]] BY DEF WorkflowInv, AroundRuns
<1>3. approval' = [approval EXCEPT ![r][i] = Asked(r, i)] BY DEF Asks
<1>4. \A q \in WfRuns \ {r} : approval'[q] = approval[q] BY <1>2,<1>3
<1>5. \A k \in StepNumbers : approval'[r][k] = IF k = i THEN Asked(r, i) ELSE approval[r][k] BY <1>2,<1>3
<1>6. approval[r][i] = "PENDING" => Asked(r, i) = "PENDING" BY DEF Asked
<1> QED BY <1>4,<1>5,<1>6

(* and whether it still holds it. *)
LEMMA WorkerOwns ==
  ASSUME WorkflowInv, NEW p \in WfWorkers,
      \/ Begin(p) \/ Log(p) \/ Transform(p) \/ Condition(p) \/ Effect(p) \/ EmitWebhook(p) \/ HttpRequest(p) \/ RefuseRequest(p)
      \/ Approval(p) \/ Park(p) \/ Wait(p) \/ SavePayload(p) \/ Finish(p) \/ Catch(p) \/ StepFails(p)
  PROVE OwnStep(p)
<1>1. worker[p].at \in {"begin", "step", "saved", "park", "threw"}
  BY DEF Begin, Log, Transform, Condition, Effect, EmitWebhook, HttpRequest, RefuseRequest, Approval, Asks, Park, Wait, SavePayload, Finish, Through, Catch,
    StepFails, AtStep, Notifies, Emits, SendsHttp
<1>2. worker[p].at \notin {"idle", "next"} /\ Job(p) \in Copies BY <1>1, InHand
<1>keeps. ASSUME NEW at \in {"step", "saved"}, NEW job \in Copies, Hold(p, at, job), job.run = Job(p).run, worker[p].at # "threw",
    row'[Job(p).run].status = row[Job(p).run].status, row'[Job(p).run].step = row[Job(p).run].step
  PROVE \E at2 \in {"step", "saved", "park", "threw"}, job2 \in Copies : Keeps(p, at2, job2)
 <2>1. Keeps(p, at, job) BY <1>keeps DEF Keeps
 <2> QED BY <2>1
<1>job. ASSUME NEW v \in Payloads PROVE [Job(p) EXCEPT !.payload = v] \in Copies /\ [Job(p) EXCEPT !.payload = v].run = Job(p).run BY <1>2 DEF Copies
<1>moved. ASSUME NEW i \in Nat PROVE [Job(p) EXCEPT !.step = i] \in Copies /\ [Job(p) EXCEPT !.step = i].run = Job(p).run BY <1>2 DEF Copies
<1>steps. Job(p).step + 1 \in Nat /\ Len(Steps(p)) + 1 \in Nat
 <2>1. Len(Steps(p)) \in 1..MaxSteps /\ Job(p).step \in Nat BY <1>2, InHand DEF Copies
 <2> QED BY <2>1
<1>3. CASE Log(p) \/ Transform(p) \/ Condition(p)
 <2>1. worker[p].at = "step" /\ UNCHANGED <<wfOutside, row, approval, performed, wfGhosts>> BY <1>3 DEF Log, Transform, Condition, AtStep
 <2>2. Around(p) BY <2>1 DEF Around, wfGhosts
 <2>3. \E at \in {"step", "saved"}, job \in Copies : Hold(p, at, job) /\ job.run = Job(p).run
  <3>1. CASE Log(p) BY <1>2,<3>1 DEF Log, Goes
  <3>2. CASE Transform(p) BY <1>job,<3>2 DEF Transform
  <3>3. CASE Condition(p) BY <1>2,<1>moved,<1>steps,<3>3 DEF Condition, Goes
  <3> QED BY <1>3,<3>1,<3>2,<3>3
 <2> QED BY <1>2,<1>keeps,<2>1,<2>2,<2>3 DEF OwnStep
<1>4. CASE Effect(p) \/ EmitWebhook(p) \/ HttpRequest(p)
 <2>1. worker[p].at = "step" /\ UNCHANGED <<row, approval, wfGhosts>> BY <1>4 DEF Effect, EmitWebhook, HttpRequest, Notifies, Emits, SendsHttp, AtStep
 <2>2. Around(p) BY <1>4,<2>1, SendsOnce DEF Around, wfGhosts, Effect, EmitWebhook, HttpRequest
 <2>3. \E job \in Copies : Hold(p, "saved", job) /\ job.run = Job(p).run
  <3>1. CASE Effect(p) \/ EmitWebhook(p) BY <1>2,<3>1 DEF Effect, EmitWebhook, Goes
  <3>2. CASE HttpRequest(p) BY <1>job,<3>2 DEF HttpRequest
  <3> QED BY <1>4,<3>1,<3>2
 <2> QED BY <1>2,<1>keeps,<2>1,<2>2,<2>3 DEF OwnStep
<1>5. CASE RefuseRequest(p)
 <2>1. worker[p].at = "step" /\ Hold(p, "threw", Job(p)) /\ UNCHANGED <<wfOutside, row, approval, performed, wfGhosts>>
   BY <1>5 DEF RefuseRequest, Goes, AtStep
 <2>2. Around(p) BY <2>1 DEF Around, wfGhosts
 <2>3. Keeps(p, "threw", Job(p)) BY <2>1 DEF Keeps
 <2> QED BY <1>2,<2>2,<2>3 DEF OwnStep
<1>6. CASE Begin(p)
 <2>1. worker[p].at = "begin" /\ UNCHANGED <<wfOutside, approval, performed, wfGhosts>> BY <1>6 DEF Begin
 <2>2. CASE wfEnabled
  <3>1. Hold(p, "step", Job(p)) /\ row' = row BY <1>6,<2>2 DEF Begin, Goes
  <3>2. Around(p) BY <2>1,<3>1 DEF Around, wfGhosts
  <3> QED BY <1>2,<1>keeps,<2>1,<3>1,<3>2 DEF OwnStep
 <2>3. CASE ~wfEnabled
  <3>1. Leave(p) /\ EndRow(p, "CANCELLED") BY <1>6,<2>3 DEF Begin, EndRun
  <3>2. AsParked(p) /\ Around(p) BY <1>2,<2>1,<3>1, WritesAsParked DEF Around, wfGhosts
  <3> QED BY <1>2,<3>1,<3>2 DEF OwnStep
 <2> QED BY <2>2,<2>3
<1>7. CASE Approval(p)
 <2>1. Asks(p) /\ worker[p].at = "step" /\ UNCHANGED <<wfOutside, performed, wfGhosts>> BY <1>7 DEF Approval, Asks, AtStep
 <2>2. CASE EndRun(p, "CANCELLED")
  <3>1. Leave(p) /\ EndRow(p, "CANCELLED") BY <2>2 DEF EndRun
  <3>2. AsParked(p) /\ Around(p) BY <1>2,<2>1,<3>1, WritesAsParked, AsksOnly DEF Around, wfGhosts
  <3> QED BY <1>2,<3>1,<3>2 DEF OwnStep
 <2>3. ASSUME row' = row PROVE Around(p) BY <2>1,<2>3, AsksOnly DEF Around, wfGhosts
 <2>4. CASE Asked(Job(p).run, Job(p).step) = "PENDING" /\ Goes(p, "park") /\ UNCHANGED row
  <3>1. Keeps(p, "park", Job(p)) BY <2>1,<2>4, AsksOnly DEF Keeps, Goes
  <3> QED BY <1>2,<2>3,<2>4,<3>1 DEF OwnStep
 <2>5. CASE Goes(p, "saved") /\ UNCHANGED row BY <1>2,<1>keeps,<2>1,<2>3,<2>5 DEF OwnStep, Goes
 <2> QED BY <1>7,<2>2,<2>4,<2>5 DEF Approval
<1>8. CASE Park(p) \/ Wait(p) \/ Finish(p) \/ Catch(p)
 <2>1. Leave(p) /\ UNCHANGED <<wfOutside, approval, performed, wfGhosts>> BY <1>8 DEF Park, Wait, Finish, EndRun, Catch
 <2>2. AsParked(p) /\ Around(p) BY <1>2,<1>8,<2>1, WritesAsParked DEF Park, Wait, Finish, EndRun, Around, wfGhosts
 <2> QED BY <1>2,<2>1,<2>2 DEF OwnStep
<1>9. CASE SavePayload(p)
 <2>1. /\ worker[p].at = "saved" /\ Hold(p, "step", [Job(p) EXCEPT !.step = Job(p).step + 1]) /\ SaveRow(p)
       /\ UNCHANGED <<wfOutside, approval, performed, wfGhosts>> BY <1>9 DEF SavePayload
 <2>2. Around(p) BY <1>2,<2>1, SavesOnly DEF Around, wfGhosts
 <2> QED BY <1>2,<1>keeps,<1>moved,<1>steps,<2>1,<2>2, SavesOnly DEF OwnStep
<1>10. CASE StepFails(p)
 <2>1. /\ Hold(p, "threw", Job(p)) /\ (Lost(p) \/ UNCHANGED <<row, approval, performed, unheard>>)
       /\ worker[p].at \in {"begin", "step", "saved", "park"} /\ UNCHANGED <<wfOutside, overtaken, hasty, rewound, slow>> BY <1>10 DEF StepFails, Goes
 <2>0. Hold(p, "threw", Job(p)) /\ worker[p].at # "threw" BY <2>1
 <2>same. ASSUME UNCHANGED <<row, unheard>>, Around(p) PROVE OwnStep(p)
  <3>1. Keeps(p, "threw", Job(p)) BY <2>0,<2>same DEF Keeps
  <3> QED BY <1>2,<2>same,<3>1 DEF OwnStep
 <2>2. CASE UNCHANGED <<row, approval, performed, unheard>>
  <3>1. Around(p) BY <2>1,<2>2 DEF Around
  <3> QED BY <2>2,<2>same,<3>1
 <2>3. CASE (Notifies(p) \/ Emits(p) \/ SendsHttp(p)) /\ UNCHANGED <<row, approval, unheard>>
  <3>1. Around(p) BY <2>1,<2>3, SendsOnce DEF Around
  <3> QED BY <2>3,<2>same,<3>1
 <2>4. CASE Asks(p) /\ UNCHANGED <<row, performed, unheard>>
  <3>1. Around(p) BY <2>1,<2>4, AsksOnly DEF Around
  <3> QED BY <2>4,<2>same,<3>1
 <2>5. CASE /\ \/ EndRow(p, "CANCELLED") \/ EndRow(p, "SUCCEEDED") \/ SaveRow(p) \/ WaitRow(p) \/ (worker[p].at = "park" /\ ParkRow(p))
            /\ unheard' = unheard \cup {Job(p).run} /\ UNCHANGED <<approval, performed>>
  <3>1. \A r \in WfRuns \ {Job(p).run} : row'[r] = row[r] BY <1>2,<2>5, WritesAsParked, SavesOnly
  <3>2. Around(p) BY <2>1,<2>5,<3>1 DEF Around
  <3>3. AsParked(p) \/ (row'[Job(p).run].status = row[Job(p).run].status /\ row'[Job(p).run].step = row[Job(p).run].step)
    BY <1>2,<2>5, WritesAsParked, SavesOnly
  <3>4. Job(p).run \in unheard' BY <2>5
  <3>5. Keeps(p, "threw", Job(p)) BY <2>0,<3>3,<3>4 DEF Keeps
  <3> QED BY <1>2,<3>2,<3>5 DEF OwnStep
 <2>6. \/ UNCHANGED <<row, approval, performed, unheard>>
       \/ (Notifies(p) \/ Emits(p) \/ SendsHttp(p)) /\ UNCHANGED <<row, approval, unheard>>
       \/ Asks(p) /\ UNCHANGED <<row, performed, unheard>>
       \/ /\ \/ EndRow(p, "CANCELLED") \/ EndRow(p, "SUCCEEDED") \/ SaveRow(p) \/ WaitRow(p) \/ (worker[p].at = "park" /\ ParkRow(p))
          /\ unheard' = unheard \cup {Job(p).run} /\ UNCHANGED <<approval, performed>> BY <2>1 DEF Lost
 <2> QED BY <2>2,<2>3,<2>4,<2>5,<2>6
<1> QED BY <1>3,<1>4,<1>5,<1>6,<1>7,<1>8,<1>9,<1>10

LEMMA HandIsHeld == ASSUME WorkflowInv, NEW p \in WfWorkers, NEW r \in Hands(worker[p]) PROVE r \in Started /\ r \in WfRuns /\ r \in Held
<1>1. FitsRuns(worker[p]) BY DEF WorkflowInv, WorkersFit
<1>2. r \in Started BY <1>1 DEF FitsRuns, Hands
<1>3. r \in {worker[p].job.run} \cup {c.run : c \in worker[p].rest} BY DEF Hands
<1> QED BY <1>2,<1>3 DEF Started, Held

(* Steps of others: they leave alone what is RUNNING, or have been hasty. *)
LEMMA OthersAct ==
  ASSUME WorkflowInv, RunInv, worker' = worker, performed' = performed, overtaken' = overtaken, unheard' = unheard, hasty \subseteq hasty',
      \A r \in WfRuns :
        /\ row[r].status = "RUNNING" => row'[r].status = "RUNNING"
        /\ row'[r].status = "WAITING_APPROVAL" => row[r].status = "WAITING_APPROVAL" /\ row'[r].step = row[r].step
        /\ approval'[r] = approval[r] \/ r \in hasty' \/ (row[r].status # "RUNNING" /\ row'[r].status # "WAITING_APPROVAL")
  PROVE RunInv'
<1>0. HoldInv /\ OneHolder /\ HeldRuns /\ AboutToWait /\ WaitingCanBeDecided /\ EffectsOnce BY DEF RunInv, HoldInv
<1>1. OneHolder' BY <1>0 DEF OneHolder
<1>2. HeldRuns' BY <1>0, HandIsHeld DEF HeldRuns, Throwing
<1>3. HoldInv' BY <1>0,<1>1,<1>2 DEF HoldInv
<1>4. AboutToWait'
 <2> SUFFICES ASSUME NEW p \in WfWorkers, worker[p].at = "park", Job(p).run \notin hasty' \cup overtaken
     PROVE approval'[Job(p).run][Job(p).step] = "PENDING" BY DEF AboutToWait, Job
 <2>1. Job(p).run \in Hands(worker[p]) BY DEF Hands, Job
 <2>2. row[Job(p).run].status = "RUNNING" /\ Job(p).run \in WfRuns BY <1>0,<2>1, HandIsHeld DEF HeldRuns, Throwing
 <2> QED BY <1>0,<2>2 DEF AboutToWait
<1>5. WaitingCanBeDecided'
 <2> SUFFICES ASSUME NEW r \in WfRuns, r \notin hasty' \cup overtaken, row'[r].status = "WAITING_APPROVAL"
     PROVE approval'[r][row'[r].step] = "PENDING" BY DEF WaitingCanBeDecided, Started
 <2>1. r \in Started BY DEF Started, NoRow
 <2> QED BY <1>0,<2>1 DEF WaitingCanBeDecided
<1>6. EffectsOnce' BY <1>0 DEF EffectsOnce
<1> QED BY <1>3,<1>4,<1>5,<1>6 DEF RunInv

(* A worker that takes up the next run of its batch, or ends. *)
LEMMA HandsLess ==
  ASSUME WorkflowInv, RunInv, NEW p \in WfWorkers, NEW w, worker' = [worker EXCEPT ![p] = w], Hands(w) \subseteq Hands(worker[p]), HandOnce(w),
      w.at # "park", \A r \in Hands(w) : ~Throwing(worker[p], r),
      UNCHANGED <<row, approval, performed, overtaken, hasty, rewound, unheard>>
  PROVE RunInv'
<1>0. HoldInv /\ OneHolder /\ HeldRuns /\ AboutToWait /\ WaitingCanBeDecided /\ EffectsOnce BY DEF RunInv, HoldInv
<1>1. worker'[p] = w /\ \A q \in WfWorkers \ {p} : worker'[q] = worker[q] BY DEF WorkflowInv, AroundRuns
<1>2. OneHolder' BY <1>0,<1>1 DEF OneHolder
<1>3. HeldRuns' BY <1>0,<1>1 DEF HeldRuns, Throwing
<1>4. HoldInv' BY <1>0,<1>1,<1>2,<1>3 DEF HoldInv
<1>5. AboutToWait' BY <1>0,<1>1 DEF AboutToWait, Job
<1>6. (WaitingCanBeDecided /\ EffectsOnce)' BY <1>0 DEF WaitingCanBeDecided, EffectsOnce, Started
<1> QED BY <1>4,<1>5,<1>6 DEF RunInv

LEMMA ClaimKeeps == ASSUME WorkflowInv, RunInv, NEW p \in WfWorkers, Claim(p) PROVE RunInv'
<1>0. HoldInv /\ OneHolder /\ HeldRuns /\ AboutToWait /\ WaitingCanBeDecided /\ EffectsOnce BY DEF RunInv, HoldInv
<1>1. PICK rs \in SUBSET {r \in Started : Claimable(r)} :
      /\ row' = [r \in WfRuns |-> IF r \notin rs THEN row[r]
                   ELSE [row[r] EXCEPT !.status = "RUNNING", !.attempts = @ + 1, !.old = FALSE]]
      /\ worker' = [worker EXCEPT ![p] = [at |-> "next", job |-> NoJob, rest |->
           {[run |-> r, step |-> row[r].step, payload |-> row[r].payload, attempts |-> row[r].attempts + 1] : r \in rs}]]
      /\ overtaken' = overtaken \cup (rs \cap Held) BY DEF Claim
<1>2. UNCHANGED <<approval, performed, hasty, unheard>> BY DEF Claim
<1> PICK w : w = [at |-> "next", job |-> NoJob, rest |->
           {[run |-> r, step |-> row[r].step, payload |-> row[r].payload, attempts |-> row[r].attempts + 1] : r \in rs}] OBVIOUS
<1>3. worker'[p] = w /\ \A q \in WfWorkers \ {p} : worker'[q] = worker[q] BY <1>1 DEF WorkflowInv, AroundRuns
<1>4. Hands(w) = rs
 <2>0. w.at = "next" /\ w.rest = {[run |-> r, step |-> row[r].step, payload |-> row[r].payload, attempts |-> row[r].attempts + 1] : r \in rs} OBVIOUS
 <2>1. Hands(w) = {c.run : c \in w.rest} BY <2>0 DEF Hands
 <2>2. ASSUME NEW r \in rs PROVE \E c \in w.rest : c.run = r
  <3> PICK c : c = [run |-> r, step |-> row[r].step, payload |-> row[r].payload, attempts |-> row[r].attempts + 1] OBVIOUS
  <3>1. c \in w.rest /\ c.run = r BY <2>0
  <3> QED BY <3>1
 <2>3. \A c \in w.rest : c.run \in rs BY <2>0
 <2>4. \A r \in Hands(w) : r \in rs BY <2>1,<2>3
 <2>5. \A r \in rs : r \in Hands(w) BY <2>1,<2>2
 <2> QED BY <2>4,<2>5
<1>5. HandOnce(w) BY DEF HandOnce
<1>6. \A r \in WfRuns : IF r \in rs THEN row'[r].status = "RUNNING" ELSE row'[r] = row[r]
 <2> SUFFICES ASSUME NEW r \in WfRuns, r \in rs PROVE row'[r].status = "RUNNING" BY <1>1
 <2> PICK old \in RunRows : old = row[r] BY DEF WorkflowInv, RunsStand, Started
 <2>1. row'[r] = [old EXCEPT !.status = "RUNNING", !.attempts = @ + 1, !.old = FALSE] BY <1>1
 <2> QED BY <2>1 DEF RunRows
<1>7. \A q \in WfWorkers \ {p} : \A r \in Hands(worker[q]) : r \in rs => r \in overtaken' BY <1>1, HandIsHeld
<1>8. OneHolder'
 <2> SUFFICES ASSUME NEW q \in WfWorkers, NEW q2 \in WfWorkers, NEW r \in Hands(worker'[q]) \cap Hands(worker'[q2]), q # q2
     PROVE r \in overtaken' BY DEF OneHolder
 <2>1. CASE q = p BY <1>3,<1>4,<1>7,<2>1
 <2>2. CASE q2 = p BY <1>3,<1>4,<1>7,<2>2
 <2>3. CASE q # p /\ q2 # p BY <1>0,<1>1,<1>3,<2>3 DEF OneHolder
 <2> QED BY <2>1,<2>2,<2>3
<1>9. HeldRuns'
 <2> SUFFICES ASSUME NEW q \in WfWorkers, NEW r \in Hands(worker'[q]), r \notin overtaken'
     PROVE row'[r].status = "RUNNING" \/ Throwing(worker[q], r)' BY DEF HeldRuns
 <2>1. CASE q = p
  <3>1. r \in rs /\ r \in WfRuns BY <1>1,<1>3,<1>4,<2>1 DEF Started
  <3> QED BY <1>6,<3>1
 <2>2. CASE q # p
  <3>1. r \in Hands(worker[q]) /\ r \notin rs /\ r \in WfRuns BY <1>3,<1>7,<2>2, HandIsHeld
  <3>2. row'[r] = row[r] /\ r \notin overtaken BY <1>1,<1>6,<3>1
  <3> QED BY <1>0,<1>2,<1>3,<2>2,<3>1,<3>2 DEF HeldRuns, Throwing
 <2> QED BY <2>1,<2>2
<1>10. HoldInv' BY <1>0,<1>3,<1>5,<1>8,<1>9 DEF HoldInv
<1>11. AboutToWait'
 <2>1. w.at # "park" OBVIOUS
 <2> SUFFICES ASSUME NEW q \in WfWorkers, worker'[q].at = "park", worker'[q].job.run \notin hasty' \cup overtaken'
     PROVE approval'[worker'[q].job.run][worker'[q].job.step] = "PENDING" BY DEF AboutToWait, Job
 <2>2. worker'[q] = worker[q] BY <1>3,<2>1
 <2>3. hasty' = hasty /\ approval' = approval /\ overtaken \subseteq overtaken' BY <1>1,<1>2
 <2>4. worker[q].at = "park" /\ Job(q).run \notin hasty \cup overtaken BY <2>2,<2>3 DEF Job
 <2>5. approval[Job(q).run][Job(q).step] = "PENDING" BY <1>0,<2>4 DEF AboutToWait
 <2> QED BY <2>2,<2>3,<2>5 DEF Job
<1>12. WaitingCanBeDecided'
 <2> SUFFICES ASSUME NEW r \in WfRuns, r \notin hasty \cup overtaken', row'[r].status = "WAITING_APPROVAL"
     PROVE approval[r][row'[r].step] = "PENDING" BY <1>2 DEF WaitingCanBeDecided, Started
 <2>1. row'[r] = row[r] BY <1>6
 <2>2. r \in Started BY <2>1 DEF Started, NoRow
 <2> QED BY <1>0,<1>1,<2>1,<2>2 DEF WaitingCanBeDecided
<1>13. EffectsOnce' BY <1>0,<1>2 DEF EffectsOnce
<1> QED BY <1>10,<1>11,<1>12,<1>13 DEF RunInv

LEMMA RunRowWrites == ASSUME WorkflowInv, NEW r \in Started, NEW new, row' = [row EXCEPT ![r] = new]
  PROVE row'[r] = new /\ row[r] \in RunRows /\ \A q \in WfRuns \ {r} : row'[q] = row[q]
BY DEF WorkflowInv, RunsStand, Started

(* What authors, operators, triggers and the clock do to runs. *)
LEMMA OthersKeep ==
  ASSUME WorkflowInv, RunInv, SetWfEnabled \/ AuthorNext \/ \E r \in WfRuns : RunNext(r)
  PROVE RunInv' /\ performed' = performed /\ \A r \in Started : row[r].status \in Final => row'[r].status = row[r].status
<1>0. \A r \in WfRuns \ Started : row[r] = NoRow BY DEF Started
<1>1. CASE SetWfEnabled \/ SetIntegrationEnabled \/ UpdateDefinition
 <2>1. UNCHANGED <<worker, row, approval, performed, overtaken, hasty, unheard>> BY <1>1 DEF SetWfEnabled, SetIntegrationEnabled, UpdateDefinition, wfGhosts
 <2> QED BY <2>1, OthersAct
<1>2. ASSUME NEW new \in WfRuns, NEW v, Enqueue(new, v), UNCHANGED <<worker, approval, performed, overtaken, hasty, unheard>>
  PROVE RunInv' /\ performed' = performed /\ \A r \in Started : row[r].status \in Final => row'[r].status = row[r].status
 <2> PICK fresh : /\ fresh.status = "QUEUED" /\ row' = [row EXCEPT ![new] = fresh] BY <1>2 DEF Enqueue
 <2>1. row'[new] = fresh /\ \A q \in WfRuns \ {new} : row'[q] = row[q] BY DEF WorkflowInv, RunsStand
 <2>2. row[new] = NoRow /\ new \notin Started BY <1>2 DEF Enqueue, Started
 <2>3. RunInv' BY <1>2,<2>1,<2>2, OthersAct DEF NoRow
 <2> QED BY <1>2,<2>1,<2>2,<2>3 DEF Started
<1>3. ASSUME NEW r \in WfRuns, CancelRun(r)
  PROVE RunInv' /\ performed' = performed /\ \A q \in Started : row[q].status \in Final => row'[q].status = row[q].status
 <2>1. r \in Started /\ row[r].status \in {"QUEUED", "WAITING_APPROVAL"} /\ row' = [row EXCEPT ![r].status = "CANCELLED"]
       /\ UNCHANGED <<worker, approval, performed, overtaken, hasty, unheard>> BY <1>3 DEF CancelRun, wfGhosts
 <2> PICK new : new = [row[r] EXCEPT !.status = "CANCELLED"] OBVIOUS
 <2>2. row'[r] = new /\ row[r] \in RunRows /\ \A q \in WfRuns \ {r} : row'[q] = row[q] BY <2>1, RunRowWrites
 <2>3. row'[r].status = "CANCELLED" BY <2>2 DEF RunRows
 <2>4. RunInv' BY <2>1,<2>2,<2>3, OthersAct
 <2> QED BY <2>1,<2>2,<2>4 DEF Started, Final
<1>4. ASSUME NEW r \in WfRuns, ComesDueRun(r) \/ LockAges(r)
  PROVE RunInv' /\ performed' = performed /\ \A q \in Started : row[q].status \in Final => row'[q].status = row[q].status
 <2>1. r \in Started /\ UNCHANGED <<worker, approval, performed, overtaken, hasty, unheard>> BY <1>4 DEF ComesDueRun, LockAges, wfGhosts
 <2>2. PICK new : new.status = row[r].status /\ new.step = row[r].step /\ row' = [row EXCEPT ![r] = new]
  <3> PICK old \in RunRows : old = row[r] BY <2>1 DEF WorkflowInv, RunsStand, Started
  <3>1. CASE ComesDueRun(r)
   <4> PICK new : new = [old EXCEPT !.later = FALSE] OBVIOUS
   <4>1. row' = [row EXCEPT ![r] = new] /\ new.status = old.status /\ new.step = old.step BY <3>1 DEF ComesDueRun, RunRows
   <4> QED BY <4>1
  <3>2. CASE LockAges(r)
   <4> PICK new : new = [old EXCEPT !.old = TRUE] OBVIOUS
   <4>1. row' = [row EXCEPT ![r] = new] /\ new.status = old.status /\ new.step = old.step BY <3>2 DEF LockAges, RunRows
   <4> QED BY <4>1
  <3> QED BY <1>4,<3>1,<3>2
 <2>3. row'[r] = new /\ \A q \in WfRuns \ {r} : row'[q] = row[q] BY <2>1,<2>2, RunRowWrites
 <2>4. RunInv' BY <2>1,<2>2,<2>3, OthersAct
 <2> QED BY <2>1,<2>2,<2>3,<2>4 DEF Started
<1>5. ASSUME NEW r \in WfRuns, NEW i \in StepNumbers, NEW decision \in {"APPROVED", "REJECTED"}, DecideApproval(r, i, decision)
  PROVE RunInv' /\ performed' = performed /\ \A q \in Started : row[q].status \in Final => row'[q].status = row[q].status
 <2>1. /\ UNCHANGED <<worker, performed, overtaken, unheard>> /\ approval' = [approval EXCEPT ![r][i] = decision]
       /\ hasty' = IF row[r].status = "RUNNING" THEN hasty \cup {r} ELSE hasty BY <1>5 DEF DecideApproval
 <2>2. \A q \in WfRuns \ {r} : approval'[q] = approval[q] BY <2>1 DEF WorkflowInv, AroundRuns
 <2>3. CASE row[r].status # "WAITING_APPROVAL"
  <3>1. row' = row BY <1>5,<2>3 DEF DecideApproval
  <3>2. RunInv' BY <2>1,<2>2,<2>3,<3>1, OthersAct
  <3> QED BY <2>1,<3>1,<3>2
 <2>4. CASE row[r].status = "WAITING_APPROVAL"
  <3>1. r \in Started BY <2>4 DEF Started, NoRow
  <3> PICK old \in RunRows : old = row[r] BY <3>1 DEF WorkflowInv, RunsStand, Started
  <3>2. row'[r].status \in {"QUEUED", "CANCELLED"} /\ \A q \in WfRuns \ {r} : row'[q] = row[q]
   <4>1. CASE decision = "APPROVED"
    <5> PICK new : new = [old EXCEPT !.status = "QUEUED", !.step = old.step + 1, !.later = FALSE] OBVIOUS
    <5>1. row' = [row EXCEPT ![r] = [@ EXCEPT !.status = "QUEUED", !.step = row[r].step + 1, !.later = FALSE]]
      BY <1>5,<2>4,<4>1 DEF DecideApproval
    <5>2. [row[r] EXCEPT !.status = "QUEUED", !.step = row[r].step + 1, !.later = FALSE] = new OBVIOUS
    <5>3. row' = [row EXCEPT ![r] = new] BY <5>1,<5>2
    <5>4. row'[r] = new /\ \A q \in WfRuns \ {r} : row'[q] = row[q] BY <3>1,<5>3, RunRowWrites
    <5>5. new.status = "QUEUED" BY DEF RunRows
    <5> QED BY <5>4,<5>5
   <4>2. CASE decision # "APPROVED"
    <5> PICK new : new = [old EXCEPT !.status = "CANCELLED"] OBVIOUS
    <5>1. row' = [row EXCEPT ![r] = new] /\ new.status = "CANCELLED" BY <1>5,<2>4,<4>2 DEF DecideApproval, RunRows
    <5>2. row'[r] = new /\ \A q \in WfRuns \ {r} : row'[q] = row[q] BY <3>1,<5>1, RunRowWrites
    <5> QED BY <5>1,<5>2
   <4> QED BY <4>1,<4>2
  <3>3. RunInv' BY <2>1,<2>2,<2>4,<3>2, OthersAct
  <3> QED BY <2>1,<2>4,<3>2,<3>3 DEF Started, Final
 <2> QED BY <2>3,<2>4
<1>6. ASSUME NEW r \in WfRuns, RunNext(r)
  PROVE RunInv' /\ performed' = performed /\ \A q \in Started : row[q].status \in Final => row'[q].status = row[q].status
 <2>1. CASE \E payload \in Payloads : Trigger(r, payload)
  <3> PICK payload \in Payloads : Trigger(r, payload) BY <2>1
  <3> QED BY <1>2 DEF Trigger, wfGhosts
 <2> QED BY <1>3,<1>4,<1>5,<1>6,<2>1 DEF RunNext
<1>7. CASE \E r, new \in WfRuns : ReplayRun(r, new)
 <2> PICK r \in WfRuns, new \in WfRuns : ReplayRun(r, new) BY <1>7
 <2> QED BY <1>2 DEF ReplayRun, wfGhosts
<1> QED BY <1>1,<1>6,<1>7 DEF AuthorNext

LEMMA RunStep ==
  ASSUME WorkflowInv, RunInv, [WorkflowNext]_wfVars
  PROVE  /\ RunInv'
         /\ \A r \in Started \ (overtaken \cup unheard) : row[r].status \in Final => row'[r].status = row[r].status /\ performed'[r] = performed[r]
<1>0. HoldInv /\ HeldRuns /\ \A p \in WfWorkers : HandOnce(worker[p]) BY DEF RunInv, HoldInv
<1>1. CASE UNCHANGED wfVars
 <2>1. RunInv' BY <1>1, OthersAct DEF wfVars
 <2> QED BY <1>1,<2>1 DEF wfVars
<1>2. CASE SetWfEnabled \/ AuthorNext \/ \E r \in WfRuns : RunNext(r) BY <1>2, OthersKeep
<1>3. ASSUME NEW p \in WfWorkers, OwnStep(p)
  PROVE /\ RunInv'
        /\ \A r \in Started \ (overtaken \cup unheard) : row[r].status \in Final => row'[r].status = row[r].status /\ performed'[r] = performed[r]
 <2>1. RunInv' BY <1>0,<1>3, OwnHold, OwnAsks DEF RunInv
 <2>2. ASSUME NEW r \in Started \ (overtaken \cup unheard), row[r].status \in Final PROVE r # Job(p).run /\ r \in WfRuns
  <3>1. Job(p).run \in Hands(worker[p]) BY <1>3 DEF OwnStep, Hands, Job
  <3>2. r = Job(p).run => row[r].status = "RUNNING" BY <1>0,<2>2,<3>1 DEF HeldRuns, Throwing
  <3> QED BY <2>2,<3>2 DEF Final, Started
 <2> QED BY <1>3,<2>1,<2>2 DEF OwnStep, Around
<1>4. ASSUME NEW p \in WfWorkers, Claim(p)
  PROVE /\ RunInv'
        /\ \A r \in Started \ (overtaken \cup unheard) : row[r].status \in Final => row'[r].status = row[r].status /\ performed'[r] = performed[r]
 <2>1. PICK rs \in SUBSET {r \in Started : Claimable(r)} :
      row' = [r \in WfRuns |-> IF r \notin rs THEN row[r] ELSE [row[r] EXCEPT !.status = "RUNNING", !.attempts = @ + 1, !.old = FALSE]] BY <1>4 DEF Claim
 <2>2. performed' = performed BY <1>4 DEF Claim
 <2>3. \A r \in rs : row[r].status \notin Final BY DEF Claimable, Final
 <2> QED BY <1>4,<2>1,<2>2,<2>3, ClaimKeeps DEF Started
<1>5. ASSUME NEW p \in WfWorkers, NextOfBatch(p) \/ CrashWorker(p)
  PROVE /\ RunInv'
        /\ \A r \in Started \ (overtaken \cup unheard) : row[r].status \in Final => row'[r].status = row[r].status /\ performed'[r] = performed[r]
 <2>1. UNCHANGED <<row, approval, performed, overtaken, hasty, rewound, unheard>> BY <1>5 DEF NextOfBatch, CrashWorker, wfGhosts
 <2>2. PICK w : worker' = [worker EXCEPT ![p] = w] /\ Hands(w) \subseteq Hands(worker[p]) /\ HandOnce(w) /\ w.at # "park"
                /\ \A r \in Hands(w) : ~Throwing(worker[p], r)
  <3>1. Hands(IdleWorker) = {} /\ HandOnce(IdleWorker) /\ IdleWorker.at # "park" BY DEF Hands, HandOnce, IdleWorker
  <3>2. CASE CrashWorker(p) \/ worker[p].rest = {}
   <4>1. worker' = [worker EXCEPT ![p] = IdleWorker] BY <1>5,<3>2 DEF CrashWorker, NextOfBatch
   <4> QED BY <3>1,<4>1
  <3>3. CASE NextOfBatch(p) /\ worker[p].rest # {}
   <4> PICK rest : rest = worker[p].rest OBVIOUS
   <4> PICK c : c = CHOOSE d \in rest : TRUE OBVIOUS
   <4> PICK w : w = [at |-> "begin", job |-> c, rest |-> rest \ {c}] OBVIOUS
   <4>1. worker' = [worker EXCEPT ![p] = w] /\ worker[p].at = "next" BY <3>3 DEF NextOfBatch
   <4>2. c \in rest BY <3>3
   <4>3. Hands(w) \subseteq Hands(worker[p]) BY <4>2 DEF Hands
   <4>4. HandOnce(w) BY <1>0,<4>2 DEF HandOnce
   <4> QED BY <4>1,<4>3,<4>4 DEF Throwing
  <3> QED BY <1>5,<3>2,<3>3
 <2>3. RunInv' BY <2>1,<2>2, HandsLess
 <2> QED BY <2>1,<2>3
<1>6. ASSUME NEW p \in WfWorkers, WorkerNext(p) PROVE OwnStep(p) \/ Claim(p) \/ NextOfBatch(p) \/ CrashWorker(p)
  BY <1>6, WorkerOwns DEF WorkerNext, WorkerStep
<1> QED BY <1>1,<1>2,<1>3,<1>4,<1>5,<1>6 DEF WorkflowNext, RunsNext

------------------------
(* Procurement. An order has the total of its lines and none of them comes in once it is submitted;
   until it is approved nothing of it has been received, and it has a line. *)
Submitted(o) == order[o] # Absent /\ order[o].status # "DRAFT"
Unapproved(o) == order[o] # Absent /\ order[o].status \in {"DRAFT", "PENDING_APPROVAL"}
LinesHaveOrders == \A l \in Lines : line[l] # Absent => order[line[l].order] # Absent /\ line[l].received <= line[l].ordered
TotalsAreLines == \A o \in Orders : order[o] # Absent => order[o].total = Total(o)
NothingEarly == \A o \in Orders : Unapproved(o) => \A l \in LinesOf(o) : line[l].received = 0
SubmittedHasLine == \A o \in Orders : Submitted(o) => LinesOf(o) # {}
ReceivedIsAll ==
  \A o \in Orders : Submitted(o) /\ ~Unapproved(o) =>
    (order[o].status = "RECEIVED") = (\A l \in LinesOf(o) : line[l].received = line[l].ordered)
OrdersInv ==
  /\ order \in [Orders -> {Absent} \cup OrderRows] /\ line \in [Lines -> {Absent} \cup LineRows]
  /\ LinesHaveOrders /\ TotalsAreLines /\ NothingEarly /\ SubmittedHasLine /\ ReceivedIsAll

ReceivedBy(l) == {k \in Moved : movement[k].line = l}
LinesCameIn == \A l \in Lines : line[l] # Absent => line[l].received = SumFunction([k \in ReceivedBy(l) |-> movement[k].delta])
MovesHaveLines == \A k \in Moved : movement[k].line \in Lines => line[movement[k].line] # Absent
StockInv ==
  /\ stock \in [Items -> [qty : Nat, avg : Nat]] /\ movement \in [StockKeys -> {NoMovement} \cup MovementRows]
  /\ StockIsItsMovements /\ \A i \in Items : stock[i].qty <= CameIn(i)

PaidIsPaid == \A b \in Bills : bill[b] # Absent => bill[b].paid \in Nat /\ (bill[b].status = "PAID" <=> bill[b].paid >= bill[b].total)
PaymentsKnow == \A k \in BillKeys : billPayment[k] # Absent => bill[billPayment[k].bill] # Absent
BillInv ==
  /\ bill \in [Bills -> {Absent} \cup BillRows] /\ billPayment \in [BillKeys -> {Absent} \cup PaymentRows] /\ payable \in Int
  /\ PayablesAgree /\ PaidIsPaid /\ PaymentsKnow
CheckedIsNew == \A n \in Notes : checked[n] # 0 => note[n] = Absent
CreditInv ==
  /\ note \in [Notes -> {Absent} \cup NoteRows]
  /\ checked \in [Notes -> {0} \cup Amounts] /\ collected \in [CreditKeys -> {0} \cup Amounts]
  /\ CheckedIsNew
ProcInv == OrdersInv /\ LinesCameIn /\ MovesHaveLines /\ StockInv /\ BillInv /\ CreditInv

LEMMA ProcFacts ==
  /\ Absent \notin OrderRows /\ Absent \notin LineRows /\ Absent \notin BillRows /\ Absent \notin PaymentRows /\ Absent \notin NoteRows
  /\ NoMovement \notin MovementRows
  /\ IsFiniteSet(Lines) /\ IsFiniteSet(StockKeys) /\ IsFiniteSet(Bills) /\ IsFiniteSet(BillKeys) /\ IsFiniteSet(Notes) /\ IsFiniteSet(CreditKeys)
  /\ Quantities \subseteq Nat \ {0} /\ Costs \subseteq Nat /\ Amounts \subseteq Nat \ {0} /\ InvoiceTotal \in Nat
  /\ NoOrder \notin Orders /\ NoOrder \notin Lines
<1>1. Absent \notin OrderRows /\ Absent \notin LineRows /\ Absent \notin BillRows /\ Absent \notin PaymentRows /\ Absent \notin NoteRows
  BY DEF Absent, OrderRows, LineRows, BillRows, PaymentRows, NoteRows
<1>2. NoMovement \notin MovementRows BY DEF NoMovement, MovementRows, Types
<1> QED BY <1>1,<1>2, ProcurementAssumption

LEMMA EmptySum == ASSUME NEW f, DOMAIN f = {} PROVE SumFunction(f) = 0
<1>1. IsFiniteSet({}) BY FS_EmptySet
<1> QED BY <1>1, SumOfPart

LEMMA ProcInitOK == ProcInit => ProcInv
<1> SUFFICES ASSUME ProcInit PROVE ProcInv OBVIOUS
<1> USE ProcFacts
<1>1. OrdersInv BY DEF ProcInit, OrdersInv, LinesHaveOrders, TotalsAreLines, NothingEarly, SubmittedHasLine, ReceivedIsAll, Submitted, Unapproved
<1>2. Moved = {} BY DEF ProcInit, Moved
<1>3. LinesCameIn /\ MovesHaveLines BY <1>2 DEF ProcInit, LinesCameIn, MovesHaveLines
<1>4. StockInv
 <2>1. ASSUME NEW i \in Items PROVE QuantityOf(i) = 0 /\ ValueOf(i) = 0 /\ CameIn(i) = 0 /\ stock[i].qty = 0 /\ stock[i].avg = 0
  <3>1. MovedOf(i) = {} BY <1>2 DEF MovedOf
  <3>2. QuantityOf(i) = 0 BY <3>1, EmptySum DEF QuantityOf
  <3>3. ValueOf(i) = 0 BY <3>1, EmptySum DEF ValueOf
  <3>4. CameIn(i) = 0 BY <3>1, EmptySum DEF CameIn
  <3> QED BY <3>2,<3>3,<3>4 DEF ProcInit
 <2>2. ASSUME NEW i \in Items PROVE Averagings(i) = 0
  <3>1. {k \in MovedOf(i) : movement[k].type # "ADJUSTMENT" /\ movement[k].delta > 0} = {} BY <1>2 DEF MovedOf
  <3> QED BY <3>1, FS_EmptySet DEF Averagings
 <2>3. StockIsItsMovements BY <2>1,<2>2 DEF StockIsItsMovements
 <2> QED BY <2>1,<2>3 DEF ProcInit, StockInv
<1>5. BillInv
 <2>1. Unpaid = {} BY DEF ProcInit, Unpaid
 <2>2. ApAging = 0 BY <2>1, EmptySum DEF ApAging
 <2> QED BY <2>2 DEF ProcInit, BillInv, PayablesAgree, PaidIsPaid, PaymentsKnow
<1>6. CreditInv BY DEF ProcInit, CreditInv, CheckedIsNew
<1> QED BY <1>1,<1>3,<1>4,<1>5,<1>6 DEF ProcInv

(* Orders and their lines. *)
LEMMA RowsAre ==
  ASSUME ProcInv
  PROVE  /\ \A l \in Lines : line[l] # Absent => line[l] \in LineRows
         /\ \A o \in Orders : order[o] # Absent => order[o] \in OrderRows
         /\ \A o \in Orders : \A l \in LinesOf(o) : line[l] \in LineRows /\ line[l].order = o /\ line[l].ordered * line[l].cost \in Nat
<1> USE ProcFacts
<1>1. \A l \in Lines : line[l] # Absent => line[l] \in LineRows BY DEF ProcInv, OrdersInv
<1>2. \A o \in Orders : order[o] # Absent => order[o] \in OrderRows BY DEF ProcInv, OrdersInv
<1>3. \A o \in Orders : \A l \in LinesOf(o) : line[l] \in LineRows /\ line[l].order = o BY <1>1 DEF LinesOf
<1>4. \A o \in Orders : \A l \in LinesOf(o) : line[l].ordered \in Nat /\ line[l].cost \in Nat BY <1>3 DEF LineRows
<1> QED BY <1>1,<1>2,<1>3,<1>4

(* A step that changes no line but for what was received of it. *)
LEMMA TotalsStand ==
  ASSUME NEW o \in Orders, LinesOf(o)' = LinesOf(o), \A l \in LinesOf(o) : line'[l].ordered = line[l].ordered /\ line'[l].cost = line[l].cost
  PROVE Total(o)' = Total(o)
<1> PICK ls : ls = LinesOf(o) OBVIOUS
<1>1. [l \in ls |-> line'[l].ordered * line'[l].cost] = [l \in ls |-> line[l].ordered * line[l].cost] OBVIOUS
<1> QED BY <1>1 DEF Total

LEMMA TotalIsNat == ASSUME ProcInv, NEW o \in Orders PROVE Total(o) \in Nat
<1> PICK f : f = [l \in LinesOf(o) |-> line[l].ordered * line[l].cost] OBVIOUS
<1>1. DOMAIN f \subseteq Lines /\ \A l \in DOMAIN f : f[l] \in Nat BY RowsAre DEF LinesOf
<1>2. IsFiniteSet(Lines) /\ \A l \in DOMAIN f : f[l] \in Int BY <1>1, ProcFacts
<1>3. SumFunction(f) \in Nat BY <1>1,<1>2, SumOfPart
<1> QED BY <1>3 DEF Total

LEMMA OrderMoves ==
  ASSUME ProcInv, UNCHANGED line, NEW o \in Orders, NEW new \in OrderRows, order' = [order EXCEPT ![o] = new], new.total = Total(o),
      new.status \in {"DRAFT", "PENDING_APPROVAL"} => \A l \in LinesOf(o) : line[l].received = 0, new.status # "DRAFT" => LinesOf(o) # {},
      new.status \notin {"DRAFT", "PENDING_APPROVAL"} => (new.status = "RECEIVED") = (\A l \in LinesOf(o) : line[l].received = line[l].ordered)
  PROVE OrdersInv'
<1> USE ProcFacts
<1>1. order'[o] = new /\ (\A q \in Orders \ {o} : order'[q] = order[q]) /\ order' \in [Orders -> {Absent} \cup OrderRows] BY DEF ProcInv, OrdersInv
<1>2. \A q \in Orders : LinesOf(q)' = LinesOf(q) BY DEF LinesOf
<1>3. \A q \in Orders : Total(q)' = Total(q) BY <1>2, TotalsStand
<1>4. LinesHaveOrders' BY <1>1, RowsAre DEF ProcInv, OrdersInv, LinesHaveOrders, LineRows
<1>5. TotalsAreLines' BY <1>1,<1>3 DEF ProcInv, OrdersInv, TotalsAreLines
<1>6. NothingEarly' BY <1>1,<1>2 DEF ProcInv, OrdersInv, NothingEarly, Unapproved
<1>7. SubmittedHasLine' BY <1>1,<1>2 DEF ProcInv, OrdersInv, SubmittedHasLine, Submitted
<1>8. ReceivedIsAll'
 <2> SUFFICES ASSUME NEW q \in Orders, Submitted(q)', ~Unapproved(q)'
   PROVE (order'[q].status = "RECEIVED") = (\A l \in LinesOf(q) : line[l].received = line[l].ordered) BY <1>2 DEF ReceivedIsAll
 <2>1. CASE q = o BY <1>1,<2>1 DEF Submitted, Unapproved
 <2>2. CASE q # o BY <1>1,<2>2 DEF Submitted, Unapproved, ProcInv, OrdersInv, ReceivedIsAll
 <2> QED BY <2>1,<2>2
<1> QED BY <1>1,<1>4,<1>5,<1>6,<1>7,<1>8 DEF ProcInv, OrdersInv

LEMMA CreateKeeps == ASSUME ProcInv, NEW o \in Orders, CreatePurchaseOrder(o) PROVE OrdersInv'
<1> USE ProcFacts
<1> PICK new : new = [status |-> "DRAFT", total |-> 0] OBVIOUS
<1>1. LinesOf(o) = {} BY RowsAre DEF CreatePurchaseOrder, LinesOf, ProcInv, OrdersInv, LinesHaveOrders
<1>2. Total(o) = 0 BY <1>1, EmptySum DEF Total
<1>3. order' = [order EXCEPT ![o] = new] /\ UNCHANGED line BY DEF CreatePurchaseOrder
<1>4. new \in OrderRows BY DEF OrderRows
<1> QED BY <1>1,<1>2,<1>3,<1>4, OrderMoves

LEMMA RequestKeeps == ASSUME ProcInv, NEW o \in Orders, RequestPurchaseOrderApproval(o) PROVE OrdersInv'
<1> USE ProcFacts
<1>1. order[o] # Absent /\ order[o].status = "DRAFT" /\ order[o].total > 0 /\ UNCHANGED line BY DEF RequestPurchaseOrderApproval
<1> PICK old \in OrderRows : old = order[o] BY <1>1, RowsAre
<1> PICK new : new = [old EXCEPT !.status = "PENDING_APPROVAL"] OBVIOUS
<1>2. new \in OrderRows /\ new.status = "PENDING_APPROVAL" /\ new.total = old.total BY DEF OrderRows
<1>3. order' = [order EXCEPT ![o] = new] BY DEF RequestPurchaseOrderApproval, ProcInv, OrdersInv
<1>4. old.total = Total(o) BY <1>1 DEF ProcInv, OrdersInv, TotalsAreLines
<1>5. LinesOf(o) # {}
 <2>1. LinesOf(o) = {} => Total(o) = 0 BY EmptySum DEF Total
 <2> QED BY <1>1,<1>4,<2>1
<1>6. \A l \in LinesOf(o) : line[l].received = 0 BY <1>1 DEF ProcInv, OrdersInv, NothingEarly, Unapproved
<1> QED BY <1>1,<1>2,<1>3,<1>4,<1>5,<1>6, OrderMoves

LEMMA ApproveKeeps == ASSUME ProcInv, NEW o \in Orders, ApprovePurchaseOrder(o) PROVE OrdersInv'
<1> USE ProcFacts
<1>1. order[o] # Absent /\ order[o].status = "PENDING_APPROVAL" /\ UNCHANGED line BY DEF ApprovePurchaseOrder
<1> PICK old \in OrderRows : old = order[o] BY <1>1, RowsAre
<1> PICK new : new = [old EXCEPT !.status = "APPROVED"] OBVIOUS
<1>2. new \in OrderRows /\ new.status = "APPROVED" /\ new.total = old.total BY DEF OrderRows
<1>3. order' = [order EXCEPT ![o] = new] BY DEF ApprovePurchaseOrder, ProcInv, OrdersInv
<1>4. old.total = Total(o) BY <1>1 DEF ProcInv, OrdersInv, TotalsAreLines
<1>5. LinesOf(o) # {} BY <1>1 DEF ProcInv, OrdersInv, SubmittedHasLine, Submitted
<1>6. \A l \in LinesOf(o) : line[l].received = 0 BY <1>1 DEF ProcInv, OrdersInv, NothingEarly, Unapproved
<1>7. \A l \in LinesOf(o) : line[l].ordered > 0 BY RowsAre DEF LineRows
<1>8. ~ \A l \in LinesOf(o) : line[l].received = line[l].ordered BY <1>5,<1>6,<1>7
<1> QED BY <1>1,<1>2,<1>3,<1>4,<1>5,<1>8, OrderMoves

LEMMA AddLineKeeps ==
  ASSUME ProcInv, NEW o \in Orders, NEW l \in Lines, NEW i \in Items, NEW q \in Quantities, NEW c \in Costs, AddPurchaseOrderLine(o, l, i, q, c)
  PROVE OrdersInv' /\ LinesCameIn' /\ MovesHaveLines'
<1> USE ProcFacts
<1>1. order[o] # Absent /\ order[o].status = "DRAFT" /\ line[l] = Absent BY DEF AddPurchaseOrderLine
<1> PICK new : new = [status |-> "line", order |-> o, item |-> i, ordered |-> q, received |-> 0, cost |-> c] OBVIOUS
<1>2. new \in LineRows /\ new # Absent BY DEF LineRows
<1>3. line'[l] = new /\ (\A m \in Lines \ {l} : line'[m] = line[m]) /\ line' \in [Lines -> {Absent} \cup LineRows]
  BY <1>2 DEF AddPurchaseOrderLine, ProcInv, OrdersInv
<1> PICK old \in OrderRows : old = order[o] BY <1>1, RowsAre
<1> PICK price \in Nat : price = q * c OBVIOUS
<1> PICK total \in Nat : total = Total(o) + price BY TotalIsNat
<1> PICK entry : entry = [old EXCEPT !.total = total] OBVIOUS
<1>4. entry \in OrderRows /\ entry.status = "DRAFT" /\ entry.total = total BY <1>1 DEF OrderRows
<1>5. order'[o] = entry /\ (\A p \in Orders \ {o} : order'[p] = order[p]) /\ order' \in [Orders -> {Absent} \cup OrderRows]
  BY <1>4 DEF AddPurchaseOrderLine, ProcInv, OrdersInv
<1>6. LinesOf(o)' = LinesOf(o) \cup {l} /\ l \notin LinesOf(o) /\ \A p \in Orders \ {o} : LinesOf(p)' = LinesOf(p) BY <1>1,<1>2,<1>3 DEF LinesOf
<1>7. Total(o)' = total
 <2> PICK f : f = [m \in LinesOf(o) |-> line[m].ordered * line[m].cost] OBVIOUS
 <2> PICK g : g = [m \in LinesOf(o)' |-> line'[m].ordered * line'[m].cost] OBVIOUS
 <2>1. DOMAIN f = LinesOf(o) /\ DOMAIN g = LinesOf(o)' /\ DOMAIN f \subseteq Lines /\ DOMAIN g \subseteq Lines BY DEF LinesOf
 <2>2. \A m \in DOMAIN f : f[m] \in Int BY RowsAre
 <2>3. g[l] = price BY <1>3,<1>6,<2>1
 <2>4. \A m \in LinesOf(o) : g[m] = f[m] /\ m # l BY <1>3,<1>6,<2>1
 <2>5. \A m \in DOMAIN g : g[m] \in Int BY <1>6,<2>1,<2>2,<2>3,<2>4
 <2>6. \A m \in Lines \ {l} : (m \in DOMAIN f <=> m \in DOMAIN g) /\ (m \in DOMAIN f => f[m] = g[m]) BY <1>6,<2>1,<2>4
 <2>7. SumFunction(g) = SumFunction(f) - (IF l \in DOMAIN f THEN f[l] ELSE 0) + (IF l \in DOMAIN g THEN g[l] ELSE 0)
  <3>1. DOMAIN f \subseteq Lines /\ DOMAIN g \subseteq Lines /\ IsFiniteSet(Lines) BY <2>1
  <3> QED BY ONLY <2>2,<2>5,<2>6,<3>1, SumChanges
 <2>8. SumFunction(f) \in Int BY <2>1,<2>2, SumOfPart
 <2>9. SumFunction(g) = SumFunction(f) + price BY <1>6,<2>1,<2>3,<2>7,<2>8
 <2> QED BY <2>9 DEF Total
<1>8. \A p \in Orders \ {o} : Total(p)' = Total(p)
 <2>1. \A p \in Orders \ {o} : \A m \in LinesOf(p) : line'[m] = line[m] BY <1>1,<1>3,<1>6 DEF LinesOf
 <2> QED BY <1>6,<2>1, TotalsStand
<1>9. LinesHaveOrders' BY <1>1,<1>2,<1>3,<1>4,<1>5, RowsAre DEF ProcInv, OrdersInv, LinesHaveOrders, LineRows
<1>10. TotalsAreLines' BY <1>4,<1>5,<1>7,<1>8 DEF ProcInv, OrdersInv, TotalsAreLines
<1>11. NothingEarly'
 <2> SUFFICES ASSUME NEW p \in Orders, Unapproved(p)', NEW m \in LinesOf(p)' PROVE line'[m].received = 0 BY DEF NothingEarly
 <2>1. CASE m = l BY <1>3,<2>1
 <2>2. CASE m # l
  <3>1. m \in LinesOf(p) /\ line'[m] = line[m] BY <1>3,<1>6,<2>2 DEF LinesOf
  <3>2. Unapproved(p) BY <1>1,<1>5 DEF Unapproved
  <3> QED BY <3>1,<3>2 DEF ProcInv, OrdersInv, NothingEarly
 <2> QED BY <2>1,<2>2
<1>12. SubmittedHasLine' BY <1>4,<1>5,<1>6 DEF ProcInv, OrdersInv, SubmittedHasLine, Submitted
<1>13. ReceivedIsAll'
 <2> SUFFICES ASSUME NEW p \in Orders, Submitted(p)', ~Unapproved(p)'
   PROVE (order'[p].status = "RECEIVED") = (\A m \in LinesOf(p)' : line'[m].received = line'[m].ordered) BY DEF ReceivedIsAll
 <2>1. p # o BY <1>4,<1>5 DEF Submitted
 <2>2. LinesOf(p)' = LinesOf(p) /\ \A m \in LinesOf(p) : line'[m] = line[m] BY <1>1,<1>3,<1>6,<2>1 DEF LinesOf
 <2>3. order'[p] = order[p] /\ Submitted(p) /\ ~Unapproved(p) BY <1>5,<2>1 DEF Submitted, Unapproved
 <2>4. (\A m \in LinesOf(p)' : line'[m].received = line'[m].ordered) <=> (\A m \in LinesOf(p) : line[m].received = line[m].ordered) BY <2>2
 <2>5. (order[p].status = "RECEIVED") = (\A m \in LinesOf(p) : line[m].received = line[m].ordered) BY <2>3 DEF ProcInv, OrdersInv, ReceivedIsAll
 <2> QED BY <2>3,<2>4,<2>5
<1>14. OrdersInv' BY <1>3,<1>5,<1>9,<1>10,<1>11,<1>12,<1>13 DEF OrdersInv
<1>15. movement' = movement BY DEF AddPurchaseOrderLine, stockVars
<1>16. MovesHaveLines'
 <2>1. Moved' = Moved BY <1>15 DEF Moved
 <2> QED BY <1>1,<1>2,<1>3,<1>15,<2>1 DEF ProcInv, MovesHaveLines
<1>17. LinesCameIn'
 <2> SUFFICES ASSUME NEW m \in Lines, line'[m] # Absent PROVE line'[m].received = SumFunction([k \in ReceivedBy(m)' |-> movement'[k].delta])
   BY DEF LinesCameIn
 <2>1. ReceivedBy(m)' = ReceivedBy(m) BY <1>15 DEF ReceivedBy, Moved
 <2>2. CASE m = l
  <3>1. ReceivedBy(l) = {} BY <1>1 DEF ProcInv, MovesHaveLines, ReceivedBy
  <3>2. SumFunction([k \in ReceivedBy(m)' |-> movement'[k].delta]) = 0 BY <2>1,<2>2,<3>1, EmptySum
  <3> QED BY <1>3,<2>2,<3>2
 <2>3. CASE m # l BY <1>3,<1>15,<2>1,<2>3 DEF ProcInv, LinesCameIn
 <2> QED BY <2>2,<2>3
<1> QED BY <1>14,<1>16,<1>17

(* Stock. The nearest whole average of x over a is off by half of a at most. *)
LEMMA Nearest == ASSUME NEW x \in Nat, NEW a \in Nat \ {0}, NEW q, q = (2 * x + a) \div (2 * a) PROVE q \in Nat /\ 2 * (a * q - x) \in -a..a
<1>1. q \in Nat /\ (2 * a) * q <= 2 * x + a /\ 2 * x + a < (2 * a) * (q + 1) OBVIOUS
<1> PICK p \in Nat : p = a * q BY <1>1
<1>2. (2 * a) * q = 2 * p /\ (2 * a) * (q + 1) = 2 * p + 2 * a BY <1>1
<1> QED BY <1>1,<1>2

LEMMA ProductGrows == ASSUME NEW a \in Nat, NEW b \in Nat, NEW d \in Nat PROVE (a + 1) * (b + d) >= a * b + b + d
<1>1. (a + 1) * (b + d) = a * b + a * d + b + d OBVIOUS
<1>2. a * d >= 0 OBVIOUS
<1> QED BY <1>1,<1>2

LEMMA DriftsAdd ==
  ASSUME NEW y \in Int, NEW x \in Int, NEW m \in Int, NEW v \in Int, NEW a \in Int, NEW b \in Int, NEW c \in Int,
      2 * (y - (x + m)) \in -a..a, 2 * (x - v) \in -b..b, c >= b + a
  PROVE 2 * (y - (v + m)) \in -c..c OBVIOUS

LEMMA StockMoves ==
  ASSUME ProcInv, NEW k \in StockKeys, k \notin Moved, NEW new \in MovementRows, movement' = [movement EXCEPT ![k] = new],
      NEW i \in Items, new.item = i, stock[i].qty + new.delta >= 0,
      NEW avg, stock' = [stock EXCEPT ![i] = [qty |-> stock[i].qty + new.delta, avg |-> avg]],
      \/ /\ new.delta < 0 \/ new.type = "ADJUSTMENT"
         /\ avg = stock[i].avg /\ new.cost = avg
      \/ new.delta > 0 /\ new.type # "ADJUSTMENT" /\ avg = Averaged(stock[i], new.delta, new.cost)
  PROVE StockInv'
<1> USE ProcFacts
<1>1. /\ movement'[k] = new /\ (\A m \in StockKeys \ {k} : movement'[m] = movement[m])
      /\ movement' \in [StockKeys -> {NoMovement} \cup MovementRows] /\ movement[k] = NoMovement BY DEF ProcInv, StockInv, Moved
<1>2. Moved' = Moved \cup {k} BY <1>1 DEF Moved
<1>3. MovedOf(i)' = MovedOf(i) \cup {k} /\ k \notin MovedOf(i) /\ \A j \in Items \ {i} : MovedOf(j)' = MovedOf(j) /\ k \notin MovedOf(j)
  BY <1>1,<1>2 DEF MovedOf, Moved
<1>4. \A j \in Items : MovedOf(j) \subseteq StockKeys /\ \A m \in MovedOf(j) : movement[m] \in MovementRows /\ movement'[m] = movement[m]
  BY <1>1,<1>3 DEF MovedOf, Moved, ProcInv, StockInv
<1>5. \A j \in Items : \A m \in MovedOf(j) : movement[m].delta \in Int /\ movement[m].cost \in Nat /\ movement[m].delta * movement[m].cost \in Int
  BY <1>4 DEF MovementRows
<1>6. new.delta \in Int /\ new.cost \in Nat BY DEF MovementRows
<1> PICK d \in Int : d = new.delta BY <1>6
<1> PICK c \in Nat : c = new.cost BY <1>6
<1> PICK in \in Nat : in = IF d > 0 THEN d ELSE 0 OBVIOUS
<1>7. \A j \in Items \ {i} : QuantityOf(j)' = QuantityOf(j) /\ ValueOf(j)' = ValueOf(j) /\ CameIn(j)' = CameIn(j) /\ Averagings(j)' = Averagings(j)
 <2> TAKE j \in Items \ {i}
 <2> PICK ms : ms = MovedOf(j) OBVIOUS
 <2>1. MovedOf(j)' = ms /\ \A m \in ms : movement'[m] = movement[m] BY <1>3,<1>4
 <2>2. [m \in ms |-> movement'[m].delta] = [m \in ms |-> movement[m].delta] BY <2>1
 <2>3. [m \in ms |-> movement'[m].delta * movement'[m].cost] = [m \in ms |-> movement[m].delta * movement[m].cost] BY <2>1
 <2>4. [m \in ms |-> IF movement'[m].delta > 0 THEN movement'[m].delta ELSE 0] = [m \in ms |-> IF movement[m].delta > 0 THEN movement[m].delta ELSE 0]
   BY <2>1
 <2>5. {m \in ms : movement'[m].type # "ADJUSTMENT" /\ movement'[m].delta > 0} = {m \in ms : movement[m].type # "ADJUSTMENT" /\ movement[m].delta > 0}
   BY <2>1
 <2>6. QuantityOf(j)' = QuantityOf(j) BY <2>1,<2>2 DEF QuantityOf
 <2>7. ValueOf(j)' = ValueOf(j) BY <2>1,<2>3 DEF ValueOf
 <2>8. CameIn(j)' = CameIn(j) BY <2>1,<2>4 DEF CameIn
 <2>9. Averagings(j)' = Averagings(j) BY <2>1,<2>5 DEF Averagings
 <2> QED BY <2>6,<2>7,<2>8,<2>9
<1>k. k \in StockKeys OBVIOUS
<1>fin. IsFiniteSet(StockKeys) /\ MovedOf(i) \subseteq StockKeys BY <1>4
<1>8. QuantityOf(i)' = QuantityOf(i) + d /\ QuantityOf(i) \in Int
 <2> PICK f : f = [m \in MovedOf(i) |-> movement[m].delta] OBVIOUS
 <2> PICK g : g = [m \in MovedOf(i)' |-> movement'[m].delta] OBVIOUS
 <2>1. DOMAIN f \subseteq StockKeys /\ k \notin DOMAIN f /\ DOMAIN g = DOMAIN f \cup {k} /\ g[k] = d /\ g[k] \in Int BY <1>1,<1>3,<1>fin
 <2>2. \A m \in DOMAIN f : f[m] \in Int /\ g[m] = f[m] BY <1>3,<1>4,<1>5
 <2>3. SumFunction(g) = SumFunction(f) + g[k] /\ SumFunction(f) \in Int BY ONLY <1>fin,<1>k,<2>1,<2>2, SumExtends
 <2> QED BY <2>1,<2>3 DEF QuantityOf
<1>9. ValueOf(i)' = ValueOf(i) + d * c /\ ValueOf(i) \in Int
 <2> PICK f : f = [m \in MovedOf(i) |-> movement[m].delta * movement[m].cost] OBVIOUS
 <2> PICK g : g = [m \in MovedOf(i)' |-> movement'[m].delta * movement'[m].cost] OBVIOUS
 <2>0. d * c \in Int OBVIOUS
 <2>1. DOMAIN f \subseteq StockKeys /\ k \notin DOMAIN f /\ DOMAIN g = DOMAIN f \cup {k} /\ g[k] = d * c /\ g[k] \in Int BY <1>1,<1>3,<1>fin,<2>0
 <2>2. \A m \in DOMAIN f : f[m] \in Int /\ g[m] = f[m] BY <1>3,<1>4,<1>5
 <2>3. SumFunction(g) = SumFunction(f) + g[k] /\ SumFunction(f) \in Int BY ONLY <1>fin,<1>k,<2>1,<2>2, SumExtends
 <2> QED BY <2>1,<2>3 DEF ValueOf
<1>10. CameIn(i)' = CameIn(i) + in /\ CameIn(i) \in Nat
 <2> PICK f : f = [m \in MovedOf(i) |-> IF movement[m].delta > 0 THEN movement[m].delta ELSE 0] OBVIOUS
 <2> PICK g : g = [m \in MovedOf(i)' |-> IF movement'[m].delta > 0 THEN movement'[m].delta ELSE 0] OBVIOUS
 <2>1. DOMAIN f \subseteq StockKeys /\ k \notin DOMAIN f /\ DOMAIN g = DOMAIN f \cup {k} /\ g[k] = in /\ g[k] \in Int BY <1>1,<1>3,<1>fin
 <2>2. \A m \in DOMAIN f : f[m] \in Nat /\ f[m] \in Int /\ g[m] = f[m] BY <1>3,<1>4,<1>5
 <2>3. SumFunction(g) = SumFunction(f) + g[k] BY ONLY <1>fin,<1>k,<2>1,<2>2, SumExtends
 <2>4. SumFunction(f) \in Nat BY <1>fin,<2>1,<2>2, SumOfPart
 <2> QED BY <2>1,<2>3,<2>4 DEF CameIn
<1> PICK one \in {0, 1} : one = IF new.type # "ADJUSTMENT" /\ d > 0 THEN 1 ELSE 0 OBVIOUS
<1>11. Averagings(i)' = Averagings(i) + one /\ Averagings(i) \in Nat
 <2> PICK ms : ms = {m \in MovedOf(i) : movement[m].type # "ADJUSTMENT" /\ movement[m].delta > 0} OBVIOUS
 <2> PICK ns : ns = {m \in MovedOf(i)' : movement'[m].type # "ADJUSTMENT" /\ movement'[m].delta > 0} OBVIOUS
 <2>1. ms \subseteq StockKeys /\ k \notin ms BY <1>3,<1>4
 <2>2. IsFiniteSet(ms) BY <2>1, FS_Subset
 <2>3. Cardinality(ms) \in Nat BY <2>2, FS_CardinalityType
 <2>4. ns = IF one = 1 THEN ms \cup {k} ELSE ms BY <1>1,<1>3,<1>4
 <2>5. Cardinality(ns) = Cardinality(ms) + one
  <3>1. CASE one = 1
   <4>1. Cardinality(ms \cup {k}) = Cardinality(ms) + 1 BY <2>1,<2>2, FS_AddElement
   <4> QED BY <2>4,<3>1,<4>1
  <3>2. CASE one = 0
   <4>1. ns = ms BY <2>4,<3>2
   <4>2. Cardinality(ms) + 0 = Cardinality(ms) BY ONLY <2>3
   <4> QED BY ONLY <3>2,<4>1,<4>2
  <3> QED BY <3>1,<3>2
 <2> QED BY <2>3,<2>5 DEF Averagings
<1>12. stock[i] \in [qty : Nat, avg : Nat] /\ stock[i].qty = QuantityOf(i) /\ stock[i].qty <= CameIn(i)
       /\ 2 * (stock[i].qty * stock[i].avg - ValueOf(i)) \in -(Averagings(i) * CameIn(i))..Averagings(i) * CameIn(i)
  BY DEF ProcInv, StockInv, StockIsItsMovements
<1> PICK Q \in Nat, P \in Nat, I \in Nat, A \in Nat, V \in Int :
      Q = stock[i].qty /\ P = stock[i].avg /\ I = CameIn(i) /\ A = Averagings(i) /\ V = ValueOf(i) BY <1>9,<1>10,<1>11,<1>12
<1> PICK after \in Nat : after = Q + d BY <1>12
<1>13. Q <= I /\ after <= I + in BY <1>12
<1>14. avg \in Nat /\ 2 * (after * avg - (V + d * c)) \in -((A + one) * (I + in))..(A + one) * (I + in)
 <2> PICK B \in Nat : B = A * I OBVIOUS
 <2>0. 2 * (Q * P - V) \in -B..B BY <1>12
 <2> PICK QP \in Nat : QP = Q * P OBVIOUS
 <2> PICK dc \in Int : dc = d * c OBVIOUS
 <2>1. CASE /\ new.delta < 0 \/ new.type = "ADJUSTMENT"
            /\ avg = stock[i].avg /\ new.cost = avg
  <3>1. avg = P /\ c = P /\ one = 0 BY <2>1
  <3>2. after * avg = QP + dc BY <3>1
  <3>3. B <= (A + one) * (I + in)
   <4>1. A * I <= A * (I + in) OBVIOUS
   <4> QED BY <3>1,<4>1
  <3> QED BY <2>0,<3>1,<3>2,<3>3
 <2>2. CASE new.delta > 0 /\ new.type # "ADJUSTMENT" /\ avg = Averaged(stock[i], new.delta, new.cost)
  <3>1. d > 0 /\ one = 1 /\ in = d /\ after > 0 BY <2>2
  <3> PICK x \in Nat : x = QP + dc
   <4>1. d * c \in Nat BY <3>1
   <4> QED BY <4>1
  <3>2. avg = (2 * x + after) \div (2 * after) BY <2>2,<3>1 DEF Averaged
  <3>3. avg \in Nat /\ 2 * (after * avg - x) \in -after..after BY <3>1,<3>2, Nearest
  <3>4. (A + one) * (I + in) >= B + after
   <4>1. (A + 1) * (I + d) >= A * I + I + d BY <3>1, ProductGrows
   <4> QED BY <1>13,<3>1,<4>1
  <3> PICK y \in Nat : y = after * avg BY <3>3
  <3> PICK C \in Int : C = (A + one) * (I + in) BY <3>1
  <3>5. 2 * (y - (QP + dc)) \in -after..after BY <3>3
  <3>6. 2 * (QP - V) \in -B..B BY <2>0
  <3>7. C >= B + after BY <3>4
  <3>8. 2 * (y - (V + dc)) \in -C..C BY ONLY <3>5,<3>6,<3>7, DriftsAdd
  <3> QED BY <3>3,<3>8
 <2> QED BY <2>1,<2>2
<1>15. stock'[i] = [qty |-> after, avg |-> avg] /\ (\A j \in Items \ {i} : stock'[j] = stock[j]) /\ stock' \in [Items -> [qty : Nat, avg : Nat]]
  BY <1>14 DEF ProcInv, StockInv
<1>16. /\ stock'[i].qty = QuantityOf(i)' /\ stock'[i].qty <= CameIn(i)'
       /\ 2 * (stock'[i].qty * stock'[i].avg - ValueOf(i)') \in -(Averagings(i)' * CameIn(i)')..Averagings(i)' * CameIn(i)'
  BY <1>8,<1>9,<1>10,<1>11,<1>12,<1>13,<1>14,<1>15
<1>17. StockIsItsMovements' BY <1>7,<1>15,<1>16 DEF StockIsItsMovements, ProcInv, StockInv
<1>18. \A j \in Items : stock'[j].qty <= CameIn(j)' BY <1>7,<1>15,<1>16 DEF ProcInv, StockInv
<1> QED BY <1>1,<1>15,<1>17,<1>18 DEF StockInv

(* A movement of no line leaves what every line has received; one of a line adds to it. *)
LEMMA OthersReceived ==
  ASSUME ProcInv, NEW k \in StockKeys, k \notin Moved, NEW new \in MovementRows, movement' = [movement EXCEPT ![k] = new],
      NEW l \in Lines, new.line # l
  PROVE SumFunction([m \in ReceivedBy(l)' |-> movement'[m].delta]) = SumFunction([m \in ReceivedBy(l) |-> movement[m].delta])
<1> USE ProcFacts
<1>1. movement'[k] = new /\ (\A m \in StockKeys \ {k} : movement'[m] = movement[m]) /\ movement[k] = NoMovement BY DEF ProcInv, StockInv, Moved
<1> PICK ms : ms = ReceivedBy(l) OBVIOUS
<1>2. ReceivedBy(l)' = ms /\ \A m \in ms : movement'[m] = movement[m] BY <1>1 DEF ReceivedBy, Moved
<1>3. [m \in ms |-> movement'[m].delta] = [m \in ms |-> movement[m].delta] BY <1>2
<1> QED BY <1>2,<1>3

LEMMA LineReceived ==
  ASSUME ProcInv, NEW k \in StockKeys, k \notin Moved, NEW new \in MovementRows, movement' = [movement EXCEPT ![k] = new],
      NEW l \in Lines, new.line = l
  PROVE SumFunction([m \in ReceivedBy(l)' |-> movement'[m].delta]) = SumFunction([m \in ReceivedBy(l) |-> movement[m].delta]) + new.delta
<1> USE ProcFacts
<1>1. movement'[k] = new /\ (\A m \in StockKeys \ {k} : movement'[m] = movement[m]) /\ movement[k] = NoMovement BY DEF ProcInv, StockInv, Moved
<1>2. ReceivedBy(l)' = ReceivedBy(l) \cup {k} /\ k \notin ReceivedBy(l) /\ ReceivedBy(l) \subseteq StockKeys
      /\ \A m \in ReceivedBy(l) : movement'[m] = movement[m] /\ movement[m] \in MovementRows BY <1>1 DEF ReceivedBy, Moved, ProcInv, StockInv
<1>3. new.delta \in Int BY DEF MovementRows
<1> PICK f : f = [m \in ReceivedBy(l) |-> movement[m].delta] OBVIOUS
<1> PICK g : g = [m \in ReceivedBy(l)' |-> movement'[m].delta] OBVIOUS
<1>4. DOMAIN f \subseteq StockKeys /\ k \notin DOMAIN f /\ DOMAIN g = DOMAIN f \cup {k} /\ g[k] = new.delta /\ g[k] \in Int BY <1>1,<1>2,<1>3
<1>5. \A m \in DOMAIN f : f[m] \in Int /\ g[m] = f[m] BY <1>2 DEF MovementRows
<1>6. IsFiniteSet(StockKeys) /\ k \in StockKeys OBVIOUS
<1>7. SumFunction(g) = SumFunction(f) + g[k] BY ONLY <1>4,<1>5,<1>6, SumExtends
<1> QED BY <1>4,<1>7

LEMMA PostKeeps ==
  ASSUME ProcInv, NEW k \in StockKeys, NEW i \in Items, NEW type \in Types, NEW delta \in Int, NEW supplied \in Costs,
      PostStockMovement(k, i, type, delta, supplied), delta # 0
  PROVE StockInv' /\ LinesCameIn' /\ MovesHaveLines'
<1> USE ProcFacts
<1>0. stock[i] \in [qty : Nat, avg : Nat] BY DEF ProcInv, StockInv
<1> PICK cost \in Nat : cost = IF delta < 0 \/ type = "ADJUSTMENT" THEN stock[i].avg ELSE supplied BY <1>0
<1> PICK new : new = [type |-> type, item |-> i, delta |-> delta, cost |-> cost, ref |-> NoOrder, line |-> NoOrder] OBVIOUS
<1> PICK avg : avg = IF delta > 0 /\ type # "ADJUSTMENT" THEN Averaged(stock[i], delta, cost) ELSE stock[i].avg OBVIOUS
<1>1. new \in MovementRows BY DEF MovementRows
<1>2. /\ k \notin Moved /\ stock[i].qty + delta >= 0 /\ movement' = [movement EXCEPT ![k] = new]
      /\ stock' = [stock EXCEPT ![i] = [qty |-> stock[i].qty + delta, avg |-> avg]] /\ UNCHANGED <<order, line>> BY DEF PostStockMovement, orderVars
<1>3. \/ /\ new.delta < 0 \/ new.type = "ADJUSTMENT"
         /\ avg = stock[i].avg /\ new.cost = avg
      \/ new.delta > 0 /\ new.type # "ADJUSTMENT" /\ avg = Averaged(stock[i], new.delta, new.cost) OBVIOUS
<1>4. new.item = i /\ new.delta = delta /\ new.line = NoOrder OBVIOUS
<1>5. StockInv' BY <1>1,<1>2,<1>3,<1>4, StockMoves
<1>6. LinesCameIn'
 <2> SUFFICES ASSUME NEW l \in Lines, line[l] # Absent PROVE line[l].received = SumFunction([m \in ReceivedBy(l)' |-> movement'[m].delta])
   BY <1>2 DEF LinesCameIn
 <2>1. new.line # l BY <1>4
 <2>2. SumFunction([m \in ReceivedBy(l)' |-> movement'[m].delta]) = SumFunction([m \in ReceivedBy(l) |-> movement[m].delta])
   BY <1>1,<1>2,<2>1, OthersReceived
 <2> QED BY <2>2 DEF ProcInv, LinesCameIn
<1>7. MovesHaveLines'
 <2>1. \A m \in Moved' : m # k => m \in Moved /\ movement'[m] = movement[m] BY <1>2 DEF Moved, ProcInv, StockInv
 <2>2. movement'[k] = new BY <1>2 DEF ProcInv, StockInv
 <2> QED BY <1>2,<1>4,<2>1,<2>2 DEF MovesHaveLines, ProcInv
<1> QED BY <1>5,<1>6,<1>7

LEMMA ReceiveKeeps ==
  ASSUME ProcInv, NEW o \in Orders, NEW l \in Lines, NEW q \in Quantities, NEW k \in StockKeys, ReceivePurchaseOrderLine(o, l, q, k)
  PROVE OrdersInv' /\ StockInv' /\ LinesCameIn' /\ MovesHaveLines'
<1> USE ProcFacts
<1>1. /\ k \notin Moved /\ order[o] # Absent /\ order[o].status \in {"APPROVED", "PARTIALLY_RECEIVED"}
      /\ l \in LinesOf(o) /\ q <= line[l].ordered - line[l].received BY DEF ReceivePurchaseOrderLine
<1> PICK old \in LineRows : old = line[l] BY <1>1, RowsAre
<1>2. /\ old.order = o /\ old.item \in Items /\ old.cost \in Nat /\ old.ordered \in Nat /\ old.received \in Nat /\ line[l] # Absent
      /\ old.cost \in Costs /\ old.ordered \in Quantities BY <1>1, RowsAre DEF LineRows, LinesOf
<1> PICK i \in Items : i = old.item BY <1>2
<1> PICK now \in Nat : now = old.received + q BY <1>2
<1>3. now <= old.ordered BY <1>1,<1>2
<1> PICK new : new = [type |-> "RECEIPT", item |-> i, delta |-> q, cost |-> old.cost, ref |-> o, line |-> l] OBVIOUS
<1> PICK avg : avg = Averaged(stock[i], q, old.cost) OBVIOUS
<1> PICK changed : changed = [old EXCEPT !.received = now] OBVIOUS
<1>4. new \in MovementRows BY <1>2 DEF MovementRows, Types
<1>5. /\ changed \in LineRows /\ changed.order = o /\ changed.received = now /\ changed.ordered = old.ordered /\ changed.cost = old.cost
      /\ changed.item = i BY <1>2 DEF LineRows
<1> PICK received : received = [m \in LinesOf(o) |-> line[m].received + (IF m = l THEN q ELSE 0)] OBVIOUS
<1> PICK status : status = IF Complete(o, received) THEN "RECEIVED" ELSE "PARTIALLY_RECEIVED" OBVIOUS
<1>6. /\ movement' = [movement EXCEPT ![k] = new] /\ line' = [line EXCEPT ![l].received = received[l]]
      /\ order' = [order EXCEPT ![o].status = status]
      /\ stock' = [stock EXCEPT ![i] = [qty |-> @.qty + q, avg |-> Averaged(@, q, old.cost)]] BY DEF ReceivePurchaseOrderLine
<1>7. stock[i] \in [qty : Nat, avg : Nat] BY DEF ProcInv, StockInv
<1>8. stock' = [stock EXCEPT ![i] = [qty |-> stock[i].qty + q, avg |-> avg]] BY <1>6 DEF ProcInv, StockInv
<1>9. StockInv'
 <2>1. new.item = i /\ new.delta = q /\ new.delta > 0 /\ new.type # "ADJUSTMENT" /\ new.cost = old.cost OBVIOUS
 <2>2. stock[i].qty + new.delta >= 0 BY <1>7,<2>1
 <2>3. avg = Averaged(stock[i], new.delta, new.cost) BY <2>1
 <2>4. stock' = [stock EXCEPT ![i] = [qty |-> stock[i].qty + new.delta, avg |-> avg]] BY <1>8,<2>1
 <2>5. \/ /\ new.delta < 0 \/ new.type = "ADJUSTMENT"
          /\ avg = stock[i].avg /\ new.cost = avg
       \/ new.delta > 0 /\ new.type # "ADJUSTMENT" /\ avg = Averaged(stock[i], new.delta, new.cost) BY <2>1,<2>3
 <2>6. movement' = [movement EXCEPT ![k] = new] /\ k \notin Moved /\ new.item = i /\ k \in StockKeys /\ i \in Items BY <1>1,<1>6
 <2> QED BY ONLY ProcInv, <1>4,<2>2,<2>4,<2>5,<2>6, StockMoves
<1>10. /\ line'[l] = changed /\ (\A m \in Lines \ {l} : line'[m] = line[m]) /\ line' \in [Lines -> {Absent} \cup LineRows]
 <2>1. received[l] = now BY <1>1
 <2>2. line' = [line EXCEPT ![l] = changed] BY <1>6,<2>1 DEF ProcInv, OrdersInv
 <2> QED BY <1>5,<2>2 DEF ProcInv, OrdersInv
<1>11. LinesCameIn'
 <2> SUFFICES ASSUME NEW n \in Lines, line'[n] # Absent PROVE line'[n].received = SumFunction([m \in ReceivedBy(n)' |-> movement'[m].delta])
   BY DEF LinesCameIn
 <2>1. CASE n = l
  <3>1. SumFunction([m \in ReceivedBy(l)' |-> movement'[m].delta]) = SumFunction([m \in ReceivedBy(l) |-> movement[m].delta]) + q
    BY <1>1,<1>4,<1>6, LineReceived
  <3>2. old.received = SumFunction([m \in ReceivedBy(l) |-> movement[m].delta]) BY <1>2 DEF ProcInv, LinesCameIn
  <3> QED BY <1>5,<1>10,<2>1,<3>1,<3>2
 <2>2. CASE n # l
  <3>1. new.line # n BY <2>2
  <3>2. SumFunction([m \in ReceivedBy(n)' |-> movement'[m].delta]) = SumFunction([m \in ReceivedBy(n) |-> movement[m].delta])
    BY <1>1,<1>4,<1>6,<3>1, OthersReceived
  <3> QED BY <1>10,<2>2,<3>2 DEF ProcInv, LinesCameIn
 <2> QED BY <2>1,<2>2
<1>12. MovesHaveLines'
 <2>1. \A m \in Moved' : m # k => m \in Moved /\ movement'[m] = movement[m] BY <1>6 DEF Moved, ProcInv, StockInv
 <2>2. movement'[k] = new /\ new.line = l BY <1>6 DEF ProcInv, StockInv
 <2>3. \A n \in Lines : line[n] # Absent => line'[n] # Absent BY <1>5,<1>10
 <2>4. line'[l] # Absent BY <1>5,<1>10
 <2> QED BY <2>1,<2>2,<2>3,<2>4 DEF MovesHaveLines, ProcInv
<1> PICK before \in OrderRows : before = order[o] BY <1>1, RowsAre
<1> PICK entry : entry = [before EXCEPT !.status = status] OBVIOUS
<1>13. status \in {"PARTIALLY_RECEIVED", "RECEIVED"} /\ entry \in OrderRows /\ entry.status = status /\ entry.total = before.total BY DEF OrderRows
<1>14. order'[o] = entry /\ (\A p \in Orders \ {o} : order'[p] = order[p]) /\ order' \in [Orders -> {Absent} \cup OrderRows]
  BY <1>6,<1>13 DEF ProcInv, OrdersInv
<1>15. \A m \in Lines : /\ line'[m] # Absent <=> line[m] # Absent
                        /\ line[m] # Absent => line'[m].order = line[m].order /\ line'[m].ordered = line[m].ordered /\ line'[m].cost = line[m].cost
  BY <1>2,<1>5,<1>10
<1>16. \A p \in Orders : LinesOf(p)' = LinesOf(p) BY <1>15 DEF LinesOf
<1>17. \A p \in Orders : Total(p)' = Total(p)
 <2>1. \A p \in Orders : \A m \in LinesOf(p) : line'[m].ordered = line[m].ordered /\ line'[m].cost = line[m].cost BY <1>15 DEF LinesOf
 <2> QED BY <1>16,<2>1, TotalsStand
<1>18. \A p \in Orders \ {o} : \A m \in LinesOf(p) : line'[m] = line[m] BY <1>2,<1>10 DEF LinesOf
<1>19. LinesHaveOrders'
 <2> SUFFICES ASSUME NEW m \in Lines, line'[m] # Absent PROVE order'[line'[m].order] # Absent /\ line'[m].received <= line'[m].ordered
   BY DEF LinesHaveOrders
 <2>1. line[m] # Absent /\ line'[m].order = line[m].order /\ line[m].order \in Orders BY <1>15, RowsAre DEF LineRows
 <2>2. order[line[m].order] # Absent /\ line[m].received <= line[m].ordered BY <2>1 DEF ProcInv, OrdersInv, LinesHaveOrders
 <2>3. order'[line'[m].order] # Absent BY <1>13,<1>14,<2>1,<2>2
 <2>4. line'[m].received <= line'[m].ordered BY <1>3,<1>5,<1>10,<2>2
 <2> QED BY <2>3,<2>4
<1>20. TotalsAreLines' BY <1>1,<1>13,<1>14,<1>17 DEF ProcInv, OrdersInv, TotalsAreLines
<1>21. NothingEarly'
 <2> SUFFICES ASSUME NEW p \in Orders, Unapproved(p)', NEW m \in LinesOf(p) PROVE line'[m].received = 0 BY <1>16 DEF NothingEarly
 <2>1. p # o BY <1>13,<1>14 DEF Unapproved
 <2>2. Unapproved(p) BY <1>14,<2>1 DEF Unapproved
 <2> QED BY <1>18,<2>1,<2>2 DEF ProcInv, OrdersInv, NothingEarly
<1>22. SubmittedHasLine' BY <1>1,<1>14,<1>16 DEF ProcInv, OrdersInv, SubmittedHasLine, Submitted
<1>23. Complete(o, received) <=> \A m \in LinesOf(o) : line'[m].received = line'[m].ordered
 <2> SUFFICES ASSUME NEW m \in LinesOf(o) PROVE (received[m] >= line[m].ordered) <=> (line'[m].received = line'[m].ordered) BY DEF Complete
 <2>1. CASE m = l
  <3>1. received[m] = now /\ line'[m].received = now /\ line'[m].ordered = old.ordered BY <1>1,<1>5,<1>10,<2>1
  <3> QED BY <1>2,<1>3,<2>1,<3>1
 <2>2. CASE m # l
  <3>1. m \in Lines /\ line[m] # Absent BY DEF LinesOf
  <3>2. line[m].received \in Nat /\ line[m].ordered \in Nat BY <3>1, RowsAre DEF LineRows
  <3>3. received[m] = line[m].received /\ line'[m] = line[m] BY <1>10,<2>2,<3>1,<3>2
  <3>4. line[m].received <= line[m].ordered BY <3>1 DEF ProcInv, OrdersInv, LinesHaveOrders
  <3> QED BY <3>2,<3>3,<3>4
 <2> QED BY <2>1,<2>2
<1>24. ReceivedIsAll'
 <2> SUFFICES ASSUME NEW p \in Orders, Submitted(p)', ~Unapproved(p)'
   PROVE (order'[p].status = "RECEIVED") <=> (\A m \in LinesOf(p) : line'[m].received = line'[m].ordered) BY <1>16 DEF ReceivedIsAll
 <2>1. CASE p = o
  <3>1. order'[p].status = status BY <1>13,<1>14,<2>1
  <3> QED BY <1>1,<1>23,<2>1,<3>1
 <2>2. CASE p # o
  <3>1. order'[p] = order[p] /\ Submitted(p) /\ ~Unapproved(p) BY <1>14,<2>2 DEF Submitted, Unapproved
  <3>2. (\A m \in LinesOf(p) : line'[m].received = line'[m].ordered) <=> (\A m \in LinesOf(p) : line[m].received = line[m].ordered) BY <1>18,<2>2
  <3>3. (order[p].status = "RECEIVED") = (\A m \in LinesOf(p) : line[m].received = line[m].ordered) BY <3>1 DEF ProcInv, OrdersInv, ReceivedIsAll
  <3> QED BY <3>1,<3>2,<3>3
 <2> QED BY <2>1,<2>2
<1>25. OrdersInv' BY <1>10,<1>14,<1>19,<1>20,<1>21,<1>22,<1>24 DEF OrdersInv
<1> QED BY <1>9,<1>11,<1>12,<1>25

(* Invoices of suppliers. What is unpaid of the others stands. *)
LEMMA OthersUnpaid ==
  ASSUME ProcInv, NEW b \in Bills, NEW new \in BillRows, bill' = [bill EXCEPT ![b] = new], PaidIsPaid,
      new.paid <= new.total, new.status = "PAID" <=> new.paid >= new.total
  PROVE  /\ bill'[b] = new /\ (\A x \in Bills \ {b} : bill'[x] = bill[x]) /\ bill' \in [Bills -> {Absent} \cup BillRows]
         /\ ApAging' = ApAging - (IF bill[b] # Absent THEN bill[b].total - bill[b].paid ELSE 0) + (new.total - new.paid) /\ ApAging \in Int
         /\ PaidIsPaid'
<1> USE ProcFacts
<1>1. bill'[b] = new /\ (\A x \in Bills \ {b} : bill'[x] = bill[x]) /\ bill' \in [Bills -> {Absent} \cup BillRows] BY DEF ProcInv, BillInv
<1>2. \A x \in Bills : bill[x] # Absent => bill[x].total \in Nat /\ bill[x].paid \in Nat /\ bill[x].paid <= bill[x].total
                       /\ (bill[x].status = "PAID" <=> bill[x].paid >= bill[x].total) BY DEF ProcInv, BillInv, BillRows, PayablesAgree, PaidIsPaid
<1>3. new # Absent /\ new.total \in Nat /\ new.paid \in Nat BY DEF BillRows
<1> PICK f : f = [x \in Unpaid |-> bill[x].total - bill[x].paid] OBVIOUS
<1> PICK g : g = [x \in Unpaid' |-> bill'[x].total - bill'[x].paid] OBVIOUS
<1>4. DOMAIN f = Unpaid /\ DOMAIN g = Unpaid' /\ DOMAIN f \subseteq Bills /\ DOMAIN g \subseteq Bills BY DEF Unpaid
<1>5. \A x \in DOMAIN f : f[x] \in Int BY <1>2 DEF Unpaid
<1>6. \A x \in DOMAIN g : g[x] \in Int
 <2> SUFFICES ASSUME NEW x \in Unpaid' PROVE bill'[x].total - bill'[x].paid \in Int BY <1>4
 <2>1. CASE x = b BY <1>1,<1>3,<2>1
 <2>2. CASE x # b BY <1>1,<1>2,<2>2 DEF Unpaid
 <2> QED BY <2>1,<2>2
<1>7. \A x \in Bills \ {b} : (x \in DOMAIN f <=> x \in DOMAIN g) /\ (x \in DOMAIN f => f[x] = g[x]) BY <1>1,<1>4 DEF Unpaid
<1>8. SumFunction(g) = SumFunction(f) - (IF b \in DOMAIN f THEN f[b] ELSE 0) + (IF b \in DOMAIN g THEN g[b] ELSE 0)
 <2>1. IsFiniteSet(Bills) /\ b \in Bills /\ DOMAIN f \subseteq Bills /\ DOMAIN g \subseteq Bills BY <1>4
 <2> QED BY ONLY <1>5,<1>6,<1>7,<2>1, SumChanges
<1>9. (IF b \in DOMAIN f THEN f[b] ELSE 0) = (IF bill[b] # Absent THEN bill[b].total - bill[b].paid ELSE 0)
 <2>1. CASE bill[b] = Absent BY <1>4,<2>1 DEF Unpaid
 <2>2. CASE bill[b] # Absent
  <3>1. CASE bill[b].status = "PAID"
   <4>1. b \notin DOMAIN f /\ bill[b].total - bill[b].paid = 0 BY <1>2,<1>4,<2>2,<3>1 DEF Unpaid
   <4> QED BY <2>2,<4>1
  <3>2. CASE bill[b].status # "PAID" BY <1>4,<2>2,<3>2 DEF Unpaid
  <3> QED BY <3>1,<3>2
 <2> QED BY <2>1,<2>2
<1>10. (IF b \in DOMAIN g THEN g[b] ELSE 0) = new.total - new.paid
 <2>1. CASE new.status = "PAID"
  <3>1. b \notin DOMAIN g /\ new.total - new.paid = 0 BY <1>1,<1>3,<1>4,<2>1 DEF Unpaid
  <3> QED BY <3>1
 <2>2. CASE new.status # "PAID" BY <1>1,<1>3,<1>4,<2>2 DEF Unpaid
 <2> QED BY <2>1,<2>2
<1>11. SumFunction(f) \in Int
 <2>1. IsFiniteSet(Bills) /\ DOMAIN f \subseteq Bills BY <1>4
 <2> QED BY <1>5,<2>1, SumOfPart
<1>12. PaidIsPaid'
 <2> SUFFICES ASSUME NEW x \in Bills, bill'[x] # Absent
   PROVE bill'[x].paid \in Nat /\ (bill'[x].status = "PAID" <=> bill'[x].paid >= bill'[x].total) BY DEF PaidIsPaid
 <2>1. CASE x = b BY <1>1,<1>3,<2>1
 <2>2. CASE x # b BY <1>1,<1>2,<2>2
 <2> QED BY <2>1,<2>2
<1>13. ApAging = SumFunction(f) /\ ApAging' = SumFunction(g) BY DEF ApAging
<1> QED BY <1>1,<1>8,<1>9,<1>10,<1>11,<1>12,<1>13

LEMMA InvoiceKeeps ==
  ASSUME ProcInv, NEW b \in Bills, NEW o \in Orders \cup {NoOrder}, NEW total \in Amounts, CreateSupplierInvoice(b, o, total) PROVE BillInv'
<1> USE ProcFacts
<1> PICK new : new = [status |-> "RECEIVED", order |-> o, total |-> total, paid |-> 0] OBVIOUS
<1>1. new \in BillRows /\ new.total = total /\ new.paid = 0 /\ new.status = "RECEIVED" /\ total \in Nat \ {0} BY DEF BillRows
<1>2. bill[b] = Absent /\ bill' = [bill EXCEPT ![b] = new] /\ payable' = payable + total /\ billPayment' = billPayment BY DEF CreateSupplierInvoice
<1>3. new.paid <= new.total /\ (new.status = "PAID" <=> new.paid >= new.total) BY <1>1
<1>4. PaidIsPaid BY DEF ProcInv, BillInv
<1>5. /\ bill'[b] = new /\ (\A x \in Bills \ {b} : bill'[x] = bill[x]) /\ bill' \in [Bills -> {Absent} \cup BillRows]
      /\ ApAging' = ApAging - (IF bill[b] # Absent THEN bill[b].total - bill[b].paid ELSE 0) + (new.total - new.paid) /\ ApAging \in Int
      /\ PaidIsPaid' BY <1>1,<1>2,<1>3,<1>4, OthersUnpaid
<1>6. payable' = ApAging' /\ payable' \in Int BY <1>1,<1>2,<1>5 DEF ProcInv, BillInv, PayablesAgree
<1>7. \A x \in Bills : PaymentsOf(x)' = PaymentsOf(x) BY <1>2 DEF PaymentsOf
<1>8. ASSUME NEW x \in Bills, bill'[x] # Absent
  PROVE bill'[x].paid = SumFunction([k \in PaymentsOf(x)' |-> billPayment'[k].amount]) /\ bill'[x].paid <= bill'[x].total
 <2>1. CASE x = b
  <3>1. PaymentsOf(b) = {} BY <1>2 DEF ProcInv, BillInv, PaymentsKnow, PaymentsOf
  <3>2. SumFunction([k \in PaymentsOf(b) |-> billPayment[k].amount]) = 0 BY <3>1, EmptySum
  <3> QED BY <1>1,<1>2,<1>5,<1>7,<2>1,<3>2
 <2>2. CASE x # b BY <1>2,<1>5,<1>7,<1>8,<2>2 DEF ProcInv, BillInv, PayablesAgree
 <2> QED BY <2>1,<2>2
<1>9. PaymentsKnow' BY <1>1,<1>2,<1>5 DEF ProcInv, BillInv, PaymentsKnow
<1> QED BY <1>2,<1>5,<1>6,<1>8,<1>9 DEF ProcInv, BillInv, PayablesAgree

LEMMA PaymentKeeps ==
  ASSUME ProcInv, NEW k \in BillKeys, NEW b \in Bills, NEW amount \in Amounts, RecordSupplierInvoicePayment(k, b, amount) PROVE BillInv'
<1> USE ProcFacts
<1>1. billPayment[k] = Absent /\ bill[b] # Absent /\ amount <= bill[b].total - bill[b].paid /\ payable' = payable - amount
  BY DEF RecordSupplierInvoicePayment
<1> PICK old \in BillRows : old = bill[b] BY <1>1 DEF ProcInv, BillInv
<1>2. old.total \in Nat /\ old.paid \in Nat /\ amount \in Nat \ {0} BY DEF BillRows
<1> PICK paid \in Nat : paid = old.paid + amount BY <1>2
<1> PICK status \in {"PAID", "PARTIALLY_PAID"} : status = IF paid >= old.total THEN "PAID" ELSE "PARTIALLY_PAID" OBVIOUS
<1> PICK new : new = [old EXCEPT !.paid = paid, !.status = status] OBVIOUS
<1>3. new \in BillRows /\ new.paid = paid /\ new.status = status /\ new.total = old.total BY DEF BillRows
<1> PICK entry : entry = [status |-> "paid", bill |-> b, amount |-> amount] OBVIOUS
<1>4. entry \in PaymentRows /\ entry # Absent /\ entry.bill = b /\ entry.amount = amount BY DEF PaymentRows
<1>5. bill' = [bill EXCEPT ![b] = new] BY DEF RecordSupplierInvoicePayment, ProcInv, BillInv
<1>6. billPayment' = [billPayment EXCEPT ![k] = entry] BY DEF RecordSupplierInvoicePayment
<1>7. billPayment'[k] = entry /\ (\A m \in BillKeys \ {k} : billPayment'[m] = billPayment[m]) /\ billPayment' \in [BillKeys -> {Absent} \cup PaymentRows]
  BY <1>4,<1>6 DEF ProcInv, BillInv
<1>8. new.paid <= new.total /\ (new.status = "PAID" <=> new.paid >= new.total) BY <1>1,<1>2,<1>3
<1>9. PaidIsPaid BY DEF ProcInv, BillInv
<1>10. /\ bill'[b] = new /\ (\A x \in Bills \ {b} : bill'[x] = bill[x]) /\ bill' \in [Bills -> {Absent} \cup BillRows]
       /\ ApAging' = ApAging - (IF bill[b] # Absent THEN bill[b].total - bill[b].paid ELSE 0) + (new.total - new.paid) /\ ApAging \in Int
       /\ PaidIsPaid' BY <1>3,<1>5,<1>8,<1>9, OthersUnpaid
<1>11. payable' = ApAging' /\ payable' \in Int
 <2>1. ApAging' = ApAging - (old.total - old.paid) + (new.total - new.paid) BY <1>1,<1>10
 <2>2. payable = ApAging BY DEF ProcInv, BillInv, PayablesAgree
 <2> QED BY <1>1,<1>2,<1>3,<1>10,<2>1,<2>2
<1>12. \A x \in Bills \ {b} : PaymentsOf(x)' = PaymentsOf(x) /\ \A m \in PaymentsOf(x) : billPayment'[m] = billPayment[m]
  BY <1>1,<1>4,<1>7 DEF PaymentsOf
<1>13. PaymentsOf(b)' = PaymentsOf(b) \cup {k} /\ k \notin PaymentsOf(b) /\ PaymentsOf(b) \subseteq BillKeys
       /\ \A m \in PaymentsOf(b) : billPayment'[m] = billPayment[m] /\ billPayment[m] \in PaymentRows
  BY <1>1,<1>4,<1>7 DEF PaymentsOf, ProcInv, BillInv
<1>14. SumFunction([m \in PaymentsOf(b)' |-> billPayment'[m].amount]) = SumFunction([m \in PaymentsOf(b) |-> billPayment[m].amount]) + amount
 <2> PICK f : f = [m \in PaymentsOf(b) |-> billPayment[m].amount] OBVIOUS
 <2> PICK g : g = [m \in PaymentsOf(b)' |-> billPayment'[m].amount] OBVIOUS
 <2>1. DOMAIN f \subseteq BillKeys /\ k \notin DOMAIN f /\ DOMAIN g = DOMAIN f \cup {k} /\ g[k] = amount /\ g[k] \in Int BY <1>2,<1>4,<1>7,<1>13
 <2>2. \A m \in DOMAIN f : f[m] \in Int /\ g[m] = f[m] BY <1>13 DEF PaymentRows
 <2>3. IsFiniteSet(BillKeys) /\ k \in BillKeys OBVIOUS
 <2>4. SumFunction(g) = SumFunction(f) + g[k] BY ONLY <2>1,<2>2,<2>3, SumExtends
 <2> QED BY <2>1,<2>4
<1>15. ASSUME NEW x \in Bills, bill'[x] # Absent
  PROVE bill'[x].paid = SumFunction([m \in PaymentsOf(x)' |-> billPayment'[m].amount]) /\ bill'[x].paid <= bill'[x].total
 <2>1. CASE x = b
  <3>1. old.paid = SumFunction([m \in PaymentsOf(b) |-> billPayment[m].amount]) BY <1>1 DEF ProcInv, BillInv, PayablesAgree
  <3> QED BY <1>3,<1>8,<1>10,<1>14,<2>1,<3>1
 <2>2. CASE x # b
  <3>1. bill'[x] = bill[x] /\ bill[x] # Absent BY <1>10,<1>15,<2>2
  <3> PICK ms : ms = PaymentsOf(x) OBVIOUS
  <3>2. PaymentsOf(x)' = ms /\ [m \in ms |-> billPayment'[m].amount] = [m \in ms |-> billPayment[m].amount] BY <1>12,<2>2
  <3>3. bill[x].paid = SumFunction([m \in ms |-> billPayment[m].amount]) /\ bill[x].paid <= bill[x].total
    BY <3>1 DEF ProcInv, BillInv, PayablesAgree
  <3> QED BY <3>1,<3>2,<3>3
 <2> QED BY <2>1,<2>2
<1>16. PaymentsKnow'
 <2>1. \A x \in Bills : bill[x] # Absent => bill'[x] # Absent BY <1>3,<1>10
 <2>2. \A m \in BillKeys \ {k} : billPayment[m] # Absent => billPayment[m].bill \in Bills /\ bill[billPayment[m].bill] # Absent
   BY DEF ProcInv, BillInv, PaymentsKnow, PaymentRows
 <2>3. bill'[billPayment'[k].bill] # Absent BY <1>1,<1>4,<1>7,<2>1
 <2> QED BY <1>7,<2>1,<2>2,<2>3 DEF PaymentsKnow
<1> QED BY <1>7,<1>10,<1>11,<1>15,<1>16 DEF BillInv, PayablesAgree

(* Credit notes. What is reserved changes only when a note is issued. *)
LEMMA SameReserved ==
  ASSUME NEW n \in Notes, \A m \in Notes : (m \in Issued({})') <=> (m \in Issued({})), \A m \in Issued({}) : note'[m].amount = note[m].amount
  PROVE Reserved({})' = Reserved({})
<1> PICK ns : ns = Issued({}) OBVIOUS
<1>1. Issued({})' = ns BY DEF Issued
<1>2. [m \in ns |-> note'[m].amount] = [m \in ns |-> note[m].amount] OBVIOUS
<1> QED BY <1>1,<1>2 DEF Reserved

LEMMA CollectedIsInt == ASSUME ProcInv PROVE Collected \in Int
<1> USE ProcFacts
<1>0. collected \in [CreditKeys -> {0} \cup Amounts] BY DEF ProcInv, CreditInv
<1>a. \A x \in {0} \cup Amounts : x \in Int OBVIOUS
<1>b. DOMAIN collected = CreditKeys /\ \A k \in CreditKeys : collected[k] \in {0} \cup Amounts BY <1>0
<1>1. DOMAIN collected = CreditKeys /\ \A k \in CreditKeys : collected[k] \in Int BY <1>a,<1>b
<1>2. DOMAIN collected \subseteq CreditKeys /\ \A k \in DOMAIN collected : collected[k] \in Int BY <1>1
<1> PICK f : f = collected OBVIOUS
<1>3. SumFunction(f) \in Int BY <1>2, SumOfPart
<1> QED BY <1>3 DEF Collected

LEMMA ReservedIsInt == ASSUME ProcInv PROVE Reserved({}) \in Int
<1> USE ProcFacts
<1> PICK f : f = [m \in Issued({}) |-> note[m].amount] OBVIOUS
<1>c. \A m \in Issued({}) : m \in Notes /\ note[m] \in NoteRows BY DEF ProcInv, CreditInv, Issued, Absent
<1>0a. \A x \in NoteRows : x.amount \in Amounts BY DEF NoteRows
<1>0b. \A x \in Amounts : x \in Int OBVIOUS
<1>a. \A x \in NoteRows : x.amount \in Int BY ONLY <1>0a,<1>0b
<1>1. DOMAIN f \subseteq Notes /\ \A m \in DOMAIN f : f[m] \in Int BY <1>c,<1>a
<1>2. SumFunction(f) \in Int BY <1>1, SumOfPart
<1> QED BY <1>2 DEF Reserved

LEMMA CreditKeeps == ASSUME ProcInv, CreditNext PROVE CreditInv' /\ (Reserved({})' > Reserved({}) => Reserved({})' + Collected' <= InvoiceTotal)
<1> USE ProcFacts
<1>0. /\ note \in [Notes -> {Absent} \cup NoteRows] /\ checked \in [Notes -> {0} \cup Amounts] /\ collected \in [CreditKeys -> {0} \cup Amounts]
      /\ CheckedIsNew BY DEF ProcInv, CreditInv
<1>r. Reserved({}) \in Int BY ReservedIsInt
<1>1. ASSUME NEW n \in Notes, NEW amount \in Amounts, CheckCreditNote(n, amount) PROVE CreditInv' /\ Reserved({})' = Reserved({})
 <2>1. note' = note /\ collected' = collected /\ checked' = [checked EXCEPT ![n] = amount] /\ note[n] = Absent BY <1>1 DEF CheckCreditNote
 <2>2. CreditInv' BY <1>0,<2>1 DEF CreditInv, CheckedIsNew
 <2>3. Reserved({})' = Reserved({}) BY <2>1 DEF Reserved, Issued
 <2> QED BY <2>2,<2>3
<1>2. ASSUME NEW n \in Notes, CreateCreditNote(n) PROVE CreditInv' /\ Reserved({})' = Reserved({})
 <2> PICK new : new = [status |-> "DRAFT", amount |-> checked[n]] OBVIOUS
 <2>1. new \in NoteRows /\ new.status = "DRAFT" BY <1>0,<1>2 DEF CreateCreditNote, NoteRows
 <2>2. note' = [note EXCEPT ![n] = new] /\ checked' = [checked EXCEPT ![n] = 0] /\ collected' = collected /\ note[n] = Absent
   BY <1>0,<1>2 DEF CreateCreditNote, CheckedIsNew
 <2>3. note'[n] = new /\ \A m \in Notes \ {n} : note'[m] = note[m] BY <1>0,<2>2
 <2>4. CreditInv' BY <1>0,<2>1,<2>2 DEF CreditInv, CheckedIsNew
 <2>5. (\A m \in Notes : (m \in Issued({})') <=> (m \in Issued({}))) /\ \A m \in Issued({}) : note'[m].amount = note[m].amount
   BY <2>1,<2>2,<2>3 DEF Issued, Absent
 <2> QED BY <2>4,<2>5, SameReserved
<1>3. ASSUME NEW n \in Notes, TransitionCreditNote(n)
  PROVE CreditInv' /\ (Reserved({})' > Reserved({}) => Reserved({})' + Collected' <= InvoiceTotal)
 <2>1. note[n] # Absent /\ checked' = checked /\ collected' = collected BY <1>3 DEF TransitionCreditNote, Absent
 <2> PICK old \in NoteRows : old = note[n] BY <1>0,<2>1
 <2>2. CASE old.status = "DRAFT" /\ Fits(old.amount, {n}) /\ note' = [note EXCEPT ![n].status = "ISSUED"]
  <3> PICK new : new = [old EXCEPT !.status = "ISSUED"] OBVIOUS
  <3>1. new \in NoteRows /\ new.status = "ISSUED" /\ new.amount = old.amount /\ old.amount \in Nat BY DEF NoteRows
  <3>2. note'[n] = new /\ (\A m \in Notes \ {n} : note'[m] = note[m]) /\ note' \in [Notes -> {Absent} \cup NoteRows] BY <1>0,<2>2,<3>1
  <3>3. CreditInv' BY <1>0,<2>1,<3>2 DEF CreditInv, CheckedIsNew
  <3>4. /\ Issued({})' = Issued({}) \cup {n} /\ n \notin Issued({}) /\ Issued({}) \subseteq Notes /\ Issued({n}) = Issued({})
        /\ \A m \in Issued({}) : note'[m] = note[m] /\ note[m] \in NoteRows BY <1>0,<2>2,<3>1,<3>2 DEF Issued, Absent
  <3>5. Reserved({})' = Reserved({}) + old.amount
   <4> PICK f : f = [m \in Issued({}) |-> note[m].amount] OBVIOUS
   <4> PICK g : g = [m \in Issued({})' |-> note'[m].amount] OBVIOUS
   <4>1. DOMAIN f \subseteq Notes /\ n \notin DOMAIN f /\ DOMAIN g = DOMAIN f \cup {n} /\ g[n] = old.amount /\ g[n] \in Int
    <5>1. n \in Issued({})' /\ note'[n].amount = old.amount /\ old.amount \in Int BY <3>1,<3>2,<3>4
    <5> QED BY <3>4,<5>1
   <4>2. \A m \in DOMAIN f : f[m] \in Int /\ g[m] = f[m] BY <3>4 DEF NoteRows
   <4>3. IsFiniteSet(Notes) /\ n \in Notes OBVIOUS
   <4>4. SumFunction(g) = SumFunction(f) + g[n] BY ONLY <4>1,<4>2,<4>3, SumExtends
   <4> QED BY <4>1,<4>4 DEF Reserved
  <3>6. Reserved({n}) = Reserved({}) BY <3>4 DEF Reserved
  <3>7. Collected' = Collected BY <2>1 DEF Collected
  <3>8. old.amount <= InvoiceTotal - Collected - Reserved({}) BY <2>2,<3>6 DEF Fits
  <3>9. Collected \in Int BY CollectedIsInt
  <3>10. Reserved({})' + Collected' <= InvoiceTotal BY <1>r,<3>1,<3>5,<3>7,<3>8,<3>9
  <3> QED BY <3>3,<3>10
 <2>3. CASE old.status = "ISSUED" /\ note' = [note EXCEPT ![n].status = "APPLIED"]
  <3> PICK new : new = [old EXCEPT !.status = "APPLIED"] OBVIOUS
  <3>1. new \in NoteRows /\ new.status = "APPLIED" /\ new.amount = old.amount BY DEF NoteRows
  <3>2. note'[n] = new /\ (\A m \in Notes \ {n} : note'[m] = note[m]) /\ note' \in [Notes -> {Absent} \cup NoteRows] BY <1>0,<2>3,<3>1
  <3>3. CreditInv' BY <1>0,<2>1,<3>2 DEF CreditInv, CheckedIsNew
  <3>4. (\A m \in Notes : (m \in Issued({})') <=> (m \in Issued({}))) /\ \A m \in Issued({}) : note'[m].amount = note[m].amount
    BY <2>3,<3>1,<3>2 DEF Issued
  <3>5. Reserved({})' = Reserved({}) BY <3>4, SameReserved
  <3> QED BY <1>r,<3>3,<3>5
 <2> QED BY <1>3,<2>2,<2>3 DEF TransitionCreditNote
<1>4. ASSUME NEW k \in CreditKeys, NEW amount \in Amounts, CollectInvoice(k, amount) PROVE CreditInv' /\ Reserved({})' = Reserved({})
 <2>1. note' = note /\ checked' = checked /\ collected' = [collected EXCEPT ![k] = amount] BY <1>4 DEF CollectInvoice
 <2>2. CreditInv' BY <1>0,<2>1 DEF CreditInv, CheckedIsNew
 <2>3. Reserved({})' = Reserved({}) BY <2>1 DEF Reserved, Issued
 <2> QED BY <2>2,<2>3
<1>5. (Reserved({})' = Reserved({})) => ~(Reserved({})' > Reserved({})) BY <1>r
<1> QED BY <1>1,<1>2,<1>3,<1>4,<1>5 DEF CreditNext

(* What is left alone. *)
LEMMA OrdersStand == ASSUME OrdersInv, UNCHANGED orderVars PROVE OrdersInv'
<1>0. order' = order /\ line' = line BY DEF orderVars
<1>1. \A o \in Orders : LinesOf(o)' = LinesOf(o) BY <1>0 DEF LinesOf
<1>2. \A o \in Orders : Total(o)' = Total(o) BY <1>0,<1>1, TotalsStand
<1>3. LinesHaveOrders' /\ TotalsAreLines' BY <1>0,<1>2 DEF OrdersInv, LinesHaveOrders, TotalsAreLines
<1>4. NothingEarly' /\ SubmittedHasLine' BY <1>0,<1>1 DEF OrdersInv, NothingEarly, SubmittedHasLine, Submitted, Unapproved
<1>5. ReceivedIsAll' BY <1>0,<1>1 DEF OrdersInv, ReceivedIsAll, Submitted, Unapproved
<1> QED BY <1>0,<1>3,<1>4,<1>5 DEF OrdersInv

LEMMA StockStands == ASSUME StockInv, UNCHANGED stockVars PROVE StockInv'
<1>0. stock' = stock /\ movement' = movement BY DEF stockVars
<1>1. Moved' = Moved BY <1>0 DEF Moved
<1>2. \A i \in Items : MovedOf(i)' = MovedOf(i) BY <1>0,<1>1 DEF MovedOf
<1>3. \A i \in Items : QuantityOf(i)' = QuantityOf(i) /\ ValueOf(i)' = ValueOf(i) BY <1>0,<1>2 DEF QuantityOf, ValueOf
<1>4. \A i \in Items : CameIn(i)' = CameIn(i) /\ Averagings(i)' = Averagings(i) BY <1>0,<1>2 DEF CameIn, Averagings
<1> QED BY <1>0,<1>3,<1>4 DEF StockInv, StockIsItsMovements

LEMMA ReceivedStands == ASSUME LinesCameIn, MovesHaveLines, line' = line, movement' = movement PROVE LinesCameIn' /\ MovesHaveLines'
<1>1. Moved' = Moved BY DEF Moved
<1>2. \A l \in Lines : ReceivedBy(l)' = ReceivedBy(l) BY <1>1 DEF ReceivedBy
<1> QED BY <1>1,<1>2 DEF LinesCameIn, MovesHaveLines

LEMMA BillsStand == ASSUME BillInv, UNCHANGED billVars PROVE BillInv'
<1>0. bill' = bill /\ billPayment' = billPayment /\ payable' = payable BY DEF billVars
<1>1. Unpaid' = Unpaid BY <1>0 DEF Unpaid
<1>2. ApAging' = ApAging BY <1>0,<1>1 DEF ApAging
<1>3. \A b \in Bills : PaymentsOf(b)' = PaymentsOf(b) BY <1>0 DEF PaymentsOf
<1>4. PayablesAgree' BY <1>0,<1>2,<1>3 DEF BillInv, PayablesAgree
<1>5. PaidIsPaid' /\ PaymentsKnow' BY <1>0 DEF BillInv, PaidIsPaid, PaymentsKnow
<1> QED BY <1>0,<1>4,<1>5 DEF BillInv

LEMMA CreditStands == ASSUME CreditInv, UNCHANGED creditVars PROVE CreditInv' /\ Reserved({})' = Reserved({})
<1>0. note' = note /\ checked' = checked /\ collected' = collected BY DEF creditVars
<1>1. Reserved({})' = Reserved({}) BY <1>0 DEF Reserved, Issued
<1> QED BY <1>0,<1>1 DEF CreditInv, CheckedIsNew

(* What was submitted keeps its lines and its total. *)
Kept == \A o \in Orders : Submitted(o) => order'[o] # Absent /\ order'[o].total = order[o].total /\ LinesOf(o)' = LinesOf(o)

LEMMA OrderStepKept ==
  ASSUME ProcInv, NEW o \in Orders, CreatePurchaseOrder(o) \/ RequestPurchaseOrderApproval(o) \/ ApprovePurchaseOrder(o) PROVE Kept
<1> USE ProcFacts
<1>1. line' = line BY DEF CreatePurchaseOrder, RequestPurchaseOrderApproval, ApprovePurchaseOrder
<1>2. \A p \in Orders : LinesOf(p)' = LinesOf(p) BY <1>1 DEF LinesOf
<1>3. \A p \in Orders \ {o} : order'[p] = order[p] BY DEF CreatePurchaseOrder, RequestPurchaseOrderApproval, ApprovePurchaseOrder, ProcInv, OrdersInv
<1>4. ASSUME Submitted(o) PROVE order'[o] # Absent /\ order'[o].total = order[o].total
 <2> PICK old \in OrderRows : old = order[o] BY <1>4, RowsAre DEF Submitted
 <2> PICK status \in {"PENDING_APPROVAL", "APPROVED"} : order' = [order EXCEPT ![o].status = status]
   BY <1>4 DEF Submitted, CreatePurchaseOrder, RequestPurchaseOrderApproval, ApprovePurchaseOrder
 <2> PICK new : new = [old EXCEPT !.status = status] OBVIOUS
 <2>1. order'[o] = new BY DEF ProcInv, OrdersInv
 <2>2. new.total = old.total /\ new \in OrderRows BY DEF OrderRows
 <2> QED BY <2>1,<2>2
<1> QED BY <1>2,<1>3,<1>4 DEF Kept, Submitted

LEMMA LineStepKept ==
  ASSUME ProcInv, NEW o \in Orders, NEW l \in Lines, NEW i \in Items, NEW q \in Quantities, NEW c \in Costs, AddPurchaseOrderLine(o, l, i, q, c)
  PROVE Kept
<1> USE ProcFacts
<1>1. order[o].status = "DRAFT" /\ line[l] = Absent /\ (\A m \in Lines \ {l} : line'[m] = line[m]) /\ line'[l].order = o
      /\ \A p \in Orders \ {o} : order'[p] = order[p] BY DEF AddPurchaseOrderLine, ProcInv, OrdersInv
<1>2. \A p \in Orders \ {o} : LinesOf(p)' = LinesOf(p) BY <1>1 DEF LinesOf
<1> QED BY <1>1,<1>2 DEF Kept, Submitted

LEMMA ReceiveStepKept ==
  ASSUME ProcInv, NEW o \in Orders, NEW l \in Lines, NEW q \in Quantities, NEW k \in StockKeys, ReceivePurchaseOrderLine(o, l, q, k) PROVE Kept
<1> USE ProcFacts
<1> PICK received \in Nat : line' = [line EXCEPT ![l].received = received]
 <2>1. l \in LinesOf(o) BY DEF ReceivePurchaseOrderLine
 <2>2. line[l].received \in Nat BY <2>1, RowsAre DEF LineRows
 <2>3. line' = [line EXCEPT ![l].received = line[l].received + q] BY <2>1,<2>2 DEF ReceivePurchaseOrderLine
 <2> PICK r \in Nat : r = line[l].received + q BY <2>2
 <2> QED BY <2>3
<1> PICK status \in {"RECEIVED", "PARTIALLY_RECEIVED"} : order' = [order EXCEPT ![o].status = status] BY DEF ReceivePurchaseOrderLine
<1>1. l \in LinesOf(o) /\ order[o] # Absent BY DEF ReceivePurchaseOrderLine
<1> PICK old \in LineRows : old = line[l] BY <1>1, RowsAre
<1> PICK new : new = [old EXCEPT !.received = received] OBVIOUS
<1>2. new \in LineRows /\ new.order = old.order BY DEF LineRows
<1>3. line'[l] = new /\ \A m \in Lines \ {l} : line'[m] = line[m] BY DEF ProcInv, OrdersInv
<1>4. \A p \in Orders : LinesOf(p)' = LinesOf(p) BY <1>1,<1>2,<1>3 DEF LinesOf
<1> PICK before \in OrderRows : before = order[o] BY <1>1, RowsAre
<1> PICK entry : entry = [before EXCEPT !.status = status] OBVIOUS
<1>5. entry \in OrderRows /\ entry.total = before.total BY DEF OrderRows
<1>6. order'[o] = entry /\ \A p \in Orders \ {o} : order'[p] = order[p] BY DEF ProcInv, OrdersInv
<1> QED BY <1>4,<1>5,<1>6 DEF Kept, Submitted

LEMMA SameKept == ASSUME UNCHANGED orderVars PROVE Kept
<1>0. order' = order /\ line' = line BY DEF orderVars
<1>1. \A o \in Orders : LinesOf(o)' = LinesOf(o) BY <1>0 DEF LinesOf
<1> QED BY <1>0,<1>1 DEF Kept, Submitted

LEMMA StockStep == ASSUME ProcInv, StockNext PROVE OrdersInv' /\ LinesCameIn' /\ MovesHaveLines' /\ StockInv' /\ Kept
<1> USE ProcFacts
<1>0. OrdersInv /\ LinesCameIn /\ MovesHaveLines /\ StockInv BY DEF ProcInv
<1>1. ASSUME NEW o \in Orders, CreatePurchaseOrder(o) \/ RequestPurchaseOrderApproval(o) \/ ApprovePurchaseOrder(o)
  PROVE OrdersInv' /\ LinesCameIn' /\ MovesHaveLines' /\ StockInv' /\ Kept
 <2>1. OrdersInv' BY <1>1, CreateKeeps, RequestKeeps, ApproveKeeps
 <2>2. line' = line /\ UNCHANGED stockVars BY <1>1 DEF CreatePurchaseOrder, RequestPurchaseOrderApproval, ApprovePurchaseOrder
 <2>3. StockInv' BY <1>0,<2>2, StockStands
 <2>4. movement' = movement BY <2>2 DEF stockVars
 <2>5. LinesCameIn' /\ MovesHaveLines' BY <1>0,<2>2,<2>4, ReceivedStands
 <2>6. Kept BY <1>1, OrderStepKept
 <2> QED BY <2>1,<2>3,<2>5,<2>6
<1>2. ASSUME NEW o \in Orders, NEW l \in Lines, NEW i \in Items, NEW q \in Quantities, NEW c \in Costs, AddPurchaseOrderLine(o, l, i, q, c)
  PROVE OrdersInv' /\ LinesCameIn' /\ MovesHaveLines' /\ StockInv' /\ Kept
 <2>1. OrdersInv' /\ LinesCameIn' /\ MovesHaveLines' BY <1>2, AddLineKeeps
 <2>2. UNCHANGED stockVars BY <1>2 DEF AddPurchaseOrderLine
 <2>3. StockInv' BY <1>0,<2>2, StockStands
 <2>4. Kept BY <1>2, LineStepKept
 <2> QED BY <2>1,<2>3,<2>4
<1>3. ASSUME NEW o \in Orders, NEW l \in Lines, NEW q \in Quantities, NEW k \in StockKeys, ReceivePurchaseOrderLine(o, l, q, k)
  PROVE OrdersInv' /\ LinesCameIn' /\ MovesHaveLines' /\ StockInv' /\ Kept BY <1>3, ReceiveKeeps, ReceiveStepKept
<1>4. ASSUME NEW k \in StockKeys, NEW i \in Items, NEW type \in Types, NEW q \in Quantities, NEW sign \in {1, -1}, NEW c \in Costs,
    PostStockMovement(k, i, type, sign * q, c)
  PROVE OrdersInv' /\ LinesCameIn' /\ MovesHaveLines' /\ StockInv' /\ Kept
 <2>1. q \in Nat /\ q # 0 OBVIOUS
 <2>2. sign * q \in Int /\ sign * q # 0 BY <2>1
 <2>3. StockInv' /\ LinesCameIn' /\ MovesHaveLines' BY <1>4,<2>2, PostKeeps
 <2>4. UNCHANGED orderVars BY <1>4 DEF PostStockMovement
 <2>5. OrdersInv' BY <1>0,<2>4, OrdersStand
 <2> QED BY <2>3,<2>4,<2>5, SameKept
<1> QED BY <1>1,<1>2,<1>3,<1>4 DEF StockNext

Fitting == Reserved({})' > Reserved({}) => Reserved({})' + Collected' <= InvoiceTotal

LEMMA ProcStep == ASSUME ProcInv, [ProcNext]_procVars PROVE ProcInv' /\ Kept /\ (procVars' # procVars => Fitting)
<1>0. OrdersInv /\ LinesCameIn /\ MovesHaveLines /\ StockInv /\ BillInv /\ CreditInv BY DEF ProcInv
<1>r. (Reserved({})' = Reserved({})) => Fitting
 <2>1. Reserved({}) \in Int BY ReservedIsInt
 <2> QED BY <2>1 DEF Fitting
<1>1. ASSUME StockNext PROVE ProcInv' /\ Kept /\ Fitting
 <2>1. OrdersInv' /\ LinesCameIn' /\ MovesHaveLines' /\ StockInv' /\ Kept BY <1>1, StockStep
 <2>a. \A o \in Orders : CreatePurchaseOrder(o) \/ RequestPurchaseOrderApproval(o) \/ ApprovePurchaseOrder(o) => UNCHANGED billVars /\ UNCHANGED creditVars
   BY DEF CreatePurchaseOrder, RequestPurchaseOrderApproval, ApprovePurchaseOrder
 <2>b. \A o \in Orders, l \in Lines, i \in Items, q \in Quantities, c \in Costs :
         AddPurchaseOrderLine(o, l, i, q, c) => UNCHANGED billVars /\ UNCHANGED creditVars BY DEF AddPurchaseOrderLine
 <2>c. \A o \in Orders, l \in Lines, q \in Quantities, k \in StockKeys :
         ReceivePurchaseOrderLine(o, l, q, k) => UNCHANGED billVars /\ UNCHANGED creditVars BY DEF ReceivePurchaseOrderLine
 <2>d. \A k \in StockKeys, i \in Items, type \in Types, q \in Quantities, sign \in {1, -1}, c \in Costs :
         PostStockMovement(k, i, type, sign * q, c) => UNCHANGED billVars /\ UNCHANGED creditVars BY DEF PostStockMovement
 <2>2. UNCHANGED billVars /\ UNCHANGED creditVars BY <1>1,<2>a,<2>b,<2>c,<2>d DEF StockNext
 <2>3. BillInv' BY <1>0,<2>2, BillsStand
 <2>4. CreditInv' /\ Reserved({})' = Reserved({}) BY <1>0,<2>2, CreditStands
 <2> QED BY <1>r,<2>1,<2>3,<2>4 DEF ProcInv
<1>2. ASSUME BillNext PROVE ProcInv' /\ Kept /\ Fitting
 <2>1. BillInv' BY <1>2, InvoiceKeeps, PaymentKeeps DEF BillNext
 <2>2. UNCHANGED orderVars /\ UNCHANGED stockVars /\ UNCHANGED creditVars BY <1>2 DEF BillNext, CreateSupplierInvoice, RecordSupplierInvoicePayment
 <2>3. OrdersInv' /\ StockInv' BY <1>0,<2>2, OrdersStand, StockStands
 <2>4. line' = line /\ movement' = movement BY <2>2 DEF orderVars, stockVars
 <2>5. LinesCameIn' /\ MovesHaveLines' BY <1>0,<2>4, ReceivedStands
 <2>6. CreditInv' /\ Reserved({})' = Reserved({}) BY <1>0,<2>2, CreditStands
 <2>7. Kept BY <2>2, SameKept
 <2> QED BY <1>r,<2>1,<2>3,<2>5,<2>6,<2>7 DEF ProcInv
<1>3. ASSUME CreditNext PROVE ProcInv' /\ Kept /\ Fitting
 <2>1. CreditInv' /\ Fitting BY <1>3, CreditKeeps DEF Fitting
 <2>2. UNCHANGED orderVars /\ UNCHANGED stockVars /\ UNCHANGED billVars
   BY <1>3 DEF CreditNext, CheckCreditNote, CreateCreditNote, TransitionCreditNote, CollectInvoice
 <2>3. OrdersInv' /\ StockInv' /\ BillInv' BY <1>0,<2>2, OrdersStand, StockStands, BillsStand
 <2>4. line' = line /\ movement' = movement BY <2>2 DEF orderVars, stockVars
 <2>5. LinesCameIn' /\ MovesHaveLines' BY <1>0,<2>4, ReceivedStands
 <2>6. Kept BY <2>2, SameKept
 <2> QED BY <2>1,<2>3,<2>5,<2>6 DEF ProcInv
<1>4. ASSUME UNCHANGED procVars PROVE ProcInv' /\ Kept
 <2>1. UNCHANGED orderVars /\ UNCHANGED stockVars /\ UNCHANGED billVars /\ UNCHANGED creditVars
   BY <1>4 DEF procVars, orderVars, stockVars, billVars, creditVars
 <2>2. line' = line /\ movement' = movement BY <2>1 DEF orderVars, stockVars
 <2>3. OrdersInv' /\ StockInv' /\ BillInv' /\ CreditInv' BY <1>0,<2>1, OrdersStand, StockStands, BillsStand, CreditStands
 <2>4. LinesCameIn' /\ MovesHaveLines' BY <1>0,<2>2, ReceivedStands
 <2>5. Kept BY <2>1, SameKept
 <2> QED BY <2>3,<2>4,<2>5 DEF ProcInv
<1> QED BY <1>1,<1>2,<1>3,<1>4 DEF ProcNext

LEMMA ProcInvImplies == ASSUME ProcInv PROVE ProcTypeOK /\ StockIsItsMovements /\ ReceivedCameIn /\ PayablesAgree
<1>1. ProcTypeOK BY DEF ProcInv, OrdersInv, StockInv, BillInv, CreditInv, ProcTypeOK
<1>2. ReceivedCameIn
 <2>1. \A l \in Lines : line[l] # Absent =>
         line[l].received = SumFunction([k \in {k \in Moved : movement[k].line = l} |-> movement[k].delta]) BY DEF ProcInv, LinesCameIn, ReceivedBy
 <2>2. \A o \in Orders : order[o] # Absent /\ order[o].status \in {"APPROVED", "PARTIALLY_RECEIVED", "RECEIVED"} =>
         (order[o].status = "RECEIVED") = (\A l \in LinesOf(o) : line[l].received = line[l].ordered)
   BY DEF ProcInv, OrdersInv, ReceivedIsAll, Submitted, Unapproved
 <2> QED BY <2>1,<2>2 DEF ReceivedCameIn
<1> QED BY <1>1,<1>2 DEF ProcInv, StockInv, BillInv

LEMMA ProcActions ==
  /\ ProcInv /\ [ProcNext]_procVars =>
       [\A o \in Orders : order[o] # Absent /\ order[o].status # "DRAFT" =>
          /\ order'[o].total = order[o].total /\ order'[o].total = Total(o)'
          /\ LinesOf(o)' = LinesOf(o)]_procVars
  /\ ProcInv /\ [ProcNext]_procVars =>
       [Reserved({})' > Reserved({}) => Reserved({})' + Collected' <= InvoiceTotal]_procVars
<1> SUFFICES ASSUME ProcInv, [ProcNext]_procVars
  PROVE  /\ \A o \in Orders : Submitted(o) => /\ order'[o].total = order[o].total /\ order'[o].total = Total(o)'
                                              /\ LinesOf(o)' = LinesOf(o)
         /\ procVars' # procVars => Fitting BY Zenon DEF Submitted, Fitting
<1>1. ProcInv' /\ Kept /\ (procVars' # procVars => Fitting) BY ProcStep
<1>2. TotalsAreLines' BY <1>1 DEF ProcInv, OrdersInv
<1> QED BY <1>1,<1>2 DEF Kept, TotalsAreLines

------------------------
(* Commissions. What is being accrued belongs to a purchase that was paid. *)
CommissionInv ==
  /\ commission \in [Pairs -> {"none", "ACCRUED", "APPROVED", "PAID"}] /\ payouts \in [Pairs -> Nat]
  /\ sale \in [Sales -> {"PENDING", "PAID", "CANCELED"}] /\ accruing \in [Accruals -> SUBSET Pairs]
  /\ \A c \in Accruals : \A p \in accruing[c] : sale[p[1]] = "PAID"
  /\ CommissionPaidOnce

LEMMA CommissionStep == CommissionInv /\ [CommissionNext]_comVars => CommissionInv'
<1> SUFFICES ASSUME CommissionInv, [CommissionNext]_comVars PROVE CommissionInv' OBVIOUS
<1> USE DEF CommissionInv, CommissionPaidOnce
<1>p. \A p \in Pairs : p[1] \in Sales /\ p[2] \in Resellers BY DEF Pairs
<1>1. ASSUME NEW r \in Resellers, NEW status \in {"ACTIVE", "SUSPENDED", "CLOSED"}, UpdateResellerStatus(r, status) PROVE CommissionInv'
  BY <1>1 DEF UpdateResellerStatus
<1>2. ASSUME NEW s \in Sales, NEW status \in {"PAID", "CANCELED"}, SaleMoves(s, status) PROVE CommissionInv' BY <1>2,<1>p DEF SaleMoves
<1>3. ASSUME NEW c \in Accruals, AccrueCommission(c) PROVE CommissionInv' BY <1>3,<1>p DEF AccrueCommission
<1>4. ASSUME NEW c \in Accruals, NEW p \in Pairs, AskCommission(c, p) PROVE CommissionInv' BY <1>4,<1>p DEF AskCommission
<1>5. ASSUME NEW p \in Pairs, ApproveCommission(p) PROVE CommissionInv' BY <1>5,<1>p DEF ApproveCommission
<1>6. ASSUME NEW p \in Pairs, MarkCommissionPaid(p) PROVE CommissionInv'
 <2> PICK n \in Nat : n = payouts[p] + 1 OBVIOUS
 <2>1. /\ commission[p] = "APPROVED" /\ commission' = [commission EXCEPT ![p] = "PAID"] /\ payouts' = [payouts EXCEPT ![p] = n]
       /\ UNCHANGED <<reseller, sale, accruing>> BY <1>6 DEF MarkCommissionPaid
 <2>2. n = 1 BY <2>1
 <2> QED BY <1>p,<2>1,<2>2
<1>7. CASE UNCHANGED comVars BY <1>7 DEF comVars
<1> QED BY <1>1,<1>2,<1>3,<1>4,<1>5,<1>6,<1>7 DEF CommissionNext

LEMMA CommissionInitOK == CommissionInit => CommissionInv BY DEF CommissionInit, CommissionInv, CommissionPaidOnce, Pairs

------------------------
(* The whole: a step of it is a step of each part, or leaves the part alone. *)
LEMMA StepOfEach ==
  ASSUME [Next]_vars PROVE [MsgNext]_msgVars /\ [ReceiptNext]_receiptVars /\ [ProcNext]_procVars /\ [CommissionNext]_comVars /\ [WorkflowNext]_wfVars
<1>1. CASE UNCHANGED vars BY <1>1 DEF vars
<1>2. CASE (TextTurn \/ PinTurn \/ MemberTurn) /\ UNCHANGED <<turn, receiptVars, procVars, comVars, wfVars>>
  BY <1>2 DEF TextTurn, PinTurn, MemberTurn, MsgNext
<1>3. CASE turn = "receipts" /\ ReceiptNext /\ UNCHANGED <<turn, msgVars, procVars, comVars, wfVars>> BY <1>3
<1>4. CASE (StockTurn \/ BillTurn \/ CreditTurn) /\ UNCHANGED <<turn, msgVars, receiptVars, comVars, wfVars>>
 <2>1. Ordering => StockNext BY DEF Ordering, StockNext
 <2>2. ProcNext BY <1>4,<2>1 DEF StockTurn, BillTurn, CreditTurn, ProcNext
 <2> QED BY <1>4,<2>2
<1>5. CASE turn = "commissions" /\ CommissionNext /\ UNCHANGED <<turn, msgVars, receiptVars, procVars, wfVars>> BY <1>5
<1>6. CASE (AuthorTurn \/ RunTurn) /\ UNCHANGED <<turn, msgVars, receiptVars, procVars, comVars>>
 <2>1. WorkflowNext BY <1>6 DEF AuthorTurn, RunTurn, WorkflowNext, RunsNext, WorkerNext, RunNext, Payloads
 <2> QED BY <1>6,<2>1
<1> QED BY <1>1,<1>2,<1>3,<1>4,<1>5,<1>6 DEF Next

RecordsInv == MsgInv /\ ReceiptInv /\ CounterInv /\ ProcInv /\ CommissionInv /\ WorkflowInv /\ RunInv

LEMMA RecordsStep == RecordsInv /\ [Next]_vars => RecordsInv'
<1> SUFFICES ASSUME RecordsInv, [Next]_vars PROVE RecordsInv' OBVIOUS
<1>1. [MsgNext]_msgVars /\ [ReceiptNext]_receiptVars /\ [ProcNext]_procVars /\ [CommissionNext]_comVars /\ [WorkflowNext]_wfVars BY StepOfEach
<1> QED BY <1>1, MsgStep, ReceiptStep, CounterStep, ProcStep, CommissionStep, WorkflowStep, RunStep DEF RecordsInv

\* The strengthened invariant of conversations, receipts, the books and workflows: every
\* operation of theirs, wherever it falls among the others, keeps its own part.
THEOREM RecordsInvariance == Spec => []RecordsInv
<1>1. Init => RecordsInv BY MsgInitOK, ReceiptInitOK, CounterInitOK, ProcInitOK, CommissionInitOK, WorkflowInitOK, RunInitOK DEF Init, RecordsInv
<1> QED BY <1>1, RecordsStep, PTL DEF Spec

\* A conversation keeps its three pins at most, one message per key, every text of an
\* edited message and an administrator, however its members' requests overlap.
THEOREM ConversationWhole == Spec => []ConversationIsWhole
<1>1. RecordsInv => ConversationIsWhole
 <2> SUFFICES ASSUME RecordsInv PROVE ConversationIsWhole OBVIOUS
 <2>1. MsgTypeOK /\ PinsWithinLimit /\ OneMessagePerKey /\ EditsAreComplete /\ AdminRemains BY DEF RecordsInv, MsgInv, TextInv
 <2>2. ReceiptTypeOK BY DEF RecordsInv, ReceiptInv
 <2>3. ProcTypeOK BY ProcInvImplies DEF RecordsInv
 <2>4. WorkflowTypeOK BY WorkflowInvImplies DEF RecordsInv
 <2> QED BY <2>1,<2>2,<2>3,<2>4 DEF ConversationIsWhole, RecordsTypeOK
<1> QED BY <1>1, RecordsInvariance, PTL

\* A run executes the version of its workflow that it was started with.
THEOREM RunsItsOwnVersion == Spec => []RunsItsVersion
<1>1. RecordsInv => RunsItsVersion BY WorkflowInvImplies DEF RecordsInv
<1> QED BY <1>1, RecordsInvariance, PTL

\* However its steps are retried, whichever worker takes it up and wherever a worker dies:
\* no effect of a step happens twice. Unless a living worker was overtaken, a run that waits
\* has a pending question, if the question was not answered before the run was parked, and a
\* run that has ended stays as it ended and does nothing more, if no answer to a write of the
\* run was lost.
THEOREM RunsStayEnded == Spec => [](EffectsOnce /\ WaitingCanBeDecided) /\ EndedStaysEnded
<1>1. RecordsInv => EffectsOnce /\ WaitingCanBeDecided BY DEF RecordsInv, RunInv
<1>2. RecordsInv /\ [Next]_vars =>
        [\A r \in Started \ (overtaken \cup unheard) : row[r].status \in Final =>
           row'[r].status = row[r].status /\ performed'[r] = performed[r]]_wfVars
  BY StepOfEach, RunStep DEF RecordsInv
<1> QED BY <1>1,<1>2, RecordsInvariance, PTL DEF Spec, EndedStaysEnded

\* Whatever commits, connects or fails in between: what a reader marked as read has the
\* receipt READ unless it was forwarded, and no receipt goes back. If the reader's
\* screens never overlap, it is not counted as unread afterwards, and if no statement
\* fails either, the two pointers agree.
THEOREM ReceiptsAlwaysAgree == Spec => ReceiptsAgree
<1>1. RecordsInv => SeenIsRead /\ SeenIsNotCounted /\ PointersAgree BY PointersAgreeThen, CounterAgrees DEF RecordsInv, ReceiptInv
<1>2. RecordsInv /\ [Next]_vars => [\A r \in Readers, i \in Numbers : Rank[receipt[r][i]] <= Rank[receipt'[r][i]]]_receiptVars
  BY StepOfEach, ReceiptStep DEF Forward, RecordsInv
<1> QED BY <1>1,<1>2, RecordsInvariance, PTL DEF Spec, ReceiptsAgree, ReceiptsMoveForward

\* Stock is its movements at their average cost, what is received came in and was
\* ordered, the payables are the invoices less their payments, a submitted order keeps
\* its lines and its total, a credit note fits when it is issued, and a payment earns a
\* reseller one settlement.
THEOREM BooksAlwaysAgree == Spec => BooksAgree
<1>1. RecordsInv => StockIsItsMovements /\ ReceivedCameIn /\ PayablesAgree /\ CommissionPaidOnce BY ProcInvImplies DEF RecordsInv, CommissionInv
<1>2. RecordsInv /\ [Next]_vars =>
        [\A o \in Orders : order[o] # Absent /\ order[o].status # "DRAFT" =>
           /\ order'[o].total = order[o].total /\ order'[o].total = Total(o)'
           /\ LinesOf(o)' = LinesOf(o)]_procVars BY StepOfEach, ProcActions DEF RecordsInv
<1>3. RecordsInv /\ [Next]_vars => [Reserved({})' > Reserved({}) => Reserved({})' + Collected' <= InvoiceTotal]_procVars
  BY StepOfEach, ProcActions DEF RecordsInv
<1> QED BY <1>1,<1>2,<1>3, RecordsInvariance, PTL DEF Spec, BooksAgree, SubmittedStays, CreditFitsBalance
====
