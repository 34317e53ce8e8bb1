---- MODULE OperationsProofs ----
(* Theorems about MCOperations, for any number of routers, incidents, tenants, devices, jobs,
   customers, bindings, runs and workers. *)
EXTENDS MCOperations, Sums, SequenceTheorems

------------------------
(* Field jobs. *)

(* What is removed from a sequence leaves the rest in its order. *)
LEMMA Removal ==
  ASSUME NEW S, NEW s \in Seq(S), NEW n \in DOMAIN s
  PROVE  /\ RemoveAt(s, n) \in Seq(S)
         /\ DOMAIN RemoveAt(s, n) = 1..Len(s) - 1
         /\ \A k \in 1..Len(s) - 1 : RemoveAt(s, n)[k] = s[IF k < n THEN k ELSE k + 1]
<1> DEFINE a == SubSeq(s, 1, n - 1)
           b == SubSeq(s, n + 1, Len(s))
<1>1. n \in 1..Len(s) /\ Len(s) \in Nat /\ \A k \in 1..Len(s) : s[k] \in S OBVIOUS
<1>2. /\ a \in Seq(S) /\ Len(a) = n - 1
      /\ \A k \in 1..n - 1 : a[k] = s[k] BY <1>1, SubSeqProperties
<1>3. /\ b \in Seq(S) /\ Len(b) = Len(s) - n
      /\ \A k \in 1..Len(s) - n : b[k] = s[n + k] BY <1>1, SubSeqProperties
<1>4. RemoveAt(s, n) = a \o b BY DEF RemoveAt
<1> HIDE DEF a, b
<1>5. a \o b \in Seq(S) /\ Len(a \o b) = Len(s) - 1 BY <1>1,<1>2,<1>3
<1>6. DOMAIN (a \o b) = 1..Len(s) - 1 BY <1>5
<1>7. ASSUME NEW k \in 1..Len(s) - 1 PROVE (a \o b)[k] = s[IF k < n THEN k ELSE k + 1]
 <2>1. CASE k < n BY <1>1,<1>2,<1>3,<2>1
 <2>2. CASE ~(k < n) BY <1>1,<1>2,<1>3,<2>2
 <2> QED BY <2>1,<2>2
<1> QED BY <1>4,<1>5,<1>6,<1>7

(* Operations of one device in the order of their numbers, up to the last one it has made. *)
Ascending(s, d, top) ==
  /\ \A n \in DOMAIN s : \E k \in 1..top : s[n].id = <<d, k>>
  /\ \A m, n \in DOMAIN s : m < n => s[m].id[2] < s[n].id[2]

LEMMA RemovalAscends ==
  ASSUME NEW s \in Seq(Operations), NEW d, NEW top, Ascending(s, d, top), NEW n \in DOMAIN s PROVE Ascending(RemoveAt(s, n), d, top)
<1> DEFINE t == RemoveAt(s, n)
           at(k) == IF k < n THEN k ELSE k + 1
<1>1. DOMAIN t = 1..Len(s) - 1 /\ \A k \in 1..Len(s) - 1 : t[k] = s[at(k)] BY Removal
<1>2. \A k \in 1..Len(s) - 1 : at(k) \in DOMAIN s OBVIOUS
<1>3. \A k, l \in 1..Len(s) - 1 : k < l => at(k) < at(l) OBVIOUS
<1> HIDE DEF t, at
<1>4. \A k \in DOMAIN t : \E l \in 1..top : t[k].id = <<d, l>> BY <1>1,<1>2 DEF Ascending
<1>5. ASSUME NEW k \in DOMAIN t, NEW l \in DOMAIN t, k < l PROVE t[k].id[2] < t[l].id[2]
 <2>1. t[k] = s[at(k)] /\ t[l] = s[at(l)] BY <1>1
 <2>2. at(k) \in DOMAIN s /\ at(l) \in DOMAIN s /\ at(k) < at(l) BY <1>1,<1>2,<1>3,<1>5
 <2> QED BY <2>1,<2>2 DEF Ascending
<1>6. Ascending(t, d, top) BY <1>4,<1>5 DEF Ascending
<1> QED BY <1>6 DEF t

LEMMA AppendAscends ==
  ASSUME NEW s \in Seq(Operations), NEW d, NEW top \in Nat, Ascending(s, d, top), NEW op \in Operations, op.id = <<d, top + 1>>
  PROVE Ascending(Append(s, op), d, top + 1)
<1>1. /\ DOMAIN Append(s, op) = 1 .. Len(s) + 1 /\ DOMAIN s = 1 .. Len(s)
      /\ \A k \in 1..Len(s) : Append(s, op)[k] = s[k]
      /\ Append(s, op)[Len(s) + 1] = op BY AppendProperties
<1>2. \A n \in 1..Len(s) : \E k \in 1..top : s[n].id = <<d, k>> BY <1>1 DEF Ascending
<1>3. \A n \in 1..Len(s) : s[n].id[2] < op.id[2] BY <1>2
<1> QED BY <1>1,<1>2,<1>3 DEF Ascending

LEMMA PartAscends ==
  ASSUME NEW s \in Seq(Operations), NEW d, NEW top, Ascending(s, d, top), NEW m \in Nat \ {0}, NEW n \in 0..Len(s)
  PROVE  /\ SubSeq(s, m, n) \in Seq(Operations)
         /\ \A k \in DOMAIN SubSeq(s, m, n) : k + m - 1 \in m..n /\ SubSeq(s, m, n)[k] = s[k + m - 1]
         /\ Len(SubSeq(s, m, n)) = IF m <= n THEN n - m + 1 ELSE 0
         /\ Ascending(SubSeq(s, m, n), d, top)
<1> DEFINE t == SubSeq(s, m, n)
<1>1. \A i \in m..n : i \in DOMAIN s /\ s[i] \in Operations OBVIOUS
<1>2. /\ t \in Seq(Operations) /\ Len(t) = (IF m <= n THEN n - m + 1 ELSE 0)
      /\ \A k \in 1..n - m + 1 : t[k] = s[m + k - 1] BY <1>1, SubSeqProperties
<1>3. DOMAIN t = 1..Len(t) BY <1>2
<1> HIDE DEF t
<1>4. \A k \in DOMAIN t : k \in 1..n - m + 1 BY <1>2,<1>3
<1>5. \A k \in DOMAIN t : k + m - 1 \in m..n /\ k + m - 1 = m + k - 1 BY <1>4
<1>6. \A k \in DOMAIN t : t[k] = s[k + m - 1] BY <1>2,<1>4,<1>5
<1>7. \A k, l \in DOMAIN t : k < l => k + m - 1 < l + m - 1 BY <1>4
<1>8. Ascending(t, d, top) BY <1>1,<1>5,<1>6,<1>7 DEF Ascending
<1> QED BY <1>2,<1>5,<1>6,<1>8 DEF t

(* Identifiers of what a device has made. *)
Made(d) == {<<d, k>> : k \in 1..made[d]}

\* What one device and the server know of each other.
DeviceOK(d) ==
  /\ Ascending(queue[d], d, made[d])
  /\ Ascending(sync[d].left, d, made[d])
  /\ photos[d] \cup sync[d].photos \subseteq Made(d)
  /\ (photos[d] \cup sync[d].photos) \cap (Ops(queue[d]) \cup Ops(sync[d].left)) = {}
  /\ \A i \in receipts : i[1] = d => i \in Made(d)

\* What a synchronisation has still to send comes first in the queue.
LeftFirst(d) ==
  \A m \in DOMAIN queue[d], n \in DOMAIN sync[d].left :
    queue[d][m].id[2] <= sync[d].left[n].id[2] => queue[d][m].id \in Ops(sync[d].left)
\* What has its answer has its receipt.
AnsweredOK(d) == sync[d].stage = "answered" => Ops(Batch(d)) \subseteq receipts
\* What has left the device has its receipt.
GoneOK(d) == \A n \in 1..made[d] : <<d, n>> \notin Queued(d) => <<d, n>> \in receipts
\* Of what is queued, the older operations have their receipts first.
InOrder(d) == \A m, n \in DOMAIN queue[d] :
                m < n /\ queue[d][n].id \in receipts => queue[d][m].id \in receipts

\* An operation takes effect with its receipt.
Counted == \A i \in Ids : effects[i] = IF i \in receipts THEN 1 ELSE 0

SyncOK(d) == DeviceOK(d) /\ LeftFirst(d) /\ AnsweredOK(d) /\ GoneOK(d) /\ InOrder(d)
FieldInv == FieldTypeOK /\ Counted /\ \A d \in Devices : SyncOK(d)

\* The device's side of the state.
Side(d) == <<queue[d], photos[d], made[d], sync[d]>>

LEMMA OthersInSync ==
  ASSUME FieldInv, NEW d, \A e \in Devices \ {d} : UNCHANGED Side(e), receipts \subseteq receipts', \A i \in receipts' \ receipts : i[1] = d
  PROVE \A e \in Devices \ {d} : SyncOK(e)'
<1> TAKE e \in Devices \ {d}
<1>1. SyncOK(e) /\ UNCHANGED <<queue[e], photos[e], made[e], sync[e]>> BY DEF FieldInv, Side
<1>2. \A i \in receipts' : i[1] = e => i \in receipts OBVIOUS
<1>3. DeviceOK(e)' BY <1>1,<1>2 DEF SyncOK, DeviceOK, Made, Ascending, Ops
<1>4. LeftFirst(e)' BY <1>1 DEF SyncOK, LeftFirst, Ops
<1>5. AnsweredOK(e)' BY <1>1 DEF SyncOK, AnsweredOK, Batch, Ops
<1>6. GoneOK(e)' BY <1>1 DEF SyncOK, GoneOK, Queued, Ops
<1>7. InOrder(e)'
 <2>1. \A m \in DOMAIN queue[e] : queue[e][m].id[1] = e BY <1>1 DEF SyncOK, DeviceOK, Ascending
 <2> QED BY <1>1,<1>2,<2>1 DEF SyncOK, InOrder
<1> QED BY <1>3,<1>4,<1>5,<1>6,<1>7 DEF SyncOK

\* Steps that leave the receipts and all devices' sides alone.
LEMMA AllInSync == ASSUME FieldInv, UNCHANGED <<receipts, effects, queue, photos, made, sync>> PROVE Counted' /\ \A e \in Devices : SyncOK(e)'
<1>1. Counted' BY DEF FieldInv, Counted
<1>2. ASSUME NEW e \in Devices PROVE SyncOK(e)'
 <2>1. SyncOK(e) /\ UNCHANGED <<queue[e], photos[e], made[e], sync[e]>> BY DEF FieldInv
 <2>2. DeviceOK(e)' BY <2>1 DEF SyncOK, DeviceOK, Made, Ascending, Ops
 <2>3. LeftFirst(e)' BY <2>1 DEF SyncOK, LeftFirst, Ops
 <2>4. AnsweredOK(e)' BY <2>1 DEF SyncOK, AnsweredOK, Batch, Ops
 <2>5. GoneOK(e)' BY <2>1 DEF SyncOK, GoneOK, Queued, Ops
 <2>6. InOrder(e)' BY <2>1 DEF SyncOK, InOrder
 <2> QED BY <2>2,<2>3,<2>4,<2>5,<2>6 DEF SyncOK
<1> QED BY <1>1,<1>2

\* Steps that write no receipt: one device is looked at.
LEMMA OneInSync ==
  ASSUME FieldInv, FieldTypeOK', NEW d \in Devices, UNCHANGED <<receipts, effects>>, \A e \in Devices \ {d} : UNCHANGED Side(e), SyncOK(d)'
  PROVE FieldInv'
<1>1. Counted' BY DEF FieldInv, Counted
<1>2. \A e \in Devices \ {d} : SyncOK(e)' BY OthersInSync
<1> QED BY <1>1,<1>2 DEF FieldInv

(* A set of numbers with a bound has a largest one. *)
LEMMA MaxIsIn == ASSUME NEW n \in Nat, NEW S \in SUBSET (0..n), S # {} PROVE Max(S) \in S /\ \A y \in S : Max(S) >= y
<1> DEFINE above(x) == {y \in S : y > x}
           B == {above(x) : x \in S}
<1>1. IsFiniteSet(S)
 <2>1. IsFiniteSet(0..n) BY FS_Interval
 <2> QED BY <2>1, FS_Subset
<1>2. B \in SUBSET SUBSET S /\ B # {} OBVIOUS
<1>3. PICK T \in B : \A U \in SUBSET T : U # T => U \notin B
 <2> HIDE DEF B
 <2> QED BY <1>1,<1>2, SmallestSet
<1>4. PICK x \in S : T = above(x) OBVIOUS
<1>5. ASSUME NEW y \in S, y > x PROVE FALSE
 <2>0. \A z \in S : z \in Int OBVIOUS
 <2>1. above(y) \in SUBSET above(x)
  <3>1. \A z \in S : z > y => z > x BY <1>5,<2>0
  <3> QED BY <3>1
 <2>2. y \in above(x) /\ y \notin above(y) BY <1>5
 <2>3. above(y) \in B OBVIOUS
 <2> HIDE DEF above, B
 <2> QED BY <1>3,<1>4,<2>1,<2>2,<2>3
<1>6. \A y \in S : x >= y BY <1>5
<1> QED BY <1>6 DEF Max

LEMMA EffectiveIsStatus == ASSUME FieldTypeOK, NEW d \in Devices, NEW j \in Jobs PROVE EffectiveStatus(d, j) \in JobStatus
<1> DEFINE changes == {n \in DOMAIN queue[d] : queue[d][n].job = j /\ queue[d][n].kind = "STATUS_CHANGED"}
<1>1. queue[d] \in Seq(Operations) /\ jobView[d][j] \in JobStatus BY DEF FieldTypeOK
<1>2. Len(queue[d]) \in Nat /\ DOMAIN queue[d] = 1..Len(queue[d]) BY <1>1
<1>3. changes \in SUBSET (0..Len(queue[d])) BY <1>2
<1>4. changes # {} => Max(changes) \in changes BY <1>2,<1>3, MaxIsIn
<1>5. \A n \in DOMAIN queue[d] : queue[d][n].to \in JobStatus
 <2>1. \A n \in DOMAIN queue[d] : queue[d][n] \in Operations BY <1>1
 <2> QED BY <2>1 DEF Operations
<1>6. changes # {} => queue[d][Max(changes)].to \in JobStatus BY <1>4,<1>5
<1> QED BY <1>1,<1>6 DEF EffectiveStatus

LEMMA BeforeIsStatus ==
  ASSUME FieldTypeOK, NEW batch \in Seq(Operations), NEW n \in 1..Len(batch) + 1, NEW j \in Jobs PROVE StatusBefore(batch, n, j) \in JobStatus
<1> DEFINE changes == {m \in 1..n - 1 : Changes(batch, m) /\ batch[m].job = j}
<1>1. job[j] \in JobStatus BY DEF FieldTypeOK
<1>2. Len(batch) \in Nat /\ DOMAIN batch = 1..Len(batch) OBVIOUS
<1>3. changes \in SUBSET (0..Len(batch)) BY <1>2
<1>4. changes # {} => Max(changes) \in changes BY <1>2,<1>3, MaxIsIn
<1>5. \A m \in DOMAIN batch : batch[m].to \in JobStatus
 <2>1. \A m \in DOMAIN batch : batch[m] \in Operations OBVIOUS
 <2> QED BY <2>1 DEF Operations
<1>6. changes # {} => batch[Max(changes)].to \in JobStatus BY <1>2,<1>4,<1>5
<1> QED BY <1>1,<1>6 DEF StatusBefore

LEMMA TopRises == ASSUME NEW s, NEW d, NEW top \in Nat, Ascending(s, d, top), NEW higher \in Nat, top <= higher PROVE Ascending(s, d, higher)
<1>1. 1..top \subseteq 1..higher OBVIOUS
<1> QED BY <1>1 DEF Ascending

(* The kinds of one synchronisation's states. *)
Syncs == [stage : {"idle", "photos", "operations", "answered"}, photos : SUBSET Ids, left : Seq(Operations)]

LEMMA AppendOps == ASSUME NEW s \in Seq(Operations), NEW op PROVE Ops(Append(s, op)) = Ops(s) \cup {op.id}
<1> DEFINE t == Append(s, op)
<1>1. /\ DOMAIN t = (1 .. Len(s)) \cup {Len(s) + 1} /\ DOMAIN s = 1 .. Len(s)
      /\ \A k \in 1..Len(s) : t[k] = s[k]
      /\ t[Len(s) + 1] = op BY AppendProperties
<1> HIDE DEF t
<1>2. Ops(t) = {t[n].id : n \in 1..Len(s)} \cup {t[Len(s) + 1].id} BY ONLY <1>1 DEF Ops
<1>3. {t[n].id : n \in 1..Len(s)} = {s[n].id : n \in 1..Len(s)} BY ONLY <1>1
<1> QED BY ONLY <1>1,<1>2,<1>3 DEF Ops, t

\* The next number of a device is that of no identifier it has used.
LEMMA NextIsNew ==
  ASSUME FieldInv, NEW d \in Devices, made[d] < MaxOps
  PROVE  /\ made[d] \in Nat /\ made[d] + 1 \in 1 .. MaxOps /\ <<d, made[d] + 1>> \in Ids
         /\ <<d, made[d] + 1>> \notin Made(d) /\ <<d, made[d] + 1>> \notin receipts
<1>1. made[d] \in 0..MaxOps /\ MaxOps \in Nat BY FieldAssumption DEF FieldInv, FieldTypeOK
<1>2. made[d] \in Nat /\ made[d] + 1 \in 1..MaxOps BY <1>1
<1>3. <<d, made[d] + 1>> \in Ids BY <1>2 DEF Ids
<1>4. <<d, made[d] + 1>> \notin Made(d) BY <1>2 DEF Made
<1>5. <<d, made[d] + 1>> \notin receipts BY <1>4 DEF FieldInv, SyncOK, DeviceOK
<1> QED BY <1>2,<1>3,<1>4,<1>5

\* An operation is kept on its device.
LEMMA QueueInSync ==
  ASSUME FieldInv, NEW d \in Devices, Make(d), NEW op \in Operations, op.id = <<d, made[d] + 1>>,
      queue' = [queue EXCEPT ![d] = Append(@, op)], jobView' \in [Devices -> [Jobs -> JobStatus]],
      UNCHANGED <<serverVars, photos, online, sync, attempted, office, fieldFaults>>
  PROVE FieldInv'
<1> DEFINE q == queue[d]  new == <<d, made[d] + 1>>
<1>1. /\ made[d] \in Nat /\ made[d] + 1 \in 1..MaxOps /\ new \notin Made(d) /\ new \notin receipts BY NextIsNew DEF Make
<1>2. q \in Seq(Operations) /\ made \in [Devices -> 0..MaxOps] /\ queue \in [Devices -> Seq(Operations)] BY DEF FieldInv, FieldTypeOK
<1>3. made' = [made EXCEPT ![d] = made[d] + 1] /\ made'[d] = made[d] + 1 BY <1>2 DEF Make
<1>4. queue'[d] = Append(q, op) /\ Append(q, op) \in Seq(Operations) BY <1>2
<1>5. made' \in [Devices -> 0..MaxOps]
 <2>1. made[d] + 1 \in 0..MaxOps BY <1>1
 <2> QED BY <1>2,<1>3,<2>1
<1>6. queue' \in [Devices -> Seq(Operations)] BY <1>2,<1>4
<1>7. FieldTypeOK' BY <1>5,<1>6 DEF FieldInv, FieldTypeOK, serverVars
<1>8. /\ DOMAIN Append(q, op) = 1 .. Len(q) + 1 /\ DOMAIN q = 1 .. Len(q) /\ Len(q) \in Nat
      /\ \A k \in 1..Len(q) : Append(q, op)[k] = q[k]
      /\ Append(q, op)[Len(q) + 1] = op BY <1>2, AppendProperties
<1>9. Ops(queue'[d]) = Ops(q) \cup {new} BY <1>2,<1>4, AppendOps
<1>10. Made(d)' = Made(d) \cup {new} BY <1>1,<1>3 DEF Made
<1>11. UNCHANGED <<receipts, effects, photos[d], sync[d]>> /\ SyncOK(d) BY DEF FieldInv, serverVars
<1>12. \A e \in Devices \ {d} : UNCHANGED Side(e) BY <1>2,<1>3 DEF Side
<1>13. DeviceOK(d)'
 <2>1. Ascending(queue'[d], d, made'[d])
  <3>1. Ascending(q, d, made[d]) BY <1>11 DEF SyncOK, DeviceOK
  <3>2. Ascending(Append(q, op), d, made[d] + 1) BY <1>1,<1>2,<3>1, AppendAscends
  <3> QED BY <1>3,<1>4,<3>2
 <2>2. Ascending(sync'[d].left, d, made'[d])
  <3>1. Ascending(sync[d].left, d, made[d]) BY <1>11 DEF SyncOK, DeviceOK
  <3>2. made[d] <= made[d] + 1 /\ made[d] + 1 \in Nat BY <1>1
  <3>3. Ascending(sync[d].left, d, made[d] + 1) BY <1>1,<3>1,<3>2, TopRises
  <3> QED BY <1>3,<1>11,<3>3
 <2>3. /\ photos[d] \cup sync[d].photos \subseteq Made(d)
       /\ (photos[d] \cup sync[d].photos) \cap (Ops(q) \cup Ops(sync[d].left)) = {}
       /\ \A i \in receipts : i[1] = d => i \in Made(d) BY <1>11 DEF SyncOK, DeviceOK
 <2>4. (photos'[d] \cup sync'[d].photos) \subseteq Made(d)' BY <1>10,<1>11,<2>3
 <2>5. (photos'[d] \cup sync'[d].photos) \cap (Ops(queue'[d]) \cup Ops(sync'[d].left)) = {} BY <1>1,<1>9,<1>11,<2>3
 <2>6. \A i \in receipts' : i[1] = d => i \in Made(d)' BY <1>10,<1>11,<2>3
 <2>7. Ops(queue[d])' = Ops(queue'[d]) /\ Ops(sync[d].left)' = Ops(sync'[d].left) BY DEF Ops
 <2>8. Ascending(queue[d], d, made[d])' /\ Ascending(sync[d].left, d, made[d])' BY <2>1,<2>2 DEF Ascending
 <2> QED BY <2>4,<2>5,<2>6,<2>7,<2>8 DEF DeviceOK
<1>14. LeftFirst(d)'
 <2>1. ASSUME NEW m \in DOMAIN queue'[d], NEW n \in DOMAIN sync[d].left, queue'[d][m].id[2] <= sync[d].left[n].id[2]
   PROVE queue'[d][m].id \in Ops(sync[d].left)
  <3>1. PICK k \in 1..made[d] : sync[d].left[n].id = <<d, k>> BY <1>11 DEF SyncOK, DeviceOK, Ascending
  <3>2. m # Len(q) + 1 BY <1>1,<1>4,<1>8,<2>1,<3>1
  <3>3. m \in DOMAIN q /\ queue'[d][m] = q[m] BY <1>4,<1>8,<3>2
  <3> QED BY <1>11,<2>1,<3>3 DEF SyncOK, LeftFirst
 <2>2. Ops(sync[d].left)' = Ops(sync[d].left) BY <1>11 DEF Ops
 <2> QED BY <1>11,<2>1,<2>2 DEF LeftFirst
<1>15. AnsweredOK(d)' BY <1>11 DEF SyncOK, AnsweredOK, Batch, Ops
<1>16. GoneOK(d)'
 <2>1. ASSUME NEW n \in 1..made[d] + 1, <<d, n>> \notin Ops(queue'[d]) \cup photos[d] PROVE <<d, n>> \in receipts
  <3>1. n # made[d] + 1 BY <1>9,<2>1
  <3>2. n \in 1..made[d] BY <1>1,<3>1
  <3> QED BY <1>9,<1>11,<2>1,<3>2 DEF SyncOK, GoneOK, Queued
 <2>2. Ops(queue[d])' = Ops(queue'[d]) BY DEF Ops
 <2> QED BY <1>3,<1>11,<2>1,<2>2 DEF GoneOK, Queued
<1>17. InOrder(d)'
 <2>1. ASSUME NEW m \in DOMAIN queue'[d], NEW n \in DOMAIN queue'[d], m < n, queue'[d][n].id \in receipts PROVE queue'[d][m].id \in receipts
  <3>1. n # Len(q) + 1 BY <1>1,<1>4,<1>8,<2>1
  <3>2. n \in DOMAIN q /\ m \in DOMAIN q BY <1>4,<1>8,<2>1,<3>1
  <3>3. queue'[d][m] = q[m] /\ queue'[d][n] = q[n] BY <1>4,<1>8,<3>2
  <3> QED BY <1>11,<2>1,<3>2,<3>3 DEF SyncOK, InOrder
 <2> QED BY <1>11,<2>1 DEF InOrder
<1>18. SyncOK(d)' BY <1>13,<1>14,<1>15,<1>16,<1>17 DEF SyncOK
<1> QED BY <1>7,<1>11,<1>12,<1>18, OneInSync

LEMMA SetJobStatusInSync == ASSUME FieldInv, NEW d \in Devices, NEW j \in Jobs, NEW s \in JobTargets, SetJobStatus(d, j, s) PROVE FieldInv'
<1> PICK op : op = [id |-> <<d, made'[d]>>, kind |-> "STATUS_CHANGED", job |-> j, from |-> EffectiveStatus(d, j), to |-> s] OBVIOUS
<1>1. Make(d) BY DEF SetJobStatus
<1>2. made[d] + 1 \in 1..MaxOps /\ <<d, made[d] + 1>> \in Ids /\ made'[d] = made[d] + 1
 <2>1. made \in [Devices -> 0..MaxOps] BY DEF FieldInv, FieldTypeOK
 <2> QED BY <1>1,<2>1, NextIsNew DEF Make
<1>3. op \in Operations
 <2>1. EffectiveStatus(d, j) \in JobStatus BY EffectiveIsStatus DEF FieldInv
 <2>2. s \in JobStatus BY FieldAssumption
 <2> QED BY <1>2,<2>1,<2>2 DEF Operations, OpKinds
<1>4. op.id = <<d, made[d] + 1>> BY <1>2
<1>5. queue' = [queue EXCEPT ![d] = Append(@, op)] BY DEF SetJobStatus
<1>6. jobView' \in [Devices -> [Jobs -> JobStatus]]
 <2>1. jobView \in [Devices -> [Jobs -> JobStatus]] /\ s \in JobStatus BY FieldAssumption DEF FieldInv, FieldTypeOK
 <2>2. jobView' = [jobView EXCEPT ![d][j] = s] BY DEF SetJobStatus
 <2> QED BY <2>1,<2>2
<1>7. UNCHANGED <<serverVars, photos, online, sync, attempted, office, fieldFaults>> BY DEF SetJobStatus
<1> QED BY <1>1,<1>3,<1>4,<1>5,<1>6,<1>7, QueueInSync

LEMMA AddNoteInSync == ASSUME FieldInv, NEW d \in Devices, NEW j \in Jobs, NEW kind \in NoteKinds, AddNote(d, j, kind) PROVE FieldInv'
<1> PICK op : op = [id |-> <<d, made'[d]>>, kind |-> kind, job |-> j, from |-> "OPEN", to |-> "OPEN"] OBVIOUS
<1>1. Make(d) BY DEF AddNote
<1>2. made[d] + 1 \in 1..MaxOps /\ <<d, made[d] + 1>> \in Ids /\ made'[d] = made[d] + 1
 <2>1. made \in [Devices -> 0..MaxOps] BY DEF FieldInv, FieldTypeOK
 <2> QED BY <1>1,<2>1, NextIsNew DEF Make
<1>3. op \in Operations BY <1>2 DEF Operations, OpKinds, JobStatus
<1>4. op.id = <<d, made[d] + 1>> BY <1>2
<1>5. queue' = [queue EXCEPT ![d] = Append(@, op)] BY DEF AddNote
<1>6. jobView' \in [Devices -> [Jobs -> JobStatus]] BY DEF AddNote, FieldInv, FieldTypeOK
<1>7. UNCHANGED <<serverVars, photos, online, sync, attempted, office, fieldFaults>> BY DEF AddNote
<1> QED BY <1>1,<1>3,<1>4,<1>5,<1>6,<1>7, QueueInSync

LEMMA AddPhotoInSync == ASSUME FieldInv, NEW d \in Devices, AddPhoto(d) PROVE FieldInv'
<1> DEFINE new == <<d, made[d] + 1>>
<1>0. Make(d) BY DEF AddPhoto
<1>1. /\ made[d] \in Nat /\ made[d] + 1 \in 1..MaxOps /\ new \in Ids /\ new \notin Made(d) /\ new \notin receipts BY <1>0, NextIsNew DEF Make
<1>2. made \in [Devices -> 0..MaxOps] /\ photos \in [Devices -> SUBSET Ids] BY DEF FieldInv, FieldTypeOK
<1>3. made' = [made EXCEPT ![d] = made[d] + 1] /\ made'[d] = made[d] + 1 BY <1>0,<1>2 DEF Make
<1>4. photos' = [photos EXCEPT ![d] = photos[d] \cup {new}] BY <1>3 DEF AddPhoto
<1>5. photos'[d] = photos[d] \cup {new} BY <1>2,<1>4
<1>6. FieldTypeOK'
 <2>1. made[d] + 1 \in 0..MaxOps BY <1>1
 <2>2. made' \in [Devices -> 0..MaxOps] BY <1>2,<1>3,<2>1
 <2>3. photos[d] \cup {new} \in SUBSET Ids BY <1>1,<1>2
 <2>4. photos' \in [Devices -> SUBSET Ids] BY <1>2,<1>4,<2>3
 <2> QED BY <2>2,<2>4 DEF AddPhoto, FieldInv, FieldTypeOK, serverVars
<1>7. UNCHANGED <<receipts, effects, queue, queue[d], sync[d]>> /\ SyncOK(d) BY DEF FieldInv, serverVars, AddPhoto
<1>8. \A e \in Devices \ {d} : UNCHANGED Side(e) BY <1>2,<1>3,<1>4 DEF Side, AddPhoto
<1>9. Made(d)' = Made(d) \cup {new} BY <1>1,<1>3 DEF Made
<1>10. Ops(queue[d])' = Ops(queue[d]) /\ Ops(sync[d].left)' = Ops(sync[d].left) BY <1>7 DEF Ops
<1>11. DeviceOK(d)'
 <2>1. Ascending(queue[d], d, made[d]) /\ Ascending(sync[d].left, d, made[d]) BY <1>7 DEF SyncOK, DeviceOK
 <2>2. made[d] <= made[d] + 1 /\ made[d] + 1 \in Nat BY <1>1
 <2>3. Ascending(queue[d], d, made[d] + 1) /\ Ascending(sync[d].left, d, made[d] + 1) BY <1>1,<2>1,<2>2, TopRises
 <2>4. Ascending(queue[d], d, made[d])' /\ Ascending(sync[d].left, d, made[d])' BY <1>3,<1>7,<2>3 DEF Ascending
 <2>5. /\ photos[d] \cup sync[d].photos \subseteq Made(d)
       /\ (photos[d] \cup sync[d].photos) \cap (Ops(queue[d]) \cup Ops(sync[d].left)) = {}
       /\ \A i \in receipts : i[1] = d => i \in Made(d)
       /\ Ops(queue[d]) \cup Ops(sync[d].left) \subseteq Made(d) BY <1>7 DEF SyncOK, DeviceOK, Ascending, Ops, Made
 <2>6. (photos'[d] \cup sync'[d].photos) \subseteq Made(d)' BY <1>5,<1>7,<1>9,<2>5
 <2>7. ((photos[d] \cup sync[d].photos) \cap (Ops(queue[d]) \cup Ops(sync[d].left)) = {})' BY <1>1,<1>5,<1>7,<1>10,<2>5
 <2>8. \A i \in receipts' : i[1] = d => i \in Made(d)' BY <1>7,<1>9,<2>5
 <2> QED BY <2>4,<2>6,<2>7,<2>8 DEF DeviceOK
<1>12. LeftFirst(d)' BY <1>7 DEF SyncOK, LeftFirst, Ops
<1>13. AnsweredOK(d)' BY <1>7 DEF SyncOK, AnsweredOK, Batch, Ops
<1>14. GoneOK(d)'
 <2>1. ASSUME NEW n \in 1..made[d] + 1, <<d, n>> \notin Ops(queue[d]) \cup photos'[d] PROVE <<d, n>> \in receipts
  <3>1. n # made[d] + 1 BY <1>5,<2>1
  <3>2. n \in 1..made[d] BY <1>1,<3>1
  <3> QED BY <1>5,<1>7,<2>1,<3>2 DEF SyncOK, GoneOK, Queued
 <2> QED BY <1>3,<1>7,<1>10,<2>1 DEF GoneOK, Queued
<1>15. InOrder(d)' BY <1>7 DEF SyncOK, InOrder
<1>16. SyncOK(d)' BY <1>11,<1>12,<1>13,<1>14,<1>15 DEF SyncOK
<1> QED BY <1>6,<1>7,<1>8,<1>16, OneInSync

\* A synchronisation begins, or ends with nothing more to send.
LEMMA RestartInSync ==
  ASSUME FieldInv, NEW d \in Devices, NEW new \in Syncs, new.stage # "answered", new.left = <<>>,
      new.photos \subseteq photos[d], sync' = [sync EXCEPT ![d] = new], UNCHANGED <<receipts, effects, queue, photos, made>>, FieldTypeOK'
  PROVE FieldInv'
<1>1. sync'[d] = new /\ \A e \in Devices \ {d} : sync'[e] = sync[e] BY DEF FieldInv, FieldTypeOK
<1>2. \A e \in Devices \ {d} : UNCHANGED Side(e) BY <1>1 DEF Side
<1>3. SyncOK(d) BY DEF FieldInv
<1>4. Ops(new.left) = {} /\ DOMAIN new.left = {} BY DEF Ops
<1>5. Ops(queue[d])' = Ops(queue[d]) /\ Ops(sync[d].left)' = {} BY <1>1,<1>4 DEF Ops
<1>6. DeviceOK(d)'
 <2>1. Ascending(queue[d], d, made[d])' BY <1>3 DEF SyncOK, DeviceOK, Ascending
 <2>2. Ascending(sync[d].left, d, made[d])' BY <1>1,<1>4 DEF Ascending
 <2>3. /\ photos[d] \cup sync[d].photos \subseteq Made(d)
       /\ (photos[d] \cup sync[d].photos) \cap (Ops(queue[d]) \cup Ops(sync[d].left)) = {}
       /\ \A i \in receipts : i[1] = d => i \in Made(d) BY <1>3 DEF SyncOK, DeviceOK
 <2>4. Made(d)' = Made(d) BY DEF Made
 <2>5. (photos[d] \cup sync[d].photos \subseteq Made(d))' BY <1>1,<2>3,<2>4
 <2>6. ((photos[d] \cup sync[d].photos) \cap (Ops(queue[d]) \cup Ops(sync[d].left)) = {})' BY <1>1,<1>5,<2>3
 <2>7. (\A i \in receipts : i[1] = d => i \in Made(d))' BY <2>3,<2>4
 <2> QED BY <2>1,<2>2,<2>5,<2>6,<2>7 DEF DeviceOK
<1>7. LeftFirst(d)' BY <1>1,<1>4 DEF LeftFirst
<1>8. AnsweredOK(d)' BY <1>1 DEF AnsweredOK
<1>9. GoneOK(d)' BY <1>3,<1>5 DEF SyncOK, GoneOK, Queued
<1>10. InOrder(d)' BY <1>3 DEF SyncOK, InOrder
<1>11. SyncOK(d)' BY <1>6,<1>7,<1>8,<1>9,<1>10 DEF SyncOK
<1> QED BY <1>2,<1>11, OneInSync

LEMMA StartInSync == ASSUME FieldInv, NEW d \in Devices, AutoSync(d) \/ PressSync(d) PROVE FieldInv'
<1> PICK new : new = [stage |-> "photos", photos |-> photos[d], left |-> <<>>] OBVIOUS
<1>1. new \in Syncs /\ new.stage # "answered" /\ new.left = <<>> /\ new.photos \subseteq photos[d]
 <2>1. photos[d] \in SUBSET Ids /\ <<>> \in Seq(Operations) BY DEF FieldInv, FieldTypeOK
 <2> QED BY <2>1 DEF Syncs
<1>2. sync' = [sync EXCEPT ![d] = new] BY DEF AutoSync, PressSync, Start
<1>3. UNCHANGED <<job, receipts, effects, queue, photos, made, jobView, online, office, fieldFaults>> BY DEF AutoSync, PressSync, serverVars
<1>4. attempted' \subseteq Devices BY DEF AutoSync, PressSync, FieldInv, FieldTypeOK
<1>5. sync' \in [Devices -> Syncs] BY <1>1,<1>2 DEF FieldInv, FieldTypeOK, Syncs
<1>6. FieldTypeOK' BY <1>3,<1>4,<1>5 DEF FieldInv, FieldTypeOK, Syncs
<1> QED BY <1>1,<1>2,<1>3,<1>6, RestartInSync

\* An end of a synchronisation: the page has been told, or has lost its memory.
LEMMA EndInSync ==
  ASSUME FieldInv, NEW d \in Devices, sync' = [sync EXCEPT ![d] = Idle],
      UNCHANGED <<serverVars, queue, photos, made, online>>, attempted' \subseteq Devices,
      jobView' \in [Devices -> [Jobs -> JobStatus]], office' \in 0..MaxOffice, fieldFaults' \in 0..MaxFieldFaults
  PROVE FieldInv'
<1>1. Idle \in Syncs /\ Idle.stage # "answered" /\ Idle.left = <<>> /\ Idle.photos \subseteq photos[d] BY DEF Idle, Syncs
<1>2. UNCHANGED <<job, receipts, effects, queue, photos, made, online>> BY DEF serverVars
<1>3. sync' \in [Devices -> Syncs] BY <1>1 DEF FieldInv, FieldTypeOK, Syncs
<1>4. FieldTypeOK' BY <1>2,<1>3 DEF FieldInv, FieldTypeOK, Syncs
<1> HIDE DEF Idle
<1> QED BY <1>1,<1>2,<1>4, RestartInSync

LEMMA FaultIsCounted == ASSUME FieldInv, FieldFault PROVE fieldFaults' \in 0..MaxFieldFaults
BY FieldAssumption DEF FieldFault, FieldInv, FieldTypeOK

LEMMA FinishInSync == ASSUME FieldInv, NEW d \in Devices, FinishSync(d) \/ ReloadPage(d) PROVE FieldInv'
<1>1. CASE FinishSync(d)
 <2>1. jobView' \in [Devices -> [Jobs -> JobStatus]] BY <1>1 DEF FinishSync, FieldInv, FieldTypeOK
 <2>2. sync' = [sync EXCEPT ![d] = Idle] /\ UNCHANGED <<serverVars, queue, photos, made, online, attempted, office, fieldFaults>>
   BY <1>1 DEF FinishSync
 <2>3. attempted' \subseteq Devices /\ office' \in 0..MaxOffice /\ fieldFaults' \in 0..MaxFieldFaults BY <2>2 DEF FieldInv, FieldTypeOK
 <2> QED BY <2>1,<2>2,<2>3, EndInSync
<1>2. CASE ReloadPage(d)
 <2>1. sync' = [sync EXCEPT ![d] = Idle] /\ UNCHANGED <<serverVars, queue, photos, made, jobView, online, office>> BY <1>2 DEF ReloadPage
 <2>2. attempted' \subseteq Devices /\ office' \in 0..MaxOffice /\ jobView' \in [Devices -> [Jobs -> JobStatus]]
   BY <1>2,<2>1 DEF ReloadPage, FieldInv, FieldTypeOK
 <2>3. fieldFaults' \in 0..MaxFieldFaults BY <1>2, FaultIsCounted DEF ReloadPage
 <2> QED BY <2>1,<2>2,<2>3, EndInSync
<1> QED BY <1>1,<1>2

\* Steps of the office and of the connection.
LEMMA AsideInSync ==
  ASSUME FieldInv, UNCHANGED <<receipts, effects, queue, photos, made, sync>>,
      job' \in [Jobs -> JobStatus], jobView' \in [Devices -> [Jobs -> JobStatus]], online' \subseteq Devices, attempted' \subseteq Devices,
      office' \in 0..MaxOffice, fieldFaults' \in 0..MaxFieldFaults
  PROVE FieldInv'
<1>1. FieldTypeOK' BY DEF FieldInv, FieldTypeOK
<1>2. Counted' /\ \A e \in Devices : SyncOK(e)' BY AllInSync
<1> QED BY <1>1,<1>2 DEF FieldInv

LEMMA ViewsAreTyped ==
  ASSUME FieldInv, NEW d \in Devices PROVE [jobView EXCEPT ![d] = job] \in [Devices -> [Jobs -> JobStatus]] BY DEF FieldInv, FieldTypeOK

LEMMA PlainStepsInSync == ASSUME FieldInv, NEW d \in Devices, ResetAttempt(d) \/ LoadJobs(d) \/ Disconnect(d) \/ Connect(d) PROVE FieldInv'
<1> USE DEF serverVars
<1>0. FieldTypeOK BY DEF FieldInv
<1>1. UNCHANGED <<receipts, effects, queue, photos, made, sync>>
 <2>1. CASE ResetAttempt(d) BY <2>1 DEF ResetAttempt
 <2>2. CASE LoadJobs(d) BY <2>2 DEF LoadJobs
 <2>3. CASE Disconnect(d) BY <2>3 DEF Disconnect
 <2>4. CASE Connect(d) BY <2>4 DEF Connect
 <2> QED BY <2>1,<2>2,<2>3,<2>4
<1>2. job' \in [Jobs -> JobStatus] /\ online' \subseteq Devices /\ attempted' \subseteq Devices /\ office' \in 0..MaxOffice
 <2>1. CASE ResetAttempt(d) BY <1>0,<2>1 DEF ResetAttempt, FieldTypeOK
 <2>2. CASE LoadJobs(d) BY <1>0,<2>2 DEF LoadJobs, FieldTypeOK
 <2>3. CASE Disconnect(d) BY <1>0,<2>3 DEF Disconnect, FieldTypeOK
 <2>4. CASE Connect(d) BY <1>0,<2>4 DEF Connect, FieldTypeOK
 <2> QED BY <2>1,<2>2,<2>3,<2>4
<1>3. jobView' \in [Devices -> [Jobs -> JobStatus]]
 <2>1. CASE ResetAttempt(d) BY <1>0,<2>1 DEF ResetAttempt, FieldTypeOK
 <2>2. CASE LoadJobs(d) BY <2>2, ViewsAreTyped DEF LoadJobs
 <2>3. CASE Disconnect(d) BY <1>0,<2>3 DEF Disconnect, FieldTypeOK
 <2>4. CASE Connect(d) BY <2>4, ViewsAreTyped DEF Connect
 <2> QED BY <2>1,<2>2,<2>3,<2>4
<1>4. fieldFaults' \in 0..MaxFieldFaults
 <2>1. CASE ResetAttempt(d) BY <1>0,<2>1 DEF ResetAttempt, FieldTypeOK
 <2>2. CASE LoadJobs(d) BY <1>0,<2>2 DEF LoadJobs, FieldTypeOK
 <2>3. CASE Disconnect(d) BY <2>3, FaultIsCounted DEF Disconnect
 <2>4. CASE Connect(d) BY <1>0,<2>4 DEF Connect, FieldTypeOK
 <2> QED BY <2>1,<2>2,<2>3,<2>4
<1> QED BY <1>1,<1>2,<1>3,<1>4, AsideInSync

LEMMA UpdateJobInSync == ASSUME FieldInv, NEW j \in Jobs, NEW s \in JobTargets, UpdateJob(j, s) PROVE FieldInv'
<1>1. UNCHANGED <<receipts, effects, queue, photos, made, sync, jobView, online, attempted, fieldFaults>> BY DEF UpdateJob
<1>2. job' \in [Jobs -> JobStatus] BY FieldAssumption DEF UpdateJob, FieldInv, FieldTypeOK
<1>3. office' \in 0..MaxOffice BY FieldAssumption DEF UpdateJob, FieldInv, FieldTypeOK
<1>4. jobView' \in [Devices -> [Jobs -> JobStatus]] /\ online' \subseteq Devices /\ attempted' \subseteq Devices /\ fieldFaults' \in 0..MaxFieldFaults
  BY <1>1 DEF FieldInv, FieldTypeOK
<1> QED BY <1>1,<1>2,<1>3,<1>4, AsideInSync

LEMMA ReadInSync == ASSUME FieldInv, NEW d \in Devices, ReadOperations(d) PROVE FieldInv'
<1>0. sync \in [Devices -> Syncs] /\ queue[d] \in Seq(Operations) BY DEF FieldInv, FieldTypeOK, Syncs
<1> PICK old \in Syncs : old = sync[d] BY <1>0
<1> PICK new : new = [old EXCEPT !.stage = "operations", !.left = queue[d]] OBVIOUS
<1>1. new \in Syncs /\ new.stage = "operations" /\ new.left = queue[d] /\ new.photos = old.photos BY <1>0 DEF Syncs
<1>2. sync' = [sync EXCEPT ![d] = new] BY <1>0 DEF ReadOperations
<1>3. sync'[d] = new /\ \A e \in Devices \ {d} : sync'[e] = sync[e] BY <1>0,<1>2
<1>4. UNCHANGED <<job, receipts, effects, queue, photos, made, jobView, online, attempted, office, fieldFaults>> BY DEF ReadOperations, serverVars
<1>5. sync' \in [Devices -> Syncs] BY <1>0,<1>1,<1>2
<1>6. FieldTypeOK' BY <1>4,<1>5 DEF FieldInv, FieldTypeOK, Syncs
<1>7. \A e \in Devices \ {d} : UNCHANGED Side(e) BY <1>3,<1>4 DEF Side
<1>8. SyncOK(d) BY DEF FieldInv
<1>9. Ops(queue[d])' = Ops(queue[d]) /\ Ops(sync[d].left)' = Ops(queue[d]) BY <1>1,<1>3,<1>4 DEF Ops
<1>10. DeviceOK(d)'
 <2>1. Ascending(queue[d], d, made[d])' /\ Ascending(sync[d].left, d, made[d])' BY <1>1,<1>3,<1>4,<1>8 DEF SyncOK, DeviceOK, Ascending
 <2>2. /\ photos[d] \cup sync[d].photos \subseteq Made(d)
       /\ (photos[d] \cup sync[d].photos) \cap (Ops(queue[d]) \cup Ops(sync[d].left)) = {}
       /\ \A i \in receipts : i[1] = d => i \in Made(d) BY <1>8 DEF SyncOK, DeviceOK
 <2>3. Made(d)' = Made(d) BY <1>4 DEF Made
 <2>4. ((photos[d] \cup sync[d].photos) \cap (Ops(queue[d]) \cup Ops(sync[d].left)) = {})' BY <1>1,<1>3,<1>4,<1>9,<2>2
 <2>5. (photos[d] \cup sync[d].photos \subseteq Made(d))' BY <1>1,<1>3,<1>4,<2>2,<2>3
 <2>6. (\A i \in receipts : i[1] = d => i \in Made(d))' BY <1>4,<2>2,<2>3
 <2> QED BY <2>1,<2>4,<2>5,<2>6 DEF DeviceOK
<1>11. LeftFirst(d)'
 <2>1. \A m \in DOMAIN queue[d] : queue[d][m].id \in Ops(queue[d]) BY DEF Ops
 <2> QED BY <1>4,<1>9,<2>1 DEF LeftFirst
<1>12. AnsweredOK(d)' BY <1>1,<1>3 DEF AnsweredOK
<1>13. GoneOK(d)' BY <1>4,<1>8,<1>9 DEF SyncOK, GoneOK, Queued
<1>14. InOrder(d)' BY <1>4,<1>8 DEF SyncOK, InOrder
<1>15. SyncOK(d)' BY <1>10,<1>11,<1>12,<1>13,<1>14 DEF SyncOK
<1> QED BY <1>4,<1>6,<1>7,<1>15, OneInSync

\* The server stores a photo, whether or not the device hears of it.
LEMMA PhotoInSync ==
  ASSUME FieldInv, NEW d \in Devices, NEW i \in sync[d].photos,
      receipts' = receipts \cup {i}, effects' = IF i \in receipts THEN effects ELSE [effects EXCEPT ![i] = @ + 1],
      NEW kept, photos[d] \ {i} \subseteq kept, kept \subseteq photos[d], photos' = [photos EXCEPT ![d] = kept],
      NEW new \in Syncs, new.stage # "answered", new.left = <<>> \/ new.left = sync[d].left,
      new.photos \subseteq sync[d].photos, sync' = [sync EXCEPT ![d] = new],
      UNCHANGED <<job, queue, made, jobView, online, attempted, office>>, fieldFaults' \in 0..MaxFieldFaults
  PROVE FieldInv'
<1>0. FieldTypeOK /\ Counted /\ SyncOK(d) BY DEF FieldInv
<1>1. photos'[d] = kept /\ sync'[d] = new BY <1>0 DEF FieldTypeOK
<1>2. /\ photos[d] \cup sync[d].photos \subseteq Made(d)
      /\ (photos[d] \cup sync[d].photos) \cap (Ops(queue[d]) \cup Ops(sync[d].left)) = {}
      /\ \A r \in receipts : r[1] = d => r \in Made(d) BY <1>0 DEF SyncOK, DeviceOK
<1>3. i \in Ids /\ i \in Made(d) /\ i[1] = d /\ i \notin Ops(queue[d])
 <2>1. i \in Ids BY <1>0 DEF FieldTypeOK
 <2>2. i \in Made(d) /\ i \notin Ops(queue[d]) BY <1>2
 <2> QED BY <2>1,<2>2 DEF Made
<1>4. Counted'
 <2>1. effects \in [Ids -> Nat] BY <1>0 DEF FieldTypeOK
 <2>2. i \notin receipts => effects[i] = 0 BY <1>0,<1>3 DEF Counted
 <2>3. CASE i \in receipts BY <1>0,<2>3 DEF Counted
 <2>4. CASE i \notin receipts
  <3>1. effects'[i] = 1 /\ \A r \in Ids \ {i} : effects'[r] = effects[r] BY <1>3,<2>1,<2>2,<2>4
  <3> QED BY <1>0,<3>1 DEF Counted
 <2> QED BY <2>3,<2>4
<1>5. FieldTypeOK'
 <2>1. effects' \in [Ids -> Nat]
  <3>1. effects \in [Ids -> Nat] BY <1>0 DEF FieldTypeOK
  <3>2. effects[i] + 1 \in Nat BY <1>3,<3>1
  <3>3. [effects EXCEPT ![i] = @ + 1] = [effects EXCEPT ![i] = effects[i] + 1] BY <3>1
  <3>4. [effects EXCEPT ![i] = effects[i] + 1] \in [Ids -> Nat] BY <3>1,<3>2
  <3> QED BY <3>1,<3>3,<3>4
 <2>2. photos' \in [Devices -> SUBSET Ids] BY <1>0 DEF FieldTypeOK
 <2>3. sync' \in [Devices -> Syncs] BY <1>0 DEF FieldTypeOK, Syncs
 <2>4. receipts' \subseteq Ids BY <1>0,<1>3 DEF FieldTypeOK
 <2> QED BY <1>0,<2>1,<2>2,<2>3,<2>4 DEF FieldTypeOK, Syncs
<1>6. \A e \in Devices \ {d} : UNCHANGED Side(e) BY <1>0 DEF Side, FieldTypeOK
<1>7. Ops(queue[d])' = Ops(queue[d]) /\ Ops(new.left) \subseteq Ops(sync[d].left) /\ Ops(sync[d].left)' = Ops(new.left) BY <1>1 DEF Ops
<1>8. DeviceOK(d)'
 <2>1. Ascending(queue[d], d, made[d])' BY <1>0 DEF SyncOK, DeviceOK, Ascending
 <2>2. Ascending(sync[d].left, d, made[d])'
  <3>1. CASE new.left = <<>> BY <1>1,<3>1 DEF Ascending
  <3>2. CASE new.left = sync[d].left BY <1>0,<1>1,<3>2 DEF SyncOK, DeviceOK, Ascending
  <3> QED BY <3>1,<3>2
 <2>3. Made(d)' = Made(d) BY DEF Made
 <2>4. (photos[d] \cup sync[d].photos \subseteq Made(d))' BY <1>1,<1>2,<2>3
 <2>5. ((photos[d] \cup sync[d].photos) \cap (Ops(queue[d]) \cup Ops(sync[d].left)) = {})' BY <1>1,<1>2,<1>7
 <2>6. (\A r \in receipts : r[1] = d => r \in Made(d))' BY <1>2,<1>3,<2>3
 <2> QED BY <2>1,<2>2,<2>4,<2>5,<2>6 DEF DeviceOK
<1>9. LeftFirst(d)'
 <2>1. CASE new.left = <<>> BY <1>1,<2>1 DEF LeftFirst
 <2>2. CASE new.left = sync[d].left BY <1>0,<1>1,<2>2 DEF SyncOK, LeftFirst, Ops
 <2> QED BY <2>1,<2>2
<1>10. AnsweredOK(d)' BY <1>1 DEF AnsweredOK
<1>11. GoneOK(d)' BY <1>0,<1>1,<1>7 DEF SyncOK, GoneOK, Queued
<1>12. InOrder(d)'
 <2>1. \A m \in DOMAIN queue[d] : queue[d][m].id # i BY <1>3 DEF Ops
 <2> QED BY <1>0,<2>1 DEF SyncOK, InOrder
<1>13. SyncOK(d)' BY <1>8,<1>9,<1>10,<1>11,<1>12 DEF SyncOK
<1>14. \A e \in Devices \ {d} : SyncOK(e)'
 <2>1. receipts \subseteq receipts' /\ \A r \in receipts' \ receipts : r[1] = d BY <1>3
 <2> QED BY <1>6,<2>1, OthersInSync
<1> QED BY <1>4,<1>5,<1>13,<1>14 DEF FieldInv

LEMMA UploadInSync == ASSUME FieldInv, NEW d \in Devices, UploadPhoto(d) PROVE FieldInv'
<1>0. sync \in [Devices -> Syncs] /\ photos \in [Devices -> SUBSET Ids] BY DEF FieldInv, FieldTypeOK, Syncs
<1> PICK old \in Syncs : old = sync[d] BY <1>0
<1>1. PICK i \in sync[d].photos :
        /\ receipts' = receipts \cup {i}
        /\ effects' = IF i \in receipts THEN effects ELSE [effects EXCEPT ![i] = @ + 1]
        /\ photos' = [photos EXCEPT ![d] = @ \ {i}]
        /\ sync' = [sync EXCEPT ![d].photos = @ \ {i}] BY DEF UploadPhoto
<1> PICK new : new = [old EXCEPT !.photos = old.photos \ {i}] OBVIOUS
<1>2. new \in Syncs /\ new.stage = old.stage /\ new.left = old.left /\ new.photos = old.photos \ {i} BY DEF Syncs
<1>3. sync' = [sync EXCEPT ![d] = new] BY <1>0,<1>1
<1>4. old.stage # "answered" /\ UNCHANGED <<job, queue, made, jobView, online, attempted, office>>
      /\ fieldFaults' = fieldFaults BY DEF UploadPhoto
<1>5. new.stage # "answered" /\ new.photos \subseteq sync[d].photos /\ new.left = sync[d].left BY <1>2,<1>4
<1> PICK kept : kept = photos[d] \ {i} OBVIOUS
<1>6. photos[d] \ {i} \subseteq kept /\ kept \subseteq photos[d] /\ photos' = [photos EXCEPT ![d] = kept] BY <1>0,<1>1
<1>7. fieldFaults' \in 0..MaxFieldFaults BY <1>4 DEF FieldInv, FieldTypeOK
<1>8. receipts' = receipts \cup {i} /\ effects' = IF i \in receipts THEN effects ELSE [effects EXCEPT ![i] = @ + 1] BY <1>1
<1> QED BY ONLY FieldInv, <1>2,<1>3,<1>4,<1>5,<1>6,<1>7,<1>8, PhotoInSync

\* The batch is the first part of what is left.
LEMMA BatchIsFirst ==
  ASSUME FieldInv, NEW d \in Devices
  PROVE  /\ Batch(d) \in Seq(Operations) /\ Len(Batch(d)) \in 0 .. Len(sync[d].left)
         /\ Ascending(Batch(d), d, made[d])
         /\ \A k \in 1..Len(Batch(d)) : Batch(d)[k] = sync[d].left[k]
         /\ Ops(Batch(d)) \subseteq Ops(sync[d].left) /\ Ops(sync[d].left) \subseteq Made(d)
<1> DEFINE s == sync[d].left
           top == IF Len(s) < SyncBatch THEN Len(s) ELSE SyncBatch
<1>1. s \in Seq(Operations) /\ Ascending(s, d, made[d]) BY DEF FieldInv, FieldTypeOK, SyncOK, DeviceOK
<1>2. Len(s) \in Nat /\ DOMAIN s = 1..Len(s) BY <1>1
<1>3. top \in 0..Len(s) BY <1>2, FieldAssumption
<1>4. Batch(d) = SubSeq(s, 1, top) BY DEF Batch
<1> PICK t : t = top OBVIOUS
<1> HIDE DEF s, top
<1>5. /\ SubSeq(s, 1, t) \in Seq(Operations)
      /\ \A k \in DOMAIN SubSeq(s, 1, t) : k + 1 - 1 \in 1..t /\ SubSeq(s, 1, t)[k] = s[k + 1 - 1]
      /\ Len(SubSeq(s, 1, t)) = IF 1 <= t THEN t - 1 + 1 ELSE 0
      /\ Ascending(SubSeq(s, 1, t), d, made[d])
 <2>1. 1 \in Nat \ {0} /\ t \in 0..Len(s) BY <1>3
 <2> QED BY ONLY <1>1,<2>1, PartAscends
<1> PICK b : b = Batch(d) OBVIOUS
<1>6. b \in Seq(Operations) /\ Ascending(b, d, made[d]) /\ Len(b) = t
 <2>1. Len(b) = IF 1 <= t THEN t - 1 + 1 ELSE 0 BY <1>4,<1>5
 <2> QED BY <1>2,<1>3,<1>4,<1>5,<2>1
<1>7. \A k \in 1..Len(b) : b[k] = s[k] /\ k \in DOMAIN s
 <2>1. DOMAIN b = 1..Len(b) BY <1>6
 <2>2. \A k \in DOMAIN b : b[k] = s[k + 1 - 1] BY <1>4,<1>5
 <2> QED BY <1>2,<1>3,<1>6,<2>1,<2>2
<1>8. Ops(b) \subseteq Ops(s) BY <1>6,<1>7 DEF Ops
<1>9. Ops(s) \subseteq Made(d) BY <1>1 DEF Ops, Ascending, Made
<1> QED BY <1>3,<1>6,<1>7,<1>8,<1>9 DEF s

\* The server accepts a batch, whether or not the device hears of it.
LEMMA BatchInSync ==
  ASSUME FieldInv, NEW d \in Devices, Accepts(Batch(d)), SyncOfflineOperations(Batch(d)),
      NEW new \in Syncs, sync' = [sync EXCEPT ![d] = new],
      \/ new.stage # "answered" /\ new.left = <<>> /\ new.photos = {}
      \/ new.left = sync[d].left /\ new.photos = sync[d].photos,
      UNCHANGED <<queue, photos, made, jobView, online, attempted, office>>, fieldFaults' \in 0..MaxFieldFaults
  PROVE FieldInv'
<1> PICK b : b = Batch(d) OBVIOUS
<1>0. FieldTypeOK /\ Counted /\ SyncOK(d) BY DEF FieldInv
<1>1. /\ b \in Seq(Operations) /\ Len(b) \in Nat /\ DOMAIN b = 1 .. Len(b)
      /\ Len(b) <= Len(sync[d].left) /\ Len(sync[d].left) \in Nat /\ DOMAIN sync[d].left = 1..Len(sync[d].left)
      /\ \A k \in 1..Len(b) : b[k] = sync[d].left[k]
      /\ Ops(b) \subseteq Ops(sync[d].left) /\ Ops(sync[d].left) \subseteq Made(d)
 <2>1. sync[d].left \in Seq(Operations) BY <1>0 DEF FieldTypeOK
 <2> QED BY <2>1, BatchIsFirst
<1>2. /\ job' = [j \in Jobs |-> StatusBefore(b, Len(b) + 1, j)]
      /\ receipts' = receipts \cup Ops(b)
      /\ effects' = [i \in Ids |-> effects[i] + IF i \in Ops(b) \ receipts THEN 1 ELSE 0] BY DEF SyncOfflineOperations
<1>3. sync'[d] = new BY <1>0 DEF FieldTypeOK
<1>4. Ops(b) \subseteq Ids
 <2>1. \A n \in DOMAIN b : b[n] \in Operations BY <1>1
 <2> QED BY <2>1 DEF Ops, Operations
<1>5. Counted'
 <2>1. ASSUME NEW i \in Ids PROVE effects'[i] = IF i \in receipts' THEN 1 ELSE 0
  <3>1. effects'[i] = effects[i] + IF i \in Ops(b) \ receipts THEN 1 ELSE 0 BY <1>2
  <3>2. effects[i] = IF i \in receipts THEN 1 ELSE 0 BY <1>0 DEF Counted
  <3> QED BY <1>2,<3>1,<3>2
 <2> QED BY <2>1 DEF Counted
<1>6. FieldTypeOK'
 <2>1. effects' \in [Ids -> Nat]
  <3>1. \A i \in Ids : effects[i] \in Nat BY <1>0 DEF FieldTypeOK
  <3>2. \A i \in Ids : effects[i] + (IF i \in Ops(b) \ receipts THEN 1 ELSE 0) \in Nat BY <3>1
  <3> QED BY <1>2,<3>2
 <2>2. job' \in [Jobs -> JobStatus]
  <3>1. Len(b) + 1 \in 1..Len(b) + 1 BY <1>1
  <3>2. \A j \in Jobs : StatusBefore(b, Len(b) + 1, j) \in JobStatus BY <1>0,<1>1,<3>1, BeforeIsStatus
  <3> QED BY <1>2,<3>2
 <2>3. sync' \in [Devices -> Syncs] BY <1>0 DEF FieldTypeOK, Syncs
 <2>4. receipts' \subseteq Ids BY <1>0,<1>2,<1>4 DEF FieldTypeOK
 <2> QED BY <1>0,<2>1,<2>2,<2>3,<2>4 DEF FieldTypeOK, Syncs
<1>7. \A e \in Devices \ {d} : UNCHANGED Side(e) BY <1>0 DEF Side, FieldTypeOK
<1>8. Ops(queue[d])' = Ops(queue[d]) /\ Ops(sync[d].left)' \subseteq Ops(sync[d].left) BY <1>3 DEF Ops
<1>9. DeviceOK(d)'
 <2>1. Ascending(queue[d], d, made[d])' BY <1>0 DEF SyncOK, DeviceOK, Ascending
 <2>2. Ascending(sync[d].left, d, made[d])'
  <3>1. CASE new.left = <<>> BY <1>3,<3>1 DEF Ascending
  <3>2. CASE new.left = sync[d].left BY <1>0,<1>3,<3>2 DEF SyncOK, DeviceOK, Ascending
  <3> QED BY <3>1,<3>2
 <2>3. Made(d)' = Made(d) BY DEF Made
 <2>4. /\ photos[d] \cup sync[d].photos \subseteq Made(d)
       /\ (photos[d] \cup sync[d].photos) \cap (Ops(queue[d]) \cup Ops(sync[d].left)) = {}
       /\ \A r \in receipts : r[1] = d => r \in Made(d) BY <1>0 DEF SyncOK, DeviceOK
 <2>5. (photos[d] \cup sync[d].photos \subseteq Made(d))' BY <1>3,<2>3,<2>4
 <2>6. ((photos[d] \cup sync[d].photos) \cap (Ops(queue[d]) \cup Ops(sync[d].left)) = {})' BY <1>3,<1>8,<2>4
 <2>7. (\A r \in receipts : r[1] = d => r \in Made(d))' BY <1>1,<1>2,<2>3,<2>4
 <2> QED BY <2>1,<2>2,<2>5,<2>6,<2>7 DEF DeviceOK
<1>10. LeftFirst(d)'
 <2>1. CASE new.left = <<>> BY <1>3,<2>1 DEF LeftFirst
 <2>2. CASE new.left = sync[d].left BY <1>0,<1>3,<2>2 DEF SyncOK, LeftFirst, Ops
 <2> QED BY <2>1,<2>2
<1>11. AnsweredOK(d)'
 <2>1. CASE new.stage # "answered" BY <1>3,<2>1 DEF AnsweredOK
 <2>2. CASE new.left = sync[d].left
  <3>0. sync'[d].left = sync[d].left BY <1>3,<2>2
  <3>1. Batch(d)' = Batch(d) BY ONLY <3>0 DEF Batch
  <3>2. Ops(b) \subseteq receipts' BY <1>2
  <3>3. Ops(Batch(d))' = Ops(b)
   <4>1. Ops(Batch(d))' = Ops(Batch(d)) BY ONLY <3>1 DEF Ops
   <4> QED BY <4>1
  <3> QED BY <3>2,<3>3 DEF AnsweredOK
 <2> QED BY <2>1,<2>2
<1>12. GoneOK(d)' BY <1>0,<1>2,<1>8 DEF SyncOK, GoneOK, Queued
<1>13. InOrder(d)'
 <2>1. ASSUME NEW m \in DOMAIN queue[d], NEW n \in DOMAIN queue[d], m < n, queue[d][n].id \in receipts \cup Ops(b)
   PROVE queue[d][m].id \in receipts \cup Ops(b)
  <3>1. CASE queue[d][n].id \in receipts BY <1>0,<2>1,<3>1 DEF SyncOK, InOrder
  <3>2. CASE queue[d][n].id \in Ops(b)
   <4>1. PICK k \in 1..Len(b) : queue[d][n].id = sync[d].left[k].id BY <1>1,<3>2 DEF Ops
   <4>2. k \in DOMAIN sync[d].left BY <1>1
   <4>3. Ascending(queue[d], d, made[d]) /\ Ascending(sync[d].left, d, made[d]) /\ LeftFirst(d) BY <1>0 DEF SyncOK, DeviceOK
   <4>4. queue[d][m].id[2] < sync[d].left[k].id[2] BY <2>1,<4>1,<4>3 DEF Ascending
   <4>5. PICK i \in 1..made[d] : queue[d][m].id = <<d, i>> BY <4>3 DEF Ascending
   <4>6. PICK h \in 1..made[d] : sync[d].left[k].id = <<d, h>> BY <4>2,<4>3 DEF Ascending
   <4>7. i < h BY <4>4,<4>5,<4>6
   <4>8. queue[d][m].id[2] <= sync[d].left[k].id[2] BY <4>5,<4>6,<4>7
   <4>9. queue[d][m].id \in Ops(sync[d].left) BY <4>2,<4>3,<4>8 DEF LeftFirst
   <4>10. PICK l \in DOMAIN sync[d].left : queue[d][m].id = sync[d].left[l].id BY <4>9 DEF Ops
   <4>11. l # k BY <4>5,<4>6,<4>7,<4>10
   <4>12. ~(k < l)
    <5>1. k < l => sync[d].left[k].id[2] < sync[d].left[l].id[2] BY <4>2,<4>3 DEF Ascending
    <5> QED BY <4>5,<4>6,<4>7,<4>10,<5>1
   <4>13. l \in 1..Len(b) BY <1>1,<4>11,<4>12
   <4>14. b[l] = sync[d].left[l] /\ l \in DOMAIN b BY <1>1,<4>13
   <4> QED BY <4>10,<4>14 DEF Ops
  <3> QED BY <2>1,<3>1,<3>2
 <2> QED BY <1>2,<2>1 DEF InOrder
<1>14. SyncOK(d)' BY <1>9,<1>10,<1>11,<1>12,<1>13 DEF SyncOK
<1>15. \A e \in Devices \ {d} : SyncOK(e)'
 <2>1. receipts \subseteq receipts' /\ \A r \in receipts' \ receipts : r[1] = d BY <1>1,<1>2 DEF Made
 <2> QED BY <1>7,<2>1, OthersInSync
<1> QED BY <1>5,<1>6,<1>14,<1>15 DEF FieldInv

LEMMA SendInSync == ASSUME FieldInv, NEW d \in Devices, SendBatch(d) PROVE FieldInv'
<1>0. sync \in [Devices -> Syncs] /\ FieldTypeOK BY DEF FieldInv, FieldTypeOK, Syncs
<1>1. CASE Accepts(Batch(d))
 <2> PICK old \in Syncs : old = sync[d] BY <1>0
 <2> PICK new : new = [old EXCEPT !.stage = "answered"] OBVIOUS
 <2>1. new \in Syncs /\ new.left = sync[d].left /\ new.photos = sync[d].photos BY DEF Syncs
 <2>2. sync' = [sync EXCEPT ![d] = new] BY <1>0,<1>1 DEF SendBatch
 <2>3. SyncOfflineOperations(Batch(d)) /\ UNCHANGED <<queue, photos, made, jobView, online, attempted, office>>
       /\ fieldFaults' = fieldFaults BY DEF SendBatch
 <2>4. fieldFaults' \in 0..MaxFieldFaults BY <1>0,<2>3 DEF FieldTypeOK
 <2> QED BY ONLY FieldInv, <1>1,<2>1,<2>2,<2>3,<2>4, BatchInSync
<1>2. CASE ~Accepts(Batch(d))
 <2>1. sync' = [sync EXCEPT ![d] = Idle] BY <1>0,<1>2 DEF SendBatch
 <2>2. UNCHANGED serverVars BY <1>2 DEF SendBatch, SyncOfflineOperations
 <2>3. UNCHANGED <<queue, photos, made, jobView, online, attempted, office, fieldFaults>> BY DEF SendBatch
 <2>4. attempted' \subseteq Devices /\ jobView' \in [Devices -> [Jobs -> JobStatus]] /\ office' \in 0 .. MaxOffice
       /\ fieldFaults' \in 0..MaxFieldFaults BY <1>0,<2>3 DEF FieldTypeOK
 <2> QED BY ONLY FieldInv, <2>1,<2>2,<2>3,<2>4, EndInSync
<1> QED BY <1>1,<1>2

LEMMA LoseInSync == ASSUME FieldInv, NEW d \in Devices, LoseAnswer(d) PROVE FieldInv'
<1>1. FieldTypeOK /\ fieldFaults' \in 0..MaxFieldFaults /\ sync' = [sync EXCEPT ![d] = Idle] BY FaultIsCounted DEF LoseAnswer, FieldInv
<1>2. UNCHANGED <<queue, photos, made, jobView, online, attempted, office>> BY DEF LoseAnswer
<1>3. attempted' \subseteq Devices /\ jobView' \in [Devices -> [Jobs -> JobStatus]] /\ office' \in 0..MaxOffice BY <1>1,<1>2 DEF FieldTypeOK
<1>4. Idle \in Syncs /\ Idle.stage # "answered" /\ Idle.left = <<>> /\ Idle.photos = {} BY DEF Idle, Syncs
<1>5. CASE UNCHANGED serverVars BY <1>1,<1>2,<1>3,<1>5, EndInSync
<1>6. CASE SyncOfflineOperations(Batch(d))
 <2>1. CASE Accepts(Batch(d))
  <3> HIDE DEF Idle
  <3> QED BY ONLY FieldInv, <1>1,<1>2,<1>4,<1>6,<2>1, BatchInSync
 <2>2. CASE ~Accepts(Batch(d))
  <3>1. UNCHANGED serverVars BY <1>6,<2>2 DEF SyncOfflineOperations
  <3> QED BY <1>1,<1>2,<1>3,<3>1, EndInSync
 <2> QED BY <2>1,<2>2
<1>7. ASSUME UNCHANGED job, NEW i \in sync[d].photos, receipts' = receipts \cup {i},
    effects' = IF i \in receipts THEN effects ELSE [effects EXCEPT ![i] = @ + 1]
  PROVE FieldInv'
 <2> PICK kept : kept = photos[d] OBVIOUS
 <2>1. photos[d] \ {i} \subseteq kept /\ kept \subseteq photos[d] /\ photos' = [photos EXCEPT ![d] = kept] BY <1>1,<1>2 DEF FieldTypeOK
 <2>2. Idle.photos \subseteq sync[d].photos BY <1>4
 <2> QED BY ONLY FieldInv, <1>1,<1>2,<1>4,<1>7,<2>1,<2>2, PhotoInSync
<1> QED BY <1>5,<1>6,<1>7 DEF LoseAnswer

LEMMA RemovalOps ==
  ASSUME NEW s \in Seq(Operations), NEW n \in DOMAIN s
  PROVE Ops(RemoveAt(s, n)) \subseteq Ops(s) /\ Ops(s) \subseteq Ops(RemoveAt(s, n)) \cup {s[n].id}
<1> PICK t : t = RemoveAt(s, n) OBVIOUS
<1>1. DOMAIN t = 1..Len(s) - 1 /\ \A k \in 1..Len(s) - 1 : t[k] = s[IF k < n THEN k ELSE k + 1] BY Removal
<1>2. n \in 1..Len(s) /\ Len(s) \in Nat /\ DOMAIN s = 1..Len(s) OBVIOUS
<1>3. Ops(t) \subseteq Ops(s)
 <2>1. \A k \in DOMAIN t : (IF k < n THEN k ELSE k + 1) \in DOMAIN s BY <1>1,<1>2
 <2> QED BY <1>1,<2>1 DEF Ops
<1>4. ASSUME NEW l \in DOMAIN s, l # n PROVE s[l].id \in Ops(t)
 <2>1. CASE l < n
  <3>1. l \in 1..Len(s) - 1 /\ t[l] = s[l] BY <1>1,<1>2,<2>1
  <3> QED BY <1>1,<3>1 DEF Ops
 <2>2. CASE l > n
  <3>1. l - 1 \in 1..Len(s) - 1 /\ ~(l - 1 < n) /\ (l - 1) + 1 = l BY <1>2,<2>2
  <3>2. t[l - 1] = s[l] BY <1>1,<3>1
  <3> QED BY <1>1,<3>1,<3>2 DEF Ops
 <2> QED BY <1>2,<1>4,<2>1,<2>2
<1>5. Ops(s) \subseteq Ops(t) \cup {s[n].id} BY <1>4 DEF Ops
<1> QED BY <1>3,<1>5

\* The device drops an operation it has the answer for.
LEMMA DropInSync ==
  ASSUME FieldInv, NEW d \in Devices, sync[d].stage = "answered", NEW n \in DOMAIN queue[d],
      queue[d][n].id \in Ops(Batch(d)), queue' = [queue EXCEPT ![d] = RemoveAt(@, n)],
      UNCHANGED <<serverVars, photos, made, jobView, online, sync, attempted, office, fieldFaults>>
  PROVE FieldInv'
<1> DEFINE q == queue[d]
<1> PICK t : t = RemoveAt(q, n) OBVIOUS
<1>0. FieldTypeOK /\ Counted /\ SyncOK(d) BY DEF FieldInv
<1>1. q \in Seq(Operations) /\ Len(q) \in Nat /\ DOMAIN q = 1..Len(q) BY <1>0 DEF FieldTypeOK
<1>2. /\ t \in Seq(Operations) /\ DOMAIN t = 1 .. Len(q) - 1
      /\ \A k \in 1..Len(q) - 1 : t[k] = q[IF k < n THEN k ELSE k + 1] BY <1>1, Removal
<1>3. Ops(t) \subseteq Ops(q) /\ Ops(q) \subseteq Ops(t) \cup {q[n].id} BY <1>1, RemovalOps
<1>4. queue' = [queue EXCEPT ![d] = t] BY <1>0 DEF FieldTypeOK
<1>5. queue'[d] = t /\ \A e \in Devices \ {d} : queue'[e] = queue[e] BY <1>0,<1>4 DEF FieldTypeOK
<1>6. UNCHANGED <<job, receipts, effects, photos, made, jobView, online, sync, attempted, office, fieldFaults>> BY DEF serverVars
<1>7. FieldTypeOK'
 <2>1. queue' \in [Devices -> Seq(Operations)] BY <1>0,<1>2,<1>4 DEF FieldTypeOK
 <2> QED BY <1>0,<1>6,<2>1 DEF FieldTypeOK
<1>8. \A e \in Devices \ {d} : UNCHANGED Side(e) BY <1>5,<1>6 DEF Side
<1>9. Ops(queue[d])' = Ops(t) /\ Ops(sync[d].left)' = Ops(sync[d].left) BY <1>5,<1>6 DEF Ops
<1>10. DeviceOK(d)'
 <2>1. Ascending(q, d, made[d]) /\ Ascending(sync[d].left, d, made[d]) BY <1>0 DEF SyncOK, DeviceOK
 <2>2. Ascending(t, d, made[d]) BY <1>1,<2>1, RemovalAscends
 <2>3. Ascending(queue[d], d, made[d])' /\ Ascending(sync[d].left, d, made[d])' BY <1>5,<1>6,<2>1,<2>2 DEF Ascending
 <2>4. /\ photos[d] \cup sync[d].photos \subseteq Made(d)
       /\ (photos[d] \cup sync[d].photos) \cap (Ops(queue[d]) \cup Ops(sync[d].left)) = {}
       /\ \A r \in receipts : r[1] = d => r \in Made(d) BY <1>0 DEF SyncOK, DeviceOK
 <2>5. Made(d)' = Made(d) BY <1>6 DEF Made
 <2>6. (photos[d] \cup sync[d].photos \subseteq Made(d))' BY <1>6,<2>4,<2>5
 <2>7. ((photos[d] \cup sync[d].photos) \cap (Ops(queue[d]) \cup Ops(sync[d].left)) = {})' BY <1>3,<1>6,<1>9,<2>4
 <2>8. (\A r \in receipts : r[1] = d => r \in Made(d))' BY <1>6,<2>4,<2>5
 <2> QED BY <2>3,<2>6,<2>7,<2>8 DEF DeviceOK
<1>11. \A k \in DOMAIN t : \E l \in DOMAIN q : t[k] = q[l]
 <2>1. \A k \in DOMAIN t : (IF k < n THEN k ELSE k + 1) \in DOMAIN q BY <1>1,<1>2
 <2> QED BY <1>2,<2>1
<1>12. LeftFirst(d)' BY <1>0,<1>5,<1>6,<1>9,<1>11 DEF SyncOK, LeftFirst
<1>13. AnsweredOK(d)' BY <1>0,<1>6 DEF SyncOK, AnsweredOK, Batch, Ops
<1>14. q[n].id \in receipts BY <1>0 DEF SyncOK, AnsweredOK
<1>15. GoneOK(d)' BY <1>0,<1>3,<1>6,<1>9,<1>14 DEF SyncOK, GoneOK, Queued
<1>16. InOrder(d)'
 <2>1. ASSUME NEW k \in DOMAIN t, NEW l \in DOMAIN t, k < l, t[l].id \in receipts PROVE t[k].id \in receipts
  <3> PICK K : K = IF k < n THEN k ELSE k + 1 OBVIOUS
  <3> PICK L : L = IF l < n THEN l ELSE l + 1 OBVIOUS
  <3>1. K \in DOMAIN q /\ L \in DOMAIN q /\ K < L BY <1>1,<1>2,<2>1
  <3>2. t[k] = q[K] /\ t[l] = q[L] BY <1>2
  <3> QED BY <1>0,<2>1,<3>1,<3>2 DEF SyncOK, InOrder
 <2> QED BY <1>5,<1>6,<2>1 DEF InOrder
<1>17. SyncOK(d)' BY <1>10,<1>12,<1>13,<1>15,<1>16 DEF SyncOK
<1> QED BY <1>6,<1>7,<1>8,<1>17, OneInSync

\* All of a batch is dropped, and the next one is to be sent.
LEMMA NextBatchInSync ==
  ASSUME FieldInv, NEW d \in Devices, \A n \in DOMAIN queue[d] : queue[d][n].id \notin Ops(Batch(d)),
      sync' = [sync EXCEPT ![d].stage = "operations", ![d].left = SubSeq(@, Len(Batch(d)) + 1, Len(@))],
      UNCHANGED <<serverVars, queue, photos, made, jobView, online, attempted, office, fieldFaults>>
  PROVE FieldInv'
<1> PICK b : b = Batch(d) OBVIOUS
<1> PICK s : s = sync[d].left OBVIOUS
<1> PICK rest : rest = SubSeq(s, Len(b) + 1, Len(s)) OBVIOUS
<1>0. FieldTypeOK /\ Counted /\ SyncOK(d) BY DEF FieldInv
<1>1. s \in Seq(Operations) /\ Len(s) \in Nat /\ DOMAIN s = 1..Len(s) /\ Ascending(s, d, made[d]) BY <1>0 DEF FieldTypeOK, SyncOK, DeviceOK
<1>2. /\ Len(b) \in Nat /\ Len(b) <= Len(s) /\ DOMAIN b = 1 .. Len(b)
      /\ \A k \in 1..Len(b) : b[k] = s[k] BY <1>1, BatchIsFirst
<1>3. /\ rest \in Seq(Operations) /\ Ascending(rest, d, made[d])
      /\ Len(rest) = IF Len(b) + 1 <= Len(s) THEN Len(s) - (Len(b) + 1) + 1 ELSE 0
      /\ \A k \in DOMAIN rest : k + (Len(b) + 1) - 1 \in Len(b) + 1..Len(s) /\ rest[k] = s[k + (Len(b) + 1) - 1]
 <2>1. Len(b) + 1 \in Nat \ {0} /\ Len(s) \in 0..Len(s) BY <1>1,<1>2
 <2> QED BY ONLY <1>1,<2>1, PartAscends, rest = SubSeq(s, Len(b) + 1, Len(s))
<1>4. DOMAIN rest = 1..Len(s) - Len(b) /\ \A k \in 1..Len(s) - Len(b) : rest[k] = s[Len(b) + k]
 <2>1. Len(rest) = Len(s) - Len(b) BY <1>1,<1>2,<1>3
 <2>2. DOMAIN rest = 1..Len(s) - Len(b) BY <1>3,<2>1
 <2>3. \A k \in 1..Len(s) - Len(b) : k + (Len(b) + 1) - 1 = Len(b) + k BY <1>1,<1>2
 <2> QED BY <1>3,<2>2,<2>3
<1>5. Ops(rest) \subseteq Ops(s) /\ Ops(s) \subseteq Ops(b) \cup Ops(rest)
 <2>1. \A k \in DOMAIN rest : Len(b) + k \in DOMAIN s BY <1>1,<1>2,<1>4
 <2>2. Ops(rest) \subseteq Ops(s) BY <1>4,<2>1 DEF Ops
 <2>3. ASSUME NEW k \in DOMAIN s PROVE s[k].id \in Ops(b) \cup Ops(rest)
  <3>1. CASE k <= Len(b)
   <4>1. k \in DOMAIN b /\ b[k] = s[k] BY <1>1,<1>2,<3>1
   <4> QED BY <4>1 DEF Ops
  <3>2. CASE k > Len(b)
   <4>1. k - Len(b) \in 1..Len(s) - Len(b) /\ Len(b) + (k - Len(b)) = k BY <1>1,<1>2,<3>2
   <4>2. k - Len(b) \in DOMAIN rest /\ rest[k - Len(b)] = s[k] BY <1>4,<4>1
   <4> QED BY <4>2 DEF Ops
  <3> QED BY <1>1,<1>2,<3>1,<3>2
 <2> QED BY ONLY <2>2,<2>3 DEF Ops
<1> PICK old \in Syncs : old = sync[d] BY <1>0 DEF FieldTypeOK, Syncs
<1> PICK new : new = [old EXCEPT !.stage = "operations", !.left = rest] OBVIOUS
<1>6. new \in Syncs /\ new.stage = "operations" /\ new.left = rest /\ new.photos = old.photos BY <1>3 DEF Syncs
<1>7. sync' = [sync EXCEPT ![d] = new] BY <1>0 DEF FieldTypeOK
<1>8. sync'[d] = new /\ \A e \in Devices \ {d} : sync'[e] = sync[e] BY <1>0,<1>7 DEF FieldTypeOK
<1>9. UNCHANGED <<job, receipts, effects, queue, photos, made, jobView, online, attempted, office, fieldFaults>> BY DEF serverVars
<1>10. FieldTypeOK'
 <2>1. sync' \in [Devices -> Syncs] BY <1>0,<1>6,<1>7 DEF FieldTypeOK, Syncs
 <2> QED BY <1>0,<1>9,<2>1 DEF FieldTypeOK, Syncs
<1>11. \A e \in Devices \ {d} : UNCHANGED Side(e) BY <1>8,<1>9 DEF Side
<1>12. Ops(queue[d])' = Ops(queue[d]) /\ Ops(sync[d].left)' = Ops(rest)
 <2>1. sync'[d].left = rest /\ queue' = queue BY <1>6,<1>8,<1>9
 <2> QED BY ONLY <2>1 DEF Ops
<1>13. DeviceOK(d)'
 <2>1. Ascending(queue[d], d, made[d])' BY <1>0,<1>9 DEF SyncOK, DeviceOK, Ascending
 <2>2. Ascending(sync[d].left, d, made[d])'
  <3>1. sync'[d].left = rest /\ made' = made BY <1>6,<1>8,<1>9
  <3>2. Ascending(rest, d, made[d]) BY <1>3
  <3> QED BY ONLY <3>1,<3>2 DEF Ascending
 <2>3. /\ photos[d] \cup sync[d].photos \subseteq Made(d)
       /\ (photos[d] \cup sync[d].photos) \cap (Ops(queue[d]) \cup Ops(sync[d].left)) = {}
       /\ \A r \in receipts : r[1] = d => r \in Made(d) BY <1>0 DEF SyncOK, DeviceOK
 <2>4. Made(d)' = Made(d) BY <1>9 DEF Made
 <2>5. (photos[d] \cup sync[d].photos \subseteq Made(d))' BY <1>6,<1>8,<1>9,<2>3,<2>4
 <2>6. ((photos[d] \cup sync[d].photos) \cap (Ops(queue[d]) \cup Ops(sync[d].left)) = {})' BY <1>5,<1>6,<1>8,<1>9,<1>12,<2>3
 <2>7. (\A r \in receipts : r[1] = d => r \in Made(d))' BY <1>9,<2>3,<2>4
 <2> QED BY <2>1,<2>2,<2>5,<2>6,<2>7 DEF DeviceOK
<1>14. LeftFirst(d)'
 <2>1. ASSUME NEW m \in DOMAIN queue[d], NEW n \in DOMAIN rest, queue[d][m].id[2] <= rest[n].id[2] PROVE queue[d][m].id \in Ops(rest)
  <3>1. Len(b) + n \in DOMAIN s /\ rest[n] = s[Len(b) + n] BY <1>1,<1>2,<1>4
  <3>2. queue[d][m].id \in Ops(s) BY <1>0,<2>1,<3>1 DEF SyncOK, LeftFirst
  <3> QED BY <1>5,<3>2
 <2> QED BY <1>6,<1>8,<1>9,<1>12,<2>1 DEF LeftFirst
<1>15. AnsweredOK(d)' BY <1>6,<1>8 DEF AnsweredOK
<1>16. GoneOK(d)' BY <1>0,<1>9,<1>12 DEF SyncOK, GoneOK, Queued
<1>17. InOrder(d)' BY <1>0,<1>9 DEF SyncOK, InOrder
<1>18. SyncOK(d)' BY <1>13,<1>14,<1>15,<1>16,<1>17 DEF SyncOK
<1> QED BY <1>9,<1>10,<1>11,<1>18, OneInSync

LEMMA DeleteInSync == ASSUME FieldInv, NEW d \in Devices, DeleteAnswered(d) PROVE FieldInv'
<1> DEFINE answered == {n \in DOMAIN queue[d] : queue[d][n].id \in Ops(Batch(d))}
<1>1. sync[d].stage = "answered" /\ UNCHANGED <<serverVars, photos, made, jobView, online, attempted, office, fieldFaults>> BY DEF DeleteAnswered
<1>2. ASSUME NEW n \in answered, queue' = [queue EXCEPT ![d] = RemoveAt(@, n)], UNCHANGED sync PROVE FieldInv'
 <2>1. n \in DOMAIN queue[d] /\ queue[d][n].id \in Ops(Batch(d)) OBVIOUS
 <2> HIDE DEF answered
 <2> QED BY ONLY FieldInv, <1>1,<1>2,<2>1, DropInSync
<1>3. ASSUME answered = {}, UNCHANGED queue, sync' = [sync EXCEPT ![d].stage = "operations", ![d].left = SubSeq(@, Len(Batch(d)) + 1, Len(@))]
  PROVE FieldInv'
 <2>1. \A n \in DOMAIN queue[d] : queue[d][n].id \notin Ops(Batch(d)) BY <1>3
 <2> HIDE DEF answered
 <2> QED BY ONLY FieldInv, <1>1,<1>3,<2>1, NextBatchInSync
<1> QED BY <1>2,<1>3 DEF DeleteAnswered

(* Every operation of the office, a device and the server. *)
LEMMA FieldStep == FieldInv /\ FieldNext => FieldInv'
<1> SUFFICES ASSUME FieldInv, FieldNext PROVE FieldInv' OBVIOUS
<1>1. ASSUME NEW j \in Jobs, NEW s \in JobTargets, UpdateJob(j, s) \/ \E d \in Devices : SetJobStatus(d, j, s)
  PROVE FieldInv' BY <1>1, UpdateJobInSync, SetJobStatusInSync
<1>2. ASSUME NEW d \in Devices, NEW j \in Jobs, NEW kind \in NoteKinds, AddNote(d, j, kind) PROVE FieldInv' BY <1>2, AddNoteInSync
<1>3. ASSUME NEW d \in Devices, PageStep(d) PROVE FieldInv'
 <2>1. AutoSync(d) => FieldInv' BY StartInSync
 <2>2. ResetAttempt(d) => FieldInv' BY PlainStepsInSync
 <2>3. UploadPhoto(d) => FieldInv' BY UploadInSync
 <2>4. ReadOperations(d) => FieldInv' BY ReadInSync
 <2>5. SendBatch(d) => FieldInv' BY SendInSync
 <2>6. DeleteAnswered(d) => FieldInv' BY DeleteInSync
 <2>7. FinishSync(d) => FieldInv' BY FinishInSync
 <2> QED BY ONLY PageStep(d), <2>1,<2>2,<2>3,<2>4,<2>5,<2>6,<2>7 DEF PageStep
<1>4. ASSUME NEW d \in Devices,
    \/ AddPhoto(d) \/ PressSync(d) \/ LoadJobs(d) \/ LoseAnswer(d)
    \/ ReloadPage(d) \/ Disconnect(d) \/ Connect(d)
  PROVE FieldInv'
 <2>1. AddPhoto(d) => FieldInv' BY AddPhotoInSync
 <2>2. PressSync(d) => FieldInv' BY StartInSync
 <2>3. LoadJobs(d) \/ Disconnect(d) \/ Connect(d) => FieldInv' BY PlainStepsInSync
 <2>4. LoseAnswer(d) => FieldInv' BY LoseInSync
 <2>5. ReloadPage(d) => FieldInv' BY FinishInSync
 <2> QED BY ONLY <1>4,<2>1,<2>2,<2>3,<2>4,<2>5
<1> HIDE DEF FieldInv
<1> QED BY ONLY FieldNext, <1>1,<1>2,<1>3,<1>4 DEF FieldNext

LEMMA FieldStutters == FieldInv /\ UNCHANGED fieldVars => FieldInv'
<1> SUFFICES ASSUME FieldInv, UNCHANGED fieldVars PROVE FieldInv' OBVIOUS
<1>1. UNCHANGED <<job, receipts, effects, queue, photos, made, jobView, online, sync, attempted, office, fieldFaults>> BY DEF fieldVars
<1>2. FieldTypeOK' BY <1>1 DEF FieldInv, FieldTypeOK
<1>3. Counted' /\ \A e \in Devices : SyncOK(e)' BY <1>1, AllInSync
<1> QED BY <1>2,<1>3 DEF FieldInv

LEMMA FieldBegins == FieldInit => FieldInv
<1> SUFFICES ASSUME FieldInit PROVE FieldInv OBVIOUS
<1>0. \A d \in Devices : sync[d] = Idle /\ queue[d] = <<>> /\ photos[d] = {} /\ made[d] = 0 /\ receipts = {} BY DEF FieldInit
<1>1. FieldTypeOK
 <2>1. Idle \in Syncs BY DEF Idle, Syncs
 <2>2. sync \in [Devices -> Syncs] BY <2>1 DEF FieldInit
 <2>3. queue \in [Devices -> Seq(Operations)] /\ made \in [Devices -> 0..MaxOps] BY FieldAssumption DEF FieldInit
 <2>4. job \in [Jobs -> JobStatus] /\ jobView \in [Devices -> [Jobs -> JobStatus]] BY DEF FieldInit, JobStatus
 <2>5. office \in 0..MaxOffice /\ fieldFaults \in 0..MaxFieldFaults BY FieldAssumption DEF FieldInit
 <2>6. effects \in [Ids -> Nat] /\ photos \in [Devices -> SUBSET Ids] BY DEF FieldInit
 <2> QED BY <2>2,<2>3,<2>4,<2>5,<2>6 DEF FieldInit, FieldTypeOK, Syncs
<1>2. Counted BY DEF FieldInit, Counted
<1>3. ASSUME NEW d \in Devices PROVE SyncOK(d)
 <2>1. DOMAIN queue[d] = {} /\ DOMAIN sync[d].left = {} BY <1>0 DEF Idle
 <2>2. DeviceOK(d)
  <3>1. Ops(queue[d]) = {} /\ Ops(sync[d].left) = {} BY <2>1 DEF Ops
  <3>2. sync[d].photos = {} BY <1>0 DEF Idle
  <3> QED BY <1>0,<2>1,<3>1,<3>2 DEF DeviceOK, Ascending
 <2>3. LeftFirst(d) /\ InOrder(d) BY <2>1 DEF LeftFirst, InOrder
 <2>4. AnsweredOK(d) BY <1>0 DEF AnsweredOK, Idle
 <2>5. GoneOK(d) BY <1>0 DEF GoneOK
 <2> QED BY <2>2,<2>3,<2>4,<2>5 DEF SyncOK
<1> QED BY <1>1,<1>2,<1>3 DEF FieldInv

LEMMA FieldInvIsExact == FieldInv => FieldTypeOK /\ ExactlyOnce /\ OrderIsKept
<1> SUFFICES ASSUME FieldInv PROVE FieldTypeOK /\ ExactlyOnce /\ OrderIsKept OBVIOUS
<1>1. Counted /\ \A d \in Devices : SyncOK(d) BY DEF FieldInv
<1>2. ASSUME NEW d \in Devices, NEW n \in 1..MaxOps
  PROVE effects[<<d, n>>] <= 1 /\ (n <= made[d] /\ <<d, n>> \notin Queued(d) => effects[<<d, n>>] = 1)
 <2>1. effects[<<d, n>>] = IF <<d, n>> \in receipts THEN 1 ELSE 0 BY <1>1 DEF Counted, Ids
 <2>2. made[d] \in 0..MaxOps /\ MaxOps \in Nat BY FieldAssumption DEF FieldInv, FieldTypeOK
 <2>3. n <= made[d] => n \in 1..made[d] BY <2>2
 <2>4. n <= made[d] /\ <<d, n>> \notin Queued(d) => <<d, n>> \in receipts BY <1>1,<2>3 DEF SyncOK, GoneOK
 <2> QED BY <2>1,<2>4
<1>3. OrderIsKept
 <2>1. ASSUME NEW d \in Devices, NEW m \in DOMAIN queue[d], NEW n \in DOMAIN queue[d], m < n, effects[queue[d][n].id] = 1
   PROVE effects[queue[d][m].id] = 1
  <3>1. queue[d] \in Seq(Operations) BY DEF FieldInv, FieldTypeOK
  <3>2. queue[d][m] \in Operations /\ queue[d][n] \in Operations BY <3>1
  <3>3. queue[d][m].id \in Ids /\ queue[d][n].id \in Ids BY <3>2 DEF Operations
  <3>4. queue[d][n].id \in receipts BY <1>1,<2>1,<3>3 DEF Counted
  <3>5. queue[d][m].id \in receipts BY <1>1,<2>1,<3>4 DEF SyncOK, InOrder
  <3> QED BY <1>1,<3>3,<3>5 DEF Counted
 <2> QED BY <2>1 DEF OrderIsKept
<1> QED BY <1>2,<1>3 DEF FieldInv, ExactlyOnce

------------------------
(* Expiry. *)

LEMMA TimesAreNats == Times \subseteq Nat /\ 0 \in Times /\ 1 \in Times /\ Never \notin Times BY ServiceAssumption DEF Times

\* The rows a run has in hand stay as it found them: they are locked.
RunOK ==
  /\ run = [stage |-> run.stage, at |-> run.at, expired |-> run.expired, extended |-> run.extended, suspended |-> run.suspended]
  /\ run.at <= now
  /\ DOMAIN run.extended \subseteq ActiveService
  /\ \A c \in DOMAIN run.extended : run.extended[c] \in Times \cup {Never}
  /\ run.suspended \subseteq ActiveService
  /\ \A c \in run.suspended : Due(ExpiryOf(c), run.at)
  /\ run.stage # "suspended" => run.suspended = {}
  /\ run.stage # "idle" => tell = {}

ServiceInv == ServiceTypeOK /\ RunOK /\ HistoryEndsInState /\ FirstExpiryIsTold

LEMMA NotRunningIsOK == ASSUME ServiceTypeOK, run = NotRunning PROVE RunOK
<1>1. /\ run.stage = "idle" /\ run.at = 0 /\ run.expired = {} /\ run.extended = <<>> /\ run.suspended = {} BY DEF NotRunning
<1>2. DOMAIN run.extended = {} BY <1>1
<1>3. run.at <= now BY <1>1, TimesAreNats DEF ServiceTypeOK
<1> QED BY <1>1,<1>2,<1>3 DEF RunOK, NotRunning

\* Nobody changes a row in the run's hands.
LEMMA RunStaysOK ==
  ASSUME ServiceInv, UNCHANGED run, \A c \in Customers : LockedByRun(c) => service'[c] = service[c], now <= now', now' \in Times, tell' \subseteq tell
  PROVE RunOK'
<1>1. RunOK /\ now \in Times BY DEF ServiceInv, ServiceTypeOK
<1>2. \A c \in ActiveService : LockedByRun(c) => c \in ActiveService' /\ service'[c] = service[c] BY DEF ActiveService
<1>3. DOMAIN run.extended \subseteq ActiveService' /\ run.suspended \subseteq ActiveService' BY <1>1,<1>2 DEF RunOK, LockedByRun
<1>4. ASSUME NEW c \in run.suspended PROVE Due(ExpiryOf(c)', run.at)
 <2>1. c \in ActiveService /\ LockedByRun(c) BY <1>1 DEF RunOK, LockedByRun
 <2>2. ExpiryOf(c)' = ExpiryOf(c) BY <1>2,<2>1 DEF ExpiryOf
 <2> QED BY <1>1,<2>2 DEF RunOK
<1>5. run.at <= now'
 <2>1. run.at \in Times BY DEF ServiceInv, ServiceTypeOK
 <2> QED BY <1>1,<2>1, TimesAreNats DEF RunOK
<1> QED BY <1>1,<1>3,<1>4,<1>5 DEF RunOK, Due

LEMMA ServiceBegins == ServiceInit => ServiceInv
<1> SUFFICES ASSUME ServiceInit PROVE ServiceInv OBVIOUS
<1>1. ServiceTypeOK
 <2>1. binding \in [Bindings -> [state : AccessState, expires : Times \cup {Never}]]
  <3>1. [state : {"PENDING"}, expires : {1, Never}] \subseteq [state : AccessState, expires : Times \cup {Never}] BY TimesAreNats DEF AccessState
  <3> QED BY <3>1 DEF ServiceInit
 <2>2. run = NotRunning BY DEF ServiceInit
 <2>3. run.stage = "idle" /\ run.at = 0 /\ run.expired = {} /\ run.suspended = {} BY <2>2 DEF NotRunning
 <2>4. serviceChanges \in 0..MaxServiceChanges /\ serviceFaults \in 0..MaxServiceFaults BY ServiceAssumption DEF ServiceInit
 <2> QED BY <2>1,<2>3,<2>4, TimesAreNats DEF ServiceInit, ServiceTypeOK
<1>2. RunOK BY <1>1, NotRunningIsOK DEF ServiceInit
<1>3. HistoryEndsInState /\ FirstExpiryIsTold BY DEF ServiceInit, HistoryEndsInState, FirstExpiryIsTold
<1> QED BY <1>1,<1>2,<1>3 DEF ServiceInv

\* Operators' requests, and the clock.
LEMMA OperatorsAreRecorded ==
  ASSUME ServiceInv, UNCHANGED <<run, tell, notices, suspensions, phone, serviceFaults>>,
      now <= now', now' \in Times, first' \subseteq Customers \X ServiceRow, serviceChanges' \in 0..MaxServiceChanges,
      binding' \in [Bindings -> [state : AccessState, expires : Times \cup {Never}]], service' \in [Customers -> ServiceRow \cup {NoService}],
      lastEvent' \in [Customers -> ServiceState \cup {NoService}],
      \A c \in Customers : LockedByRun(c) => service'[c] = service[c], HistoryEndsInState'
  PROVE ServiceInv'
<1>1. ServiceTypeOK' BY DEF ServiceInv, ServiceTypeOK
<1>2. RunOK' BY RunStaysOK
<1>3. FirstExpiryIsTold' BY DEF ServiceInv, FirstExpiryIsTold
<1> QED BY <1>1,<1>2,<1>3 DEF ServiceInv

LEMMA TickIsRecorded == ASSUME ServiceInv, Tick PROVE ServiceInv'
<1>1. UNCHANGED <<binding, service, lastEvent, first, run, tell, notices, suspensions, phone, serviceChanges, serviceFaults>>
      /\ now < MaxTime /\ now' = now + 1 BY DEF Tick
<1>2. ServiceTypeOK /\ HistoryEndsInState BY DEF ServiceInv
<1>3. now <= now' /\ now' \in Times BY <1>1,<1>2, ServiceAssumption DEF ServiceTypeOK, Times
<1>4. HistoryEndsInState' BY <1>1,<1>2 DEF HistoryEndsInState
<1> QED BY <1>1,<1>2,<1>3,<1>4, OperatorsAreRecorded DEF ServiceTypeOK

LEMMA ServiceChangeCounts == ASSUME ServiceInv, ServiceChange PROVE serviceChanges' \in 0..MaxServiceChanges
BY ServiceAssumption DEF ServiceInv, ServiceTypeOK, ServiceChange

LEMMA AccessIsRecorded == ASSUME ServiceInv, NEW b \in Bindings, NEW s \in {"ACTIVE", "SUSPENDED"}, ChangeAccessState(b, s) PROVE ServiceInv'
<1>1. UNCHANGED <<now, service, lastEvent, first, run, tell, notices, suspensions, phone, serviceFaults>>
      /\ ServiceChange /\ binding' = [binding EXCEPT ![b].state = s] BY DEF ChangeAccessState
<1>2. ServiceTypeOK /\ HistoryEndsInState BY DEF ServiceInv
<1>3. now <= now' /\ now' \in Times BY <1>1,<1>2, TimesAreNats DEF ServiceTypeOK
<1>4. HistoryEndsInState' BY <1>1,<1>2 DEF HistoryEndsInState
<1>5. binding' \in [Bindings -> [state : AccessState, expires : Times \cup {Never}]] BY <1>1,<1>2 DEF ServiceTypeOK, AccessState
<1>6. serviceChanges' \in 0..MaxServiceChanges BY <1>1, ServiceChangeCounts
<1> QED BY <1>1,<1>2,<1>3,<1>4,<1>5,<1>6, OperatorsAreRecorded DEF ServiceTypeOK

LEMMA EditIsRecorded == ASSUME ServiceInv, NEW c \in Customers, EditCustomer(c) PROVE ServiceInv'
<1>1. /\ UNCHANGED <<now, binding, service, lastEvent, first, run, tell, notices, suspensions, serviceFaults>>
      /\ ServiceChange /\ phone' = [phone EXCEPT ![c] = IF @ = "gone" THEN "back" ELSE "gone"] BY DEF EditCustomer
<1>2. ServiceTypeOK /\ HistoryEndsInState /\ FirstExpiryIsTold BY DEF ServiceInv
<1>3. phone' \in [Customers -> {"kept", "gone", "back"}] BY <1>1,<1>2 DEF ServiceTypeOK
<1>4. serviceChanges' \in 0..MaxServiceChanges BY <1>1, ServiceChangeCounts
<1>5. ServiceTypeOK' BY <1>1,<1>2,<1>3,<1>4 DEF ServiceTypeOK
<1>6. RunOK'
 <2>1. now <= now' /\ now' \in Times BY <1>1,<1>2, TimesAreNats DEF ServiceTypeOK
 <2> QED BY <1>1,<2>1, RunStaysOK
<1>7. \A k \in Customers : phone'[k] = "kept" => phone[k] = "kept" BY <1>1,<1>2 DEF ServiceTypeOK
<1>8. HistoryEndsInState' /\ FirstExpiryIsTold' BY <1>1,<1>2,<1>7 DEF HistoryEndsInState, FirstExpiryIsTold
<1> QED BY <1>5,<1>6,<1>8 DEF ServiceInv

LEMMA SetIsRecorded ==
  ASSUME ServiceInv, NEW c \in Customers, NEW s \in ServiceState, NEW e \in Times \cup {Never}, SetService(c, s, e) PROVE ServiceInv'
<1> PICK entry : entry = [state |-> s, expires |-> e] OBVIOUS
<1>0. entry \in ServiceRow /\ entry.state = s BY DEF ServiceRow
<1>1. /\ UNCHANGED <<now, binding, first, run, tell, notices, suspensions, phone, serviceFaults>>
      /\ ServiceChange /\ service' = [service EXCEPT ![c] = entry] /\ ~LockedByRun(c) /\ service[c] # NoService
      /\ lastEvent' = IF service[c].state # s THEN [lastEvent EXCEPT ![c] = s] ELSE lastEvent BY DEF SetService
<1>2. ServiceTypeOK /\ HistoryEndsInState BY DEF ServiceInv
<1>3. service \in [Customers -> ServiceRow \cup {NoService}] /\ lastEvent \in [Customers -> ServiceState \cup {NoService}] BY <1>2 DEF ServiceTypeOK
<1>4. now <= now' /\ now' \in Times BY <1>1,<1>2, TimesAreNats DEF ServiceTypeOK
<1>5. service'[c] = entry /\ \A k \in Customers \ {c} : service'[k] = service[k] BY <1>1,<1>3
<1>6. lastEvent'[c] = s /\ \A k \in Customers \ {c} : lastEvent'[k] = lastEvent[k]
 <2>1. CASE service[c].state # s BY <1>1,<1>3,<2>1
 <2>2. CASE service[c].state = s BY <1>1,<1>2,<2>2 DEF HistoryEndsInState
 <2> QED BY <2>1,<2>2
<1>7. HistoryEndsInState' BY <1>0,<1>2,<1>5,<1>6 DEF HistoryEndsInState
<1>8. service' \in [Customers -> ServiceRow \cup {NoService}] BY <1>0,<1>1,<1>3
<1>9. lastEvent' \in [Customers -> ServiceState \cup {NoService}] BY <1>1,<1>3
<1>10. serviceChanges' \in 0..MaxServiceChanges BY <1>1, ServiceChangeCounts
<1>11. \A k \in Customers : LockedByRun(k) => service'[k] = service[k] BY <1>1,<1>5
<1> QED BY <1>1,<1>2,<1>4,<1>7,<1>8,<1>9,<1>10,<1>11, OperatorsAreRecorded DEF ServiceTypeOK

LEMMA ReadIsRecorded ==
  ASSUME ServiceInv, NEW c \in Customers, NEW s \in ServiceState, NEW e \in Times \cup {Never}, ReadNoService(c, s, e) PROVE ServiceInv'
<1>1. UNCHANGED <<now, binding, service, lastEvent, run, tell, notices, suspensions, phone, serviceFaults>>
      /\ ServiceChange /\ first' = first \cup {<<c, [state |-> s, expires |-> e]>>} BY DEF ReadNoService
<1>2. ServiceTypeOK /\ HistoryEndsInState BY DEF ServiceInv
<1>3. now <= now' /\ now' \in Times BY <1>1,<1>2, TimesAreNats DEF ServiceTypeOK
<1>4. HistoryEndsInState' BY <1>1,<1>2 DEF HistoryEndsInState
<1>5. first' \subseteq Customers \X ServiceRow BY <1>1,<1>2 DEF ServiceTypeOK, ServiceRow
<1>6. serviceChanges' \in 0..MaxServiceChanges BY <1>1, ServiceChangeCounts
<1> QED BY <1>1,<1>2,<1>3,<1>4,<1>5,<1>6, OperatorsAreRecorded DEF ServiceTypeOK

LEMMA UpsertIsRecorded == ASSUME ServiceInv, NEW c \in Customers, NEW entry \in ServiceRow, UpsertService(c, entry) PROVE ServiceInv'
<1>1. /\ UNCHANGED <<now, binding, run, tell, notices, suspensions, phone, serviceChanges, serviceFaults>>
      /\ service' = [service EXCEPT ![c] = entry] /\ ~LockedByRun(c)
      /\ lastEvent' = [lastEvent EXCEPT ![c] = entry.state] /\ first' = first \ {<<c, entry>>} BY DEF UpsertService
<1>2. ServiceTypeOK /\ HistoryEndsInState BY DEF ServiceInv
<1>3. service \in [Customers -> ServiceRow \cup {NoService}] /\ lastEvent \in [Customers -> ServiceState \cup {NoService}] BY <1>2 DEF ServiceTypeOK
<1>4. now <= now' /\ now' \in Times BY <1>1,<1>2, TimesAreNats DEF ServiceTypeOK
<1>5. service'[c] = entry /\ \A k \in Customers \ {c} : service'[k] = service[k] BY <1>1,<1>3
<1>6. lastEvent'[c] = entry.state /\ \A k \in Customers \ {c} : lastEvent'[k] = lastEvent[k] BY <1>1,<1>3
<1>7. HistoryEndsInState' BY <1>2,<1>5,<1>6 DEF HistoryEndsInState
<1>8. service' \in [Customers -> ServiceRow \cup {NoService}] BY <1>1,<1>3
<1>9. lastEvent' \in [Customers -> ServiceState \cup {NoService}] BY <1>1,<1>3 DEF ServiceRow
<1>10. first' \subseteq Customers \X ServiceRow BY <1>1,<1>2 DEF ServiceTypeOK
<1>11. \A k \in Customers : LockedByRun(k) => service'[k] = service[k] BY <1>1,<1>5
<1> QED BY <1>1,<1>2,<1>4,<1>7,<1>8,<1>9,<1>10,<1>11, OperatorsAreRecorded DEF ServiceTypeOK

\* Steps of the run that commit nothing.
LEMMA QuietIsRecorded ==
  ASSUME ServiceInv, Quiet, RunOK', run'.stage \in {"idle", "bindings", "expiries", "suspended"}, run'.at \in Times,
      run'.expired \subseteq Bindings, run'.suspended \subseteq Customers
  PROVE ServiceInv'
<1>1. UNCHANGED <<now, binding, service, lastEvent, first, tell, notices, suspensions, phone, serviceChanges, serviceFaults>> BY DEF Quiet
<1>2. ServiceTypeOK' BY <1>1 DEF ServiceInv, ServiceTypeOK
<1>3. HistoryEndsInState' BY <1>1 DEF ServiceInv, HistoryEndsInState
<1>4. FirstExpiryIsTold' BY <1>1 DEF ServiceInv, FirstExpiryIsTold
<1> QED BY <1>2,<1>3,<1>4 DEF ServiceInv

LEMMA ExpireIsRecorded == ASSUME ServiceInv, ExpireBindings PROVE ServiceInv'
<1> PICK due : due = {b \in Bindings : binding[b].state = "ACTIVE" /\ Due(binding[b].expires, now)} OBVIOUS
<1>0. ServiceTypeOK BY DEF ServiceInv
<1>1. Quiet /\ tell = {} /\ run' = [NotRunning EXCEPT !.stage = "bindings", !.at = now, !.expired = due] BY DEF ExpireBindings
<1>2. run' = [stage |-> "bindings", at |-> now, expired |-> due, extended |-> <<>>, suspended |-> {}] BY <1>1 DEF NotRunning
<1>3. run'.stage = "bindings" /\ run'.at = now /\ run'.expired = due /\ run'.extended = <<>> /\ run'.suspended = {} BY <1>2
<1>4. DOMAIN run'.extended = {} BY <1>3
<1>5. now' = now /\ now \in Times /\ tell' = {} BY <1>0,<1>1 DEF Quiet, ServiceTypeOK
<1>6. RunOK' BY <1>2,<1>3,<1>4,<1>5, TimesAreNats DEF RunOK
<1> QED BY <1>1,<1>3,<1>5,<1>6, QuietIsRecorded

LEMMA RefreshIsRecorded == ASSUME ServiceInv, RefreshExpiries PROVE ServiceInv'
<1> DEFINE of(c) == {binding[b].expires : b \in ActiveBindings(c)} \ {Never}
           last(c) == IF of(c) = {} THEN Never ELSE Max(of(c))
<1> PICK ext : ext = [c \in {k \in ActiveService : ActiveBindings(k) # {}} |-> last(c)] OBVIOUS
<1>0. ServiceTypeOK /\ RunOK BY DEF ServiceInv
<1>1. Quiet /\ run.stage = "bindings" /\ run' = [run EXCEPT !.stage = "expiries", !.extended = ext] BY DEF RefreshExpiries
<1>2. run' = [stage |-> "expiries", at |-> run.at, expired |-> run.expired, extended |-> ext, suspended |-> run.suspended] BY <1>0,<1>1 DEF RunOK
<1>3. run'.stage = "expiries" /\ run'.at = run.at /\ run'.expired = run.expired /\ run'.extended = ext /\ run'.suspended = {}
  BY <1>0,<1>1,<1>2 DEF RunOK
<1>4. UNCHANGED <<now, service, tell>> /\ ActiveService' = ActiveService BY <1>1 DEF Quiet, ActiveService
<1>5. DOMAIN ext \subseteq ActiveService OBVIOUS
<1>6. ASSUME NEW c \in DOMAIN ext PROVE ext[c] \in Times \cup {Never}
 <2>1. of(c) \in SUBSET Times
  <3>1. \A b \in ActiveBindings(c) : binding[b].expires \in Times \cup {Never} BY <1>0 DEF ServiceTypeOK, ActiveBindings
  <3> QED BY <3>1
 <2>2. MaxTime \in Nat /\ Times = 0..MaxTime BY ServiceAssumption DEF Times
 <2>3. ext[c] = last(c) OBVIOUS
 <2> HIDE DEF of
 <2>4. of(c) # {} => Max(of(c)) \in of(c)
  <3> PICK s : s = of(c) OBVIOUS
  <3>1. s \in SUBSET (0..MaxTime) BY <2>1,<2>2
  <3>2. s # {} => Max(s) \in s BY <2>2,<3>1, MaxIsIn
  <3> QED BY <3>2
 <2> QED BY <2>1,<2>3,<2>4
<1>7. run.at <= now /\ tell = {} BY <1>0,<1>1 DEF RunOK
<1>8. RunOK' BY <1>2,<1>3,<1>4,<1>5,<1>6,<1>7 DEF RunOK
<1>9. run.at \in Times /\ run.expired \subseteq Bindings BY <1>0 DEF ServiceTypeOK
<1> QED BY <1>1,<1>3,<1>8,<1>9, QuietIsRecorded

LEMMA SuspendIsRecorded == ASSUME ServiceInv, SuspendCustomers PROVE ServiceInv'
<1> PICK sus : sus = {c \in ActiveService : Due(ExpiryOf(c), run.at) /\ ActiveBindings(c) = {}} OBVIOUS
<1>0. ServiceTypeOK /\ RunOK BY DEF ServiceInv
<1>1. Quiet /\ run.stage = "expiries" /\ run' = [run EXCEPT !.stage = "suspended", !.suspended = sus] BY DEF SuspendCustomers
<1>2. run' = [stage |-> "suspended", at |-> run.at, expired |-> run.expired, extended |-> run.extended, suspended |-> sus] BY <1>0,<1>1 DEF RunOK
<1>3. run'.stage = "suspended" /\ run'.at = run.at /\ run'.expired = run.expired /\ run'.extended = run.extended
      /\ run'.suspended = sus BY <1>2
<1>4. UNCHANGED <<now, service, tell>> /\ ActiveService' = ActiveService BY <1>1 DEF Quiet, ActiveService
<1>5. \A c \in sus : c \in ActiveService /\ Due(ExpiryOf(c), run.at) OBVIOUS
<1>6. \A c : ExpiryOf(c)' = ExpiryOf(c) BY <1>3,<1>4 DEF ExpiryOf
<1>7. RunOK' BY <1>0,<1>1,<1>2,<1>3,<1>4,<1>5,<1>6 DEF RunOK, Due
<1>8. run.at \in Times /\ run.expired \subseteq Bindings /\ sus \subseteq Customers BY <1>0,<1>5 DEF ServiceTypeOK, ActiveService
<1> QED BY <1>1,<1>3,<1>7,<1>8, QuietIsRecorded

\* A commit writes what the run has in hand, of rows that are still as it found them.
LEMMA CommitWrites ==
  ASSUME ServiceInv, CommitRun
  PROVE  /\ \A c \in run.suspended : /\ c \in ActiveService
                                     /\ service'[c] = [state |-> "SUSPENDED", expires |-> ExpiryOf(c)]
                                     /\ ExpiryOf(c) \in Times \cup {Never} /\ Due(ExpiryOf(c), now)
         /\ \A c \in Customers \ run.suspended :
              \/ service'[c] = service[c]
              \/ /\ service[c] \in ServiceRow /\ service'[c] \in ServiceRow
                 /\ service'[c].state = service[c].state
<1>0. ServiceTypeOK /\ RunOK BY DEF ServiceInv
<1>1. ASSUME NEW c \in run.suspended
  PROVE  /\ c \in ActiveService /\ service'[c] = [state |-> "SUSPENDED", expires |-> ExpiryOf(c)]
         /\ ExpiryOf(c) \in Times \cup {Never} /\ Due(ExpiryOf(c), now)
 <2>1. c \in ActiveService /\ Due(ExpiryOf(c), run.at) /\ c \in Customers BY <1>0 DEF RunOK, ActiveService
 <2>2. service[c] \in ServiceRow BY <1>0,<2>1 DEF ServiceTypeOK, ActiveService
 <2>3. service[c].expires \in Times \cup {Never} BY <2>2 DEF ServiceRow
 <2>4. ExpiryOf(c) \in Times \cup {Never} BY <1>0,<2>3 DEF ExpiryOf, RunOK
 <2>5. run.at <= now /\ run.at \in Times /\ now \in Times BY <1>0 DEF RunOK, ServiceTypeOK
 <2>6. Due(ExpiryOf(c), now)
  <3> PICK e : e = ExpiryOf(c) OBVIOUS
  <3>1. e # Never /\ e <= run.at /\ e \in Times BY <2>1,<2>4 DEF Due
  <3>2. e <= now BY <2>5,<3>1, TimesAreNats
  <3> QED BY <3>1,<3>2 DEF Due
 <2>7. service'[c] = [state |-> "SUSPENDED", expires |-> ExpiryOf(c)] BY <2>1 DEF CommitRun
 <2> QED BY <2>1,<2>4,<2>6,<2>7
<1>2. ASSUME NEW c \in Customers \ run.suspended
  PROVE  \/ service'[c] = service[c]
         \/ /\ service[c] \in ServiceRow /\ service'[c] \in ServiceRow
            /\ service'[c].state = service[c].state
 <2>1. CASE c \notin DOMAIN run.extended BY <2>1 DEF CommitRun
 <2>2. CASE c \in DOMAIN run.extended
  <3>1. c \in ActiveService /\ run.extended[c] \in Times \cup {Never} BY <1>0,<2>2 DEF RunOK
  <3>2. service[c] \in ServiceRow BY <1>0,<3>1 DEF ServiceTypeOK, ActiveService
  <3>3. service'[c] = [service[c] EXCEPT !.expires = run.extended[c]] BY <2>2 DEF CommitRun
  <3> PICK old \in ServiceRow : old = service[c] BY <3>2
  <3> PICK e \in Times \cup {Never} : e = run.extended[c] BY <3>1
  <3>4. service'[c] = [old EXCEPT !.expires = e] BY <3>3
  <3>5. [old EXCEPT !.expires = e] \in ServiceRow /\ [old EXCEPT !.expires = e].state = old.state BY DEF ServiceRow
  <3> QED BY <3>2,<3>4,<3>5
 <2> QED BY <2>1,<2>2
<1> QED BY <1>1,<1>2

LEMMA CommitIsRecorded == ASSUME ServiceInv, CommitRun PROVE ServiceInv'
<1>0. ServiceTypeOK /\ RunOK /\ HistoryEndsInState /\ FirstExpiryIsTold BY DEF ServiceInv
<1>1. /\ UNCHANGED <<now, first, notices, phone, serviceChanges, serviceFaults>>
      /\ run.stage = "suspended" /\ tell' = run.suspended /\ run' = NotRunning
      /\ lastEvent' = [c \in Customers |-> IF c \in run.suspended THEN "SUSPENDED" ELSE lastEvent[c]]
      /\ suspensions' = [c \in Customers |-> suspensions[c] + IF c \in run.suspended THEN 1 ELSE 0] BY DEF CommitRun
<1>2. /\ \A c \in run.suspended : /\ c \in ActiveService
                                  /\ service'[c] = [state |-> "SUSPENDED", expires |-> ExpiryOf(c)]
                                  /\ ExpiryOf(c) \in Times \cup {Never} /\ Due(ExpiryOf(c), now)
      /\ \A c \in Customers \ run.suspended :
           \/ service'[c] = service[c]
           \/ /\ service[c] \in ServiceRow /\ service'[c] \in ServiceRow
              /\ service'[c].state = service[c].state BY CommitWrites
<1>3. ServiceTypeOK'
 <2>1. service' \in [Customers -> ServiceRow \cup {NoService}]
  <3>1. \E f : service' = [c \in Customers |-> f[c]]
   <4>1. service' = [c \in Customers |-> service'[c]] BY DEF CommitRun
   <4> QED BY <4>1
  <3>2. \A c \in Customers : service'[c] \in ServiceRow \cup {NoService}
   <4> TAKE c \in Customers
   <4>1. ASSUME c \in run.suspended PROVE service'[c] \in ServiceRow
    <5>1. PICK e \in Times \cup {Never} : e = ExpiryOf(c) BY <1>2,<4>1
    <5>2. service'[c] = [state |-> "SUSPENDED", expires |-> e] BY <1>2,<4>1,<5>1
    <5> QED BY <5>1,<5>2 DEF ServiceRow, ServiceState
   <4>2. service[c] \in ServiceRow \cup {NoService} BY <1>0 DEF ServiceTypeOK
   <4> QED BY <1>2,<4>1,<4>2
  <3> QED BY <3>1,<3>2
 <2>2. lastEvent' \in [Customers -> ServiceState \cup {NoService}] BY <1>0,<1>1 DEF ServiceTypeOK, ServiceState
 <2>3. suspensions' \in [Customers -> Nat] BY <1>0,<1>1 DEF ServiceTypeOK
 <2>4. binding' \in [Bindings -> [state : AccessState, expires : Times \cup {Never}]]
  <3> DEFINE B == [state : AccessState, expires : Times \cup {Never}]
  <3>1. \A b \in Bindings : binding[b] \in B BY <1>0 DEF ServiceTypeOK
  <3>2. \A x \in B : [x EXCEPT !.state = "EXPIRED"] \in B BY DEF AccessState
  <3>3. binding' = [b \in Bindings |-> IF b \in run.expired THEN [binding[b] EXCEPT !.state = "EXPIRED"]
                                      ELSE binding[b]] BY DEF CommitRun
  <3> HIDE DEF B
  <3>4. binding' \in [Bindings -> B] BY <3>1,<3>2,<3>3
  <3> QED BY <3>4 DEF B
 <2>5. run'.stage = "idle" /\ run'.at = 0 /\ run'.expired = {} /\ run'.suspended = {} BY <1>1 DEF NotRunning
 <2>6. tell' \subseteq Customers BY <1>0,<1>1 DEF ServiceTypeOK
 <2> QED BY <1>0,<1>1,<2>1,<2>2,<2>3,<2>4,<2>5,<2>6, TimesAreNats DEF ServiceTypeOK
<1>4. RunOK'
 <2>1. ASSUME ServiceTypeOK, run = NotRunning PROVE RunOK BY <2>1, NotRunningIsOK
 <2>2. run'.stage = "idle" /\ run'.at = 0 /\ run'.extended = <<>> /\ run'.suspended = {} BY <1>1 DEF NotRunning
 <2>3. DOMAIN run'.extended = {} BY <2>2
 <2>4. 0 <= now' BY <1>0,<1>1, TimesAreNats DEF ServiceTypeOK
 <2>5. run' = [stage |-> run'.stage, at |-> run'.at, expired |-> run'.expired,
               extended |-> run'.extended, suspended |-> run'.suspended] BY <1>1 DEF NotRunning
 <2> QED BY <2>2,<2>3,<2>4,<2>5 DEF RunOK
<1>5. HistoryEndsInState'
 <2>1. ASSUME NEW c \in Customers, service'[c] # NoService PROVE lastEvent'[c] = service'[c].state
  <3>1. CASE c \in run.suspended
   <4>1. service'[c] = [state |-> "SUSPENDED", expires |-> ExpiryOf(c)] BY <1>2,<3>1
   <4>2. service'[c].state = "SUSPENDED" BY ONLY <4>1
   <4> QED BY <1>1,<3>1,<4>2
  <3>2. CASE c \notin run.suspended
   <4>1. lastEvent'[c] = lastEvent[c] BY <1>1,<3>2
   <4>2. service[c] # NoService /\ service'[c].state = service[c].state BY <1>2,<2>1,<3>2, ServiceAssumption
   <4> QED BY <1>0,<4>1,<4>2 DEF HistoryEndsInState
  <3> QED BY <3>1,<3>2
 <2> QED BY <2>1 DEF HistoryEndsInState
<1>6. FirstExpiryIsTold'
 <2>1. ASSUME NEW c \in Customers, suspensions'[c] > 0, serviceFaults' = 0, phone'[c] = "kept" PROVE c \in tell' \/ <<"final", c, 0>> \in notices'
  <3>1. CASE c \in run.suspended BY <1>1,<3>1
  <3>2. CASE c \notin run.suspended
   <4>1. suspensions[c] \in Nat BY <1>0 DEF ServiceTypeOK
   <4>2. suspensions[c] > 0 BY <1>1,<2>1,<3>2,<4>1
   <4>3. tell = {} BY <1>0,<1>1 DEF RunOK
   <4> QED BY <1>0,<1>1,<2>1,<4>2,<4>3 DEF FirstExpiryIsTold
  <3> QED BY <3>1,<3>2
 <2> QED BY <2>1 DEF FirstExpiryIsTold
<1> QED BY <1>3,<1>4,<1>5,<1>6 DEF ServiceInv

\* Notices, failures and crashes.
LEMMA AftermathIsRecorded ==
  ASSUME ServiceInv, UNCHANGED <<now, binding, service, lastEvent, suspensions, phone, serviceChanges>>,
      first' \subseteq first, tell' \subseteq tell, notices \subseteq notices', notices' \subseteq {"reminder", "final"} \X Customers \X Times,
      serviceFaults' \in 0..MaxServiceFaults, serviceFaults' = 0 => serviceFaults = 0, UNCHANGED run \/ run' = NotRunning,
      serviceFaults' = 0 => \A c \in tell \ tell' : phone[c] # "kept" \/ <<"final", c, 0>> \in notices'
  PROVE ServiceInv'
<1>0. ServiceTypeOK /\ RunOK /\ HistoryEndsInState /\ FirstExpiryIsTold BY DEF ServiceInv
<1>1. RunOK'
 <2>1. CASE UNCHANGED run
  <3>1. now <= now' /\ now' \in Times BY <1>0, TimesAreNats DEF ServiceTypeOK
  <3> QED BY <2>1,<3>1, RunStaysOK
 <2>2. CASE run' = NotRunning
  <3>1. run'.stage = "idle" /\ run'.at = 0 /\ run'.extended = <<>> /\ run'.suspended = {} BY <2>2 DEF NotRunning
  <3>2. DOMAIN run'.extended = {} BY <3>1
  <3>3. 0 <= now' BY <1>0, TimesAreNats DEF ServiceTypeOK
  <3>4. run' = [stage |-> run'.stage, at |-> run'.at, expired |-> run'.expired,
                extended |-> run'.extended, suspended |-> run'.suspended] BY <2>2 DEF NotRunning
  <3> QED BY <3>1,<3>2,<3>3,<3>4 DEF RunOK
 <2> QED BY <2>1,<2>2
<1>2. ServiceTypeOK'
 <2>1. /\ run'.stage \in {"idle", "bindings", "expiries", "suspended"} /\ run'.at \in Times
       /\ run'.expired \subseteq Bindings /\ run'.suspended \subseteq Customers BY <1>0, TimesAreNats DEF ServiceTypeOK, NotRunning
 <2> QED BY <1>0,<2>1 DEF ServiceTypeOK
<1>3. HistoryEndsInState' BY <1>0 DEF HistoryEndsInState
<1>4. FirstExpiryIsTold' BY <1>0 DEF FirstExpiryIsTold
<1> QED BY <1>1,<1>2,<1>3,<1>4 DEF ServiceInv

LEMMA ServiceFaultCounts == ASSUME ServiceInv, ServiceFault PROVE serviceFaults' \in 0..MaxServiceFaults /\ serviceFaults' # 0
BY ServiceAssumption DEF ServiceInv, ServiceTypeOK, ServiceFault

LEMMA NoticesAreRecorded ==
  ASSUME ServiceInv, RemindCustomers \/ (\E c \in Customers : NotifyCustomer(c) \/ NoticeFails(c)) \/ RunFails \/ ServiceCrash PROVE ServiceInv'
<1>0. ServiceTypeOK BY DEF ServiceInv
<1>1. serviceFaults \in 0..MaxServiceFaults /\ notices \subseteq {"reminder", "final"} \X Customers \X Times BY <1>0 DEF ServiceTypeOK
<1>2. CASE RemindCustomers
 <2>1. UNCHANGED <<now, binding, service, lastEvent, first, run, tell, suspensions, phone, serviceChanges, serviceFaults>> BY <1>2 DEF RemindCustomers
 <2>2. ASSUME NEW c \in ActiveService, service[c].expires # Never
   PROVE <<"reminder", c, service[c].expires>> \in {"reminder", "final"} \X Customers \X Times
  <3>1. c \in Customers /\ service[c] \in ServiceRow BY <1>0 DEF ActiveService, ServiceTypeOK
  <3> QED BY <2>2,<3>1 DEF ServiceRow
 <2>3. notices \subseteq notices' /\ notices' \subseteq {"reminder", "final"} \X Customers \X Times BY <1>1,<1>2,<2>2 DEF RemindCustomers
 <2> QED BY <1>1,<2>1,<2>3, AftermathIsRecorded
<1>3. ASSUME NEW c \in Customers, NotifyCustomer(c) PROVE ServiceInv'
 <2>1. UNCHANGED <<now, binding, service, lastEvent, first, run, suspensions, phone, serviceChanges, serviceFaults>>
       /\ tell' = tell \ {c} /\ notices \subseteq notices' /\ notices' \subseteq notices \cup {<<"final", c, 0>>}
       /\ (phone[c] # "kept" \/ <<"final", c, 0>> \in notices') BY <1>3 DEF NotifyCustomer, Reachable
 <2>2. notices \subseteq notices' /\ notices' \subseteq {"reminder", "final"} \X Customers \X Times BY <1>1,<2>1, TimesAreNats
 <2>3. \A k \in tell \ tell' : phone[k] # "kept" \/ <<"final", k, 0>> \in notices' BY <2>1
 <2> QED BY <1>1,<2>1,<2>2,<2>3, AftermathIsRecorded
<1>4. ASSUME NEW c \in Customers, NoticeFails(c) PROVE ServiceInv'
 <2>1. UNCHANGED <<now, binding, service, lastEvent, first, run, notices, suspensions, phone, serviceChanges>>
       /\ tell' = tell \ {c} BY <1>4 DEF NoticeFails
 <2>2. serviceFaults' \in 0..MaxServiceFaults /\ serviceFaults' # 0 BY <1>4, ServiceFaultCounts DEF NoticeFails
 <2> QED BY <1>1,<2>1,<2>2, AftermathIsRecorded
<1>5. CASE RunFails
 <2>1. UNCHANGED <<now, binding, service, lastEvent, first, tell, notices, suspensions, phone, serviceChanges>>
       /\ run' = NotRunning BY <1>5 DEF RunFails
 <2>2. serviceFaults' \in 0..MaxServiceFaults /\ serviceFaults' # 0 BY <1>5, ServiceFaultCounts DEF RunFails
 <2> QED BY <1>1,<2>1,<2>2, AftermathIsRecorded
<1>6. CASE ServiceCrash
 <2>1. UNCHANGED <<now, binding, service, lastEvent, notices, suspensions, phone, serviceChanges>>
       /\ run' = NotRunning /\ tell' = {} /\ first' = {} BY <1>6 DEF ServiceCrash
 <2>2. serviceFaults' \in 0..MaxServiceFaults /\ serviceFaults' # 0 BY <1>6, ServiceFaultCounts DEF ServiceCrash
 <2> QED BY <1>1,<2>1,<2>2, AftermathIsRecorded
<1> QED BY <1>2,<1>3,<1>4,<1>5,<1>6

(* Every operation of operators, the minute's run and the notices. *)
LEMMA ServiceStep == ServiceInv /\ ServiceNext => ServiceInv'
<1> SUFFICES ASSUME ServiceInv, ServiceNext PROVE ServiceInv' OBVIOUS
<1>1. Tick => ServiceInv' BY TickIsRecorded
<1>2. RunStep => ServiceInv'
 <2>1. (\E c \in Customers : NotifyCustomer(c)) => ServiceInv' BY NoticesAreRecorded
 <2> QED BY <2>1, ExpireIsRecorded, RefreshIsRecorded, SuspendIsRecorded, CommitIsRecorded DEF RunStep
<1>3. RemindCustomers \/ RunFails \/ ServiceCrash => ServiceInv' BY NoticesAreRecorded
<1>4. (\E b \in Bindings, s \in {"ACTIVE", "SUSPENDED"} : ChangeAccessState(b, s)) => ServiceInv' BY AccessIsRecorded
<1>5. (\E c \in Customers : NoticeFails(c)) => ServiceInv' BY NoticesAreRecorded
<1>6. (\E c \in Customers : \E entry \in ServiceRow : UpsertService(c, entry)) => ServiceInv' BY UpsertIsRecorded
<1>7. (\E c \in Customers, s \in ServiceState, e \in Times \cup {Never} : SetService(c, s, e) \/ ReadNoService(c, s, e))
        => ServiceInv' BY SetIsRecorded, ReadIsRecorded
<1>8. (\E c \in Customers : EditCustomer(c)) => ServiceInv' BY EditIsRecorded
<1> QED BY ONLY ServiceNext, <1>1,<1>2,<1>3,<1>4,<1>5,<1>6,<1>7,<1>8 DEF ServiceNext

LEMMA ServiceStutters == ServiceInv /\ UNCHANGED serviceVars => ServiceInv'
<1> SUFFICES ASSUME ServiceInv, UNCHANGED serviceVars PROVE ServiceInv' OBVIOUS
<1>1. UNCHANGED <<now, binding, service, lastEvent, first, run, tell, notices, suspensions, phone, serviceChanges, serviceFaults>> BY DEF serviceVars
<1>2. ServiceTypeOK /\ serviceFaults \in 0..MaxServiceFaults BY DEF ServiceInv, ServiceTypeOK
<1>3. notices' \subseteq {"reminder", "final"} \X Customers \X Times BY <1>1,<1>2 DEF ServiceTypeOK
<1> QED BY <1>1,<1>2,<1>3, AftermathIsRecorded

\* Only a commit suspends, and only those who were due.
DueStep == \A c \in Customers : suspensions'[c] > suspensions[c] => c \in ActiveService /\ Due(service'[c].expires, now)

LEMMA ServiceActs == ServiceInv /\ [ServiceNext]_serviceVars => DueStep
<1> SUFFICES ASSUME ServiceInv, [ServiceNext]_serviceVars PROVE DueStep OBVIOUS
<1>1. ASSUME UNCHANGED suspensions PROVE DueStep
 <2>1. \A c \in Customers : suspensions[c] \in Nat BY DEF ServiceInv, ServiceTypeOK
 <2>2. \A c \in Customers : ~(suspensions'[c] > suspensions[c]) BY <1>1,<2>1
 <2> QED BY <2>2 DEF DueStep
<1>2. ASSUME CommitRun PROVE DueStep
 <2>1. ASSUME NEW c \in Customers, suspensions'[c] > suspensions[c] PROVE c \in ActiveService /\ Due(service'[c].expires, now)
  <3>1. suspensions[c] \in Nat BY DEF ServiceInv, ServiceTypeOK
  <3>2. c \in run.suspended BY <1>2,<2>1,<3>1 DEF CommitRun
  <3>3. c \in ActiveService /\ service'[c] = [state |-> "SUSPENDED", expires |-> ExpiryOf(c)] /\ Due(ExpiryOf(c), now) BY <1>2,<3>2, CommitWrites
  <3>4. service'[c].expires = ExpiryOf(c) BY ONLY <3>3
  <3> QED BY <3>3,<3>4 DEF Due
 <2> QED BY <2>1 DEF DueStep
<1>3. CASE UNCHANGED serviceVars BY <1>1,<1>3 DEF serviceVars
<1>4. CASE ServiceNext
 <2>1. Tick => UNCHANGED suspensions BY DEF Tick
 <2>2. ExpireBindings \/ RefreshExpiries \/ SuspendCustomers => UNCHANGED suspensions BY DEF ExpireBindings, RefreshExpiries, SuspendCustomers, Quiet
 <2>3. \A c \in Customers : NotifyCustomer(c) \/ NoticeFails(c) => UNCHANGED suspensions BY DEF NotifyCustomer, NoticeFails
 <2>4. RemindCustomers \/ RunFails \/ ServiceCrash => UNCHANGED suspensions BY DEF RemindCustomers, RunFails, ServiceCrash
 <2>5. \A b \in Bindings, s \in {"ACTIVE", "SUSPENDED"} : ChangeAccessState(b, s) => UNCHANGED suspensions BY DEF ChangeAccessState
 <2>6. \A c \in Customers, entry \in ServiceRow : UpsertService(c, entry) => UNCHANGED suspensions BY DEF UpsertService
 <2>7. \A c \in Customers, s \in ServiceState, e \in Times \cup {Never} :
         SetService(c, s, e) \/ ReadNoService(c, s, e) => UNCHANGED suspensions BY DEF SetService, ReadNoService
 <2>10. \A c \in Customers : EditCustomer(c) => UNCHANGED suspensions BY DEF EditCustomer
 <2>8. RunStep => CommitRun \/ UNCHANGED suspensions BY ONLY <2>2,<2>3 DEF RunStep
 <2>9. CommitRun \/ UNCHANGED suspensions BY ONLY <1>4,<2>1,<2>3,<2>4,<2>5,<2>6,<2>7,<2>8,<2>10 DEF ServiceNext
 <2> QED BY <1>1,<1>2,<2>9
<1> QED BY <1>3,<1>4

------------------------
(* Incidents. *)

\* What is owed to an incident, what makes an event true, and who knows of an
\* offline router: the invariants, row by row.
Told(i) ==
  /\ ~incident[i].quiet => Announced(Opened(i))
  /\ \A n \in 1..incident[i].level : Announced(Escalated(i, n))
  /\ incident[i].by = "recovery" => i \in recovering \/ Announced(Resolved(i))
  /\ incident[i].status = "RESOLVED" => i \in recovering \/ incident[i].impacts # "AFFECTED"

Happened(k) ==
  /\ k[2] \in Rows
  /\ k[1] = "escalation" => k[3] \in 1..incident[k[2]].level
  /\ k[1] = "resolved" => incident[k[2]].status = "RESOLVED" /\ incident[k[2]].by = "recovery"

HandledByOperator(r) == \E i \in Rows : incident[i].root = r /\ incident[i].by = "operator"
Known(r) == r \in marking \cup reported \/ ActiveOf(r) # {} \/ HandledByOperator(r)

\* Impacts are recovered of resolved incidents, nobody has closed an active one, a
\* monitor has none to recover, and a router with a heartbeat under way is not offline.
RecoveringOK == \A i \in recovering : i \in Rows /\ incident[i].status = "RESOLVED"
ClosersOK == \A i \in Rows : incident[i].status \in Active => incident[i].by = "none"
ImpactsOK == \A i \in Rows : incident[i].root \in Monitors => incident[i].impacts = "none"
BeatingOK == beating \cap silent = {} /\ \A r \in beating : rstatus[r] # "OFFLINE" \/ r \in reported

IncidentInv ==
  /\ IncidentTypeOK /\ RecoveringOK /\ ClosersOK /\ ImpactsOK /\ BeatingOK
  /\ incidentFaults = 0 => \A i \in Rows : Told(i)
  /\ incidentFaults = 0 => \A r \in Routers : rstatus[r] = "OFFLINE" => Known(r)
  /\ \A k \in outbox \cup telling : Happened(k)

LEMMA IncidentInvIsKnown == IncidentInv => IncidentTypeOK /\ OnlyAFaultLosesAnnouncement /\ OfflineIsKnown /\ EventsAreTrue
<1> SUFFICES ASSUME IncidentInv PROVE OnlyAFaultLosesAnnouncement /\ OfflineIsKnown /\ EventsAreTrue BY DEF IncidentInv
<1>1. OnlyAFaultLosesAnnouncement BY DEF IncidentInv, OnlyAFaultLosesAnnouncement, Told
<1>2. OfflineIsKnown
 <2>1. incidentFaults \in Nat BY IncidentAssumption DEF IncidentInv, IncidentTypeOK
 <2>2. ASSUME NEW r \in Routers, rstatus[r] = "OFFLINE"
   PROVE  \/ r \in marking \cup reported \/ ActiveOf(r) # {} \/ incidentFaults > 0
          \/ \E i \in Rows : incident[i].root = r /\ incident[i].by = "operator"
  <3>1. incidentFaults = 0 \/ incidentFaults > 0 BY <2>1
  <3>2. incidentFaults = 0 => Known(r) BY <2>2 DEF IncidentInv
  <3> QED BY <3>1,<3>2 DEF Known, HandledByOperator
 <2> QED BY <2>2 DEF OfflineIsKnown
<1>3. EventsAreTrue BY DEF IncidentInv, EventsAreTrue, Happened
<1> QED BY <1>1,<1>2,<1>3

LEMMA IncidentBegins == IncidentInit => IncidentInv
<1> SUFFICES ASSUME IncidentInit PROVE IncidentInv OBVIOUS
<1>1. Rows = {} BY DEF IncidentInit, Rows
<1>2. IncidentTypeOK
 <2>1. results \in [Monitors -> {"PASS", "FAIL"} \X {"PASS", "FAIL"}] BY DEF IncidentInit
 <2>2. window \in [status : {"none", "PLANNED", "ACTIVE", "COMPLETED", "CANCELED"},
                   time : {"before", "during", "after"}, scope : SUBSET Roots] BY DEF IncidentInit
 <2>3. incidentFaults \in 0..MaxIncidentFaults /\ upsets \in 0..MaxUpsets BY IncidentAssumption DEF IncidentInit
 <2> QED BY <2>1,<2>2,<2>3 DEF IncidentInit, IncidentTypeOK, HeartbeatStatuses
<1>3. RecoveringOK /\ ClosersOK /\ ImpactsOK /\ BeatingOK BY <1>1 DEF RecoveringOK, ClosersOK, ImpactsOK, BeatingOK, IncidentInit
<1>4. \A r \in Routers : rstatus[r] # "OFFLINE" BY DEF IncidentInit
<1> QED BY <1>1,<1>2,<1>3,<1>4 DEF IncidentInv, IncidentInit

\* Steps that leave the incidents alone.
LEMMA RowsStay ==
  ASSUME IncidentInv, UNCHANGED incident, IncidentTypeOK', BeatingOK', recovering' \subseteq recovering,
      outbox' \cup telling' \subseteq outbox \cup telling,
      incidentFaults' = 0 => /\ incidentFaults = 0 /\ recovering' = recovering
                             /\ outbox \cup telling \subseteq outbox' \cup telling'
                             /\ \A r \in Routers : rstatus'[r] = "OFFLINE" =>
                                  \/ r \in marking' \cup reported'
                                  \/ rstatus[r] = "OFFLINE" /\ r \notin marking \cup reported
  PROVE IncidentInv'
<1>1. Rows' = Rows /\ \A r : ActiveOf(r)' = ActiveOf(r) BY DEF Rows, ActiveOf
<1>2. RecoveringOK' BY <1>1 DEF IncidentInv, RecoveringOK
<1>3. ImpactsOK' /\ ClosersOK' BY <1>1 DEF IncidentInv, ImpactsOK, ClosersOK
<1>4. \A k \in outbox' \cup telling' : Happened(k)' BY <1>1 DEF IncidentInv, Happened
<1>5. incidentFaults' = 0 => \A i \in Rows' : Told(i)'
 <2>1. ASSUME incidentFaults' = 0, NEW i \in Rows PROVE Told(i)'
  <3>1. Told(i) /\ recovering' = recovering BY <2>1 DEF IncidentInv
  <3>2. \A k : Announced(k) => Announced(k)' BY <2>1 DEF Announced
  <3> QED BY <3>1,<3>2 DEF Told, Opened, Escalated, Resolved
 <2> QED BY <1>1,<2>1
<1>6. incidentFaults' = 0 => \A r \in Routers : rstatus'[r] = "OFFLINE" => Known(r)'
 <2>1. ASSUME incidentFaults' = 0, NEW r \in Routers, rstatus[r] = "OFFLINE", r \notin marking \cup reported
   PROVE ActiveOf(r)' # {} \/ HandledByOperator(r)'
  <3>1. Known(r) BY <2>1 DEF IncidentInv
  <3> QED BY <1>1,<2>1,<3>1 DEF Known, HandledByOperator
 <2> QED BY <2>1 DEF Known
<1> QED BY <1>2,<1>3,<1>4,<1>5,<1>6 DEF IncidentInv

\* A step that opens or changes one incident, and owes what it has to announce.
LEMMA RowMoves ==
  ASSUME IncidentInv, NEW i \in IncidentIds, NEW new \in IncidentRow, incident' = [incident EXCEPT ![i] = new],
      IncidentTypeOK', BeatingOK', UNCHANGED <<rstatus, reported, outbox, incidentFaults>>,
      recovering \ {i} \subseteq recovering', recovering' \subseteq recovering \cup {i}, i \in recovering' => new.status = "RESOLVED",
      i \in Rows => /\ new.root = incident[i].root /\ new.level = incident[i].level
                    /\ incident[i].status = "RESOLVED" => new.status = "RESOLVED" /\ new.by = incident[i].by,
      new.root \in Monitors => new.impacts = "none", new.status \in Active => new.by = "none",
      telling \subseteq telling', \A k \in telling' \ telling : Happened(k)', incidentFaults = 0 => Told(i)',
      \A r \in marking \ marking' : r = new.root /\ new.status \in Active,
      i \in Rows /\ incident[i].status \in Active =>
         \/ new.status \in Active \/ new.by = "operator" \/ new.root \notin Routers
         \/ rstatus[new.root] # "OFFLINE" \/ new.root \in reported, i \in Rows /\ incident[i].by = "operator" => new.by = "operator"
  PROVE IncidentInv'
<1>0. IncidentTypeOK /\ NoIncident \notin IncidentRow /\ incident \in [IncidentIds -> IncidentRow \cup {NoIncident}]
  BY IncidentAssumption DEF IncidentInv, IncidentTypeOK
<1>1. incident'[i] = new /\ \A j \in IncidentIds \ {i} : incident'[j] = incident[j] BY <1>0
<1>2. Rows' = Rows \cup {i} /\ Rows \subseteq IncidentIds BY <1>0,<1>1 DEF Rows
<1>3. RecoveringOK'
 <2>1. \A j \in recovering' : j \in Rows' /\ (j # i => j \in recovering) BY <1>2 DEF IncidentInv, RecoveringOK
 <2> QED BY <1>1,<1>2,<2>1 DEF IncidentInv, RecoveringOK
<1>4. ImpactsOK' /\ ClosersOK' BY <1>1,<1>2 DEF IncidentInv, ImpactsOK, ClosersOK
<1>5. \A k \in outbox' \cup telling' : Happened(k)'
 <2>1. ASSUME NEW k \in outbox \cup telling PROVE Happened(k)'
  <3>1. Happened(k) BY DEF IncidentInv
  <3>2. k[2] \in Rows /\ k[2] \in Rows' BY <1>2,<3>1 DEF Happened
  <3>3. CASE k[2] = i BY <1>1,<3>1,<3>2,<3>3 DEF Happened
  <3>4. CASE k[2] # i BY <1>1,<1>2,<3>1,<3>2,<3>4 DEF Happened
  <3> QED BY <3>3,<3>4
 <2> QED BY <2>1
<1>6. incidentFaults' = 0 => \A j \in Rows' : Told(j)'
 <2>1. ASSUME incidentFaults = 0, NEW j \in Rows, j # i PROVE Told(j)'
  <3>1. Told(j) /\ incident'[j] = incident[j] BY <1>1,<1>2,<2>1 DEF IncidentInv
  <3>2. \A k : Announced(k) => Announced(k)' BY DEF Announced
  <3>3. j \in recovering => j \in recovering' BY <2>1
  <3> QED BY <3>1,<3>2,<3>3 DEF Told, Opened, Escalated, Resolved
 <2> QED BY <1>2,<2>1
<1>7. incidentFaults' = 0 => \A r \in Routers : rstatus'[r] = "OFFLINE" => Known(r)'
 <2>1. ASSUME incidentFaults = 0, NEW r \in Routers, rstatus[r] = "OFFLINE" PROVE Known(r)'
  <3>1. Known(r) BY <2>1 DEF IncidentInv
  <3>2. ASSUME new.root = r, new.status \in Active PROVE Known(r)'
   <4>1. i \in ActiveOf(r)' BY <1>1,<1>2,<3>2 DEF ActiveOf
   <4> QED BY <4>1 DEF Known
  <3>3. CASE r \in reported BY <3>3 DEF Known
  <3>4. CASE r \in marking BY <3>2,<3>4 DEF Known
  <3>5. ASSUME NEW j \in ActiveOf(r) PROVE Known(r)'
   <4>1. CASE j # i
    <5>1. j \in ActiveOf(r)' BY <1>1,<1>2,<4>1 DEF ActiveOf
    <5> QED BY <5>1 DEF Known
   <4>2. CASE j = i
    <5>1. i \in Rows /\ new.root = r /\ incident[i].status \in Active BY <4>2 DEF ActiveOf
    <5>2. CASE new.by = "operator"
     <6>1. HandledByOperator(r)' BY <1>1,<1>2,<5>1,<5>2 DEF HandledByOperator
     <6> QED BY <6>1 DEF Known
    <5>3. CASE new.status \in Active BY <3>2,<5>1,<5>3
    <5>4. CASE r \in reported BY <5>4 DEF Known
    <5> QED BY <2>1,<5>1,<5>2,<5>3,<5>4
   <4> QED BY <4>1,<4>2
  <3>6. ASSUME HandledByOperator(r) PROVE Known(r)'
   <4>1. PICK j \in Rows : incident[j].root = r /\ incident[j].by = "operator" BY <3>6 DEF HandledByOperator
   <4>2. j \in Rows' /\ incident'[j].root = r /\ incident'[j].by = "operator"
    <5>1. CASE j = i BY <1>1,<1>2,<4>1,<5>1
    <5>2. CASE j # i BY <1>1,<1>2,<4>1,<5>2
    <5> QED BY <5>1,<5>2
   <4> QED BY <4>2 DEF Known, HandledByOperator
  <3> QED BY <3>1,<3>3,<3>4,<3>5,<3>6 DEF Known
 <2> QED BY <2>1
<1> QED BY <1>3,<1>4,<1>5,<1>6,<1>7 DEF IncidentInv

LEMMA RowsAreTyped ==
  ASSUME IncidentInv, NEW i \in Rows
  PROVE i \in IncidentIds /\ incident[i] \in IncidentRow /\ incident[i] # NoIncident /\ Opened(i) \in IncidentKeys /\ Resolved(i) \in IncidentKeys
BY IncidentAssumption DEF IncidentInv, IncidentTypeOK, Rows, IncidentKeys, Opened, Resolved

LEMMA FreshRow ==
  ASSUME NEW root \in Roots, NEW quiet \in BOOLEAN, NEW impacts \in {"none", "AFFECTED"}
  PROVE  /\ Fresh(root, quiet, impacts) \in IncidentRow
         /\ Fresh(root, quiet, impacts).root = root /\ Fresh(root, quiet, impacts).status = "OPEN"
         /\ Fresh(root, quiet, impacts).level = 0 /\ Fresh(root, quiet, impacts).quiet = quiet
         /\ Fresh(root, quiet, impacts).impacts = impacts /\ Fresh(root, quiet, impacts).by = "none"
BY IncidentAssumption DEF Fresh, IncidentRow, Active

\* An incident is opened; outside maintenance that is announced.
LEMMA OpenKeeps ==
  ASSUME IncidentInv, NEW root \in Roots, NEW quiet \in BOOLEAN, NEW impacts \in {"none", "AFFECTED"},
      NEW i \in IncidentIds \ Rows, incident' = [incident EXCEPT ![i] = Fresh(root, quiet, impacts)],
      telling' = IF quiet THEN telling ELSE telling \cup {Opened(i)}, root \in Monitors => impacts = "none",
      marking' \subseteq marking, marking \ marking' \subseteq {root}, checked' \subseteq Monitors, upsets' \in 0..MaxUpsets,
      UNCHANGED <<rstatus, reported, silent, beating, results, enabled, recovering, outbox, window, incidentFaults>>
  PROVE IncidentInv'
<1> PICK new : new = Fresh(root, quiet, impacts) OBVIOUS
<1>0. IncidentTypeOK /\ BeatingOK /\ RecoveringOK BY DEF IncidentInv
<1>1. new \in IncidentRow /\ new.root = root /\ new.status = "OPEN" /\ new.level = 0 /\ new.quiet = quiet /\ new.impacts = impacts /\ new.by = "none"
  BY FreshRow
<1>2. incident' = [incident EXCEPT ![i] = new] /\ incident'[i] = new /\ i \in Rows' BY <1>0,<1>1, IncidentAssumption DEF IncidentTypeOK, Rows
<1>3. Opened(i) \in IncidentKeys BY IncidentAssumption DEF IncidentKeys, Opened
<1>4. IncidentTypeOK'
 <2>1. incident' \in [IncidentIds -> IncidentRow \cup {NoIncident}] BY <1>0,<1>1,<1>2 DEF IncidentTypeOK
 <2>2. telling' \subseteq IncidentKeys BY <1>0,<1>3 DEF IncidentTypeOK
 <2> QED BY <1>0,<2>1,<2>2 DEF IncidentTypeOK
<1>5. BeatingOK' BY <1>0 DEF BeatingOK
<1>6. i \notin recovering BY <1>0 DEF RecoveringOK
<1>7. \A k \in telling' \ telling : Happened(k)' BY <1>2 DEF Happened, Opened
<1>8. Told(i)'
 <2>1. 1..incident'[i].level = {} BY <1>1,<1>2
 <2>2. ~quiet => Announced(Opened(i))' BY DEF Announced, Opened
 <2> QED BY <1>1,<1>2,<2>1,<2>2 DEF Told, Opened
<1>9. \A r \in marking \ marking' : r = new.root /\ new.status \in Active BY <1>1 DEF Active
<1>10. (new.root \in Monitors => new.impacts = "none") /\ (new.status \in Active => new.by = "none") BY <1>1
<1>11. telling \subseteq telling' OBVIOUS
<1> QED BY ONLY IncidentInv, i \in IncidentIds \ Rows, UNCHANGED <<rstatus, reported, recovering, outbox, incidentFaults>>,
<1>1,<1>2,<1>4,<1>5,<1>6,<1>7,<1>8,<1>9,<1>10,<1>11, RowMoves

LEMMA SyncKeeps ==
  ASSUME IncidentInv, NEW r \in Routers, SyncIncident(r), marking' \subseteq marking, marking \ marking' \subseteq {r}, upsets' \in 0..MaxUpsets,
      UNCHANGED <<rstatus, reported, silent, beating, monitorVars, recovering, outbox, window, incidentFaults>>
  PROVE IncidentInv'
<1>0. IncidentTypeOK /\ BeatingOK /\ RecoveringOK /\ UNCHANGED <<results, enabled, checked>> BY DEF IncidentInv, monitorVars
<1>1. ASSUME NEW i \in ActiveOf(r), incident' = [incident EXCEPT ![i].impacts = "AFFECTED"], UNCHANGED telling PROVE IncidentInv'
 <2>1. i \in Rows /\ incident[i].root = r /\ incident[i].status \in Active BY DEF ActiveOf
 <2>2. i \in IncidentIds /\ incident[i] \in IncidentRow BY <2>1, RowsAreTyped
 <2> PICK old \in IncidentRow : old = incident[i] BY <2>2
 <2> PICK new : new = [old EXCEPT !.impacts = "AFFECTED"] OBVIOUS
 <2>3. new \in IncidentRow /\ new.root = old.root /\ new.status = old.status /\ new.level = old.level /\ new.quiet = old.quiet /\ new.by = old.by
   BY DEF IncidentRow
 <2>4. incident' = [incident EXCEPT ![i] = new] /\ incident'[i] = new BY <1>0,<1>1,<2>2 DEF IncidentTypeOK
 <2>5. IncidentTypeOK'
  <3>1. incident' \in [IncidentIds -> IncidentRow \cup {NoIncident}] BY <1>0,<2>3,<2>4 DEF IncidentTypeOK
  <3> QED BY <1>0,<1>1,<3>1 DEF IncidentTypeOK
 <2>6. BeatingOK' BY <1>0 DEF BeatingOK
 <2>7. incidentFaults = 0 => Told(i)'
  <3>1. incidentFaults = 0 => Told(i) BY <2>1 DEF IncidentInv
  <3>2. new.status # "RESOLVED" BY <2>1,<2>3 DEF Active
  <3> QED BY <1>1,<2>3,<2>4,<3>1,<3>2 DEF Told, Announced, Opened, Escalated, Resolved
 <2>8. i \notin recovering BY <1>0,<2>1 DEF RecoveringOK, Active
 <2>9. new.root \notin Monitors /\ new.root = r /\ new.status \in Active /\ incident[i].status # "RESOLVED"
     /\ new.by = "none" /\ old.by = "none" BY <2>1,<2>3, IncidentAssumption DEF Active, IncidentInv, ClosersOK
 <2>10. \A q \in marking \ marking' : q = new.root BY <2>9
 <2> QED BY ONLY IncidentInv, UNCHANGED <<rstatus, reported, recovering, outbox, incidentFaults>>, old = incident[i],
<1>1,<2>1,<2>2,<2>3,<2>4,<2>5,<2>6,<2>7,<2>8,<2>9,<2>10, RowMoves
<1>2. ASSUME NEW i \in IncidentIds \ Rows, incident' = [incident EXCEPT ![i] = Fresh(r, InMaintenance(r), "AFFECTED")],
    telling' = IF InMaintenance(r) THEN telling ELSE telling \cup {Opened(i)}
  PROVE IncidentInv'
 <2> PICK quiet \in BOOLEAN : quiet = InMaintenance(r) BY Zenon DEF InMaintenance
 <2>1. incident' = [incident EXCEPT ![i] = Fresh(r, quiet, "AFFECTED")]
       /\ telling' = IF quiet THEN telling ELSE telling \cup {Opened(i)} BY <1>2
 <2>2. r \in Roots /\ r \notin Monitors BY IncidentAssumption DEF Roots
 <2>3. checked' \subseteq Monitors BY <1>0 DEF IncidentTypeOK
 <2> QED BY <1>0,<2>1,<2>2,<2>3, OpenKeeps
<1> QED BY <1>1,<1>2 DEF SyncIncident

\* An active incident is closed.
LEMMA CloseKeeps ==
  ASSUME IncidentInv, NEW i \in Rows, incident[i].status \in Active, NEW by \in {"operator", "recovery"}, Close(i, by),
      BeatingOK', beating' \subseteq Routers, checked' \subseteq Monitors,
      UNCHANGED <<rstatus, reported, silent, marking, results, enabled, outbox, window, incidentFaults, upsets>>,
      \/ recovering' = recovering \cup {i} /\ telling' = telling
      \/ /\ recovering' = recovering /\ telling' = telling \cup {Resolved(i)} /\ by = "recovery"
         /\ incident[i].root \in Monitors,
      \/ by = "operator" \/ incident[i].root \notin Routers
      \/ rstatus[incident[i].root] # "OFFLINE" \/ incident[i].root \in reported
  PROVE IncidentInv'
<1>0. IncidentTypeOK /\ RecoveringOK /\ ImpactsOK BY DEF IncidentInv
<1>1. i \in IncidentIds /\ incident[i] \in IncidentRow /\ Resolved(i) \in IncidentKeys BY RowsAreTyped
<1> PICK old \in IncidentRow : old = incident[i] BY <1>1
<1> PICK new : new = [old EXCEPT !.status = "RESOLVED", !.by = by] OBVIOUS
<1>2. /\ new \in IncidentRow /\ new.root = old.root /\ new.status = "RESOLVED" /\ new.level = old.level
      /\ new.quiet = old.quiet /\ new.by = by /\ new.impacts = old.impacts BY DEF IncidentRow
<1>3. incident' = [incident EXCEPT ![i] = new] /\ incident'[i] = new /\ i \in Rows'
  BY <1>0,<1>1,<1>2, IncidentAssumption DEF IncidentTypeOK, Close, Rows
<1>4. IncidentTypeOK'
 <2>1. incident' \in [IncidentIds -> IncidentRow \cup {NoIncident}] BY <1>0,<1>2,<1>3 DEF IncidentTypeOK
 <2>2. telling' \subseteq IncidentKeys /\ recovering' \subseteq IncidentIds BY <1>0,<1>1 DEF IncidentTypeOK
 <2> QED BY <1>0,<2>1,<2>2 DEF IncidentTypeOK
<1>5. recovering \ {i} \subseteq recovering' /\ recovering' \subseteq recovering \cup {i} /\ telling \subseteq telling' OBVIOUS
<1>6. old.status # "RESOLVED" BY DEF Active
<1>7. new.root \in Monitors => new.impacts = "none" BY <1>0,<1>2 DEF ImpactsOK
<1>8. ASSUME NEW k \in telling' \ telling PROVE Happened(k)'
 <2>1. k = Resolved(i) /\ by = "recovery" OBVIOUS
 <2>2. k[1] = "resolved" /\ k[2] = i BY <2>1 DEF Resolved
 <2> QED BY <1>2,<1>3,<2>1,<2>2 DEF Happened
<1>9. incidentFaults = 0 => Told(i)'
 <2>1. incidentFaults = 0 => Told(i) BY DEF IncidentInv
 <2>2. Announced(Opened(i)) => Announced(Opened(i))' BY <1>5 DEF Announced, Opened
 <2>3. \A n \in 1..old.level : Announced(Escalated(i, n)) => Announced(Escalated(i, n))' BY <1>5 DEF Announced, Escalated
 <2>4. i \in recovering' \/ (Announced(Resolved(i))' /\ new.impacts # "AFFECTED") BY <1>2,<1>7 DEF Announced, Resolved
 <2> QED BY <1>2,<1>3,<2>1,<2>2,<2>3,<2>4 DEF Told
<1>10. new.status \in Active \/ new.by = "operator" \/ new.root \notin Routers
       \/ rstatus[new.root] # "OFFLINE" \/ new.root \in reported BY <1>2
<1>11. incident[i].by # "operator" /\ new.status \notin Active BY <1>2 DEF IncidentInv, ClosersOK, Active
<1> QED BY ONLY IncidentInv, i \in Rows, BeatingOK', UNCHANGED <<rstatus, reported, marking, outbox, incidentFaults>>, old = incident[i],
<1>1,<1>2,<1>3,<1>4,<1>5,<1>6,<1>7,<1>8,<1>9,<1>10,<1>11, RowMoves

LEMMA ResolveKeeps == ASSUME IncidentInv, NEW i \in IncidentIds, Resolve(i) PROVE IncidentInv'
<1>0. IncidentTypeOK /\ BeatingOK BY DEF IncidentInv
<1>1. UNCHANGED <<rstatus, reported, silent, marking, beating, results, enabled, checked, telling, outbox, window, incidentFaults, upsets>>
      /\ i \in Rows /\ incident[i].status \in Active /\ Close(i, "operator") /\ recovering' = recovering \cup {i}
  BY DEF Resolve, routerVars, monitorVars
<1>2. BeatingOK' /\ beating' \subseteq Routers /\ checked' \subseteq Monitors BY <1>0,<1>1 DEF BeatingOK, IncidentTypeOK
<1> QED BY <1>1,<1>2, CloseKeeps

LEMMA ResolveRouterKeeps == ASSUME IncidentInv, NEW r \in Routers, ResolveRouter(r) PROVE IncidentInv'
<1>0. IncidentTypeOK /\ BeatingOK BY DEF IncidentInv
<1>1. UNCHANGED <<rstatus, reported, silent, marking, results, enabled, checked, telling, outbox, window, incidentFaults, upsets>>
      /\ r \in beating /\ beating' = beating \ {r} BY DEF ResolveRouter, monitorVars
<1>2. BeatingOK' /\ beating' \subseteq Routers /\ checked' \subseteq Monitors BY <1>0,<1>1 DEF BeatingOK, IncidentTypeOK
<1>3. rstatus[r] # "OFFLINE" \/ r \in reported BY <1>0,<1>1 DEF BeatingOK
<1>4. ASSUME NEW i \in ActiveOf(r), Close(i, "recovery"), recovering' = recovering \cup {i} PROVE IncidentInv'
 <2>1. i \in Rows /\ incident[i].root = r /\ incident[i].status \in Active BY DEF ActiveOf
 <2> QED BY <1>1,<1>2,<1>3,<1>4,<2>1, CloseKeeps
<1>5. ASSUME UNCHANGED <<incident, recovering>> PROVE IncidentInv'
 <2>1. IncidentTypeOK' BY <1>0,<1>1,<1>5 DEF IncidentTypeOK
 <2>2. \A q \in Routers : rstatus'[q] = "OFFLINE" =>
         q \in marking' \cup reported' \/ (rstatus[q] = "OFFLINE" /\ q \notin marking \cup reported) BY <1>1
 <2> QED BY <1>1,<1>2,<1>5,<2>1,<2>2, RowsStay
<1> QED BY <1>4,<1>5 DEF ResolveRouter

LEMMA CorrelateKeeps == ASSUME IncidentInv, NEW m \in Monitors, Correlate(m) PROVE IncidentInv'
<1>0. IncidentTypeOK /\ BeatingOK BY DEF IncidentInv
<1>1. UNCHANGED <<rstatus, reported, silent, marking, beating, results, enabled, recovering, outbox, window, incidentFaults, upsets>>
      /\ checked' = checked \ {m} BY DEF Correlate, routerVars
<1>2. BeatingOK' /\ beating' \subseteq Routers /\ checked' \subseteq Monitors /\ upsets' \in 0..MaxUpsets
  BY <1>0,<1>1 DEF BeatingOK, IncidentTypeOK
<1>3. ASSUME UNCHANGED incident, telling' \ telling \subseteq {Opened(i) : i \in Rows}, telling \subseteq telling' PROVE IncidentInv'
 <2>1. \A i \in Rows : Opened(i) \in IncidentKeys BY RowsAreTyped
 <2>2. telling' \subseteq IncidentKeys BY <1>0,<1>3,<2>1 DEF IncidentTypeOK
 <2>3. IncidentTypeOK' BY <1>0,<1>1,<1>2,<1>3,<2>2 DEF IncidentTypeOK
 <2>4. Rows' = Rows /\ \A r : ActiveOf(r)' = ActiveOf(r) BY <1>3 DEF Rows, ActiveOf
 <2>5. RecoveringOK' /\ ClosersOK' /\ ImpactsOK' BY <1>1,<1>3,<2>4 DEF IncidentInv, RecoveringOK, ClosersOK, ImpactsOK
 <2>6. \A k \in outbox' \cup telling' : Happened(k)'
  <3>1. \A k \in outbox \cup telling : Happened(k)' BY <1>3,<2>4 DEF IncidentInv, Happened
  <3>2. \A i \in Rows : Happened(Opened(i))' BY <2>4 DEF Happened, Opened
  <3> QED BY <1>1,<1>3,<3>1,<3>2
 <2>7. incidentFaults' = 0 => \A i \in Rows' : Told(i)'
  <3>1. ASSUME incidentFaults = 0, NEW i \in Rows PROVE Told(i)'
   <4>1. Told(i) BY <3>1 DEF IncidentInv
   <4>2. \A k : Announced(k) => Announced(k)' BY <1>1,<1>3 DEF Announced
   <4> QED BY <1>1,<1>3,<4>1,<4>2 DEF Told, Opened, Escalated, Resolved
  <3> QED BY <1>1,<2>4,<3>1
 <2>8. incidentFaults' = 0 => \A r \in Routers : rstatus'[r] = "OFFLINE" => Known(r)' BY <1>1,<1>3,<2>4 DEF IncidentInv, Known, HandledByOperator
 <2> QED BY <1>2,<2>3,<2>5,<2>6,<2>7,<2>8 DEF IncidentInv
<1>4. ASSUME NEW i \in IF ActiveOf(m) = {} THEN IncidentIds \ Rows ELSE ActiveOf(m),
             incident' = IF i \in Rows THEN incident ELSE [incident EXCEPT ![i] = Fresh(m, FALSE, "none")], telling' = telling \cup {Opened(i)}
  PROVE IncidentInv'
 <2>1. CASE i \in Rows BY <1>3,<1>4,<2>1
 <2>2. CASE i \notin Rows
  <3>1. i \in IncidentIds \ Rows BY <2>2 DEF ActiveOf
  <3>2. m \in Roots BY DEF Roots
  <3>3. incident' = [incident EXCEPT ![i] = Fresh(m, FALSE, "none")]
        /\ telling' = IF FALSE THEN telling ELSE telling \cup {Opened(i)} BY <1>4,<2>2
  <3>4. marking' \subseteq marking /\ marking \ marking' \subseteq {m} BY <1>1
  <3> QED BY <1>1,<1>2,<3>1,<3>2,<3>3,<3>4, OpenKeeps
 <2> QED BY <2>1,<2>2
<1>5. ASSUME NEW i \in ActiveOf(m), Close(i, "recovery"), telling' = telling \cup {Resolved(i)} PROVE IncidentInv'
 <2>1. i \in Rows /\ incident[i].root = m /\ incident[i].status \in Active BY DEF ActiveOf
 <2>2. m \notin Routers BY IncidentAssumption
 <2> QED BY <1>1,<1>2,<1>5,<2>1,<2>2, CloseKeeps
<1>6. ASSUME UNCHANGED <<incident, telling>> PROVE IncidentInv' BY <1>3,<1>6
<1> QED BY <1>4,<1>5,<1>6 DEF Correlate

LEMMA SyncCallsKeep == ASSUME IncidentInv, NEW r \in Routers, SyncMarked(r) \/ SyncByHand(r) PROVE IncidentInv'
<1>0. IncidentTypeOK BY DEF IncidentInv
<1>1. CASE SyncMarked(r)
 <2>1. SyncIncident(r) /\ marking' = marking \ {r} /\ upsets' \in 0..MaxUpsets BY <1>0,<1>1 DEF SyncMarked, IncidentTypeOK
 <2>2. UNCHANGED <<rstatus, reported, silent, beating, monitorVars, recovering, outbox, window, incidentFaults>> BY <1>1 DEF SyncMarked
 <2> QED BY <2>1,<2>2, SyncKeeps
<1>2. CASE SyncByHand(r)
 <2>1. SyncIncident(r) /\ marking' = marking BY <1>2 DEF SyncByHand, routerVars
 <2>2. upsets' \in 0..MaxUpsets BY <1>0,<1>2, IncidentAssumption DEF SyncByHand, Upset, IncidentTypeOK
 <2>3. UNCHANGED <<rstatus, reported, silent, beating, monitorVars, recovering, outbox, window, incidentFaults>> BY <1>2 DEF SyncByHand, routerVars
 <2> QED BY <2>1,<2>2,<2>3, SyncKeeps
<1> QED BY <1>1,<1>2

LEMMA AcknowledgeKeeps == ASSUME IncidentInv, NEW i \in IncidentIds, Acknowledge(i) PROVE IncidentInv'
<1>0. IncidentTypeOK /\ BeatingOK /\ RecoveringOK /\ ClosersOK /\ ImpactsOK BY DEF IncidentInv
<1>1. UNCHANGED <<rstatus, reported, silent, marking, beating, results, enabled, checked, recovering, telling, outbox,
                  window, incidentFaults, upsets>>
      /\ i \in Rows /\ incident[i].status = "OPEN" BY DEF Acknowledge, routerVars, monitorVars
<1>2. incident[i] \in IncidentRow BY <1>1, RowsAreTyped
<1> PICK old \in IncidentRow : old = incident[i] BY <1>2
<1> PICK new : new = [old EXCEPT !.status = "ACKNOWLEDGED"] OBVIOUS
<1>3. /\ new \in IncidentRow /\ new.root = old.root /\ new.status = "ACKNOWLEDGED" /\ new.level = old.level
      /\ new.quiet = old.quiet /\ new.by = old.by /\ new.impacts = old.impacts BY DEF IncidentRow, Active
<1>4. incident' = [incident EXCEPT ![i] = new] /\ incident'[i] = new BY <1>0,<1>3 DEF IncidentTypeOK, Acknowledge
<1>5. IncidentTypeOK'
 <2>1. incident' \in [IncidentIds -> IncidentRow \cup {NoIncident}] BY <1>0,<1>3,<1>4 DEF IncidentTypeOK
 <2> QED BY <1>0,<1>1,<2>1 DEF IncidentTypeOK
<1>6. BeatingOK' BY <1>0,<1>1 DEF BeatingOK
<1>7. old.by = "none" /\ (old.root \in Monitors => old.impacts = "none") /\ i \notin recovering
  BY <1>0,<1>1 DEF ClosersOK, ImpactsOK, RecoveringOK, Active
<1>8. incidentFaults = 0 => Told(i)'
 <2>1. incidentFaults = 0 => Told(i) BY <1>1 DEF IncidentInv
 <2>2. \A k : Announced(k) => Announced(k)' BY <1>1 DEF Announced
 <2> QED BY <1>3,<1>4,<1>7,<2>1,<2>2 DEF Told, Opened, Escalated, Resolved
<1>9. new.status \in Active BY <1>3 DEF Active
<1> QED BY ONLY IncidentInv, i \in IncidentIds, old = incident[i], <1>1,<1>3,<1>4,<1>5,<1>6,<1>7,<1>8,<1>9, RowMoves

LEMMA RecoverImpactsKeeps == ASSUME IncidentInv, NEW i \in IncidentIds, RecoverImpacts(i) PROVE IncidentInv'
<1>0. IncidentTypeOK /\ BeatingOK /\ RecoveringOK /\ ClosersOK /\ ImpactsOK BY DEF IncidentInv
<1>1. UNCHANGED <<rstatus, reported, silent, marking, beating, results, enabled, checked, outbox, window, incidentFaults, upsets>>
      /\ i \in recovering /\ recovering' = recovering \ {i}
      /\ telling' = (IF incident[i].by = "recovery" THEN telling \cup {Resolved(i)} ELSE telling) BY DEF RecoverImpacts, routerVars, monitorVars
<1>2. i \in Rows /\ incident[i].status = "RESOLVED" BY <1>0,<1>1 DEF RecoveringOK
<1>3. incident[i] \in IncidentRow /\ Resolved(i) \in IncidentKeys BY <1>2, RowsAreTyped
<1> PICK old \in IncidentRow : old = incident[i] BY <1>3
<1> PICK new : new = [old EXCEPT !.impacts = IF old.impacts = "AFFECTED" THEN "RECOVERED" ELSE old.impacts] OBVIOUS
<1>4. /\ new \in IncidentRow /\ new.root = old.root /\ new.status = old.status /\ new.level = old.level
      /\ new.quiet = old.quiet /\ new.by = old.by /\ new.impacts # "AFFECTED"
      /\ old.impacts = "none" => new.impacts = "none" BY DEF IncidentRow
<1>5. incident' = [incident EXCEPT ![i] = new] /\ incident'[i] = new /\ i \in Rows'
 <2>1. incident' = [incident EXCEPT ![i] = new] BY <1>0 DEF IncidentTypeOK, RecoverImpacts
 <2> QED BY <1>0,<1>4,<2>1, IncidentAssumption DEF IncidentTypeOK, Rows
<1>6. IncidentTypeOK'
 <2>1. incident' \in [IncidentIds -> IncidentRow \cup {NoIncident}] BY <1>0,<1>4,<1>5 DEF IncidentTypeOK
 <2>2. telling' \subseteq IncidentKeys /\ recovering' \subseteq IncidentIds BY <1>0,<1>1,<1>3 DEF IncidentTypeOK
 <2> QED BY <1>0,<1>1,<2>1,<2>2 DEF IncidentTypeOK
<1>7. BeatingOK' BY <1>0,<1>1 DEF BeatingOK
<1>8. new.status \notin Active /\ incident[i].status \notin Active BY <1>2,<1>4 DEF Active
<1>9. new.root \in Monitors => new.impacts = "none" BY <1>0,<1>2,<1>4 DEF ImpactsOK
<1>10. ASSUME NEW k \in telling' \ telling PROVE Happened(k)'
 <2>1. k = Resolved(i) /\ old.by = "recovery" BY <1>1
 <2>2. k[1] = "resolved" /\ k[2] = i BY <2>1 DEF Resolved
 <2> QED BY <1>2,<1>4,<1>5,<2>1,<2>2 DEF Happened
<1>11. incidentFaults = 0 => Told(i)'
 <2>1. incidentFaults = 0 => Told(i) BY <1>2 DEF IncidentInv
 <2>2. telling \subseteq telling' BY <1>1
 <2>3. \A k : Announced(k) => Announced(k)' BY <1>1,<2>2 DEF Announced
 <2>4. old.by = "recovery" => Announced(Resolved(i))' BY <1>1 DEF Announced, Resolved
 <2> QED BY <1>4,<1>5,<2>1,<2>3,<2>4 DEF Told, Opened, Escalated, Resolved
<1>12. telling \subseteq telling' BY <1>1
<1> QED BY ONLY IncidentInv, i \in IncidentIds, old = incident[i], <1>1,<1>2,<1>4,<1>5,<1>6,<1>7,<1>8,<1>9,
<1>10,<1>11,<1>12, RowMoves

\* The worker raises several incidents at once, and announces each level it commits.
LEMMA EscalateKeeps == ASSUME IncidentInv, Escalate PROVE IncidentInv'
<1>0. IncidentTypeOK /\ BeatingOK /\ RecoveringOK /\ ClosersOK /\ ImpactsOK BY DEF IncidentInv
<1>1. UNCHANGED <<rstatus, reported, silent, marking, beating, results, enabled, checked, recovering, outbox,
                  window, incidentFaults, upsets>> BY DEF Escalate, routerVars, monitorVars
<1>2. PICK due \in SUBSET {i \in Rows : DueForEscalation(i)} :
        /\ incident' = [i \in IncidentIds |-> IF i \in due THEN [incident[i] EXCEPT !.level = @ + 1] ELSE incident[i]]
        /\ telling' = telling \cup {Escalated(i, incident[i].level + 1) : i \in due} BY DEF Escalate
<1>3. \A i \in IncidentIds \ due : incident'[i] = incident[i] BY <1>2
<1>4. ASSUME NEW i \in due
  PROVE  /\ i \in Rows /\ i \in IncidentIds /\ incident[i] \in IncidentRow /\ incident'[i] \in IncidentRow
         /\ incident'[i].root = incident[i].root /\ incident'[i].status = incident[i].status
         /\ incident'[i].quiet = incident[i].quiet /\ incident'[i].by = incident[i].by
         /\ incident'[i].impacts = incident[i].impacts
         /\ incident[i].level \in Nat /\ incident'[i].level = incident[i].level + 1
         /\ Escalated(i, incident[i].level + 1) \in IncidentKeys
         /\ incident[i].status \in Active
 <2>1. i \in Rows /\ incident[i].level < MaxLevel /\ incident[i].status \in Active BY DEF DueForEscalation
 <2>2. i \in IncidentIds /\ incident[i] \in IncidentRow BY <2>1, RowsAreTyped
 <2> PICK old \in IncidentRow : old = incident[i] BY <2>2
 <2> PICK new : new = [old EXCEPT !.level = old.level + 1] OBVIOUS
 <2>3. incident'[i] = new BY <1>2,<2>2
 <2>4. old.level \in 0..MaxLevel /\ MaxLevel \in Nat BY IncidentAssumption DEF IncidentRow
 <2>5. old.level \in Nat /\ old.level + 1 \in 0..MaxLevel BY <2>1,<2>4
 <2>6. /\ new \in IncidentRow /\ new.root = old.root /\ new.status = old.status /\ new.level = old.level + 1
       /\ new.quiet = old.quiet /\ new.by = old.by /\ new.impacts = old.impacts BY <2>5 DEF IncidentRow
 <2>7. Escalated(i, old.level + 1) \in IncidentKeys BY <2>2,<2>5 DEF Escalated, IncidentKeys
 <2> QED BY <2>1,<2>2,<2>3,<2>5,<2>6,<2>7
<1>5. Rows' = Rows
 <2>1. \A i \in IncidentIds : (incident'[i] = NoIncident) = (incident[i] = NoIncident)
  <3>1. \A i \in due : incident'[i] # NoIncident /\ incident[i] # NoIncident BY <1>4, IncidentAssumption
  <3> QED BY <1>3,<3>1
 <2> QED BY <2>1 DEF Rows
<1>6. \A i \in Rows : /\ i \in IncidentIds /\ incident'[i].root = incident[i].root
                      /\ incident'[i].status = incident[i].status /\ incident'[i].quiet = incident[i].quiet
                      /\ incident'[i].by = incident[i].by /\ incident'[i].impacts = incident[i].impacts
 <2> TAKE i \in Rows
 <2>1. CASE i \in due BY <1>4,<2>1
 <2>2. CASE i \notin due BY <1>3,<2>2 DEF Rows
 <2> QED BY <2>1,<2>2
<1>7. IncidentTypeOK'
 <2>1. incident' \in [IncidentIds -> IncidentRow \cup {NoIncident}]
  <3>1. \A i \in IncidentIds : incident'[i] \in IncidentRow \cup {NoIncident} BY <1>0,<1>3,<1>4 DEF IncidentTypeOK
  <3> QED BY <1>2,<3>1
 <2>2. telling' \subseteq IncidentKeys BY <1>0,<1>2,<1>4 DEF IncidentTypeOK
 <2> QED BY <1>0,<1>1,<2>1,<2>2 DEF IncidentTypeOK
<1>8. BeatingOK' BY <1>0,<1>1 DEF BeatingOK
<1>9. RecoveringOK' /\ ClosersOK' /\ ImpactsOK' BY <1>0,<1>1,<1>5,<1>6 DEF RecoveringOK, ClosersOK, ImpactsOK
<1>10. \A k : Announced(k) => Announced(k)' BY <1>1,<1>2 DEF Announced
<1>11. ASSUME incidentFaults = 0, NEW i \in Rows PROVE Told(i)'
 <2>1. Told(i) BY <1>11 DEF IncidentInv
 <2>2. \A n \in 1..incident'[i].level : Announced(Escalated(i, n))'
  <3>1. CASE i \in due
   <4> PICK level \in Nat : level = incident[i].level /\ incident'[i].level = level + 1 BY <1>4,<3>1
   <4>1. Escalated(i, level + 1) \in telling' BY <1>2,<3>1
   <4>2. Announced(Escalated(i, level + 1))' BY <4>1 DEF Announced, Escalated
   <4>3. \A n \in 1..incident'[i].level : n \in 1..level \/ n = level + 1 OBVIOUS
   <4>4. \A n \in 1..level : Announced(Escalated(i, n))' BY <1>10,<2>1 DEF Told, Escalated
   <4> QED BY <4>2,<4>3,<4>4 DEF Escalated
  <3>2. CASE i \notin due
   <4>1. incident'[i] = incident[i] BY <1>3,<1>6,<3>2
   <4> QED BY <1>10,<2>1,<4>1 DEF Told, Escalated
  <3> QED BY <3>1,<3>2
 <2>3. Announced(Opened(i)) => Announced(Opened(i))' BY <1>10 DEF Opened
 <2>4. Announced(Resolved(i)) => Announced(Resolved(i))' BY <1>10 DEF Resolved
 <2> QED BY <1>1,<1>6,<2>1,<2>2,<2>3,<2>4 DEF Told
<1>12. \A r : ActiveOf(r)' = ActiveOf(r) BY <1>5,<1>6 DEF ActiveOf
<1>13. \A r \in Routers : Known(r) => Known(r)' BY <1>1,<1>5,<1>6,<1>12 DEF Known, HandledByOperator
<1>14. \A k \in outbox' \cup telling' : Happened(k)'
 <2>1. ASSUME NEW k \in outbox \cup telling PROVE Happened(k)'
  <3>1. Happened(k) BY DEF IncidentInv
  <3>2. k[2] \in Rows BY <3>1 DEF Happened
  <3>3. k[1] = "escalation" => k[3] \in 1..incident'[k[2]].level
   <4>1. CASE k[2] \in due
    <5> PICK n \in Nat : n = incident[k[2]].level /\ incident'[k[2]].level = n + 1 BY <1>4,<4>1
    <5>1. k[1] = "escalation" => k[3] \in 1..n BY <3>1 DEF Happened
    <5>2. 1..n \subseteq 1..n + 1 OBVIOUS
    <5> QED BY <5>1,<5>2
   <4>2. CASE k[2] \notin due BY <1>3,<1>6,<3>1,<3>2,<4>2 DEF Happened
   <4> QED BY <4>1,<4>2
  <3> QED BY <1>5,<1>6,<3>1,<3>2,<3>3 DEF Happened
 <2>2. ASSUME NEW i \in due, NEW k, k = Escalated(i, incident[i].level + 1) PROVE Happened(k)'
  <3> PICK n \in Nat : n = incident[i].level /\ incident'[i].level = n + 1 BY <1>4
  <3>1. n + 1 \in 1..n + 1 OBVIOUS
  <3>2. k[1] = "escalation" /\ k[2] = i /\ k[3] = n + 1 BY <2>2 DEF Escalated
  <3> QED BY <1>4,<1>5,<3>1,<3>2 DEF Happened
 <2> QED BY <1>1,<1>2,<2>1,<2>2
<1>15. incidentFaults' = 0 => (\A i \in Rows' : Told(i)') /\ \A r \in Routers : rstatus'[r] = "OFFLINE" => Known(r)'
  BY <1>1,<1>5,<1>11,<1>13 DEF IncidentInv
<1> QED BY <1>7,<1>8,<1>9,<1>14,<1>15 DEF IncidentInv

\* Heartbeats, silence and the stale check.
LEMMA RouterStepsKeep ==
  ASSUME IncidentInv, \/ \E r \in Routers : FallSilent(r) \/ \E s \in HeartbeatStatuses : Heartbeat(r, s)
                      \/ MarkOffline
  PROVE IncidentInv'
<1>0. IncidentTypeOK /\ BeatingOK BY DEF IncidentInv
<1>1. ASSUME NEW r \in Routers, FallSilent(r) PROVE IncidentInv'
 <2>1. UNCHANGED <<rstatus, reported, marking, beating, results, enabled, checked, incident, recovering, telling, outbox, window, incidentFaults>>
       /\ Upset /\ r \notin silent \cup beating /\ silent' = silent \cup {r} BY <1>1 DEF FallSilent, monitorVars
 <2>2. upsets' \in 0..MaxUpsets BY <1>0,<2>1, IncidentAssumption DEF Upset, IncidentTypeOK
 <2>3. IncidentTypeOK' BY <1>0,<2>1,<2>2 DEF IncidentTypeOK
 <2>4. BeatingOK' BY <1>0,<2>1 DEF BeatingOK
 <2> QED BY <2>1,<2>3,<2>4, RowsStay
<1>2. ASSUME NEW r \in Routers, NEW s \in HeartbeatStatuses, Heartbeat(r, s) PROVE IncidentInv'
 <2>1. UNCHANGED <<marking, results, enabled, checked, incident, recovering, telling, outbox, window, incidentFaults>>
       /\ rstatus' = [rstatus EXCEPT ![r] = s] /\ silent' = silent \ {r}
       /\ reported' = (IF s = "OFFLINE" THEN reported \cup {r} ELSE reported \ {r})
       /\ beating' = (IF s = "ONLINE" THEN beating \cup {r} ELSE beating) BY <1>2 DEF Heartbeat, monitorVars
 <2>2. upsets' \in 0..MaxUpsets
  <3>1. CASE s = "OFFLINE" BY <1>0,<1>2,<3>1, IncidentAssumption DEF Heartbeat, Upset, IncidentTypeOK
  <3>2. CASE s # "OFFLINE" BY <1>0,<1>2,<3>2 DEF Heartbeat, IncidentTypeOK
  <3> QED BY <3>1,<3>2
 <2>3. IncidentTypeOK'
  <3>1. rstatus' \in [Routers -> HeartbeatStatuses] BY <1>0,<2>1 DEF IncidentTypeOK
  <3>2. silent' \subseteq Routers /\ reported' \subseteq Routers /\ beating' \subseteq Routers BY <1>0,<2>1 DEF IncidentTypeOK
  <3> QED BY <1>0,<2>1,<2>2,<3>1,<3>2 DEF IncidentTypeOK
 <2>4. rstatus'[r] = s /\ \A q \in Routers \ {r} : rstatus'[q] = rstatus[q] BY <1>0,<2>1 DEF IncidentTypeOK
 <2>5. BeatingOK'
  <3>1. beating' \cap silent' = {} BY <1>0,<2>1 DEF BeatingOK
  <3>2. beating' \subseteq Routers BY <2>3 DEF IncidentTypeOK
  <3>3. \A q \in beating' : rstatus'[q] # "OFFLINE" \/ q \in reported' BY <1>0,<2>1,<2>4,<3>2 DEF BeatingOK
  <3> QED BY <3>1,<3>3 DEF BeatingOK
 <2>6. \A q \in Routers : rstatus'[q] = "OFFLINE" =>
         q \in marking' \cup reported' \/ (rstatus[q] = "OFFLINE" /\ q \notin marking \cup reported) BY <2>1,<2>4
 <2> QED BY ONLY IncidentInv, <2>1,<2>3,<2>5,<2>6, RowsStay
<1>3. CASE MarkOffline
 <2> PICK stale : stale = {r \in silent : rstatus[r] # "OFFLINE"} OBVIOUS
 <2>1. UNCHANGED <<reported, silent, beating, results, enabled, checked, incident, recovering, telling, outbox, window, incidentFaults, upsets>>
       /\ marking' = marking \cup stale
       /\ rstatus' = [r \in Routers |-> IF r \in stale THEN "OFFLINE" ELSE rstatus[r]] BY <1>3 DEF MarkOffline, monitorVars
 <2>2. rstatus' \in [Routers -> HeartbeatStatuses] /\ marking' \subseteq Routers BY <1>0,<2>1 DEF IncidentTypeOK, HeartbeatStatuses
 <2>3. IncidentTypeOK' BY <1>0,<2>1,<2>2 DEF IncidentTypeOK
 <2>4. BeatingOK' BY <1>0,<2>1 DEF BeatingOK, IncidentTypeOK
 <2>5. \A q \in Routers : rstatus'[q] = "OFFLINE" =>
         q \in marking' \cup reported' \/ (rstatus[q] = "OFFLINE" /\ q \notin marking \cup reported) BY <2>1
 <2> QED BY ONLY IncidentInv, <2>1,<2>3,<2>4,<2>5, RowsStay
<1> QED BY <1>1,<1>2,<1>3

\* Checks, maintenance windows, the outbox of the announcements, and faults.
LEMMA OtherIncidentStepsKeep ==
  ASSUME IncidentInv,
      \/ \E m \in Monitors : SetEnabled(m) \/ \E s \in {"PASS", "FAIL"} : Check(m, s)
      \/ CreateWindow \/ CancelWindow \/ WindowClock \/ WindowTick
      \/ (\E k \in telling : Tell(k) \/ TellFails(k)) \/ IncidentCrash
  PROVE IncidentInv'
<1>0. IncidentTypeOK /\ BeatingOK BY DEF IncidentInv
<1>1. ASSUME UNCHANGED <<routerVars, incident, recovering, telling, outbox, incidentFaults>>, IncidentTypeOK' PROVE IncidentInv'
 <2>1. BeatingOK' BY <1>0,<1>1 DEF BeatingOK, routerVars
 <2> QED BY <1>1,<2>1, RowsStay DEF routerVars
<1>2. ASSUME NEW m \in Monitors, SetEnabled(m) PROVE IncidentInv'
 <2>1. upsets' \in 0..MaxUpsets
  <3>1. CASE m \in enabled BY <1>0,<1>2,<3>1, IncidentAssumption DEF SetEnabled, Upset, IncidentTypeOK
  <3>2. CASE m \notin enabled BY <1>0,<1>2,<3>2 DEF SetEnabled, IncidentTypeOK
  <3> QED BY <3>1,<3>2
 <2>2. enabled' \subseteq Monitors BY <1>0,<1>2 DEF SetEnabled, IncidentTypeOK
 <2>3. UNCHANGED <<routerVars, rstatus, reported, silent, marking, beating, results, checked, incident, recovering, telling, outbox, window,
                   incidentFaults>> BY <1>2 DEF SetEnabled, routerVars
 <2>4. IncidentTypeOK' BY <1>0,<2>1,<2>2,<2>3 DEF IncidentTypeOK
 <2> QED BY <1>1,<2>3,<2>4
<1>3. ASSUME NEW m \in Monitors, NEW s \in {"PASS", "FAIL"}, Check(m, s) PROVE IncidentInv'
 <2>1. upsets' \in 0..MaxUpsets
  <3>1. CASE s = "FAIL" /\ results[m][1] = "PASS" BY <1>0,<1>3,<3>1, IncidentAssumption DEF Check, Upset, IncidentTypeOK
  <3>2. CASE ~(s = "FAIL" /\ results[m][1] = "PASS") BY <1>0,<1>3,<3>2 DEF Check, IncidentTypeOK
  <3> QED BY <3>1,<3>2
 <2>2. results' \in [Monitors -> {"PASS", "FAIL"} \X {"PASS", "FAIL"}]
  <3> PICK last \in {"PASS", "FAIL"} : last = results[m][1] BY <1>0 DEF IncidentTypeOK
  <3>1. results' = [results EXCEPT ![m] = <<s, last>>] BY <1>0,<1>3 DEF Check, IncidentTypeOK
  <3>2. <<s, last>> \in {"PASS", "FAIL"} \X {"PASS", "FAIL"} OBVIOUS
  <3> QED BY <1>0,<3>1,<3>2 DEF IncidentTypeOK
 <2>3. checked' \subseteq Monitors BY <1>0,<1>3 DEF Check, IncidentTypeOK
 <2>4. UNCHANGED <<routerVars, rstatus, reported, silent, marking, beating, enabled, incident, recovering, telling, outbox, window,
                   incidentFaults>> BY <1>3 DEF Check, routerVars
 <2>5. IncidentTypeOK' BY <1>0,<2>1,<2>2,<2>3,<2>4 DEF IncidentTypeOK
 <2> QED BY <1>1,<2>4,<2>5
<1>4. CASE CreateWindow \/ CancelWindow \/ WindowClock \/ WindowTick
 <2>1. UNCHANGED <<routerVars, rstatus, reported, silent, marking, beating, results, enabled, checked, incident, recovering,
                   telling, outbox, incidentFaults, upsets>> BY <1>4 DEF CreateWindow, CancelWindow, WindowClock, WindowTick, routerVars, monitorVars
 <2> PICK Windows : Windows = [status : {"none", "PLANNED", "ACTIVE", "COMPLETED", "CANCELED"},
                               time : {"before", "during", "after"}, scope : SUBSET Roots] OBVIOUS
 <2>2. window \in Windows BY <1>0 DEF IncidentTypeOK
 <2>3. window' \in Windows
  <3>1. CASE CreateWindow
   <4>1. PICK scope \in SUBSET Roots : window' = [status |-> "PLANNED", time |-> "before", scope |-> scope] BY <3>1 DEF CreateWindow, Roots
   <4> QED BY <4>1
  <3>2. CASE CancelWindow BY <2>2,<3>2 DEF CancelWindow
  <3>3. CASE WindowClock
   <4> PICK time \in {"during", "after"} : time = IF window.time = "before" THEN "during" ELSE "after" OBVIOUS
   <4>1. window' = [window EXCEPT !.time = time] BY <2>2,<3>3 DEF WindowClock
   <4> QED BY <2>2,<4>1
  <3>4. CASE WindowTick BY <2>2,<3>4 DEF WindowTick
  <3> QED BY <1>4,<3>1,<3>2,<3>3,<3>4
 <2>4. IncidentTypeOK' BY <1>0,<2>1,<2>3 DEF IncidentTypeOK
 <2> QED BY <1>1,<2>1,<2>4
<1>5. ASSUME NEW k \in telling, Tell(k) PROVE IncidentInv'
 <2>1. UNCHANGED <<rstatus, reported, silent, marking, beating, results, enabled, checked, incident, recovering, window, incidentFaults, upsets>>
       /\ telling' = telling \ {k} /\ outbox' = outbox \cup {k} BY <1>5 DEF Tell, routerVars, monitorVars
 <2>2. IncidentTypeOK' BY <1>0,<2>1 DEF IncidentTypeOK
 <2>3. BeatingOK' BY <1>0,<2>1 DEF BeatingOK
 <2>4. outbox' \cup telling' = outbox \cup telling BY <2>1
 <2> QED BY ONLY IncidentInv, <2>1,<2>2,<2>3,<2>4, RowsStay
<1>6. ASSUME IncidentFault PROVE incidentFaults' # 0 /\ incidentFaults' \in 0..MaxIncidentFaults
  BY <1>0,<1>6, IncidentAssumption DEF IncidentFault, IncidentTypeOK
<1>7. ASSUME NEW k \in telling, TellFails(k) PROVE IncidentInv'
 <2>1. UNCHANGED <<rstatus, reported, silent, beating, results, enabled, checked, incident, recovering, outbox, window, upsets>>
       /\ telling' = telling \ {k} /\ marking' \subseteq marking BY <1>7 DEF TellFails, monitorVars
 <2>2. incidentFaults' # 0 /\ incidentFaults' \in 0..MaxIncidentFaults BY <1>6,<1>7 DEF TellFails
 <2>3. IncidentTypeOK' BY <1>0,<2>1,<2>2 DEF IncidentTypeOK
 <2>4. BeatingOK' BY <1>0,<2>1 DEF BeatingOK
 <2> QED BY ONLY IncidentInv, <2>1,<2>2,<2>3,<2>4, RowsStay
<1>8. CASE IncidentCrash
 <2>1. UNCHANGED <<rstatus, reported, silent, results, enabled, incident, outbox, window, upsets>>
       /\ marking' = {} /\ beating' = {} /\ checked' = {} /\ recovering' = {} /\ telling' = {} BY <1>8 DEF IncidentCrash
 <2>2. incidentFaults' # 0 /\ incidentFaults' \in 0..MaxIncidentFaults BY <1>6,<1>8 DEF IncidentCrash
 <2>3. IncidentTypeOK' BY <1>0,<2>1,<2>2 DEF IncidentTypeOK
 <2>4. BeatingOK' BY <2>1 DEF BeatingOK
 <2> QED BY ONLY IncidentInv, <2>1,<2>2,<2>3,<2>4, RowsStay
<1> QED BY <1>2,<1>3,<1>4,<1>5,<1>7,<1>8

LEMMA IncidentStep == IncidentInv /\ IncidentNext => IncidentInv'
<1> SUFFICES ASSUME IncidentInv, IncidentNext PROVE IncidentInv' OBVIOUS
<1>1. CASE \E r \in Routers : \/ FallSilent(r) \/ SyncMarked(r) \/ SyncByHand(r) \/ ResolveRouter(r)
                              \/ \E s \in HeartbeatStatuses : Heartbeat(r, s) BY <1>1, RouterStepsKeep, SyncCallsKeep, ResolveRouterKeeps
<1>2. CASE \E m \in Monitors : Correlate(m) \/ SetEnabled(m) \/ \E s \in {"PASS", "FAIL"} : Check(m, s)
  BY <1>2, CorrelateKeeps, OtherIncidentStepsKeep
<1>3. CASE \E i \in IncidentIds : RecoverImpacts(i) \/ Acknowledge(i) \/ Resolve(i) BY <1>3, RecoverImpactsKeeps, AcknowledgeKeeps, ResolveKeeps
<1>4. CASE MarkOffline BY <1>4, RouterStepsKeep
<1>5. CASE Escalate BY <1>5, EscalateKeeps
<1>6. CASE CreateWindow \/ CancelWindow \/ WindowClock \/ WindowTick BY <1>6, OtherIncidentStepsKeep
<1>7. CASE (\E k \in telling : Tell(k) \/ TellFails(k)) \/ IncidentCrash BY <1>7, OtherIncidentStepsKeep
<1> QED BY <1>1,<1>2,<1>3,<1>4,<1>5,<1>6,<1>7 DEF IncidentNext

LEMMA IncidentStutters == IncidentInv /\ UNCHANGED incidentVars => IncidentInv'
<1> SUFFICES ASSUME IncidentInv, UNCHANGED incidentVars PROVE IncidentInv' OBVIOUS
<1>1. UNCHANGED <<rstatus, reported, silent, marking, beating, results, enabled, checked, incident, recovering,
                  telling, outbox, window, incidentFaults, upsets>> BY DEF incidentVars, routerVars, monitorVars
<1>2. IncidentTypeOK' BY <1>1 DEF IncidentInv, IncidentTypeOK
<1>3. BeatingOK' BY <1>1 DEF IncidentInv, BeatingOK
<1> QED BY ONLY IncidentInv, <1>1,<1>2,<1>3, RowsStay

------------------------
(* The public status page. *)

ReadingRow ==
  [phase : {"reading"}, tenant : PageTenants, unread : SUBSET Tables,
   component : Health, outage : SUBSET {"minor", "critical"}, works : {"none", "PLANNED", "ACTIVE"}]

\* What the request knows halfway: nothing but what was public, and of the tables it
\* has read every trouble that has been public all along.
ReadSoFar ==
  visit.phase = "reading" =>
    /\ visit \in ReadingRow
    /\ sure \subseteq Troubles(visit.tenant) /\ Announcements(visit.tenant) \subseteq seen
    /\ visit.component # "OPERATIONAL" => visit.component \in seen
    /\ visit.outage \subseteq seen
    /\ visit.works # "none" => "works" \in seen
    /\ "components" \notin visit.unread => sure \cap Health \subseteq {visit.component} \ {"OPERATIONAL"}
    /\ "incidents" \notin visit.unread => sure \cap {"minor", "critical"} \subseteq visit.outage
    /\ "maintenance" \notin visit.unread /\ "works" \in sure => visit.works # "none"

StatusInv == StatusTypeOK /\ StatusPageIsTrue /\ ReadSoFar

PageRow == [slug : Slugs \cup {"none"}, published : BOOLEAN]
BoardRow ==
  [component : Health, outage : {"none", "minor", "critical", "resolved"}, shown : BOOLEAN,
   works : {"none", "PLANNED", "ACTIVE", "COMPLETED", "CANCELED"}, time : {"before", "during", "after"}, public : BOOLEAN]

LEMMA StatusBegins == StatusInit => StatusInv
<1> SUFFICES ASSUME StatusInit PROVE StatusInv OBVIOUS
<1> PICK one : one = CHOOSE t \in PageTenants : TRUE OBVIOUS
<1> PICK slug \in Slugs : slug = CHOOSE g \in Slugs : TRUE BY StatusAssumption
<1>1. page = [t \in PageTenants |-> [slug |-> IF t = one THEN slug ELSE "none", published |-> t = one]] BY DEF StatusInit
<1>2. \A t \in PageTenants : page[t] \in PageRow /\ (t # one => page[t].slug = "none") BY <1>1 DEF PageRow
<1>3. page \in [PageTenants -> PageRow] BY <1>1,<1>2
<1>4. board \in [PageTenants -> BoardRow] BY DEF StatusInit, BoardRow, Health
<1>5. statusEdits \in 0..MaxStatusEdits BY StatusAssumption DEF StatusInit
<1>6. \A t, u \in PageTenants : page[t].slug = page[u].slug /\ t # u => page[t].slug = "none" BY <1>2
<1>7. visit.phase = "none" BY DEF StatusInit, NoVisit
<1> QED BY <1>3,<1>4,<1>5,<1>6,<1>7 DEF StatusInv, StatusTypeOK, StatusPageIsTrue, ReadSoFar, PageRow, BoardRow

\* Every edit keeps the rows typed and the slugs apart.
LEMMA EditsAreTyped ==
  ASSUME StatusInv, EditStatus PROVE StatusTypeOK' /\ \A t, u \in PageTenants : page'[t].slug = page'[u].slug /\ t # u => page'[t].slug = "none"
<1>0. page \in [PageTenants -> PageRow] /\ board \in [PageTenants -> BoardRow] /\ statusEdits \in 0..MaxStatusEdits
  BY DEF StatusInv, StatusTypeOK, PageRow, BoardRow
<1>1. statusEdits' \in 0..MaxStatusEdits BY <1>0, StatusAssumption DEF EditStatus
<1>2. \A t, u \in PageTenants : page[t].slug = page[u].slug /\ t # u => page[t].slug = "none" BY DEF StatusInv, StatusPageIsTrue
<1>3. ASSUME NEW t \in PageTenants, NEW g \in Slugs, NEW b \in BOOLEAN, UpdateSettings(t, g, b)
  PROVE  /\ page' \in [PageTenants -> PageRow] /\ board' = board
         /\ \A x, y \in PageTenants : page'[x].slug = page'[y].slug /\ x # y => page'[x].slug = "none"
 <2> PICK new : new = [slug |-> g, published |-> b] OBVIOUS
 <2>1. new \in PageRow /\ new.slug = g BY DEF PageRow
 <2>2. page' = [page EXCEPT ![t] = new] /\ board' = board /\ \A u \in PageTenants \ {t} : page[u].slug # g BY <1>3 DEF UpdateSettings
 <2>3. page'[t] = new /\ \A u \in PageTenants \ {t} : page'[u] = page[u] BY <1>0,<2>2
 <2> QED BY <1>0,<1>2,<2>1,<2>2,<2>3
<1>4. ASSUME NEW t \in PageTenants, NEW new \in BoardRow, Post(t, new)
  PROVE board' \in [PageTenants -> BoardRow] /\ page' = page BY <1>0,<1>4 DEF Post
<1>5. ASSUME NEW t \in PageTenants,
    \/ \E h \in Health : UpdateComponent(t, h)
    \/ \E b, s \in BOOLEAN : SetPublicVisibility(t, b, s)
    \/ OutageMoves(t) \/ WorksMove(t)
  PROVE \E new \in BoardRow : Post(t, new)
 <2> PICK old \in BoardRow : old = board[t] BY <1>0
 <2>1. ASSUME NEW h \in Health, UpdateComponent(t, h) PROVE \E new \in BoardRow : Post(t, new)
  <3>1. [old EXCEPT !.component = h] \in BoardRow BY DEF BoardRow
  <3> QED BY <2>1,<3>1 DEF UpdateComponent
 <2>2. ASSUME NEW b \in BOOLEAN, NEW s \in BOOLEAN, SetPublicVisibility(t, b, s) PROVE \E new \in BoardRow : Post(t, new)
  <3>1. [old EXCEPT !.shown = b] \in BoardRow BY DEF BoardRow
  <3> QED BY <2>2,<3>1 DEF SetPublicVisibility
 <2>3. ASSUME OutageMoves(t) PROVE \E new \in BoardRow : Post(t, new)
  <3>1. \A o \in {"minor", "critical", "resolved"} : [old EXCEPT !.outage = o] \in BoardRow BY DEF BoardRow
  <3> QED BY <2>3,<3>1 DEF OutageMoves
 <2>4. ASSUME WorksMove(t) PROVE \E new \in BoardRow : Post(t, new)
  <3>1. \A p \in BOOLEAN : [old EXCEPT !.works = "PLANNED", !.public = p] \in BoardRow BY DEF BoardRow
  <3>2. \A w \in {"CANCELED", "ACTIVE", "COMPLETED"} : [old EXCEPT !.works = w] \in BoardRow BY DEF BoardRow
  <3>3. \A w \in {"during", "after"} : [old EXCEPT !.time = w] \in BoardRow BY DEF BoardRow
  <3> QED BY <2>4,<3>1,<3>2,<3>3 DEF WorksMove
 <2> QED BY <1>5,<2>1,<2>2,<2>3,<2>4
<1>6. PICK t \in PageTenants :
        \/ \E g \in Slugs, b \in BOOLEAN : UpdateSettings(t, g, b)
        \/ \E h \in Health : UpdateComponent(t, h)
        \/ \E b, s \in BOOLEAN : SetPublicVisibility(t, b, s)
        \/ OutageMoves(t) \/ WorksMove(t) BY DEF EditStatus
<1>7. /\ page' \in [PageTenants -> PageRow] /\ board' \in [PageTenants -> BoardRow]
      /\ \A x, y \in PageTenants : page'[x].slug = page'[y].slug /\ x # y => page'[x].slug = "none"
 <2>1. CASE \E g \in Slugs, b \in BOOLEAN : UpdateSettings(t, g, b) BY <1>0,<1>3,<2>1
 <2>2. ASSUME NEW new \in BoardRow, Post(t, new)
   PROVE  /\ page' \in [PageTenants -> PageRow] /\ board' \in [PageTenants -> BoardRow]
          /\ \A x, y \in PageTenants : page'[x].slug = page'[y].slug /\ x # y => page'[x].slug = "none" BY <1>0,<1>2,<1>4,<2>2
 <2> QED BY <1>5,<1>6,<2>1,<2>2
<1> QED BY <1>1,<1>7 DEF StatusTypeOK, PageRow, BoardRow

\* What a tenant's page can owe.
LEMMA TroublesAreKinds ==
  ASSUME StatusTypeOK, NEW t \in PageTenants
  PROVE  /\ Troubles(t) \subseteq Announcements(t)
         /\ Announcements(t) \subseteq Health \cup {"minor", "critical", "works"}
         /\ Announcements(t) \cap Health = Broken(t)
         /\ Announcements(t) \cap {"minor", "critical"} = Outage(t)
         /\ "works" \in Announcements(t) <=> WorksListed(t)
         /\ "works" \in Troubles(t) => board[t].time = "during"
<1>1. board[t].component \in Health BY DEF StatusTypeOK
<1>2. Broken(t) \subseteq Health /\ Outage(t) \subseteq {"minor", "critical"} BY <1>1 DEF Broken, Outage
<1>3. "works" \notin Health /\ "minor" \notin Health /\ "critical" \notin Health BY DEF Health
<1> QED BY <1>2,<1>3 DEF Announcements, Troubles

LEMMA EditKeeps == ASSUME StatusInv, EditStatus PROVE StatusInv'
<1>1. StatusTypeOK' /\ \A t, u \in PageTenants : page'[t].slug = page'[u].slug /\ t # u => page'[t].slug = "none" BY EditsAreTyped
<1>2. visit' = visit /\ visit.phase # "answered" BY DEF EditStatus
<1>3. StatusPageIsTrue' BY <1>1,<1>2 DEF StatusPageIsTrue
<1>4. ReadSoFar'
 <2>1. CASE visit.phase # "reading" BY <1>2,<2>1 DEF ReadSoFar
 <2>2. CASE visit.phase = "reading"
  <3>1. visit # NoVisit BY <2>2 DEF NoVisit
  <3>2. sure' = sure \cap Troubles(visit.tenant)' /\ seen' = seen \cup Announcements(visit.tenant)' BY <3>1 DEF EditStatus
  <3>3. sure' \subseteq Troubles(visit.tenant)' /\ Announcements(visit.tenant)' \subseteq seen'
        /\ sure' \subseteq sure /\ seen \subseteq seen' BY <3>2
  <3> QED BY <1>2,<2>2,<3>3 DEF StatusInv, ReadSoFar
 <2> QED BY <2>1,<2>2
<1> QED BY <1>1,<1>3,<1>4 DEF StatusInv

LEMMA OpenKeepsPage == ASSUME StatusInv, NEW g \in Slugs, OpenStatusPage(g) PROVE StatusInv'
<1>0. StatusTypeOK BY DEF StatusInv
<1>1. UNCHANGED <<page, board, statusEdits>> BY DEF OpenStatusPage
<1>2. PICK t \in PageTenants :
        /\ visit' = [phase |-> "reading", tenant |-> t, unread |-> Tables, component |-> "OPERATIONAL", outage |-> {}, works |-> "none"]
        /\ sure' = Troubles(t) /\ seen' = Announcements(t) BY DEF OpenStatusPage
<1>3. visit' \in ReadingRow BY <1>2 DEF ReadingRow, Tables, Health
<1>4. visit'.phase = "reading" /\ visit'.tenant = t /\ visit'.unread = Tables /\ visit'.component = "OPERATIONAL"
      /\ visit'.outage = {} /\ visit'.works = "none" BY <1>2
<1>5. Troubles(t)' = Troubles(t) /\ Announcements(t)' = Announcements(t) BY <1>1 DEF Troubles, Announcements, Outage, Broken, WorksListed
<1>6. ReadSoFar'
 <2>1. sure' \subseteq Troubles(visit.tenant)' /\ Announcements(visit.tenant)' \subseteq seen' BY <1>2,<1>4,<1>5
 <2> QED BY <1>3,<1>4,<2>1 DEF ReadSoFar, Tables
<1>7. StatusPageIsTrue' BY <1>1,<1>4 DEF StatusInv, StatusPageIsTrue
<1>8. StatusTypeOK' BY <1>0,<1>1 DEF StatusTypeOK
<1> QED BY <1>6,<1>7,<1>8 DEF StatusInv

LEMMA ReadKeeps == ASSUME StatusInv, NEW table \in Tables, ReadTable(table) PROVE StatusInv'
<1>0. StatusTypeOK BY DEF StatusInv
<1>1. UNCHANGED <<page, board, sure, seen, statusEdits>> /\ visit.phase = "reading" BY DEF ReadTable
<1> PICK t : t = visit.tenant OBVIOUS
<1>2. visit \in ReadingRow /\ t \in PageTenants BY <1>1 DEF StatusInv, ReadSoFar, ReadingRow
<1> PICK component : component = IF table = "components" THEN board[t].component ELSE visit.component OBVIOUS
<1> PICK outage : outage = IF table = "incidents" THEN Outage(t) ELSE visit.outage OBVIOUS
<1> PICK works : works = IF table = "maintenance" /\ WorksListed(t) THEN board[t].works ELSE visit.works OBVIOUS
<1>3. visit' = [visit EXCEPT !.unread = visit.unread \ {table}, !.component = component, !.outage = outage, !.works = works]
  BY <1>2 DEF ReadTable, ReadingRow
<1>4. /\ visit'.phase = "reading" /\ visit'.tenant = t /\ visit'.unread = visit.unread \ {table}
      /\ visit'.component = component /\ visit'.outage = outage /\ visit'.works = works BY <1>1,<1>2,<1>3 DEF ReadingRow
<1>5. component \in Health /\ outage \subseteq {"minor", "critical"} /\ works \in {"none", "PLANNED", "ACTIVE"}
 <2>1. board[t].component \in Health BY <1>0,<1>2 DEF StatusTypeOK
 <2> QED BY <1>2,<2>1 DEF ReadingRow, Outage, WorksListed
<1>6. visit' \in ReadingRow
 <2>1. visit.unread \ {table} \subseteq Tables BY <1>2 DEF ReadingRow
 <2> QED BY <1>2,<1>3,<1>5,<2>1 DEF ReadingRow
<1>7. sure \subseteq Troubles(t) /\ Announcements(t) \subseteq seen BY <1>1 DEF StatusInv, ReadSoFar
<1>8. Troubles(t)' = Troubles(t) /\ Announcements(t)' = Announcements(t) BY <1>1 DEF Troubles, Announcements, Outage, Broken, WorksListed
<1>9. sure \subseteq Announcements(t) BY <1>0,<1>2,<1>7, TroublesAreKinds
<1>10. component # "OPERATIONAL" => component \in seen
 <2>1. board[t].component # "OPERATIONAL" => board[t].component \in seen BY <1>7 DEF Announcements, Broken
 <2> QED BY <1>1,<2>1 DEF StatusInv, ReadSoFar
<1>11. outage \subseteq seen
 <2>1. Outage(t) \subseteq seen BY <1>7 DEF Announcements
 <2> QED BY <1>1,<2>1 DEF StatusInv, ReadSoFar
<1>12. works # "none" => "works" \in seen
 <2>1. WorksListed(t) => "works" \in seen BY <1>7 DEF Announcements
 <2> QED BY <1>1,<2>1 DEF StatusInv, ReadSoFar
<1>13. "components" \notin visit'.unread => sure \cap Health \subseteq {component} \ {"OPERATIONAL"}
 <2>1. CASE table = "components"
  <3>1. sure \cap Health \subseteq Broken(t) BY <1>0,<1>2,<1>9, TroublesAreKinds
  <3> QED BY <2>1,<3>1 DEF Broken
 <2>2. CASE table # "components" BY <1>1,<1>4,<2>2 DEF StatusInv, ReadSoFar
 <2> QED BY <2>1,<2>2
<1>14. "incidents" \notin visit'.unread => sure \cap {"minor", "critical"} \subseteq outage
 <2>1. CASE table = "incidents"
  <3>1. sure \cap {"minor", "critical"} \subseteq Outage(t) BY <1>0,<1>2,<1>9, TroublesAreKinds
  <3> QED BY <2>1,<3>1
 <2>2. CASE table # "incidents" BY <1>1,<1>4,<2>2 DEF StatusInv, ReadSoFar
 <2> QED BY <2>1,<2>2
<1>15. "maintenance" \notin visit'.unread /\ "works" \in sure => works # "none"
 <2>1. ASSUME table = "maintenance", "works" \in sure PROVE works # "none"
  <3>1. WorksListed(t) BY <1>0,<1>2,<1>9,<2>1, TroublesAreKinds
  <3> QED BY <2>1,<3>1 DEF WorksListed
 <2>2. ASSUME table # "maintenance", "maintenance" \notin visit'.unread, "works" \in sure PROVE works # "none"
   BY <1>1,<1>4,<2>2 DEF StatusInv, ReadSoFar
 <2> QED BY <2>1,<2>2
<1>16. ReadSoFar'
 <2>1. sure' \subseteq Troubles(visit.tenant)' /\ Announcements(visit.tenant)' \subseteq seen' BY <1>1,<1>4,<1>7,<1>8
 <2> QED BY <1>1,<1>4,<1>6,<1>10,<1>11,<1>12,<1>13,<1>14,<1>15,<2>1 DEF ReadSoFar
<1>17. StatusPageIsTrue' BY <1>1,<1>4 DEF StatusInv, StatusPageIsTrue
<1>18. StatusTypeOK' BY <1>0,<1>1 DEF StatusTypeOK
<1> QED BY <1>16,<1>17,<1>18 DEF StatusInv

LEMMA AnswerKeeps == ASSUME StatusInv, AnswerStatus PROVE StatusInv'
<1>0. StatusTypeOK BY DEF StatusInv
<1>1. UNCHANGED <<page, board, sure, seen, statusEdits>> /\ visit.phase = "reading" /\ visit.unread = {} BY DEF AnswerStatus
<1> PICK t : t = visit.tenant OBVIOUS
<1>2. /\ visit \in ReadingRow /\ t \in PageTenants /\ visit.component \in Health
      /\ visit.outage \subseteq {"minor", "critical"} /\ visit.works \in {"none", "PLANNED", "ACTIVE"} BY <1>1 DEF StatusInv, ReadSoFar, ReadingRow
<1>3. /\ sure \subseteq Troubles(t)
      /\ visit.component # "OPERATIONAL" => visit.component \in seen
      /\ visit.outage \subseteq seen /\ (visit.works # "none" => "works" \in seen)
      /\ sure \cap Health \subseteq {visit.component} \ {"OPERATIONAL"}
      /\ sure \cap {"minor", "critical"} \subseteq visit.outage
      /\ "works" \in sure => visit.works # "none" BY <1>1 DEF StatusInv, ReadSoFar
<1> PICK overall : overall = OverallStatus OBVIOUS
<1>4. visit'.phase = "answered" /\ visit'.overall = overall BY DEF AnswerStatus
<1> PICK begun \in BOOLEAN : begun = (visit.works = "ACTIVE" \/ (visit.works = "PLANNED" /\ board[t].time # "before")) BY Zenon
<1>5. overall = IF "critical" \in visit.outage THEN "MAJOR_OUTAGE" ELSE IF begun THEN "MAINTENANCE"
                ELSE IF "minor" \in visit.outage THEN "DEGRADED" ELSE visit.component BY Zenon DEF OverallStatus
<1>6. "works" \in sure => begun
 <2>1. "works" \in sure => board[t].time = "during" BY <1>0,<1>2,<1>3, TroublesAreKinds
 <2> QED BY <1>2,<1>3,<2>1
<1>7. sure \subseteq Health \cup {"minor", "critical", "works"} BY <1>0,<1>2,<1>3, TroublesAreKinds
<1>8. overall = "OPERATIONAL" => sure = {}
 <2> SUFFICES ASSUME overall = "OPERATIONAL" PROVE sure = {} OBVIOUS
 <2>1. "critical" \notin visit.outage /\ ~begun /\ "minor" \notin visit.outage /\ visit.component = "OPERATIONAL" BY <1>5
 <2>2. "works" \notin sure /\ "critical" \notin sure /\ "minor" \notin sure /\ sure \cap Health = {} BY <1>3,<1>6,<2>1
 <2> QED BY <1>7,<2>2
<1>9. "critical" \in sure => overall = "MAJOR_OUTAGE" BY <1>3,<1>5
<1>10. overall # "OPERATIONAL" => \E x \in seen : SaysOf(x) = overall
 <2>1. CASE "critical" \in visit.outage
  <3>1. "critical" \in seen /\ SaysOf("critical") = overall BY <1>3,<1>5,<2>1 DEF SaysOf
  <3> QED BY <3>1
 <2>2. CASE "critical" \notin visit.outage /\ begun
  <3>1. "works" \in seen /\ SaysOf("works") = overall BY <1>3,<1>5,<2>2 DEF SaysOf
  <3> QED BY <3>1
 <2>3. CASE "critical" \notin visit.outage /\ ~begun /\ "minor" \in visit.outage
  <3>1. "minor" \in seen /\ SaysOf("minor") = overall BY <1>3,<1>5,<2>3 DEF SaysOf
  <3> QED BY <3>1
 <2>4. CASE "critical" \notin visit.outage /\ ~begun /\ "minor" \notin visit.outage
  <3>1. overall = visit.component /\ SaysOf(overall) = overall BY <1>2,<1>5,<2>4 DEF SaysOf, Health
  <3> QED BY <1>3,<3>1
 <2> QED BY <2>1,<2>2,<2>3,<2>4
<1>11. StatusPageIsTrue' BY <1>1,<1>4,<1>8,<1>9,<1>10 DEF StatusInv, StatusPageIsTrue, SaysOf
<1>12. ReadSoFar' BY <1>4 DEF ReadSoFar
<1>13. StatusTypeOK' BY <1>0,<1>1 DEF StatusTypeOK
<1> QED BY <1>11,<1>12,<1>13 DEF StatusInv

LEMMA StatusStep == StatusInv /\ StatusNext => StatusInv' BY EditKeeps, OpenKeepsPage, ReadKeeps, AnswerKeeps DEF StatusNext

LEMMA StatusStutters == StatusInv /\ UNCHANGED statusVars => StatusInv'
<1> SUFFICES ASSUME StatusInv, UNCHANGED <<page, board, visit, sure, seen, statusEdits>> PROVE StatusInv' BY DEF statusVars
<1>1. StatusTypeOK' BY DEF StatusInv, StatusTypeOK
<1>2. \A t : Troubles(t)' = Troubles(t) /\ Announcements(t)' = Announcements(t) BY DEF Troubles, Announcements, Outage, Broken, WorksListed
<1>3. ReadSoFar' BY <1>2 DEF StatusInv, ReadSoFar
<1>4. StatusPageIsTrue' BY DEF StatusInv, StatusPageIsTrue
<1> QED BY <1>1,<1>3,<1>4 DEF StatusInv

------------------------
(* The components together: each step is a step of one of them, or of none. *)

OperationsInv == IncidentInv /\ StatusInv /\ FieldInv /\ ServiceInv

LEMMA StepOfEach ==
  ASSUME [Next]_vars PROVE [IncidentNext]_incidentVars /\ [StatusNext]_statusVars /\ [FieldNext]_fieldVars /\ [ServiceNext]_serviceVars
<1>1. CASE UNCHANGED vars BY <1>1 DEF vars
<1>2. CASE Next BY <1>2 DEF Next
<1> QED BY <1>1,<1>2

LEMMA OperationsBegin == Init => OperationsInv BY IncidentBegins, StatusBegins, FieldBegins, ServiceBegins DEF Init, OperationsInv

LEMMA OperationsStep == OperationsInv /\ [Next]_vars => OperationsInv'
<1> SUFFICES ASSUME OperationsInv, [Next]_vars PROVE OperationsInv' OBVIOUS
<1>1. IncidentInv' BY StepOfEach, IncidentStep, IncidentStutters DEF OperationsInv
<1>2. StatusInv' BY StepOfEach, StatusStep, StatusStutters DEF OperationsInv
<1>3. FieldInv' BY StepOfEach, FieldStep, FieldStutters DEF OperationsInv
<1>4. ServiceInv' BY StepOfEach, ServiceStep, ServiceStutters DEF OperationsInv
<1> QED BY <1>1,<1>2,<1>3,<1>4 DEF OperationsInv

\* The strengthened invariant of the incidents, the status page, the field jobs and the
\* expiry run.
THEOREM OperationsInvariance == Spec => []OperationsInv
<1> QED BY OperationsBegin, OperationsStep, PTL DEF Spec

\* What a technician did while offline reaches the job once and in the order it was
\* done (syncOfflineOperations), and nothing leaves its type.
THEOREM FieldSyncIsExact == Spec => []SyncIsExact
<1>1. OperationsInv => SyncIsExact
 <2> SUFFICES ASSUME OperationsInv PROVE SyncIsExact OBVIOUS
 <2>1. FieldTypeOK /\ ExactlyOnce /\ OrderIsKept BY FieldInvIsExact DEF OperationsInv
 <2>2. IncidentTypeOK /\ StatusTypeOK /\ ServiceTypeOK BY DEF OperationsInv, IncidentInv, StatusInv, ServiceInv
 <2> QED BY <2>1,<2>2 DEF SyncIsExact, OperationsTypeOK
<1> QED BY <1>1, OperationsInvariance, PTL

\* What incidents commit is announced unless a fault came between, an offline router is
\* known, no event is false, and the public status page neither hides a lasting trouble
\* nor makes one up (IncidentsService, the escalation worker, getPublicStatus).
THEOREM OperatorsKnowIncidents == Spec => []IncidentsAreKnown
<1>1. OperationsInv => IncidentsAreKnown BY IncidentInvIsKnown DEF OperationsInv, StatusInv, IncidentsAreKnown
<1> QED BY <1>1, OperationsInvariance, PTL

\* A suspension is of somebody who was due when the run locked the row, ends the history
\* of the service state, and the first one of a customer who could be told all along is
\* announced unless a fault came between (IspExpiryService).
THEOREM ExpiriesAreRecorded == Spec => ExpiryIsRecorded
<1>1. OperationsInv => HistoryEndsInState /\ FirstExpiryIsTold BY DEF OperationsInv, ServiceInv
<1>2. OperationsInv /\ [Next]_vars =>
        [\A c \in Customers : suspensions'[c] > suspensions[c] =>
           c \in ActiveService /\ Due(service'[c].expires, now)]_serviceVars BY StepOfEach, ServiceActs DEF OperationsInv, DueStep
<1> QED BY <1>1,<1>2, OperationsInvariance, PTL DEF Spec, ExpiryIsRecorded, SuspendedWasDue
====
