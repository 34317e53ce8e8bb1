---- MODULE FieldDesk ----
(* The technician's page beside its queue of work: the overlay that reads the label of a device with
   the camera, the lookup of the device a label names, on the server or among those kept on the
   phone, and the checklist of a job which is ticked on the screen, kept, queued and sent later. *)
EXTENDS Naturals, Sequences, FiniteSetsExt, SequencesExt

CONSTANTS
  Cameras,         \* cameras of the phone
  Assets,        \* devices, numbered in the order of their identifiers
  Mentions,        \* the devices in whose name the identifier of a device occurs
  Forms,           \* what a label may be
  Items,           \* items of the checklist
  MaxScans,        \* bound: streams asked for
  MaxLookups,      \* bound: labels looked up
  MaxTicks         \* bound: items ticked or unticked, and checklists loaded

ASSUME FieldDeskAssumption ==
  /\ Assets \subseteq Nat \ {0} /\ Mentions \in [Assets -> SUBSET Assets]
  /\ MaxScans \in Nat /\ MaxLookups \in Nat /\ MaxTicks \in Nat

VARIABLES
  scanning,        \* the overlay is open
  camera,          \* selectedCameraId
  enumerating,     \* enumerations of the cameras under way, of when none was selected
  stream,          \* the runs of the effect that opens the camera
  streams,         \* runs so far
  controls,        \* controlsRef: the run whose stream it holds, 0 for none
  cameraError,     \* the run whose failure is shown, 0 for none
  kept,            \* devices kept on the phone
  card,            \* scannedAsset, 0 for none
  lookup,          \* the lookups: label, whether connected, how far
  lookups,         \* lookups so far
  ticked,          \* items ticked on the server
  box,             \* items ticked on the screen and in the copy on the phone
  opened,          \* the checklist is on the screen
  writing,         \* a tick on the screen and in the copy that is not queued yet
  outbox,          \* CHECKLIST_ITEM_SET operations kept on the phone
  sent,            \* operations of the synchronisation under way, to be deleted
  loading,         \* loadChecklist under way: how far and with which items
  ticks,           \* items ticked or unticked, and loads
  clouded          \* what may keep the screen from being true has happened

scanVars == <<scanning, camera, enumerating, stream, streams, controls, cameraError>>
lookVars == <<kept, card, lookup, lookups>>
listVars == <<ticked, box, opened, writing, outbox, sent, loading, ticks, clouded>>
fieldDeskVars == <<scanVars, lookVars, listVars>>

Runs == 1 .. MaxScans
LabelRecords == [form : Forms, of : Assets]
NoStream == [pc |-> "none", disposed |-> FALSE, early |-> FALSE]
NoLookup == [pc |-> "none", label |-> [form |-> "tag", of |-> 1], online |-> FALSE, late |-> FALSE]
NoTick == [item |-> "none", on |-> FALSE]
NoLoad == [pc |-> "none", online |-> FALSE, items |-> {}, alone |-> FALSE]
Ticks == [item : Items, on : BOOLEAN]

FieldDeskTypeOK ==
  /\ scanning \in BOOLEAN /\ camera \in Cameras \cup {"none"} /\ enumerating \in 0 .. streams
  /\ stream \in [Runs -> [pc : {"none", "timer", "opening", "live", "off"},
                          disposed : BOOLEAN, early : BOOLEAN]]
  /\ streams \in 0 .. MaxScans /\ controls \in 0 .. streams /\ cameraError \in 0 .. streams
  /\ kept \subseteq Assets /\ card \in Assets \cup {0}
  /\ lookup \in [1 .. MaxLookups -> [pc : {"none", "asked", "failed", "shown"}, label : LabelRecords,
                                     online : BOOLEAN, late : BOOLEAN]]
  /\ lookups \in 0 .. MaxLookups
  /\ ticked \subseteq Items /\ box \subseteq Items /\ opened \in BOOLEAN
  /\ writing \in Ticks \cup {NoTick} /\ outbox \in Seq(Ticks) /\ sent \in 0 .. Len(outbox)
  /\ loading \in [pc : {"none", "asked", "read"}, online : BOOLEAN, items : SUBSET Items,
                  alone : BOOLEAN]
  /\ ticks \in 0 .. MaxTicks /\ clouded \in BOOLEAN

FieldDeskInit ==
  /\ scanning = FALSE /\ camera = "none" /\ enumerating = 0 /\ streams = 0 /\ controls = 0 /\ cameraError = 0
  /\ stream = [r \in Runs |-> NoStream]
  /\ kept \in SUBSET Assets /\ card = 0 /\ lookups = 0
  /\ lookup = [k \in 1 .. MaxLookups |-> NoLookup]
  /\ ticked \in SUBSET Items /\ box = {} /\ opened = FALSE /\ writing = NoTick /\ outbox = <<>>
  /\ sent = 0 /\ loading = NoLoad /\ ticks = 0 /\ clouded = TRUE

------------------------
(* The camera. *)

(* The cleanup of the latest run: its timer is cleared, the stream controlsRef holds is stopped, and
   one that is still being opened is not. *)
Disposed(s) ==
  [r \in Runs |->
    LET this == r = streams /\ ~s[r].disposed
        pc == IF r = controls \/ (this /\ s[r].pc = "timer") THEN "off" ELSE s[r].pc
    IN [pc |-> pc, disposed |-> this \/ s[r].disposed,
        early |-> s[r].early \/ (this /\ s[r].pc = "opening")]]

(* A run of the effect with the overlay open stops nothing: a stream that opened late stays on. *)
Started(s) ==
  /\ streams < MaxScans /\ streams' = streams + 1 /\ cameraError' = 0
  /\ stream' = [s EXCEPT ![streams + 1].pc = "timer"]

(* With the overlay closed it stops what controlsRef holds, and leaves no cleanup. *)
Stopped(s) ==
  /\ stream' = [r \in Runs |-> IF r = controls THEN [s[r] EXCEPT !.pc = "off"] ELSE s[r]]
  /\ controls' = 0 /\ UNCHANGED <<streams, cameraError>>

OpenScanner ==
  /\ ~scanning /\ scanning' = TRUE /\ Started(stream)
  /\ enumerating' = IF camera = "none" THEN enumerating + 1 ELSE enumerating
  /\ UNCHANGED <<camera, controls, lookVars, listVars>>

(* A change of the camera disposes of the run and starts another, on the open overlay. *)
CameraTo(c) ==
  /\ camera' = c
  /\ IF c = camera THEN UNCHANGED <<stream, streams, controls, cameraError>>
     ELSE IF scanning THEN Started(Disposed(stream)) /\ controls' = 0
     ELSE Stopped(stream)
  /\ UNCHANGED <<scanning, lookVars, listVars>>

(* The enumeration picks a camera, or fails; its answer may come after the overlay was closed or
   another camera was picked. *)
CamerasFound ==
  /\ enumerating > 0 /\ enumerating' = enumerating - 1 /\ \E c \in Cameras \cup {camera} : CameraTo(c)

SelectCamera(c) == scanning /\ camera # "none" /\ c # camera /\ CameraTo(c) /\ UNCHANGED enumerating

(* 150 ms later the video element has been mounted. *)
TimerFires(r) ==
  /\ stream[r].pc = "timer" /\ stream' = [stream EXCEPT ![r].pc = "opening"]
  /\ UNCHANGED <<scanning, camera, enumerating, streams, controls, cameraError, lookVars, listVars>>

(* A stream that opens, and each of its frames, takes controlsRef, even when its run has been
   disposed of. *)
CameraOpens(r) ==
  /\ stream[r].pc = "opening" /\ stream' = [stream EXCEPT ![r].pc = "live"] /\ controls' = r
  /\ UNCHANGED <<scanning, camera, enumerating, streams, cameraError, lookVars, listVars>>

Frame(r) ==
  /\ stream[r].pc = "live" /\ controls' = r
  /\ UNCHANGED <<scanning, camera, enumerating, stream, streams, cameraError, lookVars, listVars>>

CameraFails(r) ==
  /\ stream[r].pc = "opening" /\ stream' = [stream EXCEPT ![r].pc = "off"]
  /\ cameraError' = IF stream[r].disposed THEN cameraError ELSE r
  /\ UNCHANGED <<scanning, camera, enumerating, streams, controls, lookVars, listVars>>

------------------------
(* The lookup of a device. *)

(* extractRouterIdentifier: the tag without its first word is no label. *)
Identified(label) == label.form # "bare"

(* The identifier is what the server knows a device by; a common word of the names, an address of
   the device or of its interface it does not know. *)
Identifies(label, d) == label.form \in {"tag", "url", "json", "plain"} /\ label.of = d

(* Among the devices kept, a name that contains the text will do. *)
Matches(label, d) ==
  CASE label.form \in {"tag", "url", "json", "plain"} -> d = label.of \/ d \in Mentions[label.of]
    [] label.form = "word" -> TRUE
    [] label.form = "ip" -> d = label.of
    [] OTHER -> FALSE

(* resolveAsset up to its first answer. *)
Resolve(label) ==
  /\ lookups < MaxLookups
  /\ IF Identified(label)
     THEN /\ lookups' = lookups + 1
          /\ \E online \in BOOLEAN :
               lookup' = [lookup EXCEPT ![lookups + 1] =
                            [pc |-> "asked", label |-> label, online |-> online, late |-> FALSE]]
     ELSE UNCHANGED <<lookup, lookups>>
  /\ UNCHANGED <<kept, card>>

(* The device is shown and, from the server, kept; a later lookup may have been answered before. *)
Show(k, d) ==
  /\ card' = d
  /\ lookup' = [lookup EXCEPT ![k].pc = "shown",
                              ![k].late = \E n \in k + 1 .. lookups : lookup[n].pc = "shown"]

(* A failure leaves the card of the earlier device, with its link button. *)
Miss(k) == lookup' = [lookup EXCEPT ![k].pc = "failed"] /\ UNCHANGED <<kept, card>>

AnswerOnline(k) ==
  /\ lookup[k].pc = "asked" /\ lookup[k].online
  /\ \/ \E d \in Assets : Identifies(lookup[k].label, d) /\ Show(k, d) /\ kept' = kept \cup {d}
     \/ Miss(k)
  /\ UNCHANGED <<lookups, scanVars, listVars>>

(* The first of the kept devices that match, in the order of their keys. *)
AnswerOffline(k) ==
  /\ lookup[k].pc = "asked" /\ ~lookup[k].online
  /\ LET found == {d \in kept : Matches(lookup[k].label, d)}
     IN IF found = {} THEN Miss(k) ELSE Show(k, Min(found)) /\ UNCHANGED kept
  /\ UNCHANGED <<lookups, scanVars, listVars>>

CloseCard ==
  /\ card # 0 /\ card' = 0 /\ UNCHANGED <<kept, lookup, lookups, scanVars, listVars>>

(* The label is read: the stream ends and the overlay closes. *)
DecodeFrame(r) ==
  /\ stream[r].pc = "live" /\ ~stream[r].disposed
  /\ scanning' = FALSE /\ controls' = 0
  /\ stream' = [stream EXCEPT ![r].pc = "off", ![r].disposed = TRUE]
  /\ \E label \in LabelRecords : Resolve(label)
  /\ UNCHANGED <<camera, enumerating, streams, cameraError, listVars>>

(* The overlay is closed, by its button or by a label typed or picked; after the cleanup controlsRef
   holds nothing more to stop. *)
CloseScanner ==
  /\ scanning /\ scanning' = FALSE /\ Stopped(Disposed(stream))
  /\ \/ UNCHANGED lookVars
     \/ \E label \in LabelRecords : Resolve(label)
  /\ UNCHANGED <<camera, enumerating, listVars>>

------------------------
(* The checklist. *)

With(items, op) == IF op.on THEN items \cup {op.item} ELSE items \ {op.item}

(* What the technician has asked for: the server's items after the queue. *)
Wanted == FoldLeft(With, ticked, outbox)

(* An item that two queued operations are about. *)
Twice == \E m, n \in DOMAIN outbox : m # n /\ outbox[m].item = outbox[n].item

Quiet == writing = NoTick /\ sent = 0

LoadChecklist(online) ==
  /\ loading.pc = "none" /\ ticks < MaxTicks /\ ticks' = ticks + 1
  /\ loading' = [pc |-> "asked", online |-> online, items |-> {}, alone |-> Quiet]
  /\ UNCHANGED <<ticked, box, opened, writing, outbox, sent, clouded, scanVars, lookVars>>

(* The server's items arrive, or the copy is read; a request that fails shows nothing. *)
ItemsArrive ==
  /\ loading.pc = "asked"
  /\ loading' = [loading EXCEPT !.pc = "read", !.items = IF loading.online THEN ticked ELSE box]
  /\ UNCHANGED <<ticked, box, opened, writing, outbox, sent, ticks, clouded, scanVars, lookVars>>

LoadFails ==
  /\ loading.pc = "asked" /\ loading.online /\ loading' = NoLoad
  /\ UNCHANGED <<ticked, box, opened, writing, outbox, sent, ticks, clouded, scanVars, lookVars>>

(* The queued operations are applied in the order of their random keys. *)
Applied(items, order) == FoldLeft(LAMBDA s, n : With(s, outbox[n]), items, order)

ShowItems ==
  /\ loading.pc = "read"
  /\ \E order \in SetToSeqs(DOMAIN outbox) :
       box' = Applied(loading.items, order)
  /\ opened' = TRUE
  /\ clouded' = IF loading.online /\ loading.alone /\ ~Twice THEN FALSE
                ELSE clouded \/ ~loading.alone \/ Twice
  /\ loading' = NoLoad
  /\ UNCHANGED <<ticked, writing, outbox, sent, ticks, scanVars, lookVars>>

Crossed == [loading EXCEPT !.alone = FALSE]

(* toggleChecklist: the screen and the copy, then the queue. *)
ToggleChecklist(i) ==
  /\ opened /\ writing = NoTick /\ ticks < MaxTicks /\ ticks' = ticks + 1
  /\ LET op == [item |-> i, on |-> i \notin box]
     IN box' = With(box, op) /\ writing' = op
  /\ loading' = Crossed
  /\ UNCHANGED <<ticked, opened, outbox, sent, clouded, scanVars, lookVars>>

Enqueue ==
  /\ writing # NoTick /\ outbox' = Append(outbox, writing) /\ writing' = NoTick
  /\ UNCHANGED <<ticked, box, opened, sent, loading, ticks, clouded, scanVars, lookVars>>

(* A synchronisation sends what is queued in its order ... *)
SendTicks ==
  /\ sent = 0 /\ outbox # <<>> /\ sent' = Len(outbox) /\ ticked' = Wanted
  /\ loading' = Crossed
  /\ UNCHANGED <<box, opened, writing, outbox, ticks, clouded, scanVars, lookVars>>

(* ... and deletes it one by one when the answer is there. *)
DeleteSent ==
  /\ sent > 0 /\ sent' = sent - 1 /\ outbox' = Tail(outbox) /\ loading' = Crossed
  /\ UNCHANGED <<ticked, box, opened, writing, ticks, clouded, scanVars, lookVars>>

(* The page closes: a tick that was not queued yet is only in the copy, and the next synchronisation
   repeats what this one has not deleted. *)
ClosePage ==
  /\ opened /\ opened' = FALSE /\ writing' = NoTick /\ sent' = 0 /\ loading' = NoLoad
  /\ clouded' = (clouded \/ writing # NoTick)
  /\ UNCHANGED <<ticked, box, outbox, ticks, scanVars, lookVars>>

------------------------
ScanNext ==
  \/ OpenScanner \/ CamerasFound \/ CloseScanner \/ CloseCard
  \/ \E c \in Cameras : SelectCamera(c)
  \/ \E r \in Runs : \/ TimerFires(r) \/ CameraOpens(r) \/ Frame(r) \/ CameraFails(r)
                     \/ DecodeFrame(r)
  \/ \E k \in 1 .. MaxLookups : AnswerOnline(k) \/ AnswerOffline(k)

TickNext ==
  \/ \E online \in BOOLEAN : LoadChecklist(online)
  \/ \E i \in Items : ToggleChecklist(i)
  \/ ItemsArrive \/ LoadFails \/ ShowItems \/ Enqueue \/ SendTicks \/ DeleteSent \/ ClosePage

------------------------
(* Properties. *)

\* No more cameras stay on behind the technician's back than streams were still being
\* opened when their overlay closed or their camera was changed, however often the
\* overlay is opened again and whichever stream's frame takes the controls before.
CameraIsPutOut ==
  Cardinality({r \in Runs : stream[r].pc = "live" /\ (stream[r].disposed \/ ~scanning)})
    <= Cardinality({r \in Runs : stream[r].early})

\* What the overlay says of the camera is about the one it is using.
ErrorIsCurrent == cameraError # 0 => cameraError = streams

\* The card shows the device that the latest label to be found names, unless an
\* earlier one was answered after it; without a connection another device's name
\* that contains the identifier may stand before the device itself.
CardIsOfLabel ==
  card # 0 /\ (\A k \in 1 .. lookups : ~lookup[k].late) =>
    LET last == lookup[Max({k \in 1 .. lookups : lookup[k].pc = "shown"})].label
    IN card \in kept /\ Matches(last, card)

\* The items on the screen, and in the copy that is shown without a connection,
\* are the server's after what is queued, once the checklist was loaded by itself
\* from the server and until a loading crosses a tick or a synchronisation or
\* finds one item queued twice, or the page is closed between copy and queue.
ChecklistIsTrue ==
  ~clouded => box = IF writing = NoTick THEN Wanted ELSE With(Wanted, writing)

\* No stream looks a label up once its overlay has closed or its camera was
\* changed: one label is looked up for each opening, the one read first.
ScannedFromOverlay ==
  [][lookups' # lookups \/ (scanning /\ ~scanning') =>
       scanning /\ \A r \in Runs : stream[r].pc # stream'[r].pc =>
         ~stream[r].disposed \/ r = controls]_fieldDeskVars

FieldDeskHolds == FieldDeskTypeOK /\ CameraIsPutOut /\ ErrorIsCurrent /\ CardIsOfLabel /\ ChecklistIsTrue
====
