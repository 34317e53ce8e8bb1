---- MODULE Community ----
(* What people share beside messages: direct conversations, channels and communities, polls,
   preferences, stories and mini apps (communication.service.ts, communication.platform.ts,
   communication.superapp.ts). One person may have requests open in two tabs; a request is a
   sequence of statements, each a transaction of its own unless the code opens one. *)
EXTENDS Integers, FiniteSets

CONSTANTS
  Folk,          \* users of a tenant
  Administrator, \* one of them, with the role OWNER or ADMIN
  Slugs,         \* names of channels and communities
  PollOptions,   \* options of a poll
  Permissions,   \* permissions of a mini app
  MaxFolkFaults  \* bound on requests that end between two statements

ASSUME FolkAssumption == Administrator \in Folk /\ IsFiniteSet(Folk) /\ IsFiniteSet(PollOptions)

Tabs == Folk \X {1, 2}
UserOf(t) == t[1]

VARIABLES
  active,      \* users.is_active
  direct,      \* direct conversations of two people, counted
  directAsk,   \* the pair a tab looks for, after its look-up found nothing
  collided,    \* pairs two requests looked for at the same time
  rooms,       \* channels and communities: members and their roles
  poll,        \* closed, one choice or several
  votes,       \* poll_votes of a person
  ballot,      \* the locals of a vote
  doubled,     \* people who voted in two tabs at once
  pref,        \* notification_preferences of one person and category
  prefAsk,     \* the row a tab has read
  wish,        \* what each field was last set to
  crossedPref, \* two updates of the preference were open at once
  story,       \* audience, the users allowed, the users who saw it
  asked,       \* the custom audience its author asked for
  app,         \* a mini app: registered, enabled, permissions
  installs,    \* permissions granted, per person who installed it
  launch,      \* launch token, per person
  launched,    \* tokens accepted
  folkFaults

directVars == <<direct, directAsk, collided>>
pollVars == <<poll, votes, ballot, doubled>>
prefVars == <<pref, prefAsk, wish, crossedPref>>
storyVars == <<story, asked>>
appVars == <<app, installs, launch, launched>>
folkVars == <<active, directVars, rooms, pollVars, prefVars, storyVars, appVars, folkFaults>>

NoPair == {}
NoBallot == [at |-> "idle", choice |-> {}]
Fields == {"inApp", "sms"}
Defaults == [f \in Fields |-> f = "inApp"]
NoAsk == [at |-> "idle", row |-> Defaults, field |-> "inApp", value |-> TRUE]
NoStory == [audience |-> "NONE", allowed |-> {}, seen |-> {}]
NoLaunch == [valid |-> FALSE, permissions |-> {}]

CommunityInit ==
  /\ active = Folk /\ folkFaults = 0
  /\ direct = [c \in SUBSET Folk |-> 0] /\ directAsk = [t \in Tabs |-> NoPair] /\ collided = {}
  /\ rooms = [s \in Slugs |-> [kind |-> "NONE", role |-> [p \in Folk |-> "NONE"]]]
  /\ poll = [open |-> TRUE, multiple |-> FALSE] /\ votes = [p \in Folk |-> {}]
  /\ ballot = [t \in Tabs |-> NoBallot] /\ doubled = {}
  /\ pref = Defaults /\ prefAsk = [i \in 1..2 |-> NoAsk] /\ wish = Defaults /\ crossedPref = FALSE
  /\ story = NoStory /\ asked = {}
  /\ app = [registered |-> FALSE, enabled |-> FALSE, permissions |-> {}]
  /\ installs = [p \in Folk |-> [on |-> FALSE, permissions |-> {}]]
  /\ launch = [p \in Folk |-> NoLaunch] /\ launched = {}

------------------------
(* Direct conversations. *)

Look(t, p) ==
  /\ direct[{UserOf(t), p}] = 0
  /\ directAsk' = [directAsk EXCEPT ![t] = {UserOf(t), p}]

AskDirect(t, p) ==
  /\ directAsk[t] = NoPair /\ p # UserOf(t) /\ p \in active
  /\ Look(t, p)
  /\ collided' = IF \E u \in Tabs : directAsk[u] = {UserOf(t), p} THEN collided \union {{UserOf(t), p}} ELSE collided
  /\ UNCHANGED <<active, direct, rooms, pollVars, prefVars, storyVars, appVars, folkFaults>>

CreateDirect(t) ==
  /\ directAsk[t] # NoPair
  /\ direct' = [direct EXCEPT ![directAsk[t]] = @ + 1]
  /\ directAsk' = [directAsk EXCEPT ![t] = NoPair]
  /\ UNCHANGED <<active, collided, rooms, pollVars, prefVars, storyVars, appVars, folkFaults>>

------------------------
(* Channels and communities: created with their owner; one joins a community. *)

CreateRoom(p, slug, kind) ==
  /\ p = Administrator /\ rooms[slug].kind = "NONE"
  /\ rooms' = [rooms EXCEPT ![slug] = [kind |-> kind, role |-> [q \in Folk |-> IF q = p THEN "OWNER" ELSE "NONE"]]]
  /\ UNCHANGED <<active, directVars, pollVars, prefVars, storyVars, appVars, folkFaults>>

\* ON CONFLICT brings a member back as what he was.
JoinedAs(role) == IF role = "NONE" THEN "MEMBER" ELSE role

JoinCommunity(p, slug) ==
  /\ rooms[slug].kind = "COMMUNITY"
  /\ rooms' = [rooms EXCEPT ![slug].role[p] = JoinedAs(@)]
  /\ UNCHANGED <<active, directVars, pollVars, prefVars, storyVars, appVars, folkFaults>>

------------------------
(* Polls: a vote is checked, the old one deleted, the options inserted. *)

CreatePoll(multiple) ==
  /\ \A p \in Folk : votes[p] = {}
  /\ \A t \in Tabs : ballot[t] = NoBallot
  /\ poll' = [open |-> TRUE, multiple |-> multiple]
  /\ UNCHANGED <<active, directVars, rooms, votes, ballot, doubled, prefVars, storyVars, appVars, folkFaults>>

ClosePoll ==
  /\ poll.open /\ poll' = [poll EXCEPT !.open = FALSE]
  /\ UNCHANGED <<active, directVars, rooms, votes, ballot, doubled, prefVars, storyVars, appVars, folkFaults>>

BallotTo(t, next) == ballot' = [ballot EXCEPT ![t] = next]

AskToVote(t, choice) ==
  /\ ballot[t].at = "idle" /\ poll.open /\ choice # {}
  /\ poll.multiple \/ Cardinality(choice) = 1
  /\ BallotTo(t, [at |-> "delete", choice |-> choice])
  /\ doubled' = IF \E u \in Tabs : UserOf(u) = UserOf(t) /\ ballot[u].at # "idle" THEN doubled \union {UserOf(t)} ELSE doubled
  /\ UNCHANGED <<active, directVars, rooms, poll, votes, prefVars, storyVars, appVars, folkFaults>>

\* Mutant: only the votes for the same options are deleted.
DeleteSame(t) == votes' = [votes EXCEPT ![UserOf(t)] = @ \ ballot[t].choice]
DeleteVotes(t) == votes' = [votes EXCEPT ![UserOf(t)] = {}]

ClearVotes(t) ==
  /\ ballot[t].at = "delete" /\ DeleteVotes(t)
  /\ BallotTo(t, [ballot[t] EXCEPT !.at = "insert"])
  /\ UNCHANGED <<active, directVars, rooms, poll, doubled, prefVars, storyVars, appVars, folkFaults>>

\* Two rows of one option are not told apart.
InsertVote(t) ==
  /\ ballot[t].at = "insert"
  /\ \E c \in ballot[t].choice :
       /\ votes' = [votes EXCEPT ![UserOf(t)] = @ \union {c}]
       /\ BallotTo(t, IF ballot[t].choice = {c} THEN NoBallot ELSE [ballot[t] EXCEPT !.choice = @ \ {c}])
  /\ UNCHANGED <<active, directVars, rooms, poll, doubled, prefVars, storyVars, appVars, folkFaults>>

VoteFails(t) ==
  /\ ballot[t].at # "idle" /\ BallotTo(t, NoBallot)
  /\ folkFaults < MaxFolkFaults /\ folkFaults' = folkFaults + 1
  /\ UNCHANGED <<active, directVars, rooms, poll, votes, doubled, prefVars, storyVars, appVars>>

------------------------
(* Preferences: one field is asked for, the row is read and written whole. *)

ReadPreference(i, f, v) ==
  /\ prefAsk[i].at = "idle"
  /\ prefAsk' = [prefAsk EXCEPT ![i] = [at |-> "write", row |-> pref, field |-> f, value |-> v]]
  /\ crossedPref' = (crossedPref \/ \E j \in 1..2 : prefAsk[j].at # "idle")
  /\ UNCHANGED <<active, directVars, rooms, pollVars, pref, wish, storyVars, appVars, folkFaults>>

\* A field that is not asked for keeps what was read.
WritePreference(i) ==
  /\ prefAsk[i].at = "write"
  /\ pref' = [prefAsk[i].row EXCEPT ![prefAsk[i].field] = prefAsk[i].value]
  /\ wish' = [wish EXCEPT ![prefAsk[i].field] = prefAsk[i].value]
  /\ prefAsk' = [prefAsk EXCEPT ![i] = NoAsk]
  /\ UNCHANGED <<active, directVars, rooms, pollVars, crossedPref, storyVars, appVars, folkFaults>>

------------------------
(* A story of the administrator; people who share a conversation are contacts. *)

Contacts(p, q) == p = q \/ direct[{p, q}] > 0

\* The rows of a custom audience are those of active users; one short, and the story is
\* rolled back.
CreateStory(audience, users) ==
  /\ story = NoStory
  /\ audience = "CUSTOM" => users # {} /\ Cardinality(users \intersect active) = Cardinality(users)
  /\ story' = [audience |-> audience, allowed |-> IF audience = "CUSTOM" THEN users \intersect active ELSE {}, seen |-> {}]
  /\ asked' = IF audience = "CUSTOM" THEN users ELSE {}
  /\ UNCHANGED <<active, directVars, rooms, pollVars, prefVars, appVars, folkFaults>>

MayView(p) ==
  \/ story.audience = "PUBLIC" \/ p = Administrator
  \/ story.audience = "CONTACTS" /\ Contacts(Administrator, p)
  \/ story.audience = "CUSTOM" /\ p \in story.allowed

ViewStory(p) ==
  /\ story.audience # "NONE" /\ MayView(p) /\ story' = [story EXCEPT !.seen = @ \union {p}]
  /\ UNCHANGED <<active, directVars, rooms, pollVars, prefVars, asked, appVars, folkFaults>>

Deactivate(p) ==
  /\ p \in active /\ active' = active \ {p}
  /\ UNCHANGED <<directVars, rooms, pollVars, prefVars, storyVars, appVars, folkFaults>>

------------------------
(* Mini apps. *)

RegisterMiniApp(permissions) ==
  /\ ~app.registered /\ app' = [registered |-> TRUE, enabled |-> TRUE, permissions |-> permissions]
  /\ UNCHANGED <<active, directVars, rooms, pollVars, prefVars, storyVars, installs, launch, launched, folkFaults>>

\* Somebody changes the row of the app.
ChangeMiniApp(enabled, permissions) ==
  /\ app.registered /\ app' = [app EXCEPT !.enabled = enabled, !.permissions = permissions]
  /\ UNCHANGED <<active, directVars, rooms, pollVars, prefVars, storyVars, installs, launch, launched, folkFaults>>

InstallMiniApp(p) ==
  /\ app.enabled /\ installs' = [installs EXCEPT ![p] = [on |-> TRUE, permissions |-> app.permissions]]
  /\ UNCHANGED <<active, directVars, rooms, pollVars, prefVars, storyVars, app, launch, launched, folkFaults>>

\* The token carries the permissions of the app, not those that were granted.
OpenMiniApp(p) ==
  /\ app.enabled /\ installs[p].on
  /\ launch' = [launch EXCEPT ![p] = [valid |-> TRUE, permissions |-> app.permissions]]
  /\ UNCHANGED <<active, directVars, rooms, pollVars, prefVars, storyVars, app, installs, launched, folkFaults>>

LaunchExpires(p) ==
  /\ launch[p].valid /\ launch' = [launch EXCEPT ![p].valid = FALSE]
  /\ UNCHANGED <<active, directVars, rooms, pollVars, prefVars, storyVars, app, installs, launched, folkFaults>>

StillGranted(p) == app.enabled /\ installs[p].on /\ launch[p].permissions \subseteq installs[p].permissions

VerifyMiniAppLaunch(p) ==
  /\ launch[p].valid /\ StillGranted(p)
  /\ launched' = launched \union {<<p, launch[p].permissions \ installs[p].permissions>>}
  /\ UNCHANGED <<active, directVars, rooms, pollVars, prefVars, storyVars, app, installs, launch, folkFaults>>

------------------------

DirectNext ==
  \/ \E t \in Tabs : CreateDirect(t) \/ \E p \in Folk : AskDirect(t, p)
  \/ \E slug \in Slugs, p \in Folk : JoinCommunity(p, slug) \/ \E k \in {"CHANNEL", "COMMUNITY"} : CreateRoom(p, slug, k)
PollNext ==
  \/ ClosePoll \/ \E multiple \in BOOLEAN : CreatePoll(multiple)
  \/ \E t \in Tabs : ClearVotes(t) \/ InsertVote(t) \/ VoteFails(t) \/ \E choice \in SUBSET PollOptions : AskToVote(t, choice)
PreferenceNext == \E i \in 1..2 : WritePreference(i) \/ \E f \in Fields, v \in BOOLEAN : ReadPreference(i, f, v)
StoryNext ==
  \/ \E audience \in {"PUBLIC", "CONTACTS", "PRIVATE", "CUSTOM"}, users \in SUBSET Folk : CreateStory(audience, users)
  \/ \E p \in Folk : ViewStory(p) \/ Deactivate(p)
AppNext ==
  \/ \E permissions \in SUBSET Permissions :
       RegisterMiniApp(permissions) \/ \E enabled \in BOOLEAN : ChangeMiniApp(enabled, permissions)
  \/ \E p \in Folk : InstallMiniApp(p) \/ OpenMiniApp(p) \/ LaunchExpires(p) \/ VerifyMiniAppLaunch(p)

CommunityNext == DirectNext \/ PollNext \/ PreferenceNext \/ StoryNext \/ AppNext
CommunitySpec == CommunityInit /\ [][CommunityNext]_folkVars

------------------------
(* Properties. *)

\* Rows keep their types.
FolkTypeOK ==
  /\ active \subseteq Folk /\ \A c \in DOMAIN direct : direct[c] \in 0..Cardinality(Tabs)
  /\ \A s \in Slugs : rooms[s].kind \in {"NONE", "CHANNEL", "COMMUNITY"} /\ rooms[s].role \in [Folk -> {"NONE", "OWNER", "MEMBER"}]
  /\ votes \in [Folk -> SUBSET PollOptions] /\ pref \in [Fields -> BOOLEAN] /\ story.seen \subseteq Folk

\* Two people have one direct conversation, whoever asks and however often, unless both
\* asked before either conversation was there.
DirectIsShared == \A c \in DOMAIN direct : direct[c] > 1 => c \in collided

\* A poll of one choice counts one vote of a person, unless the person voted in two tabs
\* at once; and a vote is only lost to a request that broke off.
OneChoice == ~poll.multiple => \A p \in Folk \ doubled : Cardinality(votes[p]) <= 1

\* Setting one field of a preference leaves the other as it was set, unless two updates
\* were open at once.
PreferencesKept == ~crossedPref => pref = wish

\* A channel or a community keeps the owner it was made with, also when the owner joins.
OwnerStays == \A s \in Slugs : rooms[s].kind # "NONE" => rooms[s].role[Administrator] = "OWNER"

\* A custom story is for everybody its author named.
AudienceIsComplete == story.audience = "CUSTOM" => story.allowed = asked /\ asked # {}

\* No launch is accepted with a permission the user did not grant at the installation.
LaunchIsGranted == \A l \in launched : l[2] = {}

CommunityHolds ==
  /\ FolkTypeOK /\ DirectIsShared /\ OneChoice /\ PreferencesKept /\ OwnerStays
  /\ AudienceIsComplete /\ LaunchIsGranted
====
