---- MODULE Vault ----
(* The secrets of a tenant under the keys of a key ring, and the audit chain their changes are
   written to. Every change is one transaction that ends with its audit entry; processes run with
   the key ring and the active key they were started with. *)
EXTENDS Integers, FiniteSets

CONSTANTS Secrets,      \* secret keys of the tenant
          KeyIds,       \* identifiers of vault keys
          Processes,    \* API processes
          MaxDeploys,   \* bound: restarts with another key ring
          MaxChanges    \* bound: transactions begun

ASSUME VaultAssumption ==
  /\ IsFiniteSet(Secrets) /\ IsFiniteSet(Processes) /\ KeyIds # {}
  /\ MaxDeploys \in Nat /\ MaxChanges \in Nat /\ "none" \notin Processes

VARIABLES secret,       \* tenant_secrets: key id and version, or none
          ring,         \* of every process: the keys it has and the active one
          tx,           \* of every process: its transaction
          head,         \* entries committed to the chain, and its head row
          headLock,     \* the transaction that holds the head row, if any
          verify,       \* an integrity check between its two reads
          alarm,        \* verdicts: false alarms with nothing written in between
          deploys, begun, retired
vvars == <<secret, ring, tx, head, headLock, verify, alarm, deploys, begun, retired>>

NoSecret == [kid |-> "none", version |-> 0]
NoTx == [op |-> "none", rows |-> {}, todo |-> {}, write |-> [n \in {} |-> NoSecret], calm |-> FALSE]
Rings == {r \in [keys : SUBSET KeyIds, active : KeyIds] : r.active \in r.keys}

Present == {n \in Secrets : secret[n] # NoSecret}
Locked(n) == \E p \in Processes : n \in tx[p].rows
AllActive(k) == \A p \in Processes : ring[p].active = k

VaultInit ==
  /\ \E k \in KeyIds :
       /\ secret = [n \in Secrets |-> [kid |-> k, version |-> 1]]
       /\ ring = [p \in Processes |-> [keys |-> {k}, active |-> k]]
       /\ retired = k
  /\ tx = [p \in Processes |-> NoTx]
  /\ head = [entries |-> 0, last |-> 0] /\ headLock = "none"
  /\ verify = [pc |-> "none", total |-> 0, moved |-> FALSE]
  /\ alarm = FALSE /\ deploys = 0 /\ begun = 0

Begin(p, t) ==
  /\ tx[p].op = "none" /\ begun < MaxChanges
  /\ begun' = begun + 1
  /\ tx' = [tx EXCEPT ![p] = t]
  /\ UNCHANGED <<secret, ring, head, headLock, verify, alarm, deploys, retired>>

\* create: the value is encrypted under the active key; the unique key of an
\* uncommitted row makes a second create wait.
CreateSecret(p) ==
  \E n \in Secrets \ Present :
    /\ ~Locked(n)
    /\ Begin(p, [NoTx EXCEPT !.op = "create", !.rows = {n},
                   !.write = [m \in {n} |-> [kid |-> ring[p].active, version |-> 1]]])

DeleteSecret(p) ==
  \E n \in Present :
    /\ ~Locked(n)
    /\ Begin(p, [NoTx EXCEPT !.op = "delete", !.rows = {n}, !.write = [m \in {n} |-> NoSecret]])

\* Mutant: rows in the hands of another transaction are passed over.
RotateUnlocked(p) ==
  LET rows == {n \in Present : ~Locked(n)}
  IN  Begin(p, [NoTx EXCEPT !.op = "all", !.rows = rows, !.todo = rows,
                  !.calm = AllActive(ring[p].active)])

\* rotateAll locks every row of the tenant before it looks at the first.
RotateAll(p) ==
  /\ \A n \in Present : ~Locked(n)
  /\ Begin(p, [NoTx EXCEPT !.op = "all", !.rows = Present, !.todo = Present,
                 !.calm = AllActive(ring[p].active)])

\* rotateOne: a row under the active key is left as it is, without an entry.
RotateOne(p) ==
  \E n \in Present :
    /\ ~Locked(n) /\ secret[n].kid # ring[p].active
    /\ Begin(p, [NoTx EXCEPT !.op = "one", !.rows = {n}, !.todo = {n}])

\* One row of a rotation: decrypted with the key it names, encrypted with the
\* active one.
RotateRow(p) ==
  /\ \E n \in tx[p].todo :
       LET old == secret[n] IN
       /\ old.kid \in ring[p].keys
       /\ tx' = [tx EXCEPT ![p].todo = @ \ {n},
                           ![p].write = IF old.kid = ring[p].active THEN @
                             ELSE [m \in DOMAIN @ \cup {n} |->
                                     IF m = n THEN [kid |-> ring[p].active, version |-> old.version + 1]
                                     ELSE @[m]]]
  /\ UNCHANGED <<secret, ring, head, headLock, verify, alarm, deploys, begun, retired>>

\* The audit entry: the trigger takes the head row of the chain.
AuditEntry(p) ==
  /\ tx[p].op # "none" /\ tx[p].todo = {} /\ headLock = "none"
  /\ headLock' = p
  /\ UNCHANGED <<secret, ring, tx, head, verify, alarm, deploys, begun, retired>>

Commit(p) ==
  /\ headLock = p /\ headLock' = "none"
  /\ secret' = [n \in Secrets |-> IF n \in DOMAIN tx[p].write THEN tx[p].write[n] ELSE secret[n]]
  /\ head' = [entries |-> head.entries + 1, last |-> head.last + 1]
  /\ verify' = [verify EXCEPT !.moved = @ \/ verify.pc = "head"]
  /\ retired' = IF tx[p].op = "all" /\ tx[p].calm THEN ring[p].active ELSE retired
  /\ tx' = [tx EXCEPT ![p] = NoTx]
  /\ UNCHANGED <<ring, alarm, deploys, begun>>

\* A row whose key is not in the ring, a refusal or the death of the process
\* rolls everything back.
Rollback(p) ==
  /\ tx[p].op # "none"
  /\ tx' = [tx EXCEPT ![p] = NoTx]
  /\ headLock' = IF headLock = p THEN "none" ELSE headLock
  /\ UNCHANGED <<secret, ring, head, verify, alarm, deploys, begun, retired>>

\* A process is restarted with another key ring; the other rotations under
\* way can no longer count on everybody using one key.
Deploy(p) ==
  /\ tx[p].op = "none" /\ deploys < MaxDeploys
  /\ \E r \in Rings \ {ring[p]} :
       /\ ring' = [ring EXCEPT ![p] = r]
       /\ tx' = [q \in Processes |-> [tx[q] EXCEPT !.calm = @ /\ r.active = ring[q].active]]
       /\ retired' = IF r.active = retired THEN retired ELSE "none"
  /\ deploys' = deploys + 1
  /\ UNCHANGED <<secret, head, headLock, verify, alarm, begun>>

\* verifyIntegrity: the entries in one statement, the head row in another.
VerifyEntries ==
  /\ verify.pc = "none"
  /\ verify' = [pc |-> "head", total |-> head.entries, moved |-> FALSE]
  /\ UNCHANGED <<secret, ring, tx, head, headLock, alarm, deploys, begun, retired>>
VerifyHead ==
  /\ verify.pc = "head"
  /\ alarm' = (alarm \/ (head.last # verify.total /\ ~verify.moved))
  /\ verify' = [pc |-> "none", total |-> 0, moved |-> FALSE]
  /\ UNCHANGED <<secret, ring, tx, head, headLock, deploys, begun, retired>>

VaultNext ==
  \/ \E p \in Processes :
       \/ CreateSecret(p) \/ DeleteSecret(p) \/ RotateAll(p) \/ RotateOne(p) \/ RotateRow(p)
       \/ AuditEntry(p) \/ Commit(p) \/ Rollback(p) \/ Deploy(p)
  \/ VerifyEntries \/ VerifyHead

VaultSpec == VaultInit /\ [][VaultNext]_vvars

------------------------
(* Properties. *)

VaultTypeOK ==
  /\ secret \in [Secrets -> {NoSecret} \cup [kid : KeyIds, version : 1 .. MaxChanges + 1]]
  /\ \A p \in Processes : ring[p] \in Rings
  /\ headLock \in Processes \cup {"none"}

\* Once a rotation of everything has been committed that began with every
\* process on one key, and as long as they stay on it, no secret needs another
\* key: the old one may leave the ring.
RetiredKeyIsUnused ==
  retired # "none" /\ AllActive(retired) => \A n \in Present : secret[n].kid = retired

\* The integrity check raises an alarm only when an entry was committed
\* between its two statements: rolled back changes leave no gap in the chain.
AlarmMeansMoved == ~alarm /\ head.entries = head.last

\* No row is in the hands of two transactions.
OneWriterPerSecret ==
  \A p, q \in Processes : p # q => tx[p].rows \cap tx[q].rows = {}

VaultHolds == VaultTypeOK /\ RetiredKeyIsUnused /\ AlarmMeansMoved /\ OneWriterPerSecret
====
