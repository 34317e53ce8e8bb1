---- MODULE Addresses ----
(* The address inventory of a tenant. A pool is created by a search for an overlap and an insert
   that nothing ties together; adding and allocating an address lock the pool row; an address is
   released by its id, whoever holds it by then. *)
EXTENDS Integers, FiniteSets

CONSTANTS Pools,        \* pool rows
          Networks,     \* networks asked for: [net, gateway]
          Inventory,    \* addresses
          Holders,      \* customers, routers or sessions an address is given to
          Operators,    \* requests under way at once
          MaxAsked      \* bound: requests

ASSUME AddressAssumption ==
  /\ IsFiniteSet(Inventory) /\ IsFiniteSet(Operators) /\ MaxAsked \in Nat
  /\ "none" \notin Holders
  /\ \A n \in Networks : n.net \subseteq Inventory /\ n.gateway \in n.net

VARIABLES pool,         \* ipam_pools: the network of each row, or none
          address,      \* ipam_addresses: pool, status and holder, or none
          ask,          \* the request of each operator
          askedFor,     \* bound counter
          overlapped    \* two creations of a pool crossed
ivars == <<pool, address, ask, askedFor, overlapped>>

NoPool == [net |-> {}, gateway |-> "none"]
NoAddress == [pool |-> "none", status |-> "none", holder |-> "none"]
NoCall == [kind |-> "none", pool |-> "none", net |-> NoPool, address |-> "none", meant |-> "none", holder |-> "none"]

AddressesInit ==
  /\ pool = [p \in Pools |-> NoPool]
  /\ address = [a \in Inventory |-> NoAddress]
  /\ ask = [o \in Operators |-> NoCall]
  /\ askedFor = 0 /\ overlapped = FALSE

Standing == {p \in Pools : pool[p] # NoPool}
Asking(kind) == {o \in Operators : ask[o].kind = kind}
Asks(o, a) ==
  /\ ask[o].kind = "none" /\ askedFor < MaxAsked
  /\ askedFor' = askedFor + 1
  /\ ask' = [ask EXCEPT ![o] = a]
Over(o) == ask' = [ask EXCEPT ![o] = NoCall]

\* createPool, the search: no pool of the tenant overlaps the network.
SearchOverlap(o) ==
  /\ \E p \in Pools \ Standing, n \in Networks :
       /\ \A q \in Standing : pool[q].net \cap n.net = {}
       /\ \A r \in Operators : ask[r].pool # p
       /\ Asks(o, [NoCall EXCEPT !.kind = "insert", !.pool = p, !.net = n])
  /\ overlapped' = (overlapped \/ Asking("insert") # {})
  /\ UNCHANGED <<pool, address>>

\* createPool, the insert, under a name of its own.
InsertPool(o) ==
  /\ ask[o].kind = "insert"
  /\ pool' = [pool EXCEPT ![ask[o].pool] = ask[o].net]
  /\ Over(o)
  /\ UNCHANGED <<address, askedFor, overlapped>>

\* addAddress: inside the network, not its gateway, and not in the tenant yet.
AddAddress(o) ==
  /\ ask[o].kind = "none" /\ askedFor < MaxAsked /\ askedFor' = askedFor + 1
  /\ \E p \in Standing, st \in {"AVAILABLE", "RESERVED"} :
       \E a \in pool[p].net \ {pool[p].gateway} :
         /\ address[a] = NoAddress
         /\ address' = [address EXCEPT ![a] = [pool |-> p, status |-> st, holder |-> "none"]]
  /\ UNCHANGED <<pool, ask, overlapped>>

\* The address a request asks for, or the first available one.
Candidates(p, want) ==
  LET free == {a \in Inventory : address[a].pool = p /\ address[a].status = "AVAILABLE"}
  IN  IF want = "any" THEN free ELSE free \cap {want}

\* allocate: one transaction under the lock of the pool row; its audit entry
\* follows the commit.
AllocateAddress(o) ==
  /\ \E p \in Standing, h \in Holders, want \in Inventory \cup {"any"} :
       \E a \in Candidates(p, want) :
         /\ Asks(o, [NoCall EXCEPT !.kind = "audit", !.address = a, !.holder = h])
         /\ address' = [address EXCEPT ![a] = [@ EXCEPT !.status = "ALLOCATED", !.holder = h]]
  /\ UNCHANGED <<pool, overlapped>>

\* Somebody decides to release an address he sees allocated.
ChooseRelease(o) ==
  /\ \E a \in Inventory :
       /\ address[a].status = "ALLOCATED"
       /\ Asks(o, [NoCall EXCEPT !.kind = "release", !.address = a, !.meant = address[a].holder])
  /\ UNCHANGED <<pool, address, overlapped>>

\* release: by the id, while it is allocated.
Release(o) ==
  /\ ask[o].kind = "release"
  /\ LET a == ask[o].address IN
     IF address[a].status = "ALLOCATED"
       THEN /\ address' = [address EXCEPT ![a] = [@ EXCEPT !.status = "AVAILABLE", !.holder = "none"]]
            /\ ask' = [ask EXCEPT ![o].kind = "audit"]
       ELSE Over(o) /\ UNCHANGED address
  /\ UNCHANGED <<pool, askedFor, overlapped>>

WriteAudit(o) ==
  /\ ask[o].kind = "audit"
  /\ Over(o)
  /\ UNCHANGED <<pool, address, askedFor, overlapped>>

\* The answer to a release is lost and the release is asked for again.
AskAgain(o) ==
  /\ ask[o].kind = "audit" /\ ask[o].meant # "none" /\ askedFor < MaxAsked
  /\ askedFor' = askedFor + 1
  /\ ask' = [ask EXCEPT ![o].kind = "release"]
  /\ UNCHANGED <<pool, address, overlapped>>

AddressesNext ==
  \E o \in Operators :
    \/ SearchOverlap(o) \/ InsertPool(o) \/ AddAddress(o) \/ AllocateAddress(o)
    \/ ChooseRelease(o) \/ Release(o) \/ WriteAudit(o) \/ AskAgain(o)

AddressesSpec == AddressesInit /\ [][AddressesNext]_ivars

------------------------
(* Properties. *)

AddressesTypeOK ==
  /\ address \in [Inventory -> [pool : Pools \cup {"none"}, holder : Holders \cup {"none"},
                                status : {"none", "AVAILABLE", "RESERVED", "ALLOCATED"}]]
  /\ askedFor \in 0 .. MaxAsked

\* As long as no two creations crossed, the pools are disjoint and the gateway
\* of no pool is given to anybody.
PoolsAreApart ==
  ~overlapped =>
    /\ \A p, q \in Standing : p # q => pool[p].net \cap pool[q].net = {}
    /\ \A p \in Standing : address[pool[p].gateway].status # "ALLOCATED"

\* An address in somebody's hands stays in its pool and is never given to
\* another before it has been released, and only allocated ones have a holder.
GivenOnce ==
  [][\A a \in Inventory :
       /\ address[a].holder # "none" => address'[a].holder \in {address[a].holder, "none"}
       /\ address[a].pool # "none" => address'[a].pool = address[a].pool
       /\ (address'[a].holder # "none") <=> (address'[a].status = "ALLOCATED")]_ivars

AddressesHold == [](AddressesTypeOK /\ PoolsAreApart) /\ GivenOnce
====
