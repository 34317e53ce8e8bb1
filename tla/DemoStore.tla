---- MODULE DemoStore ----
(* The web application's own answers under /api/v1, which it uses when no API is configured: a store
   in the memory of the process (store.ts) and the requests that read and change it (route.ts). A
   record created by a request is numbered by the millisecond, so that two of one moment share a
   number. *)
EXTENDS Integers, FiniteSets, SequencesExt

CONSTANTS
  DemoCodes,      \* voucher codes a batch may draw
  MaxDemoTime,    \* bound on milliseconds
  MaxDemoRows     \* bound on rows a request may add to a list

VARIABLES
  shelf,        \* packages, in the order of the list
  vouchers,     \* newest first
  subscribers,  \* customers, newest first
  gear,         \* routers
  inSession,    \* sessions, whose order nothing depends on
  bindings,     \* access bindings
  demoNow,      \* Date.now()
  redeemed      \* redemptions that found a voucher

demoVars == <<shelf, vouchers, subscribers, gear, inSession, bindings, demoNow, redeemed>>

\* Date.now() in an identifier, apart from those of the initial data.
NewId == 100 + demoNow

DemoPackages == <<
  [id |-> 1, price |-> 1500, devices |-> 1, portal |-> TRUE], [id |-> 2, price |-> 3500, devices |-> 2, portal |-> TRUE],
  [id |-> 3, price |-> 18000, devices |-> 3, portal |-> TRUE], [id |-> 4, price |-> 65000, devices |-> 6, portal |-> TRUE],
  [id |-> 5, price |-> 120000, devices |-> 12, portal |-> TRUE], [id |-> 6, price |-> 0, devices |-> 1, portal |-> TRUE]>>

DemoVoucher(id, code, package, status, devices) ==
  [id |-> id, code |-> code, package |-> package, status |-> status, devices |-> devices]
DemoVouchers == <<
  DemoVoucher(1, "JAS-8812", 2, "UNUSED", 2), DemoVoucher(2, "JAS-9421", 2, "UNUSED", 2),
  DemoVoucher(3, "JAS-1149", 1, "UNUSED", 1), DemoVoucher(4, "JAS-3320", 3, "USED", 3),
  DemoVoucher(5, "WIFI-5512", 1, "UNUSED", 1)>>

DemoCustomers == [i \in 1..5 |-> i]
DemoRouters == <<1, 2, 3, 4>>
DemoSessions == {[id |-> 1, customer |-> 1, router |-> 2], [id |-> 2, customer |-> 2, router |-> 4],
                 [id |-> 3, customer |-> 3, router |-> 3], [id |-> 4, customer |-> 4, router |-> 1]}
DemoSales == <<[customer |-> 1, package |-> 2, amount |-> 3500], [customer |-> 2, package |-> 3, amount |-> 18000],
               [customer |-> 3, package |-> 1, amount |-> 1500], [customer |-> 4, package |-> 4, amount |-> 65000]>>
DemoBindings == [i \in 1..5 |-> IF i = 5 THEN "SUSPENDED" ELSE "ACTIVE"]

DemoInit ==
  /\ shelf = DemoPackages /\ vouchers = DemoVouchers /\ subscribers = DemoCustomers /\ gear = DemoRouters
  /\ inSession = DemoSessions /\ bindings = DemoBindings /\ demoNow = 0 /\ redeemed = 0

DemoTick ==
  /\ demoNow < MaxDemoTime /\ demoNow' = demoNow + 1
  /\ UNCHANGED <<shelf, vouchers, subscribers, gear, inSession, bindings, redeemed>>

------------------------
(* Requests. *)

CreateDemoCustomer ==
  /\ Len(subscribers) < Len(DemoCustomers) + MaxDemoRows
  /\ subscribers' = <<NewId>> \o subscribers
  /\ UNCHANGED <<shelf, vouchers, gear, inSession, bindings, demoNow, redeemed>>

CreateDemoRouter ==
  /\ Len(gear) < Len(DemoRouters) + MaxDemoRows
  /\ gear' = Append(gear, NewId)
  /\ UNCHANGED <<shelf, vouchers, subscribers, inSession, bindings, demoNow, redeemed>>

\* Mutant: a new package heads the list, as customers and vouchers do.
ShelvedFirst(package) == <<package>> \o shelf
Shelved(package) == Append(shelf, package)

CreateDemoPackage(devices, portal) ==
  /\ Len(shelf) < Len(DemoPackages) + MaxDemoRows
  /\ shelf' = Shelved([id |-> NewId, price |-> 5000, devices |-> devices, portal |-> portal])
  /\ UNCHANGED <<vouchers, subscribers, gear, inSession, bindings, demoNow, redeemed>>

\* find() over the rows that match, of which it returns the first.
Found(hits) == IF hits = {} THEN 0 ELSE CHOOSE i \in hits : \A j \in hits : i <= j

\* On the identifier, or the first of the list.
PackageAt(id) == Found({i \in DOMAIN shelf : shelf[i].id = id})
PackageFor(id) == shelf[IF PackageAt(id) = 0 THEN 1 ELSE PackageAt(id)]

\* The codes are drawn at random, and may be codes that exist.
CreateBatch(id, codes) ==
  /\ Len(vouchers) + Len(codes) <= Len(DemoVouchers) + MaxDemoRows
  /\ vouchers' = Reverse([i \in DOMAIN codes |->
                    DemoVoucher(NewId, codes[i], PackageFor(id).id, "UNUSED", PackageFor(id).devices)]) \o vouchers
  /\ UNCHANGED <<shelf, subscribers, gear, inSession, bindings, demoNow, redeemed>>

Unused(code) == Found({i \in DOMAIN vouchers : vouchers[i].code = code /\ vouchers[i].status = "UNUSED"})

\* The answer says redeemed whether a voucher was found or not.
RedeemDemo(code) ==
  /\ IF Unused(code) = 0 THEN UNCHANGED <<vouchers, redeemed>>
     ELSE vouchers' = [vouchers EXCEPT ![Unused(code)].status = "USED"] /\ redeemed' = redeemed + 1
  /\ UNCHANGED <<shelf, subscribers, gear, inSession, bindings, demoNow>>

\* With a state, or turned over without.
SetBinding(id, state) ==
  /\ bindings' = [bindings EXCEPT ![id] = IF state # "" THEN state ELSE IF @ = "ACTIVE" THEN "SUSPENDED" ELSE "ACTIVE"]
  /\ UNCHANGED <<shelf, vouchers, subscribers, gear, inSession, demoNow, redeemed>>

TerminateSession(id) ==
  /\ inSession' = {s \in inSession : s.id # id}
  /\ UNCHANGED <<shelf, vouchers, subscribers, gear, bindings, demoNow, redeemed>>

ShelfNext ==
  \/ \E devices \in 1..2 : CreateDemoPackage(devices, TRUE)
  \/ \E id \in {1, 7} \union {shelf[i].id : i \in DOMAIN shelf}, c, d \in DemoCodes :
       CreateBatch(id, <<c>>) \/ CreateBatch(id, <<c, d>>)
  \/ \E code \in DemoCodes \union {"JAS-8812", "JAS-3320"} : RedeemDemo(code)

ListNext ==
  \/ CreateDemoCustomer \/ CreateDemoRouter
  \/ \E portal \in BOOLEAN : CreateDemoPackage(1, portal)
  \/ \E id \in {1, 5}, state \in {"ACTIVE", "SUSPENDED", ""} : SetBinding(id, state)
  \/ \E id \in {1, 4} : TerminateSession(id)

DemoNext == DemoTick \/ ShelfNext \/ ListNext
DemoSpec == DemoInit /\ [][DemoNext]_demoVars

------------------------
(* Properties. *)

CodesOnShow == DemoCodes \union {DemoVouchers[i].code : i \in DOMAIN DemoVouchers}

\* Lists hold rows of their kind, and codes are those of the initial data or were drawn.
DemoTypeOK ==
  /\ shelf \in Seq([id : Nat, price : Nat, devices : Nat, portal : BOOLEAN])
  /\ vouchers \in Seq([id : Nat, code : CodesOnShow, package : Nat, status : {"UNUSED", "USED"}, devices : Nat])
  /\ subscribers \in Seq(Nat) /\ gear \in Seq(Nat) /\ bindings \in Seq({"ACTIVE", "SUSPENDED"})

\* What a voucher admits is what the package found under its number admits, also when two
\* packages were made in one millisecond: the list is only added to at its end.
LimitIsItsPackages == \A i \in DOMAIN vouchers :
  /\ PackageAt(vouchers[i].package) # 0
  /\ vouchers[i].devices = PackageFor(vouchers[i].package).devices

\* A redemption that finds a voucher uses up one, whatever codes the batches drew.
RedeemedOneByOne == redeemed = Cardinality({i \in DOMAIN vouchers : vouchers[i].status = "USED"}) - 1

\* The sessions and the sales on show are of customers, routers and packages on show, at
\* the package's price.
ShownBelongTogether ==
  /\ \A s \in inSession : s.customer \in ToSet(subscribers) /\ s.router \in ToSet(gear)
  /\ \A i \in DOMAIN DemoSales : /\ DemoSales[i].customer \in ToSet(subscribers)
                                 /\ DemoSales[i].amount = PackageFor(DemoSales[i].package).price

DemoHolds == DemoTypeOK /\ LimitIsItsPackages /\ RedeemedOneByOne /\ ShownBelongTogether
====
