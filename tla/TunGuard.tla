------------------------------ MODULE TunGuard ------------------------------
(***************************************************************************)
(* The pre-flight check of a connect: would another tunnel fight ours for  *)
(* the default route?  adapters/windows reads the route table row by row   *)
(* into one accumulator per interface and address family                   *)
(* (routes_windows.go), decides which interfaces capture a whole family    *)
(* and at which metric (routes_cover.go), and core/tunguard compares them  *)
(* with the physical uplink; control.checkTunConflict turns the answer     *)
(* into a refusal or a go-ahead.                                           *)
(*                                                                         *)
(* Addresses are Bits bits wide.  The names the tunnel patterns and the    *)
(* own-name prefix look at are attributes of an interface.                 *)
(***************************************************************************)
EXTENDS Integers, FiniteSets

CONSTANTS
    Bits,      \* width of an address
    Ifaces,    \* the interfaces: records [name, up, physical, ours, named, iftype, metric],
               \* the metric one per family
    Rows,      \* the rows a route table may hold
    MaxRows,   \* bound: rows in one table
    MaxMetric  \* the largest metric the field holds (2^32 - 1)

\* 1 shifted left by k.
Shift[k \in 0..Bits] == IF k = 0 THEN 1 ELSE 2 * Shift[k - 1]

Total == Shift[Bits]
Addresses == 0..(Total - 1)
Families == {4, 6}

ASSUME TunGuardAssumption ==
    /\ Bits \in Nat \ {0} /\ MaxRows \in Nat /\ MaxMetric \in Nat
    /\ \A i \in Ifaces, f \in Families : i.metric[f] \in 0..MaxMetric
    /\ \A r \in Rows : r.iface \in Ifaces /\ r.family \in Families /\ r.ones \in 0..Bits
                       /\ r.dest \in Addresses /\ r.metric \in 0..MaxMetric

VARIABLES
    known,   \* GetAdaptersAddresses answered: descriptions, types and metrics are there
    table,   \* the rows of the route table read so far
    verdict  \* "none" while the check runs, then "clear" or "refused"

guardVars == <<known, table, verdict>>

-----------------------------------------------------------------------------
(* Route coverage, adapters/windows/routes_cover.go.                       *)

\* Every bit below the first `ones` is clear.
isNetworkAddress(addr, ones) == addr % Shift[Bits - ones] = 0

\* The route metric plus the interface metric, saturating.
addMetric(route, iface) == IF route + iface > MaxMetric THEN MaxMetric ELSE route + iface

ifaceMetric(i, f) == IF known THEN i.metric[f] ELSE 0

\* What the accumulator of one interface and family holds.
routeCover(i, f) ==
    {[ones |-> r.ones, addr |-> r.dest, metric |-> addMetric(r.metric, ifaceMetric(i, f))] :
        r \in {r \in table : r.iface = i /\ r.family = f /\ isNetworkAddress(r.dest, r.ones)}}

Span(p) == [start |-> p.addr, end |-> p.addr + Shift[Bits - p.ones]]
SpansWithin(prefixes, maxMetric) == {Span(p) : p \in {q \in prefixes : q.metric <= maxMetric}}

\* Mutant: a span that begins past what is covered is skipped.
coversLoosely(prefixes, maxMetric) ==
    \E s \in SpansWithin(prefixes, maxMetric) : s.end >= Total

\* The sweep takes the spans by ascending start and goes no further than the
\* first gap.
Lowest(spans) == CHOOSE s \in spans : \A t \in spans : s.start <= t.start
Swept(w) ==
    LET s == Lowest(w.left)
    IN [left |-> w.left \ {s},
        covered |-> IF s.start > w.covered \/ s.end <= w.covered THEN w.covered ELSE s.end]
coversWithin(prefixes, maxMetric) ==
    LET spans == SpansWithin(prefixes, maxMetric)
        sweep[k \in 0..Cardinality(spans)] ==
            IF k = 0 THEN [left |-> spans, covered |-> 0] ELSE Swept(sweep[k - 1])
    IN sweep[Cardinality(spans)].covered >= Total

Metrics(prefixes) == {p.metric : p \in prefixes}

\* The lowest metric whose routes already tile the family, or -1.
coverMetric(prefixes) ==
    LET enough == {m \in Metrics(prefixes) : coversWithin(prefixes, m)}
    IN IF enough = {} THEN -1 ELSE CHOOSE m \in enough : \A n \in enough : m <= n

-----------------------------------------------------------------------------
(* The decision, core/tunguard/tunguard.go.                                *)

\* The interfaces reported: those that are up.
Interfaces == {i \in Ifaces : i.up}

familyDefault(i, f) == coverMetric(routeCover(i, f))

isOwn(i) == i.ours

\* What the adapter said, or what the name or the description looks like.
IsTunnelIface(i) == i.named \/ (known /\ i.iftype)

\* The best default metric among interfaces that are neither tunnels nor ours.
uplinkMetric(f) ==
    LET metrics == {familyDefault(i, f) : i \in {i \in Interfaces : ~IsTunnelIface(i) /\ ~isOwn(i)}} \ {-1}
    IN IF metrics = {} THEN -1 ELSE CHOOSE m \in metrics : \A n \in metrics : m <= n

\* Mutant: a default route parked at a losing metric counts.
winsParked(i, f) == familyDefault(i, f) # -1

\* It can be chosen: ties count, and with no uplink nothing beats it.
winsRoute(i, f) ==
    /\ familyDefault(i, f) # -1
    /\ uplinkMetric(f) = -1 \/ familyDefault(i, f) <= uplinkMetric(f)

Conflicts ==
    {i \in Interfaces : ~isOwn(i) /\ IsTunnelIface(i) /\ \E f \in Families : winsRoute(i, f)}

-----------------------------------------------------------------------------
(* The check.                                                              *)

ScanInit ==
    /\ known \in BOOLEAN
    /\ table = {}
    /\ verdict = "none"

\* readRoutes folds one more row into its accumulator.
readRoutes ==
    /\ verdict = "none" /\ Cardinality(table) < MaxRows
    /\ \E r \in Rows \ table : table' = table \cup {r}
    /\ UNCHANGED <<known, verdict>>

\* No probe on this platform, an override, system-proxy mode, or a table that
\* could not be read: the connect goes on unchecked.
Unchecked ==
    /\ verdict = "none"
    /\ verdict' = "clear"
    /\ table' = {} /\ known' = FALSE

\* The whole table is read and judged.
checkTunConflict ==
    /\ verdict = "none"
    /\ verdict' = IF Conflicts # {} THEN "refused" ELSE "clear"
    /\ table' = {} /\ known' = FALSE

ScanNext == readRoutes \/ Unchecked \/ checkTunConflict

-----------------------------------------------------------------------------
(* Reference: how the stack picks a route for one address.                 *)

Holds(r, a) == /\ isNetworkAddress(r.dest, r.ones)
               /\ r.dest <= a /\ a < r.dest + Shift[Bits - r.ones]

Effective(r) == addMetric(r.metric, r.iface.metric[r.family])

\* Longest prefix first, then the lower metric.
Preferred(r, s) == r.ones > s.ones \/ (r.ones = s.ones /\ Effective(r) < Effective(s))

Live(f) == {r \in table : r.iface.up /\ r.family = f}

\* i may carry the packets for address a: no physical route beats it there.
MayCarry(i, f, a) ==
    \E r \in Live(f) : /\ r.iface = i /\ Holds(r, a)
                       /\ \A s \in Live(f) : s.iface.physical /\ Holds(s, a) => ~Preferred(s, r)

\* i carries the packets for a: it beats every physical route there.
Carries(i, f, a) ==
    \E r \in Live(f) : /\ r.iface = i /\ Holds(r, a)
                       /\ \A s \in Live(f) : s.iface.physical /\ Holds(s, a) => Preferred(r, s)

-----------------------------------------------------------------------------
\* The sweep over sorted spans finds what it is for: an interface is reported
\* as capturing a family at metric m exactly when every address is covered by
\* its well-formed routes of metric m or less, and by no smaller set of metrics.
SweepIsCover ==
    \A i \in Ifaces, f \in Families :
        LET P == routeCover(i, f)
            Tiles(m) == \A a \in Addresses : \E p \in P :
                            p.metric <= m /\ p.addr <= a /\ a < p.addr + Shift[Bits - p.ones]
        IN IF familyDefault(i, f) = -1
             THEN ~Tiles(MaxMetric)
             ELSE Tiles(familyDefault(i, f)) /\ \A m \in 0..(familyDefault(i, f) - 1) : ~Tiles(m)

\* Every address of f has a physical route more specific than a default: the
\* uplinks win by prefix, and the guard, which compares metrics, does not see it.
Overridden(f) ==
    \A a \in Addresses : \E s \in Live(f) : s.iface.physical /\ s.ones > 0 /\ Holds(s, a)

\* The guard does not cry wolf: with the adapter list at hand, each interface a
\* refusal names is another client's, is up, and captures a family of which some
\* packets really could go into it, however many uplinks there are and whatever
\* they cost.  The one false alarm left is a family the uplinks' own split
\* routes cover.
RefusalIsJustified ==
    [][checkTunConflict /\ known /\ verdict' = "refused" =>
        /\ Conflicts # {}
        /\ \A i \in Conflicts :
              /\ i.up /\ ~i.physical /\ ~i.ours
              /\ \E f \in Families : /\ familyDefault(i, f) # -1
                                     /\ Overridden(f) \/ \E a \in Addresses : MayCarry(i, f, a)]_guardVars

\* routes_cover.go: the split pair covers everything and wins "regardless of
\* metric", and the guard exists to see it.  A tunnel that carries every address
\* of a family is never cleared.
CapturedIsRefused ==
    [][checkTunConflict /\ known /\ verdict' = "clear" =>
        ~\E i \in Ifaces, f \in Families :
            i.up /\ ~i.physical /\ ~i.ours /\ \A a \in Addresses : Carries(i, f, a)]_guardVars
=============================================================================
