-------------------------- MODULE HealthAlertsProofs --------------------------
(***************************************************************************)
(* Theorems about HealthAlerts, for any dashboards, orders, answers,       *)
(* reports, thresholds and bounds.                                         *)
(***************************************************************************)
EXTENDS HealthAlerts, TLAPS

Severities == {"none", "warning", "critical"}

NodeRecords == [status : Statuses, reported_at : Int, report : Reports \cup {"none"},
                listening : BOOLEAN, ssh_failed : BOOLEAN]

Rows == [status : Active \cup {"none", "resolved"}, severity : Severities, resolved : BOOLEAN]

Readings == [pc : {"upsert"}, node : NodeRecords, at : Int, specs : SUBSET (DOMAIN Keys)]

NodeTypes ==
  /\ now \in 0..MaxClock /\ events \in 0..MaxEvents
  /\ node \in NodeRecords /\ node.reported_at \in -1..now

AlertTypes ==
  /\ alert \in [AlertKeys -> Rows]
  /\ \A key \in AlertKeys : alert[key].status = "resolved" => alert[key].resolved

\* What is left to do is part of what is to be said of the node as it was read.
ListingTypes ==
  /\ listing \in [Listings -> {Idle} \cup Readings]
  /\ \A l \in Listings : listing[l] # Idle =>
       listing[l].specs \subseteq Specs(listing[l].node, listing[l].at)

IInv == NodeTypes /\ AlertTypes /\ ListingTypes

-----------------------------------------------------------------------------
(* What build_node_health_alert_specs says *)

LEMMA KeysAre ==
  /\ DOMAIN Keys = 1..7 /\ \A i \in DOMAIN Keys : Keys[i] \in AlertKeys
  /\ \A key \in AlertKeys : \E i \in DOMAIN Keys : Keys[i] = key
  BY DEF Keys, AlertKeys

LEMMA SeverityType ==
  ASSUME NEW n \in NodeRecords, NEW at, NEW key
  PROVE  Severity(n, at, key) \in Severities
  BY DEF Severity, Severities

LEMMA SpecsType ==
  ASSUME NEW n, NEW at
  PROVE  Specs(n, at) \subseteq DOMAIN Keys
  BY DEF Specs

LEMMA ListingShapes ==
  ASSUME ListingTypes, NEW l \in Listings
  PROVE  /\ listing[l].pc \in {"idle", "upsert"}
         /\ listing[l].pc = "upsert" <=> listing[l] # Idle
         /\ listing[l].pc = "upsert" => listing[l] \in Readings
  BY DEF ListingTypes, Idle, Readings

-----------------------------------------------------------------------------
(* The steps keep the invariant *)

LEMMA ReadKeeps ==
  ASSUME IInv, NEW l \in Listings, Read(l)
  PROVE  IInv'
<1> DEFINE next == [pc |-> "upsert", node |-> node, at |-> now, specs |-> Specs(node, now)]
<1>1. next \in Readings /\ next.specs \subseteq Specs(next.node, next.at)
  BY SpecsType DEF IInv, NodeTypes, Readings
<1>2. listing' = [listing EXCEPT ![l] = next] /\ UNCHANGED <<now, node, alert, events>>
  BY DEF Read
<1> HIDE DEF next
<1>3. ListingTypes'
  BY <1>1, <1>2 DEF IInv, ListingTypes, Specs, Severity
<1> QED
  BY <1>2, <1>3 DEF IInv, NodeTypes, AlertTypes

LEMMA UpsertKeeps ==
  ASSUME IInv, NEW l \in Listings, Upsert(l)
  PROVE  IInv'
<1> PICK i \in listing[l].specs :
      /\ alert' = [alert EXCEPT ![Keys[i]] =
           [status |-> Reopened(@), resolved |-> @.resolved,
            severity |-> Severity(listing[l].node, listing[l].at, Keys[i])]]
      /\ listing' = [listing EXCEPT ![l].specs = @ \ {i}]
  BY DEF Upsert
<1>1. listing[l] \in Readings /\ i \in DOMAIN Keys /\ Keys[i] \in AlertKeys
  BY ListingShapes, KeysAre DEF IInv, Upsert, Readings
<1>2. AlertTypes'
  <2> DEFINE row == [status |-> Reopened(alert[Keys[i]]), resolved |-> alert[Keys[i]].resolved,
                     severity |-> Severity(listing[l].node, listing[l].at, Keys[i])]
  <2>1. alert[Keys[i]] \in Rows
    BY <1>1 DEF IInv, AlertTypes
  <2>2. listing[l].node \in NodeRecords
    BY <1>1 DEF Readings
  <2>3. row.severity \in Severities
    BY <2>2, SeverityType
  <2>4. row \in Rows /\ row.status # "resolved"
    BY <2>1, <2>3 DEF Rows, Reopened, Active
  <2> HIDE DEF row
  <2>5. alert' = [alert EXCEPT ![Keys[i]] = row]
    BY DEF row
  <2> QED
    BY <1>1, <2>4, <2>5 DEF IInv, AlertTypes
<1>3. ListingTypes'
  <2> DEFINE next == [listing[l] EXCEPT !.specs = @ \ {i}]
  <2>1. /\ next \in Readings /\ next.node = listing[l].node /\ next.at = listing[l].at
        /\ next.specs \subseteq listing[l].specs
    BY <1>1 DEF Readings
  <2>2. listing' = [listing EXCEPT ![l] = next]
    OBVIOUS
  <2> HIDE DEF next
  <2>3. next.specs \subseteq Specs(next.node, next.at)
    BY <2>1, ListingShapes DEF IInv, ListingTypes, Upsert
  <2> QED
    BY <2>1, <2>2, <2>3 DEF IInv, ListingTypes
<1> QED
  BY <1>2, <1>3 DEF IInv, NodeTypes, Upsert

LEMMA IdleKeeps ==
  ASSUME ListingTypes, NEW l \in Listings, listing' = [listing EXCEPT ![l] = Idle]
  PROVE  ListingTypes'
  BY DEF ListingTypes, Specs, Severity

LEMMA ResolveMissingKeeps ==
  ASSUME IInv, NEW l \in Listings, ResolveMissing(l)
  PROVE  IInv'
<1>1. AlertTypes'
  <2> SUFFICES ASSUME NEW key \in AlertKeys
               PROVE  /\ alert'[key] \in Rows
                      /\ alert'[key].status = "resolved" => alert'[key].resolved
    BY DEF AlertTypes, ResolveMissing
  <2>1. alert[key] \in Rows /\ (alert[key].status = "resolved" => alert[key].resolved)
    BY DEF IInv, AlertTypes
  <2>2. alert'[key] \in {alert[key], Resolve(alert[key])}
    BY DEF ResolveMissing
  <2> QED
    BY <2>1, <2>2 DEF Rows, Resolve
<1>2. ListingTypes'
  BY IdleKeeps DEF IInv, ResolveMissing
<1> QED
  BY <1>1, <1>2 DEF IInv, NodeTypes, ResolveMissing

LEMMA FailKeeps ==
  ASSUME IInv, NEW l \in Listings, Fail(l)
  PROVE  IInv'
<1>1. ListingTypes'
  BY IdleKeeps DEF IInv, Fail
<1> QED
  BY <1>1, HealthAlertsAssumption DEF IInv, NodeTypes, AlertTypes, Fail

LEMMA OrderKeeps ==
  ASSUME IInv, NEW key \in Answered, NEW status \in Answers, Order(key, status)
  PROVE  IInv'
<1> DEFINE row == [alert[key] EXCEPT !.status = status,
                                     !.resolved = IF status = "open" THEN FALSE ELSE @]
<1>1. key \in AlertKeys /\ status \in Active
  BY HealthAlertsAssumption
<1>2. row \in Rows /\ row.status # "resolved"
  BY <1>1 DEF IInv, AlertTypes, Rows, Active
<1>3. alert' = [alert EXCEPT ![key] = row]
  BY DEF Order
<1> HIDE DEF row
<1>4. AlertTypes'
  BY <1>1, <1>2, <1>3 DEF IInv, AlertTypes
<1> QED
  BY <1>4, HealthAlertsAssumption DEF IInv, NodeTypes, ListingTypes, Order

\* The node changes, whatever the change is.
LEMMA ChangeKeeps ==
  ASSUME IInv, NEW n \in NodeRecords, n.reported_at \in -1..now, Change(n)
  PROVE  IInv'
  BY HealthAlertsAssumption DEF IInv, NodeTypes, AlertTypes, ListingTypes, Change

LEMMA StoreReportKeeps ==
  ASSUME IInv, NEW report \in Reports, NEW listening \in BOOLEAN, StoreReport(report, listening)
  PROVE  IInv'
<1> DEFINE seen == IF node.status \in {"disabled", "draining"} THEN node
                   ELSE [node EXCEPT !.reported_at = now,
                           !.status =
                             IF report = "ready" /\ listening THEN "online" ELSE "degraded"]
           n == [seen EXCEPT !.report = report, !.listening = listening]
<1>1. seen \in NodeRecords /\ seen.reported_at \in -1..now
  <2>1. node \in NodeRecords /\ node.reported_at \in -1..now /\ now \in Nat /\ now \in -1..now
    BY HealthAlertsAssumption DEF IInv, NodeTypes
  <2>2. ASSUME NEW status \in Statuses
        PROVE  /\ [node EXCEPT !.reported_at = now, !.status = status] \in NodeRecords
               /\ [node EXCEPT !.reported_at = now, !.status = status].reported_at = now
    <3> DEFINE seenNow == [node EXCEPT !.reported_at = now]
    <3>1. seenNow \in NodeRecords /\ seenNow.reported_at = now
      BY <2>1 DEF NodeRecords
    <3>2. [node EXCEPT !.reported_at = now, !.status = status] = [seenNow EXCEPT !.status = status]
      BY <2>1 DEF NodeRecords
    <3> HIDE DEF seenNow
    <3> QED
      BY <3>1, <3>2 DEF NodeRecords
  <2>3. (IF report = "ready" /\ listening THEN "online" ELSE "degraded") \in Statuses
    BY DEF Statuses
  <2> QED
    BY <2>1, <2>2, <2>3
<1>2. Change(n)
  BY DEF StoreReport
<1> HIDE DEF seen
<1>3. n \in NodeRecords /\ n.reported_at \in -1..now
  BY <1>1 DEF NodeRecords
<1> HIDE DEF n
<1> QED
  BY <1>2, <1>3, ChangeKeeps

LEMMA StatusKeeps ==
  ASSUME IInv, NEW status \in Statuses, Change([node EXCEPT !.status = status])
  PROVE  IInv'
<1> DEFINE n == [node EXCEPT !.status = status]
<1>1. n \in NodeRecords /\ n.reported_at \in -1..now
  BY DEF IInv, NodeTypes, NodeRecords
<1> HIDE DEF n
<1> QED
  BY <1>1, ChangeKeeps DEF n

LEMMA CheckSshKeeps == ASSUME IInv, CheckSsh PROVE IInv'
<1> DEFINE n == [node EXCEPT !.ssh_failed = ~@]
<1>1. n \in NodeRecords /\ n.reported_at \in -1..now
  BY DEF IInv, NodeTypes, NodeRecords
<1>2. Change(n)
  BY DEF CheckSsh
<1> HIDE DEF n
<1> QED
  BY <1>1, <1>2, ChangeKeeps

LEMMA TickKeeps == ASSUME IInv, Tick PROVE IInv'
  BY HealthAlertsAssumption DEF IInv, NodeTypes, AlertTypes, ListingTypes, Tick, NodeRecords

LEMMA NextInv == IInv /\ [Next]_vars => IInv'
<1> SUFFICES ASSUME IInv, [Next]_vars PROVE IInv'
  OBVIOUS
<1>1. ASSUME NEW l \in Listings, List(l) \/ Fail(l) PROVE IInv'
  BY <1>1, ReadKeeps, UpsertKeeps, ResolveMissingKeeps, FailKeeps DEF List
<1>2. ASSUME NEW key \in Answered, NEW status \in Answers, Order(key, status) PROVE IInv'
  BY <1>2, OrderKeeps
<1>3. ASSUME NEW report \in Reports, NEW listening \in BOOLEAN, StoreReport(report, listening)
      PROVE  IInv'
  BY <1>3, StoreReportKeeps
<1>4. ASSUME NEW status \in Orders, SetStatus(status) PROVE IInv'
  <2>1. status \in Statuses
    BY HealthAlertsAssumption
  <2> QED
    BY <1>4, <2>1, StatusKeeps DEF SetStatus
<1>5. CASE StoreHandshake
  <2> DEFINE status == IF node.status \in {"disabled", "draining"} THEN node.status ELSE "online"
  <2>1. status \in Statuses /\ Change([node EXCEPT !.status = status])
    BY <1>5 DEF StoreHandshake, IInv, NodeTypes, NodeRecords, Statuses
  <2> HIDE DEF status
  <2> QED
    BY <2>1, StatusKeeps
<1>6. CASE CheckSsh \/ Tick
  BY <1>6, CheckSshKeeps, TickKeeps
<1>7. CASE UNCHANGED vars
  BY <1>7 DEF IInv, NodeTypes, AlertTypes, ListingTypes, vars, Specs, Severity
<1> QED
  BY <1>1, <1>2, <1>3, <1>4, <1>5, <1>6, <1>7 DEF Next

\* The invariant is inductive: whatever order listings, admins, reports and the clock come in.
THEOREM Inductive == Spec => []IInv
<1>1. Init => IInv
  BY HealthAlertsAssumption DEF Init, IInv, NodeTypes, AlertTypes, ListingTypes, NodeRecords,
     Rows, NoAlert, Idle, Statuses, Severities
<1> QED
  BY <1>1, NextInv, PTL DEF Spec

\* The table stays well typed: an alert has the status of no other table, a severity of its own,
\* and resolved_at is set (not NULL) if it is resolved, whoever writes it.
THEOREM TypeCorrect == Spec => []TypeOK
<1>1. IInv => TypeOK
  <2> SUFFICES ASSUME IInv PROVE TypeOK
    OBVIOUS
  <2>1. \A l \in Listings : listing[l].pc \in {"idle", "upsert"}
    BY ListingShapes DEF IInv
  <2> QED
    BY <2>1 DEF IInv, TypeOK, NodeTypes, NodeRecords, AlertTypes, Rows, Severities
<1> QED
  BY <1>1, Inductive, PTL

-----------------------------------------------------------------------------
(* A node that has settled *)

\* Nothing happens to the node any more, and what the listings have read of it holds.
Calm ==
  /\ events = MaxEvents /\ now = MaxClock
  /\ \A l \in Listings : listing[l] # Idle => listing[l].node = node /\ listing[l].at = now

\* The alert of the key says what is the matter, or that nothing is.
Right(key) ==
  LET severity == Severity(node, now, key)
  IN IF severity = "none" THEN alert[key].status \in {"none", "resolved"}
     ELSE alert[key].status \in Active /\ alert[key].severity = severity

\* A listing that is under way and has left nothing undone behind itself.
Underway(l) ==
  /\ listing[l] # Idle
  /\ \A i \in Specs(node, now) \ listing[l].specs : Right(Keys[i])

Settling(l) == Calm /\ Underway(l)
Settled     == Calm /\ Agree

LEMMA AgreeIsRight == Agree <=> \A key \in AlertKeys : Right(key)
  BY DEF Agree, Right

\* A row that a listing writes, of what holds of the node, is right.
LEMMA UpsertRights ==
  ASSUME AlertTypes, NEW i \in Specs(node, now), Keys[i] \in AlertKeys,
         alert' = [alert EXCEPT ![Keys[i]] =
           [status |-> Reopened(@), resolved |-> @.resolved,
                                      severity |-> Severity(node, now, Keys[i])]],
         Severity(node, now, Keys[i])' = Severity(node, now, Keys[i])
  PROVE  Right(Keys[i])'
<1>1. Severity(node, now, Keys[i]) # "none"
  BY DEF Specs
<1>2. alert[Keys[i]].status \in Active \cup {"none", "resolved"}
  BY DEF AlertTypes, Rows
<1>3. alert'[Keys[i]] = [status |-> Reopened(alert[Keys[i]]), resolved |-> alert[Keys[i]].resolved,
                        severity |-> Severity(node, now, Keys[i])]
  BY DEF AlertTypes
<1>4. Reopened(alert[Keys[i]]) \in Active
  BY <1>2 DEF Reopened, Active
<1> QED
  BY <1>1, <1>3, <1>4 DEF Right

\* Only listings go on, and none takes back what is right.
LEMMA CalmStep ==
  ASSUME IInv, Calm, [Next]_vars
  PROVE  /\ Calm' /\ UNCHANGED <<now, node, events>>
         /\ \A key \in AlertKeys : Right(key) => Right(key)'
         /\ UNCHANGED vars \/ \E l \in Listings : List(l)
<1>1. UNCHANGED vars \/ \E l \in Listings : List(l)
  <2>1. ~(events < MaxEvents) /\ ~(now < MaxClock)
    BY HealthAlertsAssumption DEF Calm
  <2>2. /\ ~Tick /\ ~CheckSsh /\ ~StoreHandshake
        /\ \A l : ~Fail(l)
        /\ \A key, status : ~Order(key, status) /\ ~SetStatus(status)
        /\ \A report, listening : ~StoreReport(report, listening)
    BY <2>1 DEF Fail, Order, StoreReport, SetStatus, StoreHandshake, CheckSsh, Change, Tick
  <2> QED
    BY <2>2 DEF Next
<1>2. CASE UNCHANGED vars
  BY <1>1, <1>2 DEF Calm, Right, vars, Severity
<1>3. ASSUME NEW l \in Listings, List(l)
      PROVE  /\ Calm' /\ UNCHANGED <<now, node, events>>
             /\ \A key \in AlertKeys : Right(key) => Right(key)'
  <2>1. UNCHANGED <<now, node, events>>
    BY <1>3 DEF List, Read, Upsert, ResolveMissing
  <2>2. \A key : Severity(node, now, key)' = Severity(node, now, key)
    BY <2>1 DEF Severity
  <2>3. CASE Read(l)
    <3>1. alert' = alert /\ Calm'
      BY <2>1, <2>3 DEF Read, Calm, IInv, ListingTypes
    <3> QED
      BY <2>1, <2>2, <3>1 DEF Right
  <2>4. CASE Upsert(l)
    <3>1. PICK i \in listing[l].specs :
            /\ alert' = [alert EXCEPT ![Keys[i]] =
                 [status |-> Reopened(@), resolved |-> @.resolved,
                  severity |-> Severity(listing[l].node, listing[l].at, Keys[i])]]
            /\ listing' = [listing EXCEPT ![l].specs = @ \ {i}]
      BY <2>4 DEF Upsert
    <3>2. listing[l] \in Readings /\ i \in DOMAIN Keys /\ Keys[i] \in AlertKeys
      BY <2>4, ListingShapes, KeysAre DEF IInv, Upsert, Readings
    <3>3. listing[l].node = node /\ listing[l].at = now /\ i \in Specs(node, now)
      BY <3>2, ListingShapes DEF Calm, IInv, ListingTypes, Readings
    <3>4. Calm'
      <4> DEFINE next == [listing[l] EXCEPT !.specs = @ \ {i}]
      <4>1. next.node = node /\ next.at = now /\ listing' = [listing EXCEPT ![l] = next]
        BY <3>1, <3>2, <3>3 DEF Readings
      <4> HIDE DEF next
      <4> QED
        BY <2>1, <4>1 DEF Calm, IInv, ListingTypes
    <3>5. ASSUME NEW key \in AlertKeys, Right(key) PROVE Right(key)'
      <4>1. CASE key = Keys[i]
        BY <2>2, <3>1, <3>2, <3>3, <4>1, UpsertRights DEF IInv
      <4>2. CASE key # Keys[i]
        BY <2>2, <3>1, <3>2, <3>5, <4>2 DEF Right, IInv, AlertTypes
      <4> QED
        BY <4>1, <4>2
    <3> QED
      BY <2>1, <3>4, <3>5
  <2>5. CASE ResolveMissing(l)
    <3>1. Calm'
      BY <2>1, <2>5 DEF ResolveMissing, Calm, IInv, ListingTypes
    <3>2. listing[l].node = node /\ listing[l].at = now
      BY <2>5, ListingShapes DEF Calm, IInv, ResolveMissing
    <3>3. ASSUME NEW key \in AlertKeys, Right(key) PROVE Right(key)'
      <4>1. alert'[key] = IF /\ alert[key].status \in Active
                             /\ Severity(node, now, key) = "none"
                          THEN Resolve(alert[key]) ELSE alert[key]
        BY <2>5, <3>2 DEF ResolveMissing, Resolvable
      <4>2. alert'[key] = alert[key]
        BY <3>3, <4>1 DEF Right, Active
      <4> QED
        BY <2>2, <3>3, <4>2 DEF Right
    <3> QED
      BY <2>1, <3>1, <3>3
  <2> QED
    BY <1>3, <2>3, <2>4, <2>5 DEF List
<1> QED
  BY <1>1, <1>2, <1>3 DEF vars

\* A listing that reads begins with everything left to do.
LEMMA ReadSettles ==
  ASSUME IInv, Calm, NEW l \in Listings, Read(l)
  PROVE  Underway(l)'
<1>1. /\ listing'[l] = [pc |-> "upsert", node |-> node, at |-> now, specs |-> Specs(node, now)]
      /\ UNCHANGED <<now, node>>
  BY DEF Read, IInv, ListingTypes
<1>2. Specs(node, now)' = Specs(node, now)
  BY <1>1
<1> QED
  BY <1>1, <1>2 DEF Underway, Idle

\* It writes one row more that is right, and in the end all of them are.
LEMMA SettlingStep ==
  ASSUME IInv, NEW l \in Listings, Settling(l), [Next]_vars
  PROVE  Settling(l)' \/ Settled'
<1>1. /\ Calm' /\ UNCHANGED <<now, node, events>>
      /\ \A key \in AlertKeys : Right(key) => Right(key)'
      /\ UNCHANGED vars \/ \E m \in Listings : List(m)
  BY CalmStep DEF Settling
<1>2. Specs(node, now)' = Specs(node, now) /\ \A i \in Specs(node, now) : Keys[i] \in AlertKeys
  BY <1>1, SpecsType, KeysAre
<1>3. ASSUME listing'[l] = listing[l] PROVE Settling(l)'
  BY <1>1, <1>2, <1>3 DEF Settling, Underway
<1>4. ASSUME NEW m \in Listings, List(m), m # l PROVE listing'[l] = listing[l]
  BY <1>4 DEF List, Read, Upsert, ResolveMissing, IInv, ListingTypes
<1>5. ~Read(l)
  BY DEF Read, Settling, Underway
<1>6. CASE Upsert(l)
  <2>1. PICK i \in listing[l].specs :
          /\ alert' = [alert EXCEPT ![Keys[i]] =
               [status |-> Reopened(@), resolved |-> @.resolved,
                severity |-> Severity(listing[l].node, listing[l].at, Keys[i])]]
          /\ listing' = [listing EXCEPT ![l].specs = @ \ {i}]
    BY <1>6 DEF Upsert
  <2>2. listing[l] \in Readings /\ listing[l].node = node /\ listing[l].at = now
    BY <1>6, ListingShapes DEF Calm, Settling, IInv, Upsert
  <2>3. /\ listing'[l] # Idle /\ listing'[l].specs = listing[l].specs \ {i}
        /\ i \in Specs(node, now)
    BY <2>1, <2>2, <1>6, ListingShapes DEF IInv, ListingTypes, Readings, Idle, Upsert
  <2>4. Right(Keys[i])'
    <3>1. Severity(node, now, Keys[i])' = Severity(node, now, Keys[i])
      BY <1>1 DEF Severity
    <3> QED
      BY <1>2, <2>1, <2>2, <2>3, <3>1, UpsertRights DEF IInv
  <2> QED
    BY <1>1, <1>2, <2>3, <2>4 DEF Settling, Underway
<1>7. CASE ResolveMissing(l)
  <2>1. listing[l].specs = {} /\ listing[l].node = node /\ listing[l].at = now
    BY <1>7, ListingShapes DEF ResolveMissing, Settling, Calm, IInv
  <2>2. ASSUME NEW key \in AlertKeys PROVE Right(key)'
    <3>1. PICK i \in DOMAIN Keys : Keys[i] = key
      BY KeysAre
    <3>2. CASE i \in Specs(node, now)
      BY <1>1, <2>1, <3>1, <3>2 DEF Settling, Underway
    <3>3. CASE i \notin Specs(node, now)
      <4>1. Severity(node, now, key) = "none"
        BY <3>1, <3>3 DEF Specs
      <4>2. Severity(node, now, key)' = "none"
        BY <1>1, <4>1 DEF Severity
      <4>3. alert'[key] = IF alert[key].status \in Active THEN Resolve(alert[key]) ELSE alert[key]
        BY <1>7, <2>1, <4>1 DEF ResolveMissing, Resolvable
      <4>4. alert[key] \in Rows
        BY DEF IInv, AlertTypes
      <4>5. alert'[key].status \in {"none", "resolved"}
        BY <4>3, <4>4 DEF Rows, Resolve
      <4> QED
        BY <4>2, <4>5 DEF Right
    <3> QED
      BY <3>2, <3>3
  <2>3. Agree'
    BY <2>2 DEF Agree, Right
  <2> QED
    BY <1>1, <2>3 DEF Settled
<1> QED
  BY <1>1, <1>3, <1>4, <1>5, <1>6, <1>7 DEF List, vars

LEMMA SettledStep ==
  ASSUME IInv, Settled, [Next]_vars
  PROVE  Settled'
<1>1. Calm' /\ \A key \in AlertKeys : Right(key) => Right(key)'
  BY CalmStep DEF Settled
<1>2. \A key \in AlertKeys : Right(key)'
  BY <1>1, AgreeIsRight DEF Settled
<1> QED
  BY <1>1, <1>2 DEF Settled, Agree, Right

\* Once nothing happens to the node and every listing under way goes on with what holds, a
\* dashboard that lists the alerts stays on the way to agreement until the table agrees, and
\* then the table agrees for good: overlapping listings take back nothing of it.  What is
\* left of AlertsConverge is that listings go on.
THEOREM ListingsSettle ==
  ASSUME NEW l \in Listings
  PROVE  Spec => /\ [][Calm /\ Read(l) => Settling(l)']_vars
                 /\ [](Settling(l) => [](Settling(l) \/ Settled))
<1>1. IInv /\ [Next]_vars => [Calm /\ Read(l) => Settling(l)']_vars
  BY ReadSettles, CalmStep DEF Settling
<1>2. IInv /\ (Settling(l) \/ Settled) /\ [Next]_vars => (Settling(l) \/ Settled)'
  BY SettlingStep, SettledStep
<1> QED
  BY <1>1, <1>2, Inductive, PTL DEF Spec

\* A table that agrees with a node nothing happens to stays so, ignored alerts included.
THEOREM AgreementStays == Spec => [](Settled => []Agree)
<1>1. IInv /\ Settled /\ [Next]_vars => Settled'
  BY SettledStep
<1>2. Settled => Agree
  BY DEF Settled
<1> QED
  BY <1>1, <1>2, Inductive, PTL DEF Spec

=============================================================================
