----------------------------- MODULE HealthAlerts -----------------------------
(***************************************************************************)
(* Health alerts of a node.  Nobody watches the nodes: an open dashboard   *)
(* lists the alerts every 30 seconds, and the listing first reconciles the *)
(* table with what it read of the nodes.  The statements of a listing are  *)
(* transactions of their own, so listings of several dashboards, reports,  *)
(* orders of admins and the clock come between them, and a listing goes on *)
(* with what it has read.                                                  *)
(*                                                                         *)
(* Abstractions.  One node: no statement concerns two.  Ages are counted   *)
(* in units of the lower threshold.  Texts and the times of an alert are   *)
(* left out, but for whether it has ever been resolved, and so is the row  *)
(* limit of a listing: it has the node among its rows.                     *)
(***************************************************************************)
EXTENDS Integers, Sequences

CONSTANTS
  Listings,     \* dashboards that list the alerts
  Orders,       \* bound: statuses admins give the node
  Answered,     \* bound: keys of the alerts admins answer
  Answers,      \* bound: statuses they give them
  Reports,      \* bound: statuses nodes report
  SlowAfter,    \* 90: age of a report that is slow
  StaleAfter,   \* 180: age of a report that is stale
  MaxClock,     \* bound: seconds
  MaxEvents     \* bound: changes of the node, answers to alerts, listings that fail

VARIABLES
  now,      \* seconds
  node,     \* what select_admin_nodes reads of the node
  alert,    \* node_health_alerts of the node
  listing,  \* listings under way: what they have read and what is left to do
  events    \* how many events have happened

vars == <<now, node, alert, listing, events>>

\* alert_key, in the order build_node_health_alert_specs looks for them
Keys == <<"node_status", "report_missing", "report_stale", "report_slow", "report_status",
          "listener_down", "ssh_failed">>

AlertKeys == {Keys[i] : i \in DOMAIN Keys}
NoAlert   == [status |-> "none", severity |-> "none", resolved |-> FALSE]
Idle      == [pc |-> "idle"]
Active    == {"open", "acknowledged", "ignored"}
Statuses  == {"pending_install", "installing", "online", "degraded", "draining", "disabled",
              "offline", "install_failed"}

ASSUME HealthAlertsAssumption ==
  /\ SlowAfter \in Nat /\ StaleAfter \in Nat /\ SlowAfter < StaleAfter
  /\ Orders \subseteq Statuses /\ Answers \subseteq Active /\ Answered \subseteq AlertKeys
  /\ {MaxClock, MaxEvents} \subseteq Nat

-----------------------------------------------------------------------------
(***************************************************************************)
(* Slips: plausible mistakes in the definitions below; no action uses them *)
(***************************************************************************)
OpenOrAcknowledged      == {"open", "acknowledged"}
KeepStatus(row)         == IF row.status = "none" THEN "open" ELSE row.status
ClearResolved(row)      == [row EXCEPT !.resolved = FALSE, !.status = "resolved"]

-----------------------------------------------------------------------------
(* build_node_health_alert_specs *)

Planned == {"pending_install", "disabled", "draining"}

\* The severity of the alert, "none" when there is nothing to say.
Severity(n, at, key) ==
  LET age     == at - n.reported_at
      unusual == IF n.status \in Planned THEN "warning" ELSE "critical"
      If(condition, severity) == IF condition THEN severity ELSE "none"
  IN CASE key = "node_status"    -> If(n.status # "online", unusual)
       [] key = "report_missing" -> If(n.reported_at = -1, unusual)
       [] key = "report_stale"   -> If(n.reported_at # -1 /\ age > StaleAfter, "critical")
       [] key = "report_slow"    ->
            If(n.reported_at # -1 /\ age > SlowAfter /\ age <= StaleAfter, "warning")
       [] key = "report_status"  ->
            If(n.report \notin {"none", "ready"},
               IF n.report = "degraded" THEN "warning" ELSE "critical")
       [] key = "listener_down"  ->
            If(n.status = "online" /\ n.report # "none" /\ ~n.listening, "critical")
       [] OTHER                  -> If(n.ssh_failed, "warning")

\* Where in Keys the alerts are that something is to be said of.
Specs(n, at) == {i \in DOMAIN Keys : Severity(n, at, Keys[i]) # "none"}

-----------------------------------------------------------------------------
(* The listing: admin_list_health_alerts, reconcile_node_health_alerts *)

\* select_admin_nodes and now_unix
Read(l) ==
  /\ listing[l] = Idle
  /\ listing' = [listing EXCEPT ![l] = [pc |-> "upsert", node |-> node, at |-> now,
                                        specs |-> Specs(node, now)]]
  /\ UNCHANGED <<now, node, alert, events>>

\* INSERT .. ON DUPLICATE KEY UPDATE: only a resolved alert is opened
Reopened(row) == IF row.status \in {"none", "resolved"} THEN "open" ELSE row.status

\* MySQL assigns from left to right: resolved_at = IF(status = 'resolved', NULL, ..) comes
\* after status was set and never clears it.
Upsert(l) ==
  /\ listing[l].pc = "upsert"
  /\ \E i \in listing[l].specs :
       /\ \A j \in listing[l].specs : i <= j
       /\ alert' = [alert EXCEPT ![Keys[i]] =
            [status |-> Reopened(@), resolved |-> @.resolved,
             severity |-> Severity(listing[l].node, listing[l].at, Keys[i])]]
       /\ listing' = [listing EXCEPT ![l].specs = @ \ {i}]
  /\ UNCHANGED <<now, node, events>>

\* status IN ('open', 'acknowledged', 'ignored')
Resolvable == Active

Resolve(row) == [row EXCEPT !.status = "resolved", !.resolved = TRUE]

\* resolve_missing_health_alerts; the alerts are then selected and answered
ResolveMissing(l) ==
  /\ listing[l].pc = "upsert" /\ listing[l].specs = {}
  /\ alert' = [key \in AlertKeys |->
       IF /\ alert[key].status \in Resolvable
          /\ Severity(listing[l].node, listing[l].at, key) = "none"
       THEN Resolve(alert[key]) ELSE alert[key]]
  /\ listing' = [listing EXCEPT ![l] = Idle]
  /\ UNCHANGED <<now, node, events>>

\* A database error, a dashboard that is closed, the end of the panel
Fail(l) ==
  /\ listing[l] # Idle /\ events < MaxEvents
  /\ events' = events + 1
  /\ listing' = [listing EXCEPT ![l] = Idle]
  /\ UNCHANGED <<now, node, alert>>

-----------------------------------------------------------------------------
(* What happens meanwhile *)

\* admin_update_health_alert, update_health_alert_status: whatever the status was
Order(key, status) ==
  /\ events < MaxEvents /\ alert[key] # NoAlert
  /\ events' = events + 1
  /\ alert' = [alert EXCEPT ![key].status = status,
                            ![key].resolved = IF status = "open" THEN FALSE ELSE @]
  /\ UNCHANGED <<now, node, listing>>

Change(n) ==
  /\ events < MaxEvents
  /\ events' = events + 1
  /\ node' = n
  /\ UNCHANGED <<now, alert, listing>>

\* persist_node_report: the report is stored, but of a disabled or draining node neither
\* the status nor last_report_at is set.
StoreReport(report, listening) ==
  Change([(IF node.status \in {"disabled", "draining"} THEN node
           ELSE [node EXCEPT !.reported_at = now,
                   !.status = IF report = "ready" /\ listening THEN "online" ELSE "degraded"])
          EXCEPT !.report = report, !.listening = listening])

\* persist_node_handshake
StoreHandshake ==
  Change([node EXCEPT !.status = IF @ \in {"disabled", "draining"} THEN @ ELSE "online"])

\* admin_update_node_status
SetStatus(status) == status # node.status /\ Change([node EXCEPT !.status = status])

\* update_ssh_credential_status
CheckSsh == Change([node EXCEPT !.ssh_failed = ~@])

Tick ==
  /\ now < MaxClock
  /\ now' = now + 1
  /\ UNCHANGED <<node, alert, listing, events>>

Init ==
  /\ now = 0
  /\ node = [status |-> "pending_install", reported_at |-> -1, report |-> "none",
             listening |-> TRUE, ssh_failed |-> FALSE]
  /\ alert = [key \in AlertKeys |-> NoAlert]
  /\ listing = [l \in Listings |-> Idle]
  /\ events = 0

List(l) == Read(l) \/ Upsert(l) \/ ResolveMissing(l)

Next ==
  \/ \E l \in Listings : List(l) \/ Fail(l)
  \/ \E key \in Answered, status \in Answers : Order(key, status)
  \/ \E report \in Reports, listening \in BOOLEAN : StoreReport(report, listening)
  \/ \E status \in Orders : SetStatus(status)
  \/ StoreHandshake \/ CheckSsh \/ Tick

Spec == Init /\ [][Next]_vars

\* static/admin-dashboard.html:9184 and 7986: an open dashboard lists the alerts every 30
\* seconds.
Fairness == \A l \in Listings : WF_vars(List(l))

FairSpec == Spec /\ Fairness

-----------------------------------------------------------------------------
(* Correctness *)

\* A resolved alert has its resolved_at set (not NULL); which resolution it tells, the first
\* or the last, is not said.
TypeOK ==
  /\ now \in 0..MaxClock /\ node.status \in Statuses /\ node.reported_at \in -1..now
  /\ events \in 0..MaxEvents
  /\ \A key \in AlertKeys :
       /\ alert[key].status \in Active \cup {"none", "resolved"}
       /\ alert[key].severity \in {"none", "warning", "critical"}
       /\ alert[key].status = "resolved" => alert[key].resolved
  /\ \A l \in Listings : listing[l].pc \in {"idle", "upsert"}

Agree ==
  \A key \in AlertKeys :
    LET severity == Severity(node, now, key)
    IN IF severity = "none" THEN alert[key].status \in {"none", "resolved"}
       ELSE alert[key].status \in Active /\ alert[key].severity = severity

\* Listings of several dashboards overlap, each with what it has read a while ago, and
\* resolve or reopen what another just wrote; they may fail half way.  Once the node
\* settles (in the model: the bounds are reached), the table comes to say what is the
\* matter with it and nothing else, and stays so, ignored alerts included.
AlertsConverge == <>[]Agree

=============================================================================
