---------------------------- MODULE ConnectIntents ----------------------------
(***************************************************************************)
(* Connect intents: a business backend or a client asks for a node for a   *)
(* user, device and game; the panel selects a candidate, signs a ticket    *)
(* for it, stores the intent and answers.                                  *)
(*                                                                         *)
(* A handler awaits the database twice, so other handlers, admins, reports *)
(* and the clock act between the selection, the signature and the insert.  *)
(*                                                                         *)
(* Abstractions.  "out" stands for every status but online, for            *)
(* disable_quic and for a missing secret.  Of the load counters and the    *)
(* further tie breakers one load and the node's id are kept.  The game is  *)
(* fixed; names, areas and tags are left out.                              *)
(***************************************************************************)
EXTENDS RoutePolicy, FiniteSets

CONSTANTS
  Nodes,       \* ids of nodes
  Quality,     \* bandwidth_quality of a node
  Rules,       \* game_route_rules of the game
  Turning,     \* bound: the rules an admin turns on and off
  Requests,    \* bound: requests that come to a handler
  Handlers,    \* requests served at once
  Ttl,         \* token_ttl_sec
  FreshFor,    \* 90: seconds a report is fresh
  Loads,       \* bound: active_sessions
  MaxClock,    \* bound: seconds
  MaxIntents   \* bound: rows of connect_intents

ASSUME ConnectIntentsAssumption ==
  /\ Nodes \subseteq Nat /\ Loads \subseteq Nat /\ None \notin Nodes
  /\ Ttl \in Nat \ {0} /\ FreshFor \in Nat /\ MaxClock \in Nat /\ MaxIntents \in Nat
  /\ Turning \subseteq Rules /\ \A rule \in Rules : rule.node \in Nodes /\ rule.priority \in Nat
  /\ \A h \in Handlers : \A request \in Requests[h] :
       request.policy # None => TypedPolicy(request.policy) /\ request.protocol \in Protocols

VARIABLES
  now,      \* seconds
  online,   \* nodes that are online and usable
  report,   \* the latest of node_runtime_reports per node
  enabled,  \* rules with status 'enabled'
  handler,  \* connect-intent requests under way
  intents,  \* connect_intents
  tickets   \* history: tickets answered

vars == <<now, online, report, enabled, handler, intents, tickets>>

NoReport == [at |-> -1, load |-> 0]
Free     == [pc |-> "free"]

-----------------------------------------------------------------------------
(***************************************************************************)
(* Slips: plausible mistakes in the definitions below; no action uses them *)
(***************************************************************************)
AgeAtMost(age)            == age < FreshFor + 2
Inserts(id)               == TRUE
RegardlessOfStatus        == Nodes
ExpiresAt(at)             == at - Ttl

-----------------------------------------------------------------------------
(* Validation *)

IsCatalog(request) == request.node = None

\* per_session_route: a node with a target or a policy that has one for the protocol,
\* or none of them.
ValidRoute(request) ==
  IF request.target = None /\ request.policy = None
  THEN request.node = None
  ELSE /\ request.node # None
       /\ request.policy # None => ValidPolicy(request.policy)
       /\ request.target = None => Pickable(request.policy, request.protocol, TRUE) # {}

\* validate_business_connect_intent_request: entitlement, device and risk are vouched for
ValidRequest(request) == request.vouched /\ ValidRoute(request)

-----------------------------------------------------------------------------
(* Selection *)

\* r.region_id = ? OR r.region_id IS NULL; without a region only IS NULL
RegionMatches(request, rule) == rule.region \in {request.region, None}

\* TIMESTAMPDIFF(SECOND, lr.reported_at, CURRENT_TIMESTAMP) > 90, or no report
Stale(n) == report[n] = NoReport \/ now - report[n].at > FreshFor

\* status = 'online' AND disable_quic = 0 AND node_secret IS NOT NULL
Usable == online

Row(n, target, region, priority) ==
  [node |-> n, target |-> target, region |-> region, priority |-> priority,
   load |-> report[n].load, reported_at |-> report[n].at, stale |-> Stale(n)]

\* FROM game_route_rules r JOIN accel_nodes n .. WHERE, or the node the request names
Candidates(request) ==
  IF IsCatalog(request)
  THEN {Row(rule.node, rule.target, rule.region, rule.priority) :
          rule \in {r \in enabled : r.node \in Usable /\ RegionMatches(request, r)}}
  ELSE {Row(n, IF request.target # None THEN request.target
               ELSE Representative(request.policy, request.protocol), request.region, 0) :
          n \in {request.node} \cap Usable}

\* ORDER BY: exact region, quality, freshness, priority, load, id
RankOf(request, row) ==
  <<IF row.region = request.region THEN 0 ELSE 1,
    IF Quality[row.node] = request.quality THEN 0 ELSE 1,
    IF row.stale THEN 1 ELSE 0,
    row.priority, row.load, row.node>>

Precedes(r, s) == \E i \in DOMAIN r : r[i] < s[i] /\ \A j \in 1..(i - 1) : r[j] = s[j]

\* LIMIT 1
Best(request) ==
  {row \in Candidates(request) :
     \A other \in Candidates(request) : ~Precedes(RankOf(request, other), RankOf(request, row))}

-----------------------------------------------------------------------------
(* What the answer says of the choice: CandidateSchedulerInfo *)

\* age <= 90
FreshAge(age) == age <= FreshFor

ReportFresh(row, at) == row.reported_at # -1 /\ FreshAge(at - row.reported_at)

RegionMatch(request, row) ==
  CASE request.region # None /\ row.region = request.region -> "exact"
    [] request.region # None /\ row.region = None           -> "fallback"
    [] request.region = None /\ row.region = None           -> "global"
    [] OTHER                                                -> "mismatch"

-----------------------------------------------------------------------------
(* The handler *)

\* intent-{user}-{game}-{issued_at}-{node}
IntentId(h) == <<handler[h].request.user, handler[h].issued_at, handler[h].row.node>>

Receive(h, request) ==
  /\ handler[h] = Free /\ Cardinality(intents) < MaxIntents
  /\ ValidRequest(request)
  /\ handler' = [handler EXCEPT ![h] = [pc |-> "received", request |-> request, seen |-> online]]
  /\ UNCHANGED <<now, online, report, enabled, intents, tickets>>

\* select_candidate, select_per_session_candidate; no_candidate
Select(h) ==
  /\ handler[h].pc = "received"
  /\ \/ /\ Candidates(handler[h].request) = {}
        /\ handler' = [handler EXCEPT ![h] = Free]
     \/ \E row \in Best(handler[h].request) :
          handler' = [handler EXCEPT ![h] = [pc |-> "selected", request |-> @.request,
                                             seen |-> @.seen, row |-> row]]
  /\ UNCHANGED <<now, online, report, enabled, intents, tickets>>

\* issue_connect_intent_for_row up to sign_client_token
Sign(h) ==
  /\ handler[h].pc = "selected"
  /\ handler' = [handler EXCEPT ![h] = [pc |-> "signed", request |-> @.request, seen |-> @.seen,
                                        row |-> @.row, issued_at |-> now]]
  /\ UNCHANGED <<now, online, report, enabled, intents, tickets>>

Expiry(at) == at + Ttl

\* uniq_intent_id
Unused(id) == \A intent \in intents : intent.id # id

\* insert_connect_intent: a duplicate is a database error
Insert(h) ==
  /\ handler[h].pc = "signed"
  /\ IF Unused(IntentId(h))
     THEN /\ intents' = intents \cup
               {[id |-> IntentId(h), device |-> handler[h].request.device,
                 target |-> handler[h].row.target, expires_at |-> Expiry(handler[h].issued_at)]}
          /\ handler' = [handler EXCEPT ![h].pc = "inserted"]
     ELSE /\ handler' = [handler EXCEPT ![h] = Free]
          /\ UNCHANGED intents
  /\ UNCHANGED <<now, online, report, enabled, tickets>>

\* business_connect_intent answers
Answer(h) ==
  /\ handler[h].pc = "inserted"
  /\ tickets' = tickets \cup
       {[id |-> IntentId(h), request |-> handler[h].request, row |-> handler[h].row,
         seen |-> handler[h].seen, expires_at |-> Expiry(handler[h].issued_at),
         report_fresh |-> ReportFresh(handler[h].row, handler[h].issued_at),
         region_match |-> RegionMatch(handler[h].request, handler[h].row)]}
  /\ handler' = [handler EXCEPT ![h] = Free]
  /\ UNCHANGED <<now, online, report, enabled, intents>>

\* A database error, a client that is gone, the end of the panel
Abandon(h) ==
  /\ handler[h] # Free
  /\ handler' = [handler EXCEPT ![h] = Free]
  /\ UNCHANGED <<now, online, report, enabled, intents, tickets>>

-----------------------------------------------------------------------------
(* What happens meanwhile *)

Witnessed(h) ==
  IF handler[h] = Free THEN Free ELSE [handler[h] EXCEPT !.seen = @ \cup online']

\* update_admin_node_status, persist_node_report
TurnNode(n) ==
  /\ online' = IF n \in online THEN online \ {n} ELSE online \cup {n}
  /\ handler' = [h \in Handlers |-> Witnessed(h)]
  /\ UNCHANGED <<now, report, enabled, intents, tickets>>

\* A report may be late: ORDER BY nr.reported_at DESC, nr.id DESC finds the latest.
StoreReport(n, at, load) ==
  /\ report' = [report EXCEPT ![n] = IF at >= @.at THEN [at |-> at, load |-> load] ELSE @]
  /\ UNCHANGED <<now, online, enabled, handler, intents, tickets>>

\* admin_update_route_rule
TurnRule(rule) ==
  /\ enabled' = IF rule \in enabled THEN enabled \ {rule} ELSE enabled \cup {rule}
  /\ UNCHANGED <<now, online, report, handler, intents, tickets>>

Tick ==
  /\ now < MaxClock
  /\ now' = now + 1
  /\ UNCHANGED <<online, report, enabled, handler, intents, tickets>>

Init ==
  /\ now = 0
  /\ online = Nodes
  /\ report = [n \in Nodes |-> NoReport]
  /\ enabled = Rules
  /\ handler = [h \in Handlers |-> Free]
  /\ intents = {}
  /\ tickets = {}

Issue(h) ==
  \/ \E request \in Requests[h] : Receive(h, request)
  \/ Select(h) \/ Sign(h) \/ Insert(h) \/ Answer(h) \/ Abandon(h)

Next ==
  \/ \E h \in Handlers : Issue(h)
  \/ \E n \in Nodes : TurnNode(n) \/ \E at \in 0..now, load \in Loads : StoreReport(n, at, load)
  \/ \E rule \in Turning : TurnRule(rule)
  \/ Tick

Spec == Init /\ [][Next]_vars

-----------------------------------------------------------------------------
(* Correctness *)

TypeOK ==
  /\ now \in 0..MaxClock
  /\ online \subseteq Nodes /\ enabled \subseteq Rules
  /\ \A n \in Nodes : report[n].at \in -1..now /\ report[n].load \in Loads \cup {0}
  /\ \A h \in Handlers : handler[h].pc \in {"free", "received", "selected", "signed", "inserted"}
  /\ \A intent \in intents : intent.expires_at \in 0..(now + Ttl)
  /\ \A ticket \in tickets : ticket.row.node \in Nodes

\* The answer may be late, but no ticket names a node that was out of service during
\* the whole of the request: a disabled node gets no new users from a handler that starts
\* after the order.
ScheduledWasOnline == \A ticket \in tickets : ticket.row.node \in ticket.seen

\* What CandidateSchedulerInfo says of the choice is computed again, later and in Rust: a
\* report it calls fresh was fresh to the SQL order, and a player of one region is never
\* told of a rule of another, whatever becomes of the rules and nodes of the region.
SchedulerInfoAgrees ==
  \A ticket \in tickets :
    /\ ticket.report_fresh => ~ticket.row.stale
    /\ ticket.region_match # "mismatch"

\* A user with two devices who asks twice within a second draws the same intent_id
\* twice.  Only one of the tickets is answered, and its row is the one stored.
IntentsIdentify ==
  \A ticket \in tickets :
    /\ \A other \in tickets : other.id = ticket.id => other = ticket
    /\ [id |-> ticket.id, device |-> ticket.request.device, target |-> ticket.row.target,
        expires_at |-> ticket.expires_at] \in intents

\* README.md:158-160: fresh reports with lower session counts are preferred "when route
\* priority and bandwidth quality are otherwise equal".
SameClass(request, r, s) ==
  /\ (r.region = request.region) = (s.region = request.region)
  /\ Quality[r.node] = Quality[s.node]

PriorityDecides ==
  [][\A h \in Handlers :
       (handler[h].pc = "received" /\ handler'[h].pc = "selected") =>
         LET request == handler[h].request
             chosen  == handler'[h].row
         IN \A other \in Candidates(request) :
              SameClass(request, other, chosen) => chosen.priority <= other.priority]_vars

-----------------------------------------------------------------------------
(* Correctness of policies that are issued *)

\* The policies of requests the panel has accepted.
Accepted ==
  {handler[h].request : h \in {g \in Handlers : handler[g].pc = "received"}}

\* The first name of a rule is one its type is about.
Concrete(rule) ==
  /\ rule.type \in {"cidr", "observed_ip"} => rule.host = None
  /\ rule.type \in {"domain", "ipv4", "ipv6"} /\ rule.observed # <<>> =>
       rule.host # None \/ rule.resolved # <<>>
  /\ rule.type = "cidr" => rule.resolved = <<>> /\ rule.observed = <<>>
  /\ rule.type = "steam_sdr" /\ rule.cidrs # <<>> => HasName(rule)

\* Three programs read a policy: the panel picks a representative target for the signed
\* route, the probe derives one to send to, the node decides.  What the first two pick,
\* the node lets through.
PickedIsAdmitted ==
  \A request \in {r \in Accepted : r.policy # None} :
    LET policy == request.policy
        rep    == Representative(policy, request.protocol)
    IN (\A rule \in Range(policy.targets) : Concrete(rule)) =>
         /\ Pickable(policy, request.protocol, TRUE) # {} =>
              Admits(policy, [id |-> None, protocol |-> request.protocol, host |-> rep.host,
                              port |-> rep.port, domain |-> None])
         /\ Pickable(policy, request.protocol, FALSE) # {} =>
              Admits(policy, DerivedTarget(policy, request.protocol))

\* What match_route_policy_target is meant to compute: a target is let through iff some
\* rule lists its port, and its address by name or by the leading bits of a block.
Bit(a, i) == (a \div Power[Width - i]) % 2

InBlock(a, cidr) ==
  /\ a \in Addresses /\ cidr.base \in Addresses /\ cidr.prefix <= Width
  /\ \A i \in 1..cidr.prefix : Bit(a, i) = Bit(cidr.base, i)

AllowedAddresses(rule) ==
  LET blocks == {a \in Addresses : \E cidr \in Range(rule.cidrs) : InBlock(a, cidr)}
      named  == {rule.host} \cup Range(rule.resolved)
  IN CASE rule.type = "any"                        -> Addresses
       [] rule.type = "cidr"                       -> blocks
       [] rule.type = "observed_ip"                -> Range(rule.resolved) \cup Range(rule.observed)
       [] rule.type \in {"domain", "ipv4", "ipv6"} -> named
       [] OTHER -> IF rule.host = None /\ rule.resolved = <<>> /\ rule.observed = <<>>
                      /\ rule.cidrs = <<>>
                   THEN Addresses ELSE named \cup Range(rule.observed) \cup blocks

AllowedPorts(rule, protocol) ==
  UNION {range.from..range.to : range \in {r \in Range(rule.ports) : r.protocol = protocol}}

PolicyMeansWhatItLists ==
  \A request \in {r \in Accepted : r.policy # None} :
    \A a \in Addresses, port \in PortNumbers :
      Admits(request.policy, [id |-> None, protocol |-> request.protocol, host |-> a,
                              port |-> port, domain |-> None])
      <=> \E rule \in Range(request.policy.targets) :
            a \in AllowedAddresses(rule) /\ port \in AllowedPorts(rule, request.protocol)

=============================================================================
