------------------------- MODULE ConnectIntentsProofs -------------------------
(***************************************************************************)
(* Theorems about ConnectIntents, for any nodes, rules, requests, handlers *)
(* and bounds.                                                             *)
(***************************************************************************)
EXTENDS ConnectIntents, FiniteSetTheorems, TLAPS

Asked   == UNION {Requests[h] : h \in Handlers}
Targets == {rule.target : rule \in Rules} \cup {request.target : request \in Asked}
             \cup {Representative(request.policy, request.protocol) : request \in Asked}
Regions == {rule.region : rule \in Rules} \cup {request.region : request \in Asked}
Rows    == [node : Nodes, target : Targets, region : Regions, priority : Nat, load : Nat,
            reported_at : Int, stale : BOOLEAN]

Received == [pc : {"received"}, request : Asked, seen : SUBSET Nodes]
Selected == [pc : {"selected"}, request : Asked, seen : SUBSET Nodes, row : Rows]
Signed   == [pc : {"signed", "inserted"}, request : Asked, seen : SUBSET Nodes, row : Rows,
             issued_at : Nat]

StateTypes ==
  /\ now \in 0..MaxClock /\ online \subseteq Nodes /\ enabled \subseteq Rules
  /\ report \in [Nodes -> [at : Int, load : Nat]]
  /\ \A n \in Nodes : report[n].at \in -1..now /\ report[n].load \in Loads \cup {0}
  /\ \A intent \in intents : intent.expires_at \in 0..(now + Ttl)

HandlerTypes == handler \in [Handlers -> {Free} \cup Received \cup Selected \cup Signed]

\* A request has seen every node that is online now.
SeenCovers == \A h \in Handlers : handler[h] # Free => online \subseteq handler[h].seen

\* What holds of a choice from its selection on; it is signed no earlier than it was made.
Chosen(held, at) ==
  /\ held.row.node \in held.seen
  /\ RegionMatch(held.request, held.row) # "mismatch"
  /\ held.row.stale => held.row.reported_at = -1 \/ at - held.row.reported_at > FreshFor

ChoicesHold ==
  \A h \in Handlers :
    /\ handler[h].pc = "selected" => Chosen(handler[h], now)
    /\ handler[h].pc \in {"signed", "inserted"} =>
         handler[h].issued_at <= now /\ Chosen(handler[h], handler[h].issued_at)

IsInserted(h) == handler[h].pc = "inserted"

StoredFor(h) ==
  [id |-> IntentId(h), device |-> handler[h].request.device,
   target |-> handler[h].row.target, expires_at |-> Expiry(handler[h].issued_at)]

\* The row of an answer that is due is there, and nobody else's answer is about it.
InsertedAlone ==
  \A h \in Handlers : IsInserted(h) =>
    /\ StoredFor(h) \in intents
    /\ \A ticket \in tickets : ticket.id # IntentId(h)
    /\ \A g \in Handlers : IsInserted(g) /\ g # h => IntentId(g) # IntentId(h)

TicketRows == \A ticket \in tickets : ticket.row.node \in Nodes

IInv ==
  /\ StateTypes /\ HandlerTypes /\ SeenCovers /\ ChoicesHold /\ InsertedAlone /\ TicketRows
  /\ ScheduledWasOnline /\ SchedulerInfoAgrees /\ IntentsIdentify

-----------------------------------------------------------------------------
(* What the pieces of state look like *)

LEMMA Shapes ==
  ASSUME HandlerTypes, NEW h \in Handlers
  PROVE  /\ handler[h].pc \in {"free", "received", "selected", "signed", "inserted"}
         /\ handler[h].pc = "free" <=> handler[h] = Free
         /\ handler[h].pc = "received" => handler[h] \in Received
         /\ handler[h].pc = "selected" => handler[h] \in Selected
         /\ handler[h].pc \in {"signed", "inserted"} => handler[h] \in Signed
  BY DEF HandlerTypes, Free, Received, Selected, Signed

\* A candidate is a row of the right region, whose node is online, and which is stale if
\* the report it shows is.
LEMMA CandidateRows ==
  ASSUME StateTypes, NEW request \in Asked, NEW row \in Candidates(request)
  PROVE  /\ row \in Rows /\ row.node \in online
         /\ RegionMatch(request, row) # "mismatch"
         /\ row.stale => row.reported_at = -1 \/ now - row.reported_at > FreshFor
<1> USE ConnectIntentsAssumption DEF StateTypes
<1>1. ASSUME NEW n \in online, NEW target \in Targets, NEW region \in Regions, NEW priority \in Nat,
             region \in {request.region, None}, row = Row(n, target, region, priority)
      PROVE  /\ row \in Rows /\ row.node \in online
             /\ RegionMatch(request, row) # "mismatch"
             /\ row.stale => row.reported_at = -1 \/ now - row.reported_at > FreshFor
  <2>1. row \in Rows /\ row.node = n
    <3>1. report[n].load \in Nat /\ report[n].at \in Int /\ Stale(n) \in BOOLEAN /\ n \in Nodes
      BY <1>1 DEF Stale
    <3> QED
      BY <1>1, <3>1 DEF Row, Rows
  <2>2. row.region = region /\ row.reported_at = report[n].at /\ row.stale = Stale(n)
    BY <1>1 DEF Row
  <2>3. RegionMatch(request, row) # "mismatch"
    BY <1>1, <2>2 DEF RegionMatch
  <2>4. row.stale => row.reported_at = -1 \/ now - row.reported_at > FreshFor
    <3>1. Stale(n) => report[n].at = -1 \/ now - report[n].at > FreshFor
      BY DEF Stale, NoReport
    <3> QED
      BY <2>2, <3>1
  <2> QED
    BY <1>1, <2>1, <2>3, <2>4
<1>2. CASE IsCatalog(request)
  <2>1. PICK rule \in enabled :
          /\ rule.node \in online /\ RegionMatches(request, rule)
          /\ row = Row(rule.node, rule.target, rule.region, rule.priority)
    BY <1>2 DEF Candidates, Usable
  <2>2. /\ rule \in Rules /\ rule.target \in Targets /\ rule.region \in Regions
        /\ rule.priority \in Nat
    BY <2>1 DEF Targets, Regions
  <2> QED
    BY <1>1, <2>1, <2>2 DEF RegionMatches
<1>3. CASE ~IsCatalog(request)
  <2> DEFINE target == IF request.target # None THEN request.target
                       ELSE Representative(request.policy, request.protocol)
  <2>1. PICK n \in online : row = Row(n, target, request.region, 0)
    BY <1>3 DEF Candidates, Usable
  <2>2. target \in Targets /\ request.region \in Regions
    BY DEF Targets, Regions
  <2> HIDE DEF target
  <2> QED
    BY <1>1, <2>1, <2>2
<1> QED
  BY <1>2, <1>3

-----------------------------------------------------------------------------
(* Steps of a handler *)

\* A handler that begins, selects, signs or gives up leaves the tables alone; what it
\* holds next is all there is to look at.
LEMMA HandlerMoves ==
  ASSUME IInv, NEW h \in Handlers, NEW next,
         next \in {Free} \cup Received \cup Selected \cup Signed,
         handler' = [handler EXCEPT ![h] = next],
         next # Free => online \subseteq next.seen,
         next.pc = "selected" => Chosen(next, now),
         next.pc = "signed" => next.issued_at <= now /\ Chosen(next, next.issued_at),
         next.pc # "inserted",
         UNCHANGED <<now, online, report, enabled, intents, tickets>>
  PROVE  IInv'
<1>1. handler'[h] = next /\ \A g \in Handlers : g # h => handler'[g] = handler[g]
  BY DEF IInv, HandlerTypes
<1>2. HandlerTypes'
  BY DEF IInv, HandlerTypes
<1>3. SeenCovers'
  BY <1>1 DEF IInv, SeenCovers
<1>4. ChoicesHold'
  BY <1>1 DEF IInv, ChoicesHold, Chosen, RegionMatch
<1>5. InsertedAlone'
  <2>1. \A g \in Handlers : IsInserted(g)' => g # h /\ IsInserted(g)
    BY <1>1 DEF IsInserted
  <2>2. \A g \in Handlers : g # h => IntentId(g)' = IntentId(g) /\ StoredFor(g)' = StoredFor(g)
    BY <1>1 DEF IntentId, StoredFor
  <2> QED
    BY <2>1, <2>2 DEF IInv, InsertedAlone
<1>6. (StateTypes /\ TicketRows /\ ScheduledWasOnline /\ SchedulerInfoAgrees /\ IntentsIdentify)'
  BY DEF IInv, StateTypes, TicketRows, ScheduledWasOnline, SchedulerInfoAgrees, IntentsIdentify
<1> QED
  BY <1>2, <1>3, <1>4, <1>5, <1>6 DEF IInv

\* A handler that ends with nothing to show for it.
LEMMA HandlerEnds ==
  ASSUME IInv, NEW h \in Handlers, handler' = [handler EXCEPT ![h] = Free],
         UNCHANGED <<now, online, report, enabled, intents, tickets>>
  PROVE  IInv'
<1>1. Free.pc = "free"
  BY DEF Free
<1>2. /\ Free \in {Free} \cup Received \cup Selected \cup Signed
      /\ Free # Free => online \subseteq Free.seen
      /\ Free.pc = "selected" => Chosen(Free, now)
      /\ Free.pc = "signed" => Free.issued_at <= now /\ Chosen(Free, Free.issued_at)
      /\ Free.pc # "inserted"
  BY <1>1
<1> QED
  BY <1>2, HandlerMoves

LEMMA ReceiveKeeps ==
  ASSUME IInv, NEW h \in Handlers, NEW request \in Requests[h], Receive(h, request)
  PROVE  IInv'
<1> DEFINE next == [pc |-> "received", request |-> request, seen |-> online]
<1>1. next \in Received
  BY DEF Received, Asked, IInv, StateTypes
<1>2. next.pc = "received" /\ next.seen = online
  OBVIOUS
<1>3. /\ handler' = [handler EXCEPT ![h] = next]
      /\ UNCHANGED <<now, online, report, enabled, intents, tickets>>
  BY DEF Receive
<1> HIDE DEF next
<1> QED
  BY <1>1, <1>2, <1>3, HandlerMoves

LEMMA SelectKeeps ==
  ASSUME IInv, NEW h \in Handlers, Select(h)
  PROVE  IInv'
<1>1. handler[h] \in Received
  BY Shapes DEF Select, IInv
<1>2. CASE handler' = [handler EXCEPT ![h] = Free]
  BY <1>2, HandlerEnds DEF Select
<1>3. ASSUME NEW row \in Best(handler[h].request),
             handler' = [handler EXCEPT ![h] = [pc |-> "selected", request |-> handler[h].request,
                                                seen |-> handler[h].seen, row |-> row]]
      PROVE  IInv'
  <2> DEFINE next == [pc |-> "selected", request |-> handler[h].request,
                      seen |-> handler[h].seen, row |-> row]
  <2>1. handler[h].request \in Asked /\ row \in Candidates(handler[h].request)
    BY <1>1, <1>3 DEF Received, Best
  <2>2. /\ row \in Rows /\ row.node \in online
        /\ RegionMatch(handler[h].request, row) # "mismatch"
        /\ row.stale => row.reported_at = -1 \/ now - row.reported_at > FreshFor
    BY <2>1, CandidateRows DEF IInv
  <2>3. online \subseteq handler[h].seen
    BY <1>1 DEF IInv, SeenCovers, Received, Free
  <2>4. next \in Selected /\ Chosen(next, now)
    BY <1>1, <2>2, <2>3 DEF Selected, Received, Chosen
  <2>5. next.pc = "selected" /\ next.seen = handler[h].seen
    OBVIOUS
  <2>6. /\ handler' = [handler EXCEPT ![h] = next]
        /\ UNCHANGED <<now, online, report, enabled, intents, tickets>>
    BY <1>3 DEF Select
  <2> HIDE DEF next
  <2> QED
    BY <2>3, <2>4, <2>5, <2>6, HandlerMoves
<1> QED
  BY <1>2, <1>3 DEF Select

LEMMA SignKeeps ==
  ASSUME IInv, NEW h \in Handlers, Sign(h)
  PROVE  IInv'
<1> DEFINE held == handler[h]
           next == [pc |-> "signed", request |-> held.request, seen |-> held.seen,
                    row |-> held.row, issued_at |-> now]
<1>1. held \in Selected /\ Chosen(held, now) /\ online \subseteq held.seen
  BY Shapes DEF Sign, IInv, ChoicesHold, SeenCovers, Free
<1>2. now \in Nat
  BY DEF IInv, StateTypes
<1>3. next \in Signed /\ Chosen(next, now)
  BY <1>1, <1>2 DEF Selected, Signed, Chosen, RegionMatch
<1>4. /\ next.pc = "signed" /\ online \subseteq next.seen
      /\ next.issued_at <= now /\ Chosen(next, next.issued_at)
  BY <1>1, <1>2, <1>3
<1>5. /\ handler' = [handler EXCEPT ![h] = next]
      /\ UNCHANGED <<now, online, report, enabled, intents, tickets>>
  BY DEF Sign
<1> HIDE DEF next
<1> QED
  BY <1>3, <1>4, <1>5, HandlerMoves

LEMMA AbandonKeeps ==
  ASSUME IInv, NEW h \in Handlers, Abandon(h)
  PROVE  IInv'
BY HandlerEnds DEF Abandon

\* A row with an id nobody has used: no ticket and no answer that is due is about it.
LEMMA InsertKeeps ==
  ASSUME IInv, NEW h \in Handlers, Insert(h)
  PROVE  IInv'
<1>1. CASE ~Unused(IntentId(h))
  BY <1>1, HandlerEnds DEF Insert
<1>2. CASE Unused(IntentId(h))
  <2> DEFINE held == handler[h]  next == [held EXCEPT !.pc = "inserted"]
  <2>1. /\ held \in Signed /\ held.pc = "signed" /\ held.issued_at <= now
        /\ Chosen(held, held.issued_at) /\ online \subseteq held.seen
    BY Shapes DEF Insert, IInv, ChoicesHold, SeenCovers, Free
  <2>2. /\ handler' = [handler EXCEPT ![h] = next]
        /\ intents' = intents \cup {StoredFor(h)}
        /\ UNCHANGED <<now, online, report, enabled, tickets>>
    BY <1>2 DEF Insert, StoredFor
  <2>3. /\ next \in Signed /\ next.pc = "inserted" /\ next.request = held.request
        /\ next.seen = held.seen /\ next.row = held.row /\ next.issued_at = held.issued_at
    BY <2>1 DEF Signed
  <2>4. handler'[h] = next /\ \A g \in Handlers : g # h => handler'[g] = handler[g]
    BY <2>2 DEF IInv, HandlerTypes
  <2> HIDE DEF next
  <2>5. HandlerTypes'
    BY <2>2, <2>3 DEF IInv, HandlerTypes
  <2>6. SeenCovers'
    BY <2>1, <2>2, <2>3, <2>4 DEF IInv, SeenCovers
  <2>7. ChoicesHold'
    BY <2>1, <2>2, <2>3, <2>4 DEF IInv, ChoicesHold, Chosen, RegionMatch
  <2>8. \A g \in Handlers : IntentId(g)' = IntentId(g) /\ StoredFor(g)' = StoredFor(g)
    BY <2>3, <2>4 DEF IntentId, StoredFor
  <2>9. InsertedAlone'
    <3>1. \A g \in Handlers : IsInserted(g)' => g = h \/ IsInserted(g)
      BY <2>4 DEF IsInserted
    <3>2. \A g \in Handlers : IsInserted(g) => IntentId(g) # IntentId(h)
      BY <1>2 DEF IInv, InsertedAlone, Unused, StoredFor
    <3>3. \A ticket \in tickets : ticket.id # IntentId(h)
      BY <1>2 DEF IInv, IntentsIdentify, Unused
    <3> QED
      BY <2>2, <2>8, <3>1, <3>2, <3>3 DEF IInv, InsertedAlone
  <2>10. StateTypes'
    <3>1. StoredFor(h).expires_at \in 0..(now + Ttl)
      BY <2>1, ConnectIntentsAssumption DEF StoredFor, Expiry, Signed, IInv, StateTypes
    <3> QED
      BY <2>2, <3>1 DEF IInv, StateTypes
  <2>11. IntentsIdentify'
    BY <2>2 DEF IInv, IntentsIdentify
  <2>12. (TicketRows /\ ScheduledWasOnline /\ SchedulerInfoAgrees)'
    BY <2>2 DEF IInv, TicketRows, ScheduledWasOnline, SchedulerInfoAgrees
  <2> QED
    BY <2>5, <2>6, <2>7, <2>9, <2>10, <2>11, <2>12 DEF IInv
<1> QED
  BY <1>1, <1>2

\* The ticket says what is stored, and nothing else will be said of that row.
LEMMA AnswerKeeps ==
  ASSUME IInv, NEW h \in Handlers, Answer(h)
  PROVE  IInv'
<1> DEFINE held == handler[h]
           ticket == [id |-> IntentId(h), request |-> held.request, row |-> held.row,
                      seen |-> held.seen, expires_at |-> Expiry(held.issued_at),
                      report_fresh |-> ReportFresh(held.row, held.issued_at),
                      region_match |-> RegionMatch(held.request, held.row)]
<1>1. /\ tickets' = tickets \cup {ticket} /\ handler' = [handler EXCEPT ![h] = Free]
      /\ UNCHANGED <<now, online, report, enabled, intents>>
  BY DEF Answer
<1>2. held \in Signed /\ IsInserted(h) /\ Chosen(held, held.issued_at)
  BY Shapes DEF Answer, IInv, ChoicesHold, IsInserted
<1>3. handler'[h] = Free /\ \A g \in Handlers : g # h => handler'[g] = handler[g]
  BY <1>1 DEF IInv, HandlerTypes
<1>4. HandlerTypes' /\ SeenCovers' /\ StateTypes'
  BY <1>1, <1>3 DEF IInv, HandlerTypes, SeenCovers, StateTypes
<1>5. ChoicesHold'
  BY <1>1, <1>3 DEF IInv, ChoicesHold, Chosen, RegionMatch, Free
<1>6. /\ ticket.row.node \in ticket.seen /\ ticket.row.node \in Nodes
      /\ ticket.region_match # "mismatch"
  BY <1>2 DEF Chosen, Signed, Rows
<1>7. ticket.report_fresh => ~ticket.row.stale
  <2>1. held.row.reported_at \in Int /\ held.issued_at \in Int
    BY <1>2 DEF Signed, Rows
  <2>2. ReportFresh(held.row, held.issued_at) => ~held.row.stale
    BY <1>2, <2>1, ConnectIntentsAssumption DEF Chosen, ReportFresh, FreshAge
  <2> QED
    BY <2>2
<1>8. /\ ticket.id = IntentId(h)
      /\ [id |-> ticket.id, device |-> ticket.request.device, target |-> ticket.row.target,
          expires_at |-> ticket.expires_at] = StoredFor(h)
  BY DEF StoredFor
<1> HIDE DEF ticket
<1>9. InsertedAlone'
  <2>1. \A g \in Handlers : IsInserted(g)' => g # h /\ IsInserted(g)
    BY <1>3 DEF IsInserted, Free
  <2>2. \A g \in Handlers : g # h => IntentId(g)' = IntentId(g) /\ StoredFor(g)' = StoredFor(g)
    BY <1>3 DEF IntentId, StoredFor
  <2> QED
    BY <1>1, <1>2, <1>8, <2>1, <2>2 DEF IInv, InsertedAlone
<1>10. IntentsIdentify'
  BY <1>1, <1>2, <1>8 DEF IInv, IntentsIdentify, InsertedAlone
<1>11. (TicketRows /\ ScheduledWasOnline /\ SchedulerInfoAgrees)'
  BY <1>1, <1>6, <1>7 DEF IInv, TicketRows, ScheduledWasOnline, SchedulerInfoAgrees
<1> QED
  BY <1>4, <1>5, <1>9, <1>10, <1>11 DEF IInv

-----------------------------------------------------------------------------
(* Steps of the others *)

\* Steps that touch no handler, row or ticket, and no node that requests see.
LEMMA WorldMoves ==
  ASSUME IInv, StateTypes', now' \in {now, now + 1},
         UNCHANGED <<online, handler, intents, tickets>>
  PROVE  IInv'
<1>1. (HandlerTypes /\ SeenCovers /\ TicketRows /\ ScheduledWasOnline /\ SchedulerInfoAgrees
         /\ IntentsIdentify)'
  BY DEF IInv, HandlerTypes, SeenCovers, TicketRows, ScheduledWasOnline, SchedulerInfoAgrees,
         IntentsIdentify
<1>2. InsertedAlone'
  BY DEF IInv, InsertedAlone, IsInserted, IntentId, StoredFor
<1>3. ASSUME NEW h \in Handlers, handler[h].pc = "selected" PROVE Chosen(handler[h], now')
  <2>1. handler[h] \in Selected /\ Chosen(handler[h], now)
    BY <1>3, Shapes DEF IInv, ChoicesHold
  <2>2. handler[h].row.reported_at \in Int /\ now \in Int
    BY <2>1 DEF Selected, Rows, IInv, StateTypes
  <2> QED
    BY <2>1, <2>2, ConnectIntentsAssumption DEF Chosen
<1>4. ASSUME NEW h \in Handlers, handler[h].pc \in {"signed", "inserted"}
      PROVE  handler[h].issued_at <= now' /\ Chosen(handler[h], handler[h].issued_at)
  <2>1. handler[h] \in Signed
    BY <1>4, Shapes DEF IInv
  <2> QED
    BY <1>4, <2>1 DEF IInv, ChoicesHold, StateTypes, Signed
<1>5. ChoicesHold'
  BY <1>3, <1>4 DEF ChoicesHold, Chosen, RegionMatch
<1> QED
  BY <1>1, <1>2, <1>5 DEF IInv

LEMMA StoreReportKeeps ==
  ASSUME IInv, NEW n \in Nodes, NEW at \in 0..now, NEW load \in Loads, StoreReport(n, at, load)
  PROVE  IInv'
<1>1. [at |-> at, load |-> load] \in [at : Int, load : Nat] /\ at \in -1..now /\ now' = now
  BY ConnectIntentsAssumption DEF StoreReport, IInv, StateTypes
<1>2. StateTypes'
  BY <1>1 DEF StoreReport, IInv, StateTypes
<1> QED
  BY <1>2, WorldMoves DEF StoreReport

LEMMA TurnRuleKeeps ==
  ASSUME IInv, NEW rule \in Turning, TurnRule(rule)
  PROVE  IInv'
<1>1. StateTypes'
  BY ConnectIntentsAssumption DEF TurnRule, IInv, StateTypes
<1> QED
  BY <1>1, WorldMoves DEF TurnRule

LEMMA TickKeeps == ASSUME IInv, Tick PROVE IInv'
<1>1. StateTypes'
  BY ConnectIntentsAssumption DEF Tick, IInv, StateTypes
<1> QED
  BY <1>1, WorldMoves DEF Tick

\* A node that comes back is seen by every request under way.
LEMMA TurnNodeKeeps ==
  ASSUME IInv, NEW n \in Nodes, TurnNode(n)
  PROVE  IInv'
<1>1. online' \subseteq Nodes /\ UNCHANGED <<now, report, enabled, intents, tickets>>
  BY DEF TurnNode, IInv, StateTypes
<1>2. ASSUME NEW h \in Handlers PROVE handler'[h] = Witnessed(h)
  BY DEF TurnNode
<1>3. ASSUME NEW h \in Handlers, handler[h] # Free
      PROVE  /\ handler'[h] = [handler[h] EXCEPT !.seen = handler[h].seen \cup online']
             /\ handler'[h] \in Received \cup Selected \cup Signed
             /\ online' \subseteq handler'[h].seen
  <2>1. handler'[h] = [handler[h] EXCEPT !.seen = handler[h].seen \cup online']
    BY <1>2, <1>3 DEF Witnessed
  <2>2. handler[h] \in Received \cup Selected \cup Signed
    BY <1>3 DEF IInv, HandlerTypes
  <2>3. CASE handler[h] \in Received
    BY <1>1, <2>1, <2>3 DEF Received
  <2>4. CASE handler[h] \in Selected
    BY <1>1, <2>1, <2>4 DEF Selected
  <2>5. CASE handler[h] \in Signed
    BY <1>1, <2>1, <2>5 DEF Signed
  <2> QED
    BY <2>1, <2>2, <2>3, <2>4, <2>5
<1>4. ASSUME NEW h \in Handlers
      PROVE  /\ handler'[h].pc = handler[h].pc
             /\ handler[h].pc \in {"selected", "signed", "inserted"} =>
                  /\ handler'[h].request = handler[h].request /\ handler'[h].row = handler[h].row
                  /\ handler[h].seen \subseteq handler'[h].seen
             /\ handler[h].pc \in {"signed", "inserted"} =>
                  handler'[h].issued_at = handler[h].issued_at
  <2>1. CASE handler[h] = Free
    BY <1>2, <2>1 DEF Witnessed, Free
  <2>2. CASE handler[h] # Free
    <3>1. handler'[h] = [handler[h] EXCEPT !.seen = handler[h].seen \cup online']
      BY <1>3, <2>2
    <3>2. CASE handler[h] \in Received
      BY <3>1, <3>2 DEF Received
    <3>3. CASE handler[h] \in Selected
      BY <3>1, <3>3 DEF Selected
    <3>4. CASE handler[h] \in Signed
      BY <3>1, <3>4 DEF Signed
    <3> QED
      BY <2>2, <3>2, <3>3, <3>4 DEF IInv, HandlerTypes
  <2> QED
    BY <2>1, <2>2
<1>5. StateTypes'
  BY <1>1 DEF IInv, StateTypes
<1>6. HandlerTypes'
  <2>1. handler' = [h \in Handlers |-> Witnessed(h)]
    BY DEF TurnNode
  <2>2. \A h \in Handlers : Witnessed(h) \in {Free} \cup Received \cup Selected \cup Signed
    BY <1>2, <1>3 DEF Witnessed
  <2> QED
    BY <2>1, <2>2 DEF HandlerTypes
<1>7. SeenCovers'
  <2>1. ASSUME NEW h \in Handlers, handler'[h] # Free PROVE online' \subseteq handler'[h].seen
    <3>1. handler[h] # Free
      BY <1>2, <2>1 DEF Witnessed
    <3> QED
      BY <1>3, <3>1
  <2> QED
    BY <2>1 DEF SeenCovers
<1>8. ChoicesHold'
  BY <1>1, <1>4 DEF IInv, ChoicesHold, Chosen, RegionMatch
<1>9. InsertedAlone'
  <2>1. \A h \in Handlers : IsInserted(h)' = IsInserted(h)
    BY <1>4 DEF IsInserted
  <2>2. \A h \in Handlers :
          IsInserted(h) => IntentId(h)' = IntentId(h) /\ StoredFor(h)' = StoredFor(h)
    BY <1>4 DEF IntentId, StoredFor, IsInserted
  <2> QED
    BY <1>1, <2>1, <2>2 DEF IInv, InsertedAlone
<1>10. (TicketRows /\ ScheduledWasOnline /\ SchedulerInfoAgrees /\ IntentsIdentify)'
  BY <1>1 DEF IInv, TicketRows, ScheduledWasOnline, SchedulerInfoAgrees, IntentsIdentify
<1> QED
  BY <1>5, <1>6, <1>7, <1>8, <1>9, <1>10 DEF IInv

-----------------------------------------------------------------------------

LEMMA InitInv == Init => IInv
<1> SUFFICES ASSUME Init PROVE IInv
  OBVIOUS
<1>1. StateTypes /\ HandlerTypes
  BY ConnectIntentsAssumption DEF Init, StateTypes, HandlerTypes, NoReport
<1>2. SeenCovers /\ ChoicesHold /\ InsertedAlone
  BY DEF Init, SeenCovers, ChoicesHold, InsertedAlone, IsInserted, Free
<1>3. TicketRows /\ ScheduledWasOnline /\ SchedulerInfoAgrees /\ IntentsIdentify
  BY DEF Init, TicketRows, ScheduledWasOnline, SchedulerInfoAgrees, IntentsIdentify
<1> QED
  BY <1>1, <1>2, <1>3 DEF IInv

LEMMA NextInv == IInv /\ [Next]_vars => IInv'
<1> SUFFICES ASSUME IInv, [Next]_vars PROVE IInv'
  OBVIOUS
<1>1. CASE UNCHANGED vars
  <2>1. StateTypes'
    BY <1>1 DEF vars, IInv, StateTypes
  <2> QED
    BY <1>1, <2>1, WorldMoves DEF vars
<1>2. ASSUME NEW h \in Handlers, Issue(h) PROVE IInv'
  BY <1>2, ReceiveKeeps, SelectKeeps, SignKeeps, InsertKeeps, AnswerKeeps, AbandonKeeps DEF Issue
<1>3. ASSUME NEW n \in Nodes, TurnNode(n) PROVE IInv'
  BY <1>3, TurnNodeKeeps
<1>4. ASSUME NEW n \in Nodes, NEW at \in 0..now, NEW load \in Loads, StoreReport(n, at, load)
      PROVE  IInv'
  BY <1>4, StoreReportKeeps
<1>5. ASSUME NEW rule \in Turning, TurnRule(rule) PROVE IInv'
  BY <1>5, TurnRuleKeeps
<1>6. CASE Tick
  BY <1>6, TickKeeps
<1> QED
  BY <1>1, <1>2, <1>3, <1>4, <1>5, <1>6 DEF Next

THEOREM Inductive == Spec => []IInv
  BY InitInv, NextInv, PTL DEF Spec

-----------------------------------------------------------------------------
(* Theorems *)

\* The state of the scheduler stays well typed.
THEOREM TypeCorrect == Spec => []TypeOK
<1>1. IInv => TypeOK
  BY Shapes DEF IInv, TypeOK, StateTypes, TicketRows
<1> QED
  BY <1>1, Inductive, PTL

\* No ticket names a node that was out of service during the whole of its request.
THEOREM TicketsNameNodesInService == Spec => []ScheduledWasOnline
<1>1. IInv => ScheduledWasOnline
  BY DEF IInv
<1> QED
  BY <1>1, Inductive, PTL

\* What an answer says of the choice is what the selection went by, however late it is said.
THEOREM AnswersExplainTheChoice == Spec => []SchedulerInfoAgrees
<1>1. IInv => SchedulerInfoAgrees
  BY DEF IInv
<1> QED
  BY <1>1, Inductive, PTL

\* No two tickets share an intent, and the intent of a ticket is the one stored.
THEOREM TicketsHaveTheirOwnIntent == Spec => []IntentsIdentify
<1>1. IInv => IntentsIdentify
  BY DEF IInv
<1> QED
  BY <1>1, Inductive, PTL

-----------------------------------------------------------------------------
(***************************************************************************)
(* Numbers.  A set of numbers has a least one, since the finite sets of    *)
(* numbers up to a given one are well founded; induction follows.          *)
(***************************************************************************)

\* First finds something.
LEMMA Least ==
  ASSUME NEW S, S \subseteq Nat, S # {}
  PROVE  \E n \in S : \A m \in S : n <= m
<1>1. PICK x \in S : TRUE
  OBVIOUS
<1> DEFINE U == 0..x
           T == {0..m : m \in S \cap U}
<1>2. IsFiniteSet(U)
  BY <1>1, FS_Interval
<1>3. T # {} /\ T \subseteq SUBSET U
  BY <1>1
<1>4. T \subseteq FiniteSubsetsOf(U)
  BY <1>2, <1>3, FS_Subset DEF FiniteSubsetsOf
<1>5. IsWellFoundedOn(StrictSubsetOrdering(U), FiniteSubsetsOf(U))
  BY <1>2, FS_StrictSubsetOrderingWellFounded
<1>6. PICK X \in T : \A Y \in T : <<Y, X>> \notin StrictSubsetOrdering(U)
  <2> HIDE DEF T, U
  <2> QED BY <1>3, <1>4, <1>5, WFMin
<1>7. PICK n \in S \cap U : X = 0..n
  OBVIOUS
<1>8. ASSUME NEW m \in S \cap U PROVE n <= m
  <2>1. <<0..m, 0..n>> \notin StrictSubsetOrdering(U)
    BY <1>6, <1>7
  <2>2. ~(0..m \subseteq 0..n /\ 0..m # 0..n)
    BY <2>1, <1>1 DEF StrictSubsetOrdering
  <2> QED BY <2>2
<1> QED BY <1>1, <1>8
\* Induction, over the set of the numbers a statement holds of.
LEMMA ByInduction ==
  ASSUME NEW S, 0 \in S, \A n \in Nat : n \in S => n + 1 \in S
  PROVE  Nat \subseteq S
<1> DEFINE T == Nat \ S
<1> SUFFICES T = {}
  OBVIOUS
<1>1. ASSUME T # {} PROVE FALSE
  <2>1. T \subseteq Nat
    OBVIOUS
  <2> HIDE DEF T
  <2>2. PICK n \in T : \A m \in T : n <= m
    BY <1>1, <2>1, Least
  <2> USE DEF T
  <2>3. n # 0 /\ n - 1 \in Nat /\ (n - 1) + 1 = n
    BY <2>2
  <2>4. n - 1 \in S
    BY <2>2, <2>3
  <2> QED BY <2>2, <2>3, <2>4
<1> QED BY <1>1

PowerDef == [n \in 0..Width |-> IF n = 0 THEN 1 ELSE 2 * Power[n - 1]]

\* The shift is well defined: the recursion of Power has a solution.
LEMMA PowerExists == Power = PowerDef
<1> DEFINE Solves(g, m) == g = [n \in 0..m |-> IF n = 0 THEN 1 ELSE 2 * g[n - 1]]
           Solved == {m \in Nat : \E g : Solves(g, m)}
<1>1. 0 \in Solved
  <2>1. Solves([n \in 0..0 |-> 1], 0)
    OBVIOUS
  <2> QED BY <2>1
<1>2. ASSUME NEW m \in Nat, m \in Solved PROVE m + 1 \in Solved
  <2>1. PICK g : Solves(g, m)
    BY <1>2
  <2> DEFINE f == [n \in 0..(m + 1) |-> IF n = m + 1 THEN 2 * g[m] ELSE g[n]]
  <2>2. \A n \in 0..m : g[n] = IF n = 0 THEN 1 ELSE 2 * g[n - 1]
    BY <2>1
  <2>3. \A n \in 0..(m + 1) : f[n] = IF n = 0 THEN 1 ELSE 2 * f[n - 1]
    BY <2>2
  <2>4. Solves(f, m + 1)
    BY <2>3
  <2> HIDE DEF f
  <2>5. \E h : Solves(h, m + 1)
    BY <2>4
  <2>6. m + 1 \in Nat
    OBVIOUS
  <2> HIDE DEF Solves
  <2> QED BY <2>5, <2>6
<1> HIDE DEF Solved
<1>3. Nat \subseteq Solved
  BY <1>1, <1>2, ByInduction
<1> USE DEF Solved
<1>4. \E g : Solves(g, Width)
  BY <1>3, RoutePolicyAssumption
<1> QED BY <1>4 DEF Power, PowerDef

\* The blocks of a prefix halve from bit to bit.
LEMMA PowerValues ==
  /\ Power[0] = 1
  /\ \A n \in 0..Width : Power[n] \in Nat \ {0}
  /\ \A n \in 1..Width : Power[n] = 2 * Power[n - 1]
<1>1. \A n \in 0..Width : Power[n] = IF n = 0 THEN 1 ELSE 2 * Power[n - 1]
  BY PowerExists DEF PowerDef
<1>2. Power[0] = 1 /\ \A n \in 1..Width : Power[n] = 2 * Power[n - 1]
  BY <1>1, RoutePolicyAssumption
<1> DEFINE Good == {n \in Nat : n <= Width => Power[n] \in Nat \ {0}}
<1>3. 0 \in Good
  BY <1>2
<1>4. ASSUME NEW n \in Nat, n \in Good PROVE n + 1 \in Good
  BY <1>2, <1>4, RoutePolicyAssumption
<1> HIDE DEF Good
<1>5. Nat \subseteq Good
  BY <1>3, <1>4, ByInduction
<1> QED BY <1>2, <1>5, RoutePolicyAssumption DEF Good


-----------------------------------------------------------------------------
(* Blocks: masking compares leading bits *)

\* An address is its leading bits, then the others; one bit more, one factor less.
LEMMA Halves ==
  ASSUME NEW a \in Nat, NEW m \in Nat \ {0}
  PROVE  /\ a = (m * (a \div m)) + (a % m)
         /\ a \div m \in Nat /\ a \div m = 2 * (a \div (2 * m)) + ((a \div m) % 2)
  OBVIOUS

\* The first p bits of an address
Lead(a, p) == a \div Power[Width - p]

\* Masking keeps the leading bits in place; each bit doubles what the leading bits are worth.
LEMMA LeadingBits ==
  ASSUME NEW a \in Addresses
  PROVE  /\ Lead(a, 0) = 0
         /\ \A p \in 0..Width : Lead(a, p) \in Nat /\ Masked(a, p) = Power[Width - p] * Lead(a, p)
         /\ \A p \in 1..Width : Lead(a, p) = 2 * Lead(a, p - 1) + Bit(a, p)
<1> USE RoutePolicyAssumption
<1>1. a \in Nat /\ a < Power[Width]
  BY PowerValues DEF Addresses
<1>2. Lead(a, 0) = 0
  BY <1>1, PowerValues DEF Lead
<1>3. ASSUME NEW p \in 0..Width
      PROVE  Lead(a, p) \in Nat /\ Masked(a, p) = Power[Width - p] * Lead(a, p)
  <2>1. PICK m \in Nat \ {0} : m = Power[Width - p]
    BY PowerValues
  <2>2. a = (m * (a \div m)) + (a % m) /\ a \div m \in Nat
    BY <1>1, Halves
  <2> QED BY <2>1, <2>2, <1>1 DEF Lead, Masked
<1>4. ASSUME NEW p \in 1..Width
      PROVE  Lead(a, p) = 2 * Lead(a, p - 1) + Bit(a, p)
  <2>1. PICK m \in Nat \ {0} : m = Power[Width - p]
    BY PowerValues
  <2>2. Power[Width - (p - 1)] = 2 * m
    <3>1. Width - (p - 1) \in 1..Width /\ Width - (p - 1) - 1 = Width - p
      OBVIOUS
    <3> QED BY <2>1, <3>1, PowerValues
  <2>3. a \div m = 2 * (a \div (2 * m)) + ((a \div m) % 2)
    BY <1>1, Halves
  <2> QED BY <2>1, <2>2, <2>3 DEF Lead, Bit
<1> QED BY <1>2, <1>3, <1>4

\* ipv4_in_cidr and ipv6_in_cidr compare what is left under the mask: that is, bit by bit, the
\* first prefix bits, also for the prefixes 0 and Width.
LEMMA MaskedIsPrefix ==
  ASSUME NEW a \in Addresses, NEW b \in Addresses, NEW p \in 0..Width
  PROVE  Masked(a, p) = Masked(b, p) <=> \A i \in 1..p : Bit(a, i) = Bit(b, i)
<1> USE RoutePolicyAssumption
<1> DEFINE Same(q) == \A i \in 1..q : Bit(a, i) = Bit(b, i)
           Good == {q \in Nat : q <= Width => (Lead(a, q) = Lead(b, q) <=> Same(q))}
<1>1. 0 \in Good
  BY LeadingBits
<1>2. ASSUME NEW q \in Nat, q \in Good PROVE q + 1 \in Good
  <2> SUFFICES ASSUME q + 1 <= Width
               PROVE  Lead(a, q + 1) = Lead(b, q + 1) <=> Same(q + 1)
    OBVIOUS
  <2>1. Lead(a, q) = Lead(b, q) <=> Same(q)
    BY <1>2
  <2>2. Same(q + 1) <=> Same(q) /\ Bit(a, q + 1) = Bit(b, q + 1)
    OBVIOUS
  <2>3. ASSUME NEW c \in Addresses
        PROVE  /\ Lead(c, q + 1) = 2 * Lead(c, q) + Bit(c, q + 1)
               /\ Lead(c, q) \in Nat /\ Bit(c, q + 1) \in {0, 1}
    <3>1. Lead(c, q + 1) \in Nat /\ Lead(c, q) \in Nat
      BY LeadingBits
    <3>2. Bit(c, q + 1) = Lead(c, q + 1) % 2
      BY DEF Bit, Lead
    <3>3. q + 1 \in 1..Width /\ (q + 1) - 1 = q
      OBVIOUS
    <3>4. Lead(c, q + 1) = 2 * Lead(c, q) + Bit(c, q + 1)
      BY <3>3, LeadingBits
    <3>5. Lead(c, q + 1) % 2 \in {0, 1}
      BY <3>1
    <3> QED BY <3>1, <3>2, <3>4, <3>5
  <2>4. Lead(a, q + 1) = Lead(b, q + 1) <=> Lead(a, q) = Lead(b, q) /\ Bit(a, q + 1) = Bit(b, q + 1)
    BY <2>3
  <2> QED BY <2>1, <2>2, <2>4
<1> HIDE DEF Good
<1>3. Nat \subseteq Good
  BY <1>1, <1>2, ByInduction
<1>4. Lead(a, p) = Lead(b, p) <=> Same(p)
  BY <1>3 DEF Good
<1>5. Masked(a, p) = Masked(b, p) <=> Lead(a, p) = Lead(b, p)
  <2>1. PICK m \in Nat \ {0} : m = Power[Width - p]
    BY PowerValues
  <2>2. PICK x \in Nat, y \in Nat : x = Lead(a, p) /\ y = Lead(b, p)
    BY LeadingBits
  <2>3. Masked(a, p) = m * x /\ Masked(b, p) = m * y
    BY <2>1, <2>2, LeadingBits
  <2>4. m * x = m * y <=> x = y
    OBVIOUS
  <2> QED BY <2>2, <2>3, <2>4
<1> QED BY <1>4, <1>5
-----------------------------------------------------------------------------
(* What a policy lets through *)

\* A pick is one of those to pick from.
LEMMA Firsts ==
  ASSUME NEW S, S \subseteq Nat, S # {}
  PROVE  First(S) \in S
  BY Least DEF First

\* Lists of a policy: the first element of a list that has one, the elements of one that has none.
LEMMA Lists ==
  ASSUME NEW s, IsList(s)
  PROVE  /\ DOMAIN s \subseteq Nat
         /\ s # <<>> => s[1] \in Range(s)
         /\ s = <<>> => Range(s) = {}
<1>1. s \in Seq(Range(s))
  BY DEF IsList
<1>2. DOMAIN s = 1..Len(s) /\ Len(s) \in Nat
  BY <1>1
<1>3. ASSUME s # <<>> PROVE s[1] \in Range(s)
  <2>1. Len(s) # 0
    BY <1>1, <1>3
  <2> QED BY <1>2, <2>1 DEF Range
<1>4. s = <<>> => Range(s) = {}
  BY DEF Range
<1> QED BY <1>2, <1>3, <1>4

\* A rule's blocks, names and addresses are what the node compares with.
LEMMA HostsOfRules ==
  ASSUME NEW rule, TypedRule(rule), rule.type \in HostTypes, NEW a \in Addresses, NEW target,
         target.host = a, target.domain = None
  PROVE  HostMatches(rule, target) <=> a \in AllowedAddresses(rule)
<1> DEFINE blocks == {b \in Addresses : \E cidr \in Range(rule.cidrs) : InBlock(b, cidr)}
<1>1. InCidrs(a, rule) <=> a \in blocks
  <2>1. ASSUME NEW cidr \in Range(rule.cidrs) PROVE InCidr(a, cidr) <=> InBlock(a, cidr)
    <3>1. cidr.prefix \in Nat
      BY DEF TypedRule
    <3>2. CASE cidr.base \in Addresses /\ cidr.prefix <= Width
      <4>1. cidr.prefix \in 0..Width
        BY <3>1, <3>2, RoutePolicyAssumption
      <4> QED BY <3>2, <4>1, MaskedIsPrefix DEF InCidr, InBlock
    <3> QED BY <3>2 DEF InCidr, InBlock
  <2> QED BY <2>1 DEF InCidrs
<1>2. IsHost(a, rule) <=> a = rule.host
  BY RoutePolicyAssumption DEF IsHost
<1>3. ~IsHost(target.domain, rule)
  BY DEF IsHost
<1>4. /\ IsResolved(a, rule) <=> a \in Range(rule.resolved)
      /\ IsObserved(a, rule) <=> a \in Range(rule.observed)
  BY DEF IsResolved, IsObserved
<1>5. AllowedAddresses(rule) =
        CASE rule.type = "any"         -> Addresses
          [] rule.type = "cidr"        -> blocks
          [] rule.type = "observed_ip" -> Range(rule.resolved) \cup Range(rule.observed)
          [] rule.type \in {"domain", "ipv4", "ipv6"} -> {rule.host} \cup Range(rule.resolved)
          [] OTHER -> IF rule.host = None /\ rule.resolved = <<>> /\ rule.observed = <<>>
                         /\ rule.cidrs = <<>>
                      THEN Addresses
                      ELSE {rule.host} \cup Range(rule.resolved) \cup Range(rule.observed)
                             \cup blocks
  BY DEF AllowedAddresses
<1> HIDE DEF blocks
<1>6. CASE rule.type = "any"
  BY <1>5, <1>6 DEF HostMatches
<1>7. CASE rule.type = "domain"
  BY <1>2, <1>3, <1>4, <1>5, <1>7 DEF HostMatches
<1>8. CASE rule.type \in {"ipv4", "ipv6"}
  BY <1>2, <1>4, <1>5, <1>8 DEF HostMatches
<1>9. CASE rule.type = "observed_ip"
  BY <1>4, <1>5, <1>9 DEF HostMatches
<1>10. CASE rule.type = "cidr"
  BY <1>1, <1>5, <1>10 DEF HostMatches
<1>11. CASE rule.type = "steam_sdr"
  BY <1>1, <1>2, <1>4, <1>5, <1>11 DEF HostMatches
<1> QED BY <1>6, <1>7, <1>8, <1>9, <1>10, <1>11 DEF HostTypes

\* A policy the panel accepts lets through exactly what its rules list.
LEMMA AdmitsWhatIsListed ==
  ASSUME NEW policy, TypedPolicy(policy), ValidPolicy(policy), NEW protocol \in Protocols,
         NEW a \in Addresses, NEW port \in PortNumbers, NEW target,
         target.id = None, target.protocol = protocol, target.host = a, target.port = port,
         target.domain = None
  PROVE  Admits(policy, target) <=>
           \E rule \in Range(policy.targets) :
             a \in AllowedAddresses(rule) /\ port \in AllowedPorts(rule, protocol)
<1>1. ProtocolOf(policy, target) = protocol
  BY RoutePolicyAssumption DEF ProtocolOf
<1>2. ASSUME NEW rule \in Range(policy.targets)
      PROVE  /\ HostMatches(rule, target) <=> a \in AllowedAddresses(rule)
             /\ PortMatches(rule, protocol, port) <=> port \in AllowedPorts(rule, protocol)
  <2>1. TypedRule(rule) /\ rule.type \in HostTypes
    BY DEF TypedPolicy, ValidPolicy, ValidRule
  <2>2. HostMatches(rule, target) <=> a \in AllowedAddresses(rule)
    BY <2>1, HostsOfRules
  <2>3. PortMatches(rule, protocol, port) <=> port \in AllowedPorts(rule, protocol)
    BY DEF PortMatches, AllowedPorts
  <2> QED BY <2>2, <2>3
<1>3. Admits(policy, target) <=>
        \E rule \in Range(policy.targets) :
          PortMatches(rule, protocol, port) /\ HostMatches(rule, target)
  <2>1. Admits(policy, target) <=>
          \E i \in DOMAIN policy.targets :
            /\ PortMatches(policy.targets[i], protocol, port)
            /\ HostMatches(policy.targets[i], target)
    BY <1>1 DEF Admits, Matches
  <2> QED BY <2>1 DEF Range
<1> QED BY <1>2, <1>3

-----------------------------------------------------------------------------
(* What is picked *)

\* The port of a pick is one of its rule, whatever ranges come first.
LEMMA PortsOfPicks ==
  ASSUME NEW rule, TypedRule(rule), ValidRule(rule), NEW protocol, PortsFor(rule, protocol) # {}
  PROVE  PortMatches(rule, protocol, PortFor(rule, protocol)) /\ protocol \in Protocols
<1>1. PortsFor(rule, protocol) \subseteq Nat
  BY Lists DEF PortsFor, TypedRule
<1>2. First(PortsFor(rule, protocol)) \in PortsFor(rule, protocol)
  BY <1>1, Firsts
<1>3. PICK i \in DOMAIN rule.ports :
        rule.ports[i].protocol = protocol /\ PortFor(rule, protocol) = rule.ports[i].from
  BY <1>2 DEF PortsFor, PortFor
<1>4. rule.ports[i] \in Range(rule.ports)
  BY DEF Range
<1>5. rule.ports[i].from \in Nat /\ rule.ports[i].to \in Nat
  BY <1>4, RoutePolicyAssumption DEF TypedRule
<1>6. rule.ports[i].from <= rule.ports[i].to /\ protocol \in Protocols
  BY <1>3, <1>4 DEF ValidRule, ValidPort
<1> QED BY <1>3, <1>4, <1>5, <1>6 DEF PortMatches

\* The first name of a concrete rule is one the node accepts for it, with the domain the
\* probe sends along or without.
LEMMA NamesOfPicks ==
  ASSUME NEW rule, TypedRule(rule), rule.type \in HostTypes, Concrete(rule), HasName(rule),
         NEW target, target.host = NameOf(rule)
  PROVE  HostMatches(rule, target)
<1>1. /\ rule.resolved # <<>> => rule.resolved[1] \in Range(rule.resolved)
      /\ rule.observed # <<>> => rule.observed[1] \in Range(rule.observed)
  BY Lists DEF TypedRule
<1>2. \/ IsHost(target.host, rule)
      \/ rule.host = None /\ IsResolved(target.host, rule)
      \/ /\ rule.host = None /\ rule.resolved = <<>> /\ rule.observed # <<>>
          /\ IsObserved(target.host, rule)
  BY <1>1 DEF HasName, NameOf, IsHost, IsResolved, IsObserved
<1>3. rule.type # "cidr"
  BY DEF Concrete, HasName
<1> QED BY <1>2, <1>3 DEF HostMatches, Concrete, HostTypes, IsHost

\* A rule that is picked, and whose name and port are taken, admits the pick.
LEMMA PicksAreAdmitted ==
  ASSUME NEW policy, TypedPolicy(policy), ValidPolicy(policy), NEW protocol,
         NEW nameless \in BOOLEAN,
         Pickable(policy, protocol, nameless) # {},
         \A rule \in Range(policy.targets) : Concrete(rule)
  PROVE  LET rule == Picked(policy, protocol, nameless)
         IN \A target :
              /\ target.id \in {None, rule.id} /\ target.protocol = protocol
              /\ target.port = PortFor(rule, protocol)
              /\ target.host = IF Nameless(rule) THEN 0 ELSE NameOf(rule)
              => Admits(policy, target)
<1>1. Pickable(policy, protocol, nameless) \subseteq DOMAIN policy.targets
  BY DEF Pickable
<1>2. DOMAIN policy.targets \subseteq Nat
  BY Lists DEF TypedPolicy
<1>3. First(Pickable(policy, protocol, nameless)) \in Pickable(policy, protocol, nameless)
  BY <1>1, <1>2, Firsts
<1>4. PICK i \in DOMAIN policy.targets :
        /\ Picked(policy, protocol, nameless) = policy.targets[i]
        /\ PortsFor(policy.targets[i], protocol) # {}
        /\ HasName(policy.targets[i]) \/ Nameless(policy.targets[i])
  BY <1>3 DEF Pickable, Picked
<1> DEFINE rule == policy.targets[i]
<1>5. rule \in Range(policy.targets)
  BY DEF Range
<1>6. TypedRule(rule) /\ ValidRule(rule) /\ Concrete(rule) /\ rule.type \in HostTypes
  BY <1>5 DEF TypedPolicy, ValidPolicy, ValidRule
<1>7. PortMatches(rule, protocol, PortFor(rule, protocol)) /\ protocol \in Protocols
  <2> HIDE DEF rule
  <2> QED BY <1>4, <1>6, PortsOfPicks DEF rule
<1>8. ASSUME NEW target, target.id \in {None, rule.id}, target.protocol = protocol,
             target.port = PortFor(rule, protocol),
             target.host = IF Nameless(rule) THEN 0 ELSE NameOf(rule)
      PROVE  Admits(policy, target)
  <2>1. ProtocolOf(policy, target) = protocol
    BY <1>7, <1>8, RoutePolicyAssumption DEF ProtocolOf
  <2>2. HostMatches(rule, target)
    <3> HIDE DEF rule
    <3>1. CASE Nameless(rule)
      BY <1>6, <3>1 DEF Nameless, HasName, HostMatches, Concrete
    <3>2. CASE ~Nameless(rule)
      <4>1. HasName(rule) /\ target.host = NameOf(rule)
        BY <1>4, <1>8, <3>2 DEF rule
      <4> QED BY <1>6, <4>1, NamesOfPicks
    <3> QED BY <3>1, <3>2
  <2>3. i \in Matches(policy, target)
    BY <1>7, <1>8, <2>1, <2>2 DEF Matches
  <2> QED BY <1>7, <2>1, <2>3 DEF Admits
<1> QED BY <1>4, <1>8

\* The probe only picks rules that have a name.
LEMMA PicksHaveNames ==
  ASSUME NEW policy, TypedPolicy(policy), NEW protocol, Pickable(policy, protocol, FALSE) # {}
  PROVE  ~Nameless(Picked(policy, protocol, FALSE))
<1>1. Pickable(policy, protocol, FALSE) \subseteq Nat
  BY Lists DEF TypedPolicy, Pickable
<1>2. First(Pickable(policy, protocol, FALSE)) \in Pickable(policy, protocol, FALSE)
  BY <1>1, Firsts
<1> QED BY <1>2 DEF Pickable, Picked, Nameless

-----------------------------------------------------------------------------
(* What the panel has accepted *)

\* A handler works for a request that came to it and was validated.
ReceivedIsValid ==
  \A h \in Handlers : handler[h].pc = "received" =>
    handler[h].request \in Requests[h] /\ ValidRequest(handler[h].request)

\* Nothing that happens meanwhile changes the request a handler has received.
LEMMA ReceivedStaysValid == Spec => []ReceivedIsValid
<1>1. Init => ReceivedIsValid
  BY DEF Init, Free, ReceivedIsValid
<1>2. IInv /\ ReceivedIsValid /\ [Next]_vars => ReceivedIsValid'
  <2> SUFFICES ASSUME HandlerTypes, ReceivedIsValid, [Next]_vars,
                      NEW g \in Handlers, handler'[g].pc = "received"
               PROVE  handler'[g].request \in Requests[g] /\ ValidRequest(handler'[g].request)
    BY DEF IInv, ReceivedIsValid, ValidRequest, ValidRoute, ValidPolicy, ValidRule, ValidPort,
           Pickable, PortsFor, HasName, Nameless
  <2>1. ASSUME NEW h \in Handlers, NEW request \in Requests[h], Receive(h, request)
        PROVE  handler'[g].request \in Requests[g] /\ ValidRequest(handler'[g].request)
    BY <2>1 DEF Receive, HandlerTypes, ReceivedIsValid
  <2>2. ASSUME NEW h \in Handlers, NEW next, next.pc # "received",
               handler' = [handler EXCEPT ![h] = next]
        PROVE  handler'[g] = handler[g]
    BY <2>2 DEF HandlerTypes
  <2>3. ASSUME NEW h \in Handlers, Select(h) \/ Sign(h) \/ Insert(h) \/ Answer(h) \/ Abandon(h)
        PROVE  \E next : next.pc # "received" /\ handler' = [handler EXCEPT ![h] = next]
    <3>1. Free.pc # "received"
      BY DEF Free
    <3>2. CASE Select(h)
      BY <3>1, <3>2 DEF Select
    <3>3. CASE Sign(h)
      BY <3>3 DEF Sign
    <3>4. CASE Insert(h)
      <4> DEFINE next == [handler[h] EXCEPT !.pc = "inserted"]
      <4>1. handler[h] \in Signed
        BY <3>4, Shapes DEF Insert
      <4>2. next.pc = "inserted"
        BY <4>1 DEF Signed
      <4>3. \/ handler' = [handler EXCEPT ![h] = next]
            \/ handler' = [handler EXCEPT ![h] = Free]
        BY <3>4 DEF Insert
      <4> HIDE DEF next
      <4> QED BY <3>1, <4>2, <4>3
    <3>5. CASE Answer(h) \/ Abandon(h)
      BY <3>1, <3>5 DEF Answer, Abandon
    <3> QED BY <2>3, <3>2, <3>3, <3>4, <3>5
  <2>4. ASSUME NEW n \in Nodes, TurnNode(n)
        PROVE  handler[g].pc = "received" /\ handler'[g].request = handler[g].request
    <3>1. handler'[g] =
            IF handler[g] = Free THEN Free ELSE [handler[g] EXCEPT !.seen = @ \cup online']
      BY <2>4 DEF TurnNode, Witnessed
    <3>2. handler[g] # Free
      BY <3>1 DEF Free
    <3>3. handler[g] \in Received \cup Selected \cup Signed
      BY <3>2 DEF HandlerTypes
    <3> QED BY <3>1, <3>2, <3>3 DEF Received, Selected, Signed
  <2>5. ASSUME handler' = handler
        PROVE  handler'[g].request \in Requests[g] /\ ValidRequest(handler'[g].request)
    BY <2>5 DEF ReceivedIsValid
  <2>6. ASSUME \/ \E n \in Nodes, at \in 0..now, load \in Loads : StoreReport(n, at, load)
               \/ \E rule \in Turning : TurnRule(rule)
               \/ Tick \/ UNCHANGED vars
        PROVE  handler' = handler
    BY <2>6 DEF StoreReport, TurnRule, Tick, vars
  <2> QED
    BY <2>1, <2>2, <2>3, <2>4, <2>5, <2>6 DEF ReceivedIsValid, Next, Issue
<1> QED
  BY <1>1, <1>2, Inductive, PTL DEF Spec

\* validate_route_policy has seen the policy of a request that is accepted.
LEMMA AcceptedPolicies ==
  ASSUME ReceivedIsValid, NEW request \in Accepted, request.policy # None
  PROVE  /\ TypedPolicy(request.policy) /\ ValidPolicy(request.policy)
         /\ request.protocol \in Protocols
<1>1. PICK h \in Handlers : request \in Requests[h] /\ ValidRequest(request)
  BY DEF Accepted, ReceivedIsValid
<1> QED
  BY <1>1, ConnectIntentsAssumption DEF ValidRequest, ValidRoute

\* match_route_policy_target lets a target through iff a rule of the policy lists its port and,
\* by name or by the leading bits of a block, its address: for addresses of any width, any
\* policy the panel accepts and any number of rules.
THEOREM PoliciesMeanWhatTheyList == Spec => []PolicyMeansWhatItLists
<1>1. ReceivedIsValid => PolicyMeansWhatItLists
  <2> SUFFICES ASSUME ReceivedIsValid, NEW request \in Accepted, request.policy # None,
                      NEW a \in Addresses, NEW port \in PortNumbers
               PROVE  Admits(request.policy, [id |-> None, protocol |-> request.protocol,
                                              host |-> a, port |-> port, domain |-> None])
                      <=> \E rule \in Range(request.policy.targets) :
                            /\ a \in AllowedAddresses(rule)
                            /\ port \in AllowedPorts(rule, request.protocol)
    BY DEF PolicyMeansWhatItLists
  <2> DEFINE target == [id |-> None, protocol |-> request.protocol, host |-> a,
                        port |-> port, domain |-> None]
  <2>1. /\ target.id = None /\ target.protocol = request.protocol /\ target.host = a
        /\ target.port = port /\ target.domain = None
    OBVIOUS
  <2> HIDE DEF target
  <2>2. /\ TypedPolicy(request.policy) /\ ValidPolicy(request.policy)
        /\ request.protocol \in Protocols
    BY AcceptedPolicies
  <2> QED
    BY <2>1, <2>2, AdmitsWhatIsListed DEF target
<1> QED
  BY <1>1, ReceivedStaysValid, PTL

\* What representative_route_policy_target signs and what select_session_target of the probe
\* derives from a policy of concrete rules, match_route_policy_target lets through.
THEOREM PicksAreLetThrough == Spec => []PickedIsAdmitted
<1>1. ReceivedIsValid => PickedIsAdmitted
  <2> SUFFICES ASSUME ReceivedIsValid, NEW request \in Accepted, request.policy # None,
                      \A rule \in Range(request.policy.targets) : Concrete(rule)
               PROVE  LET policy == request.policy
                          rep    == Representative(policy, request.protocol)
                      IN /\ Pickable(policy, request.protocol, TRUE) # {} =>
                             Admits(policy, [id |-> None, protocol |-> request.protocol,
                                             host |-> rep.host, port |-> rep.port, domain |-> None])
                         /\ Pickable(policy, request.protocol, FALSE) # {} =>
                             Admits(policy, DerivedTarget(policy, request.protocol))
    BY DEF PickedIsAdmitted
  <2> DEFINE policy   == request.policy
             protocol == request.protocol
             rep      == Representative(policy, protocol)
             signed   == [id |-> None, protocol |-> protocol, host |-> rep.host, port |-> rep.port,
                          domain |-> None]
  <2>1. TypedPolicy(policy) /\ ValidPolicy(policy)
    BY AcceptedPolicies
  <2>2. ASSUME Pickable(policy, protocol, TRUE) # {}
        PROVE  Admits(policy, signed)
    <3> DEFINE rule == Picked(policy, protocol, TRUE)
    <3>1. /\ signed.id = None /\ signed.protocol = protocol /\ signed.port = PortFor(rule, protocol)
          /\ signed.host = IF Nameless(rule) THEN 0 ELSE NameOf(rule)
      BY DEF Representative
    <3> HIDE DEF signed
    <3> QED BY <2>1, <2>2, <3>1, PicksAreAdmitted
  <2>3. ASSUME Pickable(policy, protocol, FALSE) # {}
        PROVE  Admits(policy, DerivedTarget(policy, protocol))
    <3> DEFINE rule == Picked(policy, protocol, FALSE)
               derived == DerivedTarget(policy, protocol)
    <3>1. /\ derived.id = rule.id /\ derived.protocol = protocol
          /\ derived.port = PortFor(rule, protocol) /\ derived.host = NameOf(rule)
      BY DEF DerivedTarget
    <3>2. ~Nameless(rule)
      BY <2>1, <2>3, PicksHaveNames
    <3> HIDE DEF derived
    <3>3. Admits(policy, derived)
      BY <2>1, <2>3, <3>1, <3>2, PicksAreAdmitted
    <3> QED BY <3>3 DEF derived
  <2> QED
    BY <2>2, <2>3
<1> QED
  BY <1>1, ReceivedStaysValid, PTL

=============================================================================
