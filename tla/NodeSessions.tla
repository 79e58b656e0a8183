---------------------------- MODULE NodeSessions ----------------------------
(***************************************************************************)
(* The tunnel of a node (node-core): probes that turn a signed ticket into *)
(* a short-lived session, and session.data / raw UDP frames that relay a   *)
(* payload upstream on behalf of a session.                                *)
(*                                                                         *)
(* Every packet is handled by a task of its own (listener.rs spawns one),  *)
(* so any number of handlers interleave.  A handler runs atomically        *)
(* between two of its awaits, except that a probe takes its sequence       *)
(* number and registers its session in two steps, which two worker         *)
(* threads do interleave.  The handler keeps the snapshot of the session   *)
(* it was admitted with across its awaits; the table goes on changing.     *)
(*                                                                         *)
(* Abstractions.  A target is the endpoint a client names; what the        *)
(* resolver makes of the name is not distinguished.  A route policy is the *)
(* set of targets it matches and its hash is the policy itself (SHA-256    *)
(* does not collide).  A session id carries the second and the sequence    *)
(* number it was built from; transport and peer only refine it.  Byte      *)
(* counts, and the per-session rx/tx totals no code reads, are left out.   *)
(* The counters are atomics bumped one by one; what a handler counts at    *)
(* its end is counted in one step here, so nothing is said about counters  *)
(* read while a handler is in flight.                                      *)
(***************************************************************************)
EXTENDS Naturals, FiniteSets

CONSTANTS
  Tasks,         \* the packet handlers that may be in flight at once
  Targets,       \* upstream endpoints
  Policies,      \* route policies clients may present, each the set of its targets
  Credentials,   \* what clients put in a probe's token field
  None,          \* Option::None
  Ttl,           \* PROBE_TTL_SEC
  RestartDelay,  \* RestartSec of the systemd unit
  MaxTime,       \* bound: last second of the clock
  MaxPackets     \* bound: packets received per life of the process

\* A probe's token: absent, not accepted by verify_token, or signed claims that
\* match the request.  "route" and "hash" are the claims of those names.
Credential == [kind : {"missing", "invalid", "signed"}, expires : Nat,
               route : Targets \cup {None}, hash : {None} \cup Policies]

ASSUME NodeSessionsAssumption ==
  /\ Credentials \subseteq Credential
  /\ Policies \subseteq SUBSET Targets
  /\ None \notin Targets /\ \A p \in Policies : p # None
  /\ Ttl \in Nat \ {0} /\ RestartDelay \in Nat \ {0}
  /\ MaxTime \in Nat /\ MaxPackets \in Nat

VARIABLES
  now,         \* now_unix()
  started_at,  \* RuntimeState.started_at
  sequence,    \* RuntimeStats.probe_sequence
  sessions,    \* SessionStore.udp_sessions
  task,        \* the handlers, see Task
  stats,       \* RuntimeStats counters
  granted,     \* history: every session a probe ever registered
  sent         \* history: every payload put on the wire upstream

vars == <<now, started_at, sequence, sessions, task, stats, granted, sent>>

Counters ==
  {"udp_rx_packets", "auth_missing", "auth_ok", "auth_failed",
   "probe_rejected", "probe_sessions_total", "udp_session_miss",
   "udp_session_expired", "udp_session_rx_packets", "udp_session_tx_packets",
   "udp_relay_tx_packets", "udp_relay_rx_packets", "udp_relay_timeout",
   "udp_relay_error"}

SessionId == [at : Nat, seq : Nat]
Grant     == [authenticated : BOOLEAN, route : Targets \cup {None},
              policy : {None} \cup Policies]
Session   == [sid : SessionId, grant : Grant, expires : Nat]
Probe     == [kind : {"probe"}, cred : Credentials, grant : Grant]
Data      == [kind : {"session.data", "raw"}, sid : SessionId,
              target : Targets \cup {None}, addr : Targets \cup {None}]

Task == [pc : {"idle", "register", "resolve", "transmit", "await"},
         request : Probe \cup Data \cup {None},
         sid : SessionId \cup {None},         \* the id a probe is about to register
         session : Session \cup {None},       \* the snapshot record_udp_session_io gave
         admitted : Nat,                      \* when it gave it
         dest : Targets \cup {None}]

Idle == [pc |-> "idle", request |-> None, sid |-> None, session |-> None,
         admitted |-> 0, dest |-> None]

-----------------------------------------------------------------------------
(***************************************************************************)
(* Slips: what a plausible mistake would make of a definition below.  No   *)
(* action uses them; the mutants of PROJECT.json substitute them to show   *)
(* that a property notices.                                                *)
(***************************************************************************)
ExpiresLate(s)   == s.expires < now
ExpiresEarly(s)  == s.expires <= now + 1
UntimedSessionId == [at |-> 0, seq |-> sequence + 1]
AnyTarget(d)     == TRUE
TimerOnData(t)   == task[t].pc = "await" /\ task[t].request.kind = "session.data"
UnsettledTimeout == {"udp_relay_tx_packets"}
UnsweptSnapshot  == UNCHANGED vars
UncheckedPolicy(cred, policy) == cred.hash # None => policy # None

-----------------------------------------------------------------------------
(* Helpers *)

Bump(names) == [c \in Counters |-> stats[c] + (IF c \in names THEN 1 ELSE 0)]

\* expires_at <= now_unix(): how the sweep and record_udp_session_io both see it.
Expired(s) == s.expires <= now

\* What remove_expired retains.
Live == {s \in sessions : ~Expired(s)}

Matching(sid) == {s \in sessions : s.sid = sid}

\* verify_probe_token says Valid.
Verified(cred) == cred.kind = "signed" /\ cred.expires > now

\* next_probe_sequence and build_session_id: the second and the sequence number.
NextSessionId == [at |-> now, seq |-> sequence + 1]

\* ProbeIdentity::from_claims accepts the policy the client presents.
PolicyAccepted(cred, policy) == cred.hash # None => policy = cred.hash

\* ProbeIdentity::from_claims and from_request: the identity of the session.
Identity(cred, policy) ==
  [authenticated |-> cred.kind = "signed",
   route  |-> IF cred.kind = "signed" /\ cred.hash = None THEN cred.route ELSE None,
   policy |-> IF cred.kind = "signed" /\ cred.hash # None THEN policy ELSE None]

\* resolve_session_target: where the request of a session leads.  The empty set
\* is a refusal, {None} is Ok(None).
Destinations(request, grant) ==
  IF grant.policy # None THEN grant.policy \cap {request.target}
  ELSE IF grant.route # None THEN {grant.route}
  ELSE {request.addr}

\* build_session_data_response asks for a valid client token before relaying;
\* the raw frame handler always does.
NeedsToken(request, grant) ==
  \/ request.kind = "raw"
  \/ request.target # None \/ request.addr # None
  \/ grant.route # None

\* The handler of t returns its answer: nothing it does after that is seen here.
Conclude(t, counters) ==
  /\ task' = [task EXCEPT ![t] = Idle]
  /\ stats' = Bump(counters)

-----------------------------------------------------------------------------
(* The listener hands a packet to an idle task. *)

Arrives(t) ==
  /\ task[t].pc = "idle"
  /\ stats["udp_rx_packets"] < MaxPackets
  /\ UNCHANGED <<now, started_at>>

\* The handler answers without ever waiting.
Dispatch(counters) ==
  /\ UNCHANGED task
  /\ stats' = Bump(counters \cup {"udp_rx_packets"})

\* LegacyPing, an Invalid message, or a session.data without a usable id or payload.
ReceiveOther(t) ==
  /\ Arrives(t)
  /\ \E c \in {{}, {"probe_rejected"}, {"udp_session_miss"}} : Dispatch(c)
  /\ UNCHANGED <<sequence, sessions, granted, sent>>

\* build_probe_response up to build_session_id.
ReceiveProbe(t, cred, policy) ==
  LET request == [kind |-> "probe", cred |-> cred, grant |-> Identity(cred, policy)]
      Refuse(counters) ==
        /\ Dispatch(counters \cup {"probe_rejected"})
        /\ UNCHANGED sequence
      Proceed(counters) ==
        /\ sequence' = sequence + 1
        /\ task' = [task EXCEPT ![t] = [Idle EXCEPT !.pc = "register", !.request = request,
                                          !.sid = NextSessionId]]
        /\ stats' = Bump(counters \cup {"udp_rx_packets"})
  IN /\ Arrives(t)
     /\ \/ cred.kind = "missing" /\ Proceed({"auth_missing"})
        \/ Verified(cred) /\ PolicyAccepted(cred, policy) /\ Proceed({"auth_ok"})
        \/ Verified(cred) /\ ~PolicyAccepted(cred, policy) /\ Refuse({"auth_ok", "auth_failed"})
        \/ cred.kind # "missing" /\ ~Verified(cred) /\ Refuse({"auth_failed"})
     /\ UNCHANGED <<sessions, granted, sent>>

\* register_udp_session: sweep, then insert under the id (replacing any other).
RegisterSession(t) ==
  LET request == task[t].request
      sid == task[t].sid
  IN /\ task[t].pc = "register"
     /\ sessions' = {s \in Live : s.sid # sid} \cup
                    {[sid |-> sid, grant |-> request.grant, expires |-> now + Ttl]}
     /\ granted' = granted \cup {[sid |-> sid, cred |-> request.cred, at |-> now]}
     /\ Conclude(t, {"probe_sessions_total"})
     /\ UNCHANGED <<now, started_at, sequence, sent>>

\* session.data and raw frames up to the first await: record_udp_session_io
\* (which drops the session if it has expired) and the token check.
ReceiveData(t, request) ==
  /\ Arrives(t)
  /\ \/ /\ Matching(request.sid) = {}
        /\ Dispatch({"udp_session_miss"})
        /\ UNCHANGED sessions
     \/ /\ \E s \in Matching(request.sid) : Expired(s)
        /\ Dispatch({"udp_session_expired"})
        /\ sessions' = sessions \ Matching(request.sid)
     \/ \E s \in Matching(request.sid) :
          /\ ~Expired(s)
          /\ \/ /\ ~s.grant.authenticated /\ NeedsToken(request, s.grant)
                /\ Dispatch({"udp_relay_error"})
             \/ /\ s.grant.authenticated \/ ~NeedsToken(request, s.grant)
                /\ task' = [task EXCEPT ![t] = [Idle EXCEPT !.pc = "resolve",
                              !.request = request, !.session = s, !.admitted = now]]
                /\ stats' = Bump({"udp_rx_packets"})
          /\ UNCHANGED sessions
  /\ UNCHANGED <<sequence, granted, sent>>

-----------------------------------------------------------------------------
(* The awaits of a relaying handler. *)

\* The second record_udp_session_io of a handler: its result is ignored, but an
\* expired session is dropped by it.
TouchSession(t) ==
  sessions' = sessions \ {s \in Matching(task[t].session.sid) : Expired(s)}

\* There is a target to relay to: if let Some(target).
Relayable(d) == d # None

\* resolve_session_target returns a destination, or nothing to relay to: then
\* session.data is echoed and a raw frame is refused.
Resolve(t) ==
  /\ task[t].pc = "resolve"
  /\ \E d \in Destinations(task[t].request, task[t].session.grant) :
       \/ /\ Relayable(d)
          /\ task' = [task EXCEPT ![t].pc = "transmit", ![t].dest = d]
          /\ UNCHANGED <<sessions, stats>>
       \/ /\ ~Relayable(d) /\ task[t].request.kind = "session.data"
          /\ TouchSession(t)
          /\ Conclude(t, {"udp_session_rx_packets", "udp_session_tx_packets"})
       \/ /\ ~Relayable(d) /\ task[t].request.kind = "raw"
          /\ Conclude(t, {"udp_relay_error"})
          /\ UNCHANGED sessions
  /\ UNCHANGED <<now, started_at, sequence, granted, sent>>

\* The policy refuses the target, the protocol or the port is unusable, or the
\* name does not resolve.  A raw frame with nothing to resolve cannot fail here.
ResolveFails(t) ==
  /\ task[t].pc = "resolve"
  /\ task[t].request.kind = "session.data"
       \/ Destinations(task[t].request, task[t].session.grant) # {None}
  /\ Conclude(t, {"udp_relay_error"})
  /\ UNCHANGED <<now, started_at, sequence, sessions, granted, sent>>

\* The payload leaves the node: send on the UDP socket, write_all on the stream.
Transmit(t) ==
  /\ task[t].pc = "transmit"
  /\ task' = [task EXCEPT ![t].pc = "await"]
  /\ sent' = sent \cup {[sid |-> task[t].session.sid, target |-> task[t].dest,
                         admitted |-> task[t].admitted]}
  /\ UNCHANGED <<now, started_at, sequence, sessions, stats, granted>>

\* bind, connect, send or recv fails: relay_udp_payload or relay_tcp_payload is an Err.
RelayFails(t) ==
  /\ task[t].pc \in {"transmit", "await"}
  /\ Conclude(t, {"udp_relay_error"})
  /\ UNCHANGED <<now, started_at, sequence, sessions, granted, sent>>

RelayReplies(t) ==
  /\ task[t].pc = "await"
  /\ TouchSession(t)
  /\ Conclude(t, {"udp_relay_tx_packets", "udp_relay_rx_packets",
                  "udp_session_rx_packets", "udp_session_tx_packets"})
  /\ UNCHANGED <<now, started_at, sequence, granted, sent>>

\* Every wait for the upstream is wrapped in timeout(..).
TimerArmed(t) == task[t].pc = "await"

TimeoutCounters == {"udp_relay_tx_packets", "udp_relay_timeout"}

\* The upstream stays silent: session.data still answers and records, a raw frame
\* returns at once.
RelayTimesOut(t) ==
  /\ TimerArmed(t)
  /\ \/ /\ task[t].request.kind = "session.data"
        /\ TouchSession(t)
        /\ Conclude(t, TimeoutCounters
                       \cup {"udp_session_rx_packets", "udp_session_tx_packets"})
     \/ /\ task[t].request.kind = "raw"
        /\ Conclude(t, TimeoutCounters)
        /\ UNCHANGED sessions
  /\ UNCHANGED <<now, started_at, sequence, granted, sent>>

-----------------------------------------------------------------------------
(* The rest of the process. *)

\* health_snapshot, taken by every report and /health request, counts the
\* sessions with active_udp_session_count, which sweeps the table.
HealthSnapshot ==
  /\ sessions' = Live
  /\ UNCHANGED <<now, started_at, sequence, task, stats, granted, sent>>

Tick ==
  /\ now < MaxTime
  /\ now' = now + 1
  /\ UNCHANGED <<started_at, sequence, sessions, task, stats, granted, sent>>

\* The process dies and systemd starts it again: everything in memory is gone.
Restart ==
  /\ now + RestartDelay <= MaxTime
  /\ now' = now + RestartDelay
  /\ started_at' = now'
  /\ sequence' = 0
  /\ sessions' = {}
  /\ task' = [t \in Tasks |-> Idle]
  /\ stats' = [c \in Counters |-> 0]
  /\ UNCHANGED <<granted, sent>>

Init ==
  /\ now = 0 /\ started_at = 0
  /\ sequence = 0
  /\ sessions = {}
  /\ task = [t \in Tasks |-> Idle]
  /\ stats = [c \in Counters |-> 0]
  /\ granted = {} /\ sent = {}

\* A client names a session it was given, or one that never was.
KnownIds == {g.sid : g \in granted} \cup {[at |-> 0, seq |-> 0]}

Requests ==
  {[kind |-> "session.data", sid |-> i, target |-> a, addr |-> b] :
     i \in KnownIds, a \in Targets \cup {None}, b \in Targets \cup {None}}
  \cup {[kind |-> "raw", sid |-> i, target |-> a, addr |-> None] :
     i \in KnownIds, a \in Targets}

Advance(t) ==
  \/ RegisterSession(t)
  \/ Resolve(t) \/ ResolveFails(t)
  \/ Transmit(t) \/ RelayFails(t) \/ RelayReplies(t) \/ RelayTimesOut(t)

Next ==
  \/ \E t \in Tasks :
       \/ ReceiveOther(t)
       \/ \E c \in Credentials, p \in {None} \cup Policies : ReceiveProbe(t, c, p)
       \/ \E r \in Requests : ReceiveData(t, r)
       \/ Advance(t)
  \/ HealthSnapshot
  \/ Tick
  \/ Restart

Spec == Init /\ [][Next]_vars

\* The runtime polls every ready handler: name lookups end and timeout(..) fires
\* whether or not the upstream ever replies.
HandlerProgress(t) ==
  \/ RegisterSession(t) \/ Resolve(t) \/ ResolveFails(t)
  \/ Transmit(t) \/ RelayTimesOut(t)

\* run_report_loop takes a snapshot every report interval.
Fairness ==
  /\ \A t \in Tasks : WF_vars(HandlerProgress(t))
  /\ WF_vars(HealthSnapshot)

FairSpec == Spec /\ Fairness

-----------------------------------------------------------------------------
(* Correctness *)

TypeOK ==
  /\ now \in Nat /\ started_at \in Nat /\ sequence \in Nat
  /\ sessions \subseteq Session
  /\ task \in [Tasks -> Task]
  /\ stats \in [Counters -> Nat]
  /\ granted \subseteq [sid : SessionId, cred : Credentials, at : Nat]
  /\ sent \subseteq [sid : SessionId, target : Targets, admitted : Nat]

\* What the control plane signed allows a relay to the target.
Permits(cred, target) ==
  /\ cred.kind = "signed"
  /\ cred.hash # None => target \in cred.hash
  /\ (cred.hash = None /\ cred.route # None) => target = cred.route

\* Whatever clients put in their requests and however handlers interleave, a
\* payload goes upstream only for a session opened with a signed token that was
\* still valid at the probe, and only to a target that very token allows
\* (auth.rs, from_claims, the token check and resolve_session_target together).
RelayAuthorised ==
  \A m \in sent : \E g \in granted :
    /\ g.sid = m.sid
    /\ Permits(g.cred, m.target)
    /\ g.sid.at < g.cred.expires

\* A relay that outlives its session was admitted while the session lived: no
\* payload is relayed for a request that arrived ttl seconds or more after the
\* probe, even when the sweep has not removed the session yet.
RelayAdmittedAlive ==
  \A m \in sent : \E g \in granted :
    g.sid = m.sid /\ g.at <= m.admitted /\ m.admitted < g.at + Ttl

\* The ttl_sec of a probe's answer is honoured: unless the node restarts, the store
\* holds a session for the whole ttl, whatever other probes, late handlers and
\* health snapshots do meanwhile, so its client is never told it is gone.
TtlHonoured ==
  \A g \in granted : (g.at >= started_at /\ now < g.at + Ttl) =>
    \E s \in sessions : s.sid = g.sid /\ s.expires = g.at + Ttl

\* The books balance whenever no handler is in flight: each recorded upstream packet
\* has one recorded outcome, sessions received as many packets as they answered,
\* and every sequence number drawn became a registered session.
CountersReconcile ==
  (\A t \in Tasks : task[t].pc = "idle") =>
    /\ stats["udp_relay_tx_packets"] =
         stats["udp_relay_rx_packets"] + stats["udp_relay_timeout"]
    /\ stats["udp_session_rx_packets"] = stats["udp_session_tx_packets"]
    /\ sequence = stats["probe_sessions_total"]

\* No session is ever registered under an id an earlier probe was given, by a
\* concurrent probe of the same second or by the process before a restart: a
\* client can never reach the session of another with the id it holds.
SessionIdFresh ==
  [][\A t \in Tasks : RegisterSession(t) =>
       task[t].sid \notin {g.sid : g \in granted}]_vars

\* Every packet a handler took is done with, also when the upstream stays silent.
EveryPacketAnswered ==
  \A t \in Tasks : task[t].pc # "idle" ~> task[t].pc = "idle"

\* An expired session does not stay in the table for ever, also when no client
\* ever comes back for it.
SessionsReclaimed ==
  \A i \in [at : 0..MaxTime, seq : 1..MaxPackets] :
    (\E s \in sessions : s.sid = i /\ s.expires <= now)
      ~> (\A s \in sessions : s.sid # i)

=============================================================================
