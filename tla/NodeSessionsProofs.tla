------------------------- MODULE NodeSessionsProofs -------------------------
(***************************************************************************)
(* Proofs about NodeSessions, for any number of handlers, targets,         *)
(* policies and credentials, any ttl and any bounds.                       *)
(*                                                                         *)
(* The invariant follows the authority of a relay from the token to the    *)
(* wire: a pending probe holds an identity its verified token implies, a   *)
(* session carries the identity of the probe that registered it, a handler *)
(* past its admission holds the snapshot of such a session together with a *)
(* request that session may make.  Ids are fresh because an id of this     *)
(* life of the process has a sequence number already passed, and an id of  *)
(* an earlier life a second before this one started.                       *)
(***************************************************************************)
EXTENDS NodeSessions, FiniteSetTheorems, TLAPS

Relaying == {"resolve", "transmit", "await"}

\* The identity is the one the token implies, and the token was valid then.
Honest(cred, grant, at) ==
  /\ grant = Identity(cred, cred.hash)
  /\ cred.kind = "signed" => at < cred.expires

\* The session is the one the grant was registered as.
BackedBy(s, g) ==
  /\ g.sid = s.sid
  /\ s.expires = g.at + Ttl
  /\ Honest(g.cred, s.grant, g.sid.at)

SessionsBacked == \A s \in sessions : \E g \in granted : BackedBy(s, g)

PendingHonest ==
  \A t \in Tasks : task[t].pc = "register" =>
    /\ task[t].request \in Probe
    /\ task[t].sid \in SessionId
    /\ Honest(task[t].request.cred, task[t].request.grant, task[t].sid.at)

RelayingBacked ==
  \A t \in Tasks : task[t].pc \in Relaying =>
    /\ task[t].request \in Data
    /\ task[t].session \in Session
    /\ task[t].session.grant.authenticated
         \/ ~NeedsToken(task[t].request, task[t].session.grant)
    /\ \E g \in granted : /\ BackedBy(task[t].session, g)
                          /\ g.at <= task[t].admitted
                          /\ task[t].admitted < g.at + Ttl

DestinationAllowed ==
  \A t \in Tasks : task[t].pc \in {"transmit", "await"} =>
    /\ task[t].dest # None
    /\ task[t].dest \in Destinations(task[t].request, task[t].session.grant)

GrantedInPast ==
  /\ started_at <= now
  /\ \A g \in granted : g.at <= now /\ g.sid.at <= now

IdsOrdered ==
  /\ \A g \in granted : g.sid.at < started_at \/ g.sid.seq <= sequence
  /\ \A t \in Tasks : task[t].pc = "register" =>
       started_at <= task[t].sid.at /\ task[t].sid.at <= now /\ task[t].sid.seq <= sequence

IdsDistinct ==
  /\ \A g, h \in granted : g.sid = h.sid => g = h
  /\ \A t \in Tasks : task[t].pc = "register" => \A g \in granted : g.sid # task[t].sid
  /\ \A t, u \in Tasks : (t # u /\ task[t].pc = "register" /\ task[u].pc = "register")
       => task[t].sid # task[u].sid

IInv ==
  /\ TypeOK
  /\ SessionsBacked /\ PendingHonest /\ RelayingBacked /\ DestinationAllowed
  /\ GrantedInPast /\ IdsOrdered /\ IdsDistinct
  /\ TtlHonoured /\ RelayAuthorised /\ RelayAdmittedAlive

-----------------------------------------------------------------------------
(* The initial state *)

LEMMA InitInv == Init => IInv
<1> SUFFICES ASSUME Init PROVE IInv
  OBVIOUS
<1> USE NodeSessionsAssumption
<1>1. Idle \in Task
  BY DEF Idle, Task
<1>2. TypeOK
  BY <1>1 DEF Init, TypeOK
<1>3. \A t \in Tasks : task[t].pc = "idle"
  BY DEF Init, Idle
<1>4. SessionsBacked /\ GrantedInPast /\ TtlHonoured /\ RelayAuthorised /\ RelayAdmittedAlive
  BY DEF Init, SessionsBacked, GrantedInPast, TtlHonoured, RelayAuthorised, RelayAdmittedAlive
<1>5. PendingHonest /\ RelayingBacked /\ DestinationAllowed /\ IdsOrdered /\ IdsDistinct
  BY <1>3 DEF Init, PendingHonest, RelayingBacked, Relaying, DestinationAllowed,
             IdsOrdered, IdsDistinct
<1> QED
  BY <1>2, <1>4, <1>5 DEF IInv

-----------------------------------------------------------------------------
(* What the steps share *)

\* Counting keeps the counters natural numbers.
LEMMA BumpType == ASSUME TypeOK, NEW names PROVE Bump(names) \in [Counters -> Nat]
<1>1. ASSUME NEW c \in Counters PROVE stats[c] + (IF c \in names THEN 1 ELSE 0) \in Nat
  BY DEF TypeOK
<1> QED
  BY <1>1 DEF Bump

\* A step that only ends a handler, drops expired sessions or counts something
\* keeps the invariant.
LEMMA QuietStep ==
  ASSUME IInv, stats' \in [Counters -> Nat],
         task' = task \/ \E t \in Tasks : task' = [task EXCEPT ![t] = Idle],
         sessions' \subseteq sessions,
         \A s \in sessions \ sessions' : s.expires <= now,
         UNCHANGED <<now, started_at, sequence, granted, sent>>
  PROVE  IInv'
<1> USE NodeSessionsAssumption DEF IInv
<1>1. /\ task' \in [Tasks -> Task]
      /\ \A t \in Tasks : task'[t] = task[t] \/ task'[t].pc = "idle"
  <2>1. Idle \in Task /\ Idle.pc = "idle"
    BY DEF Idle, Task
  <2>2. CASE task' = task
    BY <2>2 DEF TypeOK
  <2>3. ASSUME NEW t \in Tasks, task' = [task EXCEPT ![t] = Idle]
        PROVE  /\ task' \in [Tasks -> Task]
               /\ \A u \in Tasks : task'[u] = task[u] \/ task'[u].pc = "idle"
    BY <2>1, <2>3 DEF TypeOK
  <2> QED
    BY <2>2, <2>3
<1>2. TypeOK'
  BY <1>1 DEF TypeOK
<1>3. SessionsBacked' /\ GrantedInPast'
  BY DEF SessionsBacked, BackedBy, GrantedInPast
<1>4. PendingHonest'
  BY <1>1 DEF PendingHonest
<1>5. RelayingBacked'
  BY <1>1 DEF RelayingBacked, Relaying
<1>6. DestinationAllowed'
  BY <1>1 DEF DestinationAllowed
<1>7. IdsOrdered' /\ IdsDistinct'
  BY <1>1 DEF IdsOrdered, IdsDistinct
<1>8. TtlHonoured'
  <2> SUFFICES ASSUME NEW g \in granted, g.at >= started_at, now < g.at + Ttl
               PROVE  \E s \in sessions' : s.sid = g.sid /\ s.expires = g.at + Ttl
    BY DEF TtlHonoured
  <2>1. PICK s \in sessions : s.sid = g.sid /\ s.expires = g.at + Ttl
    BY DEF TtlHonoured
  <2>2. s \in sessions'
    BY <2>1 DEF TypeOK
  <2> QED
    BY <2>1, <2>2
<1>9. RelayAuthorised' /\ RelayAdmittedAlive'
  BY DEF RelayAuthorised, RelayAdmittedAlive
<1> QED
  BY <1>2, <1>3, <1>4, <1>5, <1>6, <1>7, <1>8, <1>9

\* Two sessions of the table with the same id expire together: they are one.
LEMMA ExpireTogether ==
  ASSUME IInv, NEW s \in sessions, NEW r \in sessions, s.sid = r.sid
  PROVE  s.expires = r.expires
<1>1. PICK g \in granted : BackedBy(s, g)
  BY DEF IInv, SessionsBacked
<1>2. PICK h \in granted : BackedBy(r, h)
  BY DEF IInv, SessionsBacked
<1>3. g = h
  BY <1>1, <1>2 DEF IInv, IdsDistinct, BackedBy
<1> QED
  BY <1>1, <1>2, <1>3 DEF BackedBy

-----------------------------------------------------------------------------
(* The steps that change more *)

LEMMA OtherStep == ASSUME IInv, NEW t \in Tasks, ReceiveOther(t) PROVE IInv'
<1>1. stats' \in [Counters -> Nat]
  BY BumpType DEF IInv, ReceiveOther, Dispatch
<1>2. /\ task' = task /\ sessions' = sessions
      /\ UNCHANGED <<now, started_at, sequence, granted, sent>>
  BY DEF ReceiveOther, Arrives, Dispatch
<1> QED
  BY <1>1, <1>2, QuietStep

\* A probe that is let in becomes pending under an id nobody has.
LEMMA ProbeStep ==
  ASSUME IInv, NEW t \in Tasks, NEW c \in Credentials, NEW p \in {None} \cup Policies,
         ReceiveProbe(t, c, p)
  PROVE  IInv'
<1> USE NodeSessionsAssumption
<1> DEFINE request == [kind |-> "probe", cred |-> c, grant |-> Identity(c, p)]
           pending == [Idle EXCEPT !.pc = "register", !.request = request,
                                   !.sid = NextSessionId]
<1>1. /\ stats' \in [Counters -> Nat]
      /\ UNCHANGED <<now, started_at, sessions, granted, sent>>
  BY BumpType DEF IInv, ReceiveProbe, Arrives, Dispatch
<1>2. CASE task' = task /\ sequence' = sequence
  BY <1>1, <1>2, QuietStep
<1>3. CASE /\ c.kind = "missing" \/ (Verified(c) /\ PolicyAccepted(c, p))
           /\ sequence' = sequence + 1
           /\ task' = [task EXCEPT ![t] = pending]
  <2> USE DEF IInv
  <2>1. c \in Credential
    OBVIOUS
  <2>2. Identity(c, p) \in Grant
    BY <2>1 DEF Identity, Grant, Credential
  <2>3. Honest(c, Identity(c, p), now)
    BY <1>3, <2>1 DEF Honest, Identity, Verified, PolicyAccepted, Credential
  <2>4. request \in Probe /\ NextSessionId \in SessionId
    BY <2>2 DEF Probe, NextSessionId, SessionId, TypeOK
  <2>5. pending \in Task
    BY <2>4 DEF Task, Idle
  <2>6. /\ pending.pc = "register" /\ pending.request = request
        /\ pending.sid = NextSessionId
        /\ NextSessionId.at = now /\ NextSessionId.seq = sequence + 1
    BY DEF Idle, NextSessionId
  <2>7. /\ task'[t] = pending
        /\ \A u \in Tasks : u # t => task'[u] = task[u]
        /\ task' \in [Tasks -> Task]
    BY <1>3, <2>5 DEF TypeOK
  <2>8. TypeOK'
    BY <1>1, <1>3, <2>7 DEF TypeOK
  <2>9. SessionsBacked' /\ GrantedInPast' /\ TtlHonoured' /\ RelayAuthorised' /\ RelayAdmittedAlive'
    BY <1>1 DEF SessionsBacked, BackedBy, GrantedInPast, TtlHonoured, RelayAuthorised,
                RelayAdmittedAlive
  <2>10. PendingHonest'
    <3>1. Honest(request.cred, request.grant, pending.sid.at)
      BY <2>3, <2>6
    <3>2. pending.request \in Probe /\ pending.sid \in SessionId
          /\ Honest(pending.request.cred, pending.request.grant, pending.sid.at)
      BY <2>4, <2>6, <3>1
    <3> HIDE DEF pending
    <3> QED
      BY <2>7, <3>2 DEF PendingHonest
  <2>11. RelayingBacked' /\ DestinationAllowed'
    BY <1>1, <2>6, <2>7 DEF RelayingBacked, DestinationAllowed, Relaying, BackedBy
  <2>12. IdsOrdered'
    <3>1. \A g \in granted : g.sid.at < started_at \/ g.sid.seq <= sequence + 1
      BY DEF IdsOrdered, TypeOK, SessionId
    <3>2. ASSUME NEW u \in Tasks, task[u].pc = "register"
          PROVE  /\ started_at <= task[u].sid.at /\ task[u].sid.at <= now
                 /\ task[u].sid.seq <= sequence + 1
      BY <3>2 DEF IdsOrdered, PendingHonest, TypeOK, SessionId
    <3>3. started_at <= pending.sid.at /\ pending.sid.at <= now
          /\ pending.sid.seq <= sequence + 1
      BY <2>6 DEF GrantedInPast, TypeOK
    <3> HIDE DEF pending
    <3> QED
      BY <1>1, <1>3, <2>7, <3>1, <3>2, <3>3 DEF IdsOrdered
  <2>13. \A g \in granted : g.sid # NextSessionId
    BY <2>6 DEF IdsOrdered, GrantedInPast, TypeOK, SessionId
  <2>14. \A u \in Tasks : (u # t /\ task[u].pc = "register") => task[u].sid # NextSessionId
    BY <2>6 DEF IdsOrdered, PendingHonest, TypeOK, SessionId
  <2>15. IdsDistinct'
    <3>1. /\ task'[t].sid = NextSessionId
          /\ \A u \in Tasks : u # t => task'[u].pc = task[u].pc /\ task'[u].sid = task[u].sid
      BY <2>6, <2>7
    <3>2. \A g, h \in granted : g.sid = h.sid => g = h
      BY DEF IdsDistinct
    <3>3. ASSUME NEW u \in Tasks, task'[u].pc = "register", NEW g \in granted
          PROVE  g.sid # task'[u].sid
      <4>1. CASE u = t
        BY <2>13, <3>1, <4>1
      <4>2. CASE u # t
        BY <3>1, <3>3, <4>2 DEF IdsDistinct
      <4> QED
        BY <4>1, <4>2
    <3>4. ASSUME NEW u \in Tasks, NEW v \in Tasks, u # v,
                 task'[u].pc = "register", task'[v].pc = "register"
          PROVE  task'[u].sid # task'[v].sid
      <4>1. CASE u = t
        BY <2>14, <3>1, <3>4, <4>1
      <4>2. CASE v = t
        BY <2>14, <3>1, <3>4, <4>2
      <4>3. CASE u # t /\ v # t
        BY <3>1, <3>4, <4>3 DEF IdsDistinct
      <4> QED
        BY <4>1, <4>2, <4>3
    <3> HIDE DEF IInv, pending
    <3> QED
      BY <1>1, <3>2, <3>3, <3>4 DEF IdsDistinct
  <2> QED
    BY <2>8, <2>9, <2>10, <2>11, <2>12, <2>15
<1> QED
  BY <1>2, <1>3 DEF ReceiveProbe, Dispatch

\* Registering moves a pending probe into the table and the history.
LEMMA RegisterStep == ASSUME IInv, NEW t \in Tasks, RegisterSession(t) PROVE IInv'
<1> USE NodeSessionsAssumption DEF IInv
<1> DEFINE request == task[t].request
           sid == task[t].sid
           new == [sid |-> sid, grant |-> request.grant, expires |-> now + Ttl]
           gnew == [sid |-> sid, cred |-> request.cred, at |-> now]
<1>1. /\ task[t].pc = "register"
      /\ sessions' = {s \in Live : s.sid # sid} \cup {new}
      /\ granted' = granted \cup {gnew}
      /\ task' = [task EXCEPT ![t] = Idle]
      /\ stats' \in [Counters -> Nat]
      /\ UNCHANGED <<now, started_at, sequence, sent>>
  BY BumpType DEF RegisterSession, Conclude
<1>2. request \in Probe /\ sid \in SessionId /\ Honest(request.cred, request.grant, sid.at)
  BY <1>1 DEF PendingHonest
<1>3. new \in Session /\ gnew \in [sid : SessionId, cred : Credentials, at : Nat]
  BY <1>2 DEF Session, Probe, TypeOK
<1>4. /\ task' \in [Tasks -> Task] /\ task'[t].pc = "idle"
      /\ \A u \in Tasks : u # t => task'[u] = task[u]
  BY <1>1 DEF TypeOK, Idle, Task
<1>5. TypeOK'
  BY <1>1, <1>3, <1>4 DEF TypeOK, Live
<1>6. BackedBy(new, gnew)
  BY <1>2 DEF BackedBy
<1>7. SessionsBacked'
  <2>1. ASSUME NEW s \in sessions' PROVE \E g \in granted' : BackedBy(s, g)
    <3>1. CASE s \in sessions
      BY <1>1, <3>1 DEF SessionsBacked
    <3>2. CASE s = new
      BY <1>1, <1>6, <3>2
    <3> QED
      BY <1>1, <3>1, <3>2 DEF Live
  <2> QED
    BY <2>1 DEF SessionsBacked, BackedBy
<1>8. PendingHonest'
  BY <1>4 DEF PendingHonest
<1>9. RelayingBacked' /\ DestinationAllowed'
  BY <1>1, <1>4 DEF RelayingBacked, DestinationAllowed, Relaying, BackedBy
<1>10. GrantedInPast' /\ IdsOrdered'
  BY <1>1, <1>2, <1>4 DEF GrantedInPast, IdsOrdered, TypeOK
<1>11. IdsDistinct'
  BY <1>1, <1>4 DEF IdsDistinct
<1>12. TtlHonoured'
  <2> SUFFICES ASSUME NEW g \in granted', g.at >= started_at, now < g.at + Ttl
               PROVE  \E s \in sessions' : s.sid = g.sid /\ s.expires = g.at + Ttl
    BY <1>1 DEF TtlHonoured
  <2>1. CASE g = gnew
    <3>1. new \in sessions' /\ new.sid = gnew.sid /\ new.expires = gnew.at + Ttl
      BY <1>1
    <3> QED
      BY <2>1, <3>1
  <2>2. CASE g \in granted
    <3>1. PICK s \in sessions : s.sid = g.sid /\ s.expires = g.at + Ttl
      BY <2>2 DEF TtlHonoured
    <3>2. s \in Live
      BY <3>1, <2>2 DEF Live, Expired, TypeOK
    <3>3. s.sid # sid
      BY <1>1, <2>2, <3>1 DEF IdsDistinct
    <3> QED
      BY <1>1, <3>1, <3>2, <3>3
  <2> QED
    BY <1>1, <2>1, <2>2
<1>13. RelayAuthorised' /\ RelayAdmittedAlive'
  BY <1>1 DEF RelayAuthorised, RelayAdmittedAlive
<1> QED
  BY <1>5, <1>7, <1>8, <1>9, <1>10, <1>11, <1>12, <1>13

\* An admitted request keeps the session it was admitted with.
LEMMA AdmitStep ==
  ASSUME IInv, NEW t \in Tasks, NEW r \in Requests, NEW s \in Matching(r.sid),
         ~Expired(s), s.grant.authenticated \/ ~NeedsToken(r, s.grant),
         task' = [task EXCEPT ![t] = [Idle EXCEPT !.pc = "resolve", !.request = r,
                                                  !.session = s, !.admitted = now]],
         stats' \in [Counters -> Nat],
         UNCHANGED <<now, started_at, sequence, sessions, granted, sent>>
  PROVE  IInv'
<1> USE NodeSessionsAssumption DEF IInv
<1> DEFINE admit == [Idle EXCEPT !.pc = "resolve", !.request = r, !.session = s,
                                 !.admitted = now]
<1>1. r \in Data
  BY DEF Requests, KnownIds, Data, SessionId, TypeOK
<1>2. s \in sessions /\ s \in Session
  BY DEF Matching, TypeOK
<1>3. /\ admit \in Task
      /\ admit.pc = "resolve" /\ admit.request = r /\ admit.session = s /\ admit.admitted = now
  BY <1>1, <1>2 DEF Idle, Task, TypeOK
<1> HIDE DEF admit
<1>4. task' = [task EXCEPT ![t] = admit]
  BY DEF admit
<1>5. /\ task' \in [Tasks -> Task] /\ task'[t] = admit
      /\ \A u \in Tasks : u # t => task'[u] = task[u]
  BY <1>3, <1>4 DEF TypeOK
<1>6. TypeOK'
  BY <1>5 DEF TypeOK
<1>7. \E g \in granted : BackedBy(s, g) /\ g.at <= now /\ now < g.at + Ttl
  <2>1. PICK g \in granted : BackedBy(s, g)
    BY <1>2 DEF SessionsBacked
  <2>2. g.at <= now /\ now < g.at + Ttl
    BY <2>1 DEF BackedBy, GrantedInPast, Expired, TypeOK
  <2> QED
    BY <2>1, <2>2
<1>8. RelayingBacked'
  <2> SUFFICES ASSUME NEW u \in Tasks, task'[u].pc \in Relaying
               PROVE  /\ task'[u].request \in Data
                      /\ task'[u].session \in Session
                      /\ task'[u].session.grant.authenticated
                           \/ ~NeedsToken(task'[u].request, task'[u].session.grant)
                      /\ \E g \in granted : /\ BackedBy(task'[u].session, g)
                                            /\ g.at <= task'[u].admitted
                                            /\ task'[u].admitted < g.at + Ttl
    BY DEF RelayingBacked, BackedBy
  <2>1. CASE u = t
    BY <1>1, <1>2, <1>3, <1>5, <1>7, <2>1
  <2>2. CASE u # t
    BY <1>5, <2>2 DEF RelayingBacked
  <2> QED
    BY <2>1, <2>2
<1>9. PendingHonest' /\ DestinationAllowed' /\ IdsOrdered' /\ IdsDistinct'
  BY <1>3, <1>5 DEF PendingHonest, DestinationAllowed, IdsOrdered, IdsDistinct
<1>10. SessionsBacked' /\ GrantedInPast' /\ TtlHonoured' /\ RelayAuthorised' /\ RelayAdmittedAlive'
  BY DEF SessionsBacked, BackedBy, GrantedInPast, TtlHonoured, RelayAuthorised,
         RelayAdmittedAlive
<1> QED
  BY <1>6, <1>8, <1>9, <1>10

LEMMA DataStep ==
  ASSUME IInv, NEW t \in Tasks, NEW r \in Requests, ReceiveData(t, r)
  PROVE  IInv'
<1>1. /\ stats' \in [Counters -> Nat]
      /\ UNCHANGED <<now, started_at, sequence, granted, sent>>
  BY BumpType DEF IInv, ReceiveData, Arrives, Dispatch
<1>2. CASE task' = task /\ sessions' = sessions
  BY <1>1, <1>2, QuietStep
<1>3. ASSUME NEW s \in Matching(r.sid), Expired(s), task' = task,
             sessions' = sessions \ Matching(r.sid)
      PROVE  IInv'
  <2>1. \A x \in sessions \ sessions' : x.expires <= now
    BY <1>3, ExpireTogether DEF Matching, Expired
  <2> QED
    BY <1>1, <1>3, <2>1, QuietStep
<1>4. ASSUME NEW s \in Matching(r.sid), ~Expired(s),
             s.grant.authenticated \/ ~NeedsToken(r, s.grant),
             task' = [task EXCEPT ![t] = [Idle EXCEPT !.pc = "resolve", !.request = r,
                                                      !.session = s, !.admitted = now]],
             UNCHANGED sessions
      PROVE  IInv'
  BY <1>1, <1>4, AdmitStep
<1> QED
  BY <1>2, <1>3, <1>4 DEF ReceiveData, Dispatch

\* A handler that has a target keeps it until the payload is sent.
LEMMA TargetStep ==
  ASSUME IInv, NEW t \in Tasks, task[t].pc = "resolve",
         NEW d \in Destinations(task[t].request, task[t].session.grant), Relayable(d),
         task' = [task EXCEPT ![t].pc = "transmit", ![t].dest = d],
         UNCHANGED <<now, started_at, sequence, sessions, stats, granted, sent>>
  PROVE  IInv'
<1> USE NodeSessionsAssumption DEF IInv
<1>1. task[t].request \in Data /\ task[t].session \in Session
  BY DEF RelayingBacked, Relaying
<1>2. d \in Targets /\ d # None
  BY <1>1 DEF Destinations, Relayable, Data, Session, Grant
<1>3. task[t] \in Task
  BY DEF TypeOK
<1> DEFINE next == [task[t] EXCEPT !.pc = "transmit", !.dest = d]
<1>4. /\ next \in Task /\ next.pc = "transmit" /\ next.dest = d
      /\ next.request = task[t].request /\ next.session = task[t].session
      /\ next.admitted = task[t].admitted
  BY <1>2, <1>3 DEF Task
<1>5. task' = [task EXCEPT ![t] = next] /\ task \in [Tasks -> Task]
  BY DEF TypeOK
<1> HIDE DEF next, IInv
<1>6. /\ task' \in [Tasks -> Task] /\ task'[t] = next
      /\ \A u \in Tasks : u # t => task'[u] = task[u]
  <2>1. [task EXCEPT ![t] = next] \in [Tasks -> Task]
    BY <1>4, <1>5
  <2>2. [task EXCEPT ![t] = next][t] = next
    BY <1>5
  <2>3. \A u \in Tasks : u # t => [task EXCEPT ![t] = next][u] = task[u]
    BY <1>5
  <2> QED
    BY <1>5, <2>1, <2>2, <2>3
<1> USE DEF IInv
<1>7. TypeOK'
  BY <1>6 DEF TypeOK
<1>8. RelayingBacked'
  <2> SUFFICES ASSUME NEW u \in Tasks, task'[u].pc \in Relaying
               PROVE  /\ task'[u].request \in Data
                      /\ task'[u].session \in Session
                      /\ task'[u].session.grant.authenticated
                           \/ ~NeedsToken(task'[u].request, task'[u].session.grant)
                      /\ \E g \in granted : /\ BackedBy(task'[u].session, g)
                                            /\ g.at <= task'[u].admitted
                                            /\ task'[u].admitted < g.at + Ttl
    BY DEF RelayingBacked, BackedBy
  <2>1. task[u].pc \in Relaying
    BY <1>6 DEF Relaying
  <2>2. /\ task'[u].request = task[u].request /\ task'[u].session = task[u].session
        /\ task'[u].admitted = task[u].admitted
    BY <1>4, <1>6
  <2> QED
    BY <2>1, <2>2 DEF RelayingBacked
<1>9. DestinationAllowed'
  BY <1>2, <1>4, <1>6 DEF DestinationAllowed
<1>10. PendingHonest' /\ IdsOrdered' /\ IdsDistinct'
  BY <1>4, <1>6 DEF PendingHonest, IdsOrdered, IdsDistinct
<1>11. SessionsBacked' /\ GrantedInPast' /\ TtlHonoured' /\ RelayAuthorised' /\ RelayAdmittedAlive'
  BY DEF SessionsBacked, BackedBy, GrantedInPast, TtlHonoured, RelayAuthorised,
         RelayAdmittedAlive
<1> QED
  BY <1>7, <1>8, <1>9, <1>10, <1>11

\* A destination the session may reach is one its token permits.
LEMMA DestinationPermitted ==
  ASSUME NodeSessionsAssumption, NEW c \in Credentials, NEW g, NEW r \in Data,
         g = Identity(c, c.hash), g.authenticated \/ ~NeedsToken(r, g),
         NEW d \in Destinations(r, g), d # None
  PROVE  Permits(c, d)
<1>1. c \in Credential
  BY DEF NodeSessionsAssumption
<1>2. CASE c.kind = "signed"
  BY <1>1, <1>2 DEF Permits, Identity, Destinations, Credential, NodeSessionsAssumption
<1>3. CASE c.kind # "signed"
  BY <1>1, <1>3 DEF Identity, Destinations, NeedsToken, Data, Credential
<1> QED
  BY <1>2, <1>3

LEMMA TransmitStep == ASSUME IInv, NEW t \in Tasks, Transmit(t) PROVE IInv'
<1> USE NodeSessionsAssumption DEF IInv
<1> DEFINE packet == [sid |-> task[t].session.sid, target |-> task[t].dest,
                      admitted |-> task[t].admitted]
           next == [task[t] EXCEPT !.pc = "await"]
<1>1. /\ task[t].pc = "transmit"
      /\ task' = [task EXCEPT ![t] = next]
      /\ sent' = sent \cup {packet}
      /\ UNCHANGED <<now, started_at, sequence, sessions, stats, granted>>
  BY DEF Transmit
<1>2. task[t] \in Task /\ task[t].request \in Data /\ task[t].session \in Session
      /\ task[t].dest # None
      /\ task[t].dest \in Destinations(task[t].request, task[t].session.grant)
  BY <1>1 DEF RelayingBacked, Relaying, DestinationAllowed, TypeOK
<1>3. packet \in [sid : SessionId, target : Targets, admitted : Nat]
  BY <1>2 DEF Task, Session
<1>4. /\ next \in Task /\ next.pc = "await" /\ next.dest = task[t].dest
      /\ next.request = task[t].request /\ next.session = task[t].session
      /\ next.admitted = task[t].admitted
  BY <1>2 DEF Task
<1>5. /\ packet.sid = task[t].session.sid /\ packet.target = task[t].dest
      /\ packet.admitted = task[t].admitted
  OBVIOUS
<1> HIDE DEF packet, next
<1>6. /\ task' \in [Tasks -> Task] /\ task'[t] = next
      /\ \A u \in Tasks : u # t => task'[u] = task[u]
  BY <1>1, <1>4 DEF TypeOK
<1>7. TypeOK'
  BY <1>1, <1>3, <1>6 DEF TypeOK
<1>8. PICK g \in granted : /\ BackedBy(task[t].session, g)
                           /\ g.at <= task[t].admitted
                           /\ task[t].admitted < g.at + Ttl
  BY <1>1 DEF RelayingBacked, Relaying
<1>9. Permits(g.cred, packet.target)
  <2>1. g.cred \in Credentials
    BY DEF TypeOK
  <2>2. task[t].session.grant = Identity(g.cred, g.cred.hash)
    BY <1>8 DEF BackedBy, Honest
  <2>3. task[t].session.grant.authenticated
          \/ ~NeedsToken(task[t].request, task[t].session.grant)
    BY <1>1 DEF RelayingBacked, Relaying
  <2> QED
    BY <1>2, <1>5, <2>1, <2>2, <2>3, DestinationPermitted
<1>10. g.sid = packet.sid /\ g.sid.at < g.cred.expires
  BY <1>5, <1>8, <1>9 DEF BackedBy, Honest, Permits
<1>11. RelayAuthorised' /\ RelayAdmittedAlive'
  BY <1>1, <1>5, <1>8, <1>9, <1>10 DEF RelayAuthorised, RelayAdmittedAlive
<1>12. RelayingBacked'
  <2> SUFFICES ASSUME NEW u \in Tasks, task'[u].pc \in Relaying
               PROVE  /\ task'[u].request \in Data
                      /\ task'[u].session \in Session
                      /\ task'[u].session.grant.authenticated
                           \/ ~NeedsToken(task'[u].request, task'[u].session.grant)
                      /\ \E h \in granted : /\ BackedBy(task'[u].session, h)
                                            /\ h.at <= task'[u].admitted
                                            /\ task'[u].admitted < h.at + Ttl
    BY <1>1 DEF RelayingBacked, BackedBy
  <2>1. task[u].pc \in Relaying
    BY <1>1, <1>6 DEF Relaying
  <2>2. /\ task'[u].request = task[u].request /\ task'[u].session = task[u].session
        /\ task'[u].admitted = task[u].admitted
    BY <1>4, <1>6
  <2> QED
    BY <2>1, <2>2 DEF RelayingBacked
<1>13. DestinationAllowed'
  BY <1>2, <1>4, <1>6 DEF DestinationAllowed
<1>14. PendingHonest' /\ IdsOrdered' /\ IdsDistinct'
  BY <1>1, <1>4, <1>6 DEF PendingHonest, IdsOrdered, IdsDistinct
<1>15. SessionsBacked' /\ GrantedInPast' /\ TtlHonoured'
  BY <1>1 DEF SessionsBacked, BackedBy, GrantedInPast, TtlHonoured
<1> QED
  BY <1>7, <1>11, <1>12, <1>13, <1>14, <1>15

-----------------------------------------------------------------------------
(* The steps that only end a handler or drop expired sessions *)

LEMMA EndStep ==
  ASSUME IInv, NEW t \in Tasks, NEW names, Conclude(t, names),
         UNCHANGED sessions \/ TouchSession(t),
         UNCHANGED <<now, started_at, sequence, granted, sent>>
  PROVE  IInv'
<1>1. stats' \in [Counters -> Nat] /\ task' = [task EXCEPT ![t] = Idle]
  BY BumpType DEF IInv, Conclude
<1>2. sessions' \subseteq sessions /\ \A s \in sessions \ sessions' : s.expires <= now
  BY DEF TouchSession, Expired
<1> QED
  BY <1>1, <1>2, QuietStep

LEMMA ResolveStep == ASSUME IInv, NEW t \in Tasks, Resolve(t) PROVE IInv'
<1>1. PICK d \in Destinations(task[t].request, task[t].session.grant) :
        \/ /\ Relayable(d)
           /\ task' = [task EXCEPT ![t].pc = "transmit", ![t].dest = d]
           /\ UNCHANGED <<sessions, stats>>
        \/ /\ TouchSession(t)
           /\ Conclude(t, {"udp_session_rx_packets", "udp_session_tx_packets"})
        \/ /\ Conclude(t, {"udp_relay_error"})
           /\ UNCHANGED sessions
  BY DEF Resolve
<1>2. task[t].pc = "resolve" /\ UNCHANGED <<now, started_at, sequence, granted, sent>>
  BY DEF Resolve
<1>3. CASE /\ Relayable(d)
           /\ task' = [task EXCEPT ![t].pc = "transmit", ![t].dest = d]
           /\ UNCHANGED <<sessions, stats>>
  BY <1>2, <1>3, TargetStep
<1>4. CASE /\ TouchSession(t)
           /\ Conclude(t, {"udp_session_rx_packets", "udp_session_tx_packets"})
  BY <1>2, <1>4, EndStep
<1>5. CASE Conclude(t, {"udp_relay_error"}) /\ UNCHANGED sessions
  BY <1>2, <1>5, EndStep
<1> QED
  BY <1>1, <1>3, <1>4, <1>5

LEMMA ResolveFailsStep == ASSUME IInv, NEW t \in Tasks, ResolveFails(t) PROVE IInv'
  BY EndStep DEF ResolveFails

LEMMA RelayFailsStep == ASSUME IInv, NEW t \in Tasks, RelayFails(t) PROVE IInv'
  BY EndStep DEF RelayFails

LEMMA RelayRepliesStep == ASSUME IInv, NEW t \in Tasks, RelayReplies(t) PROVE IInv'
  BY EndStep DEF RelayReplies

LEMMA RelayTimesOutStep == ASSUME IInv, NEW t \in Tasks, RelayTimesOut(t) PROVE IInv'
  BY EndStep DEF RelayTimesOut

LEMMA AdvanceStep == ASSUME IInv, NEW t \in Tasks, Advance(t) PROVE IInv'
  BY RegisterStep, ResolveStep, ResolveFailsStep, TransmitStep, RelayFailsStep,
     RelayRepliesStep, RelayTimesOutStep DEF Advance

LEMMA HealthStep == ASSUME IInv, HealthSnapshot PROVE IInv'
<1>1. /\ sessions' \subseteq sessions
      /\ \A s \in sessions \ sessions' : s.expires <= now
  BY DEF HealthSnapshot, Live, Expired
<1>2. /\ task' = task /\ stats' = stats
      /\ UNCHANGED <<now, started_at, sequence, granted, sent>>
  BY DEF HealthSnapshot
<1>3. stats' \in [Counters -> Nat]
  BY <1>2 DEF IInv, TypeOK
<1> QED
  BY <1>1, <1>2, <1>3, QuietStep

\* Time passing can only end lives: whatever is still promised was promised before.
LEMMA TickStep == ASSUME IInv, Tick PROVE IInv'
<1> USE NodeSessionsAssumption DEF IInv
<1>1. /\ now' = now + 1 /\ now \in Nat
      /\ UNCHANGED <<started_at, sequence, sessions, task, stats, granted, sent>>
  BY DEF Tick, TypeOK
<1>2. TypeOK'
  BY <1>1 DEF TypeOK
<1>3. SessionsBacked' /\ PendingHonest'
  BY <1>1 DEF SessionsBacked, PendingHonest, BackedBy
<1>4. RelayingBacked' /\ DestinationAllowed'
  BY <1>1 DEF RelayingBacked, DestinationAllowed, BackedBy
<1>5. GrantedInPast'
  BY <1>1 DEF GrantedInPast, TypeOK, SessionId
<1>6. IdsOrdered'
  <2>1. ASSUME NEW t \in Tasks, task[t].pc = "register"
        PROVE  started_at <= task[t].sid.at /\ task[t].sid.at <= now + 1
                 /\ task[t].sid.seq <= sequence
    BY <1>1, <2>1 DEF IdsOrdered, PendingHonest, SessionId
  <2> QED
    BY <1>1, <2>1 DEF IdsOrdered
<1>7. IdsDistinct'
  BY <1>1 DEF IdsDistinct
<1>8. TtlHonoured'
  <2> SUFFICES ASSUME NEW g \in granted, g.at >= started_at, now + 1 < g.at + Ttl
               PROVE  \E s \in sessions : s.sid = g.sid /\ s.expires = g.at + Ttl
    BY <1>1 DEF TtlHonoured
  <2>1. g.at \in Nat
    BY DEF TypeOK
  <2>2. now < g.at + Ttl
    BY <1>1, <2>1
  <2> QED
    BY <2>2 DEF TtlHonoured
<1>9. RelayAuthorised' /\ RelayAdmittedAlive'
  BY <1>1 DEF RelayAuthorised, RelayAdmittedAlive
<1> QED
  BY <1>2, <1>3, <1>4, <1>5, <1>6, <1>7, <1>8, <1>9

\* A restart forgets everything but what was granted and sent before, and every
\* earlier id is from a second before the new life.
LEMMA RestartStep == ASSUME IInv, Restart PROVE IInv'
<1> USE NodeSessionsAssumption DEF IInv
<1>1. /\ now' = now + RestartDelay /\ started_at' = now' /\ now' \in Nat /\ now < now'
      /\ sequence' = 0 /\ sessions' = {} /\ task' = [t \in Tasks |-> Idle]
      /\ stats' = [c \in Counters |-> 0]
      /\ UNCHANGED <<granted, sent>>
  BY DEF Restart, TypeOK
<1>2. Idle \in Task /\ Idle.pc = "idle"
  BY DEF Idle, Task
<1>3. TypeOK'
  BY <1>1, <1>2 DEF TypeOK
<1>4. \A t \in Tasks : task'[t].pc = "idle"
  BY <1>1, <1>2
<1>5. SessionsBacked' /\ PendingHonest' /\ RelayingBacked' /\ DestinationAllowed'
  BY <1>1, <1>4 DEF SessionsBacked, PendingHonest, RelayingBacked, Relaying,
                    DestinationAllowed
<1>6. \A g \in granted : g.at < now' /\ g.sid.at < now'
  BY <1>1 DEF GrantedInPast, TypeOK, SessionId
<1>7. GrantedInPast' /\ TtlHonoured'
  <2>1. \A g \in granted : g.at \in Nat /\ g.sid.at \in Nat
    BY DEF TypeOK, SessionId
  <2> QED
    BY <1>1, <1>6, <2>1 DEF GrantedInPast, TtlHonoured
<1>8. IdsOrdered' /\ IdsDistinct'
  BY <1>1, <1>4, <1>6 DEF IdsOrdered, IdsDistinct
<1>9. RelayAuthorised' /\ RelayAdmittedAlive'
  BY <1>1 DEF RelayAuthorised, RelayAdmittedAlive
<1> QED
  BY <1>3, <1>5, <1>7, <1>8, <1>9

LEMMA NextInv == IInv /\ [Next]_vars => IInv'
<1> SUFFICES ASSUME IInv, [Next]_vars PROVE IInv'
  OBVIOUS
<1>1. CASE UNCHANGED vars
  <2>1. /\ task' = task /\ sessions' = sessions /\ stats' = stats
        /\ UNCHANGED <<now, started_at, sequence, granted, sent>>
    BY <1>1 DEF vars
  <2>2. stats' \in [Counters -> Nat]
    BY <2>1 DEF IInv, TypeOK
  <2> QED
    BY <2>1, <2>2, QuietStep
<1>2. ASSUME NEW t \in Tasks, ReceiveOther(t) PROVE IInv'
  BY <1>2, OtherStep
<1>3. ASSUME NEW t \in Tasks, NEW c \in Credentials, NEW p \in {None} \cup Policies,
             ReceiveProbe(t, c, p)
      PROVE  IInv'
  BY <1>3, ProbeStep
<1>4. ASSUME NEW t \in Tasks, NEW r \in Requests, ReceiveData(t, r) PROVE IInv'
  BY <1>4, DataStep
<1>5. ASSUME NEW t \in Tasks, Advance(t) PROVE IInv'
  BY <1>5, AdvanceStep
<1> QED
  BY <1>1, <1>2, <1>3, <1>4, <1>5, HealthStep, TickStep, RestartStep DEF Next

-----------------------------------------------------------------------------
(* The theorems *)

LEMMA Invariance == Spec => []IInv
  BY InitInv, NextInv, PTL DEF Spec

\* Every variable keeps its type, in particular no relay has a target outside
\* Targets and no pending handler lacks the fields its next step reads.
THEOREM TypeCorrect == Spec => []TypeOK
<1>1. IInv => TypeOK
  BY DEF IInv
<1> QED
  BY <1>1, Invariance, PTL

\* A payload goes upstream only on behalf of a token valid at its probe, and only
\* to a target that token allows.
THEOREM RelaysAreAuthorised == Spec => []RelayAuthorised
<1>1. IInv => RelayAuthorised
  BY DEF IInv
<1> QED
  BY <1>1, Invariance, PTL

\* Only requests that arrived while their session lived are relayed.
THEOREM RelaysAreAdmittedAlive == Spec => []RelayAdmittedAlive
<1>1. IInv => RelayAdmittedAlive
  BY DEF IInv
<1> QED
  BY <1>1, Invariance, PTL

\* A session lives out its ttl unless the node restarts.
THEOREM SessionsLiveOut == Spec => []TtlHonoured
<1>1. IInv => TtlHonoured
  BY DEF IInv
<1> QED
  BY <1>1, Invariance, PTL

\* No two probes of all lives of the node are ever given the same session id.
THEOREM SessionIdsAreFresh == Spec => SessionIdFresh
<1>1. IInv /\ [Next]_vars =>
        [\A t \in Tasks : RegisterSession(t) =>
           task[t].sid \notin {g.sid : g \in granted}]_vars
  BY DEF IInv, IdsDistinct, RegisterSession
<1> QED
  BY <1>1, Invariance, PTL DEF Spec, SessionIdFresh

-----------------------------------------------------------------------------
(***************************************************************************)
(* The counters of a node reconcile, for any number of handlers.           *)
(*                                                                         *)
(* The relay and session counters are bumped together, so they balance in  *)
(* every state.  Between drawing a sequence number and registering, the    *)
(* books are short by one for each probe that is pending.                  *)
(***************************************************************************)

Pending == {t \in Tasks : task[t].pc = "register"}

RelayBooks ==
  /\ stats["udp_relay_tx_packets"] = stats["udp_relay_rx_packets"] + stats["udp_relay_timeout"]
  /\ stats["udp_session_rx_packets"] = stats["udp_session_tx_packets"]

ProbeBooks ==
  /\ IsFiniteSet(Pending)
  /\ sequence = stats["probe_sessions_total"] + Cardinality(Pending)

Books == RelayBooks /\ ProbeBooks

\* What is counted together, so that the books stay balanced.
Balanced(names) ==
  /\ ("udp_relay_tx_packets" \in names) <=>
       ("udp_relay_rx_packets" \in names \/ "udp_relay_timeout" \in names)
  /\ ~("udp_relay_rx_packets" \in names /\ "udp_relay_timeout" \in names)
  /\ ("udp_session_rx_packets" \in names) <=> ("udp_session_tx_packets" \in names)

-----------------------------------------------------------------------------

LEMMA Bumped ==
  ASSUME TypeOK, NEW names, stats' = Bump(names), NEW c \in Counters
  PROVE  /\ stats[c] \in Nat
         /\ c \in names => stats'[c] = stats[c] + 1
         /\ c \notin names => stats'[c] = stats[c]
BY DEF TypeOK, Bump

LEMMA RelayBooksKept ==
  ASSUME TypeOK, RelayBooks, NEW names, stats' = Bump(names), Balanced(names)
  PROVE  RelayBooks'
<1> DEFINE tx == "udp_relay_tx_packets"    rx == "udp_relay_rx_packets"
           out == "udp_relay_timeout"
           srx == "udp_session_rx_packets" stx == "udp_session_tx_packets"
<1>1. {tx, rx, out, srx, stx} \subseteq Counters
  BY DEF Counters
<1>2. \A c \in {tx, rx, out, srx, stx} :
        /\ stats[c] \in Nat
        /\ c \in names => stats'[c] = stats[c] + 1
        /\ c \notin names => stats'[c] = stats[c]
  BY <1>1, Bumped
<1>3. stats'[tx] = stats'[rx] + stats'[out]
  BY <1>2 DEF RelayBooks, Balanced
<1>4. stats'[srx] = stats'[stx]
  BY <1>2 DEF RelayBooks, Balanced
<1> QED
  BY <1>3, <1>4 DEF RelayBooks

\* A step that draws and registers nothing.
LEMMA QuietBooks ==
  ASSUME TypeOK, Books, NEW names, stats' = Bump(names), Balanced(names),
         "probe_sessions_total" \notin names, Pending' = Pending, sequence' = sequence
  PROVE  Books'
<1>1. "probe_sessions_total" \in Counters
  BY DEF Counters
<1>2. stats'["probe_sessions_total"] = stats["probe_sessions_total"]
  BY <1>1, Bumped
<1>3. ProbeBooks'
  BY <1>2 DEF Books, ProbeBooks
<1> QED
  BY <1>3, RelayBooksKept DEF Books

\* A handler that was not pending, and is not yet.
LEMMA NotPending ==
  ASSUME TypeOK, NEW t \in Tasks, task[t].pc # "register", NEW next, next.pc # "register",
         task' = [task EXCEPT ![t] = next]
  PROVE  Pending' = Pending
BY DEF Pending, TypeOK

LEMMA ConcludeBooks ==
  ASSUME TypeOK, Books, NEW t \in Tasks, task[t].pc # "register", NEW names, Conclude(t, names),
         Balanced(names), "probe_sessions_total" \notin names, sequence' = sequence
  PROVE  Books'
<1>1. Idle.pc # "register" /\ task' = [task EXCEPT ![t] = Idle] /\ stats' = Bump(names)
  BY DEF Conclude, Idle
<1>2. Pending' = Pending
  BY <1>1, NotPending
<1> QED
  BY <1>1, <1>2, QuietBooks

LEMMA DispatchBooks ==
  ASSUME TypeOK, Books, NEW names, Dispatch(names), sequence' = sequence,
         names \cap {"udp_relay_tx_packets", "udp_relay_rx_packets", "udp_relay_timeout",
                     "udp_session_rx_packets", "udp_session_tx_packets",
                     "probe_sessions_total"} = {}
  PROVE  Books'
<1> DEFINE all == names \cup {"udp_rx_packets"}
<1>1. /\ "udp_relay_tx_packets" \notin all /\ "udp_relay_rx_packets" \notin all
      /\ "udp_relay_timeout" \notin all /\ "udp_session_rx_packets" \notin all
      /\ "udp_session_tx_packets" \notin all /\ "probe_sessions_total" \notin all
  OBVIOUS
<1>2. stats' = Bump(all) /\ Pending' = Pending
  BY DEF Dispatch, Pending
<1> HIDE DEF all
<1> QED
  BY <1>1, <1>2, QuietBooks DEF Balanced

-----------------------------------------------------------------------------
(* The steps *)

LEMMA OtherBooks == ASSUME TypeOK, Books, NEW t \in Tasks, ReceiveOther(t) PROVE Books'
<1>1. PICK names \in {{}, {"probe_rejected"}, {"udp_session_miss"}} : Dispatch(names)
  BY DEF ReceiveOther
<1>2. sequence' = sequence
  BY DEF ReceiveOther
<1>3. names \cap {"udp_relay_tx_packets", "udp_relay_rx_packets", "udp_relay_timeout",
                  "udp_session_rx_packets", "udp_session_tx_packets",
                  "probe_sessions_total"} = {}
  OBVIOUS
<1> QED
  BY <1>1, <1>2, <1>3, DispatchBooks

\* A sequence number is drawn, and a probe is pending.
LEMMA ProbeBooksKept ==
  ASSUME TypeOK, Books, NEW t \in Tasks, NEW c \in Credentials, NEW p \in {None} \cup Policies,
         ReceiveProbe(t, c, p)
  PROVE  Books'
<1>1. task[t].pc = "idle"
  BY DEF ReceiveProbe, Arrives
<1>2. ASSUME NEW names \in {{"auth_ok", "auth_failed"}, {"auth_failed"}},
             Dispatch(names \cup {"probe_rejected"}), sequence' = sequence
      PROVE  Books'
  <2> DEFINE all == names \cup {"probe_rejected"}
  <2>1. all \cap {"udp_relay_tx_packets", "udp_relay_rx_packets", "udp_relay_timeout",
                  "udp_session_rx_packets", "udp_session_tx_packets",
                  "probe_sessions_total"} = {}
    OBVIOUS
  <2>2. Dispatch(all)
    BY <1>2
  <2> HIDE DEF all
  <2> QED
    BY <1>2, <2>1, <2>2, DispatchBooks
<1>3. ASSUME NEW names \in {{"auth_missing"}, {"auth_ok"}}, NEW next, next.pc = "register",
             sequence' = sequence + 1, task' = [task EXCEPT ![t] = next],
             stats' = Bump(names \cup {"udp_rx_packets"})
      PROVE  Books'
  <2> DEFINE all == names \cup {"udp_rx_packets"}
  <2>1. /\ "udp_relay_tx_packets" \notin all /\ "udp_relay_rx_packets" \notin all
        /\ "udp_relay_timeout" \notin all /\ "udp_session_rx_packets" \notin all
        /\ "udp_session_tx_packets" \notin all /\ "probe_sessions_total" \notin all
    OBVIOUS
  <2>2. stats' = Bump(all)
    BY <1>3
  <2> HIDE DEF all
  <2>3. RelayBooks'
    BY <2>1, <2>2, RelayBooksKept DEF Balanced, Books
  <2>4. "probe_sessions_total" \in Counters
    BY DEF Counters
  <2>5. /\ stats["probe_sessions_total"] \in Nat
        /\ stats'["probe_sessions_total"] = stats["probe_sessions_total"]
    BY <2>1, <2>2, <2>4, Bumped
  <2>6. Pending' = Pending \cup {t} /\ t \notin Pending
    BY <1>1, <1>3 DEF Pending, TypeOK
  <2>7. /\ IsFiniteSet(Pending \cup {t}) /\ Cardinality(Pending \cup {t}) = Cardinality(Pending) + 1
        /\ Cardinality(Pending) \in Nat
    BY <2>6, FS_AddElement, FS_CardinalityType DEF Books, ProbeBooks
  <2>8. ProbeBooks'
    BY <1>3, <2>5, <2>6, <2>7 DEF Books, ProbeBooks
  <2> QED
    BY <2>3, <2>8 DEF Books
<1> DEFINE next == [Idle EXCEPT !.pc = "register",
                      !.request = [kind |-> "probe", cred |-> c, grant |-> Identity(c, p)],
                      !.sid = NextSessionId]
<1>4. next.pc = "register"
  BY DEF Idle
<1>5. \/ \E names \in {{"auth_ok", "auth_failed"}, {"auth_failed"}} :
           Dispatch(names \cup {"probe_rejected"}) /\ sequence' = sequence
      \/ \E names \in {{"auth_missing"}, {"auth_ok"}} :
           /\ sequence' = sequence + 1 /\ task' = [task EXCEPT ![t] = next]
           /\ stats' = Bump(names \cup {"udp_rx_packets"})
  BY DEF ReceiveProbe
<1> HIDE DEF next
<1> QED
  BY <1>2, <1>3, <1>4, <1>5

LEMMA DataBooks ==
  ASSUME TypeOK, Books, NEW t \in Tasks, NEW r \in Requests, ReceiveData(t, r)
  PROVE  Books'
<1>1. task[t].pc = "idle" /\ sequence' = sequence
  BY DEF ReceiveData, Arrives
<1>2. ASSUME NEW names \in {{"udp_session_miss"}, {"udp_session_expired"}, {"udp_relay_error"}},
             Dispatch(names)
      PROVE  Books'
  <2>1. names \cap {"udp_relay_tx_packets", "udp_relay_rx_packets", "udp_relay_timeout",
                    "udp_session_rx_packets", "udp_session_tx_packets",
                    "probe_sessions_total"} = {}
    OBVIOUS
  <2> QED
    BY <1>1, <1>2, <2>1, DispatchBooks
<1>3. ASSUME NEW next, next.pc = "resolve", task' = [task EXCEPT ![t] = next],
             stats' = Bump({"udp_rx_packets"})
      PROVE  Books'
  <2>1. Pending' = Pending
    BY <1>1, <1>3, NotPending
  <2> QED
    BY <1>1, <1>3, <2>1, QuietBooks DEF Balanced
<1>4. \A s : [Idle EXCEPT !.pc = "resolve", !.request = r, !.session = s, !.admitted = now].pc
               = "resolve"
  BY DEF Idle
<1>5. \/ \E names \in {{"udp_session_miss"}, {"udp_session_expired"}, {"udp_relay_error"}} :
           Dispatch(names)
      \/ \E s : /\ task' = [task EXCEPT ![t] = [Idle EXCEPT !.pc = "resolve", !.request = r,
                                                  !.session = s, !.admitted = now]]
                /\ stats' = Bump({"udp_rx_packets"})
  BY DEF ReceiveData
<1> QED
  BY <1>2, <1>3, <1>4, <1>5

\* A pending probe is registered and counted.
LEMMA RegisterBooks == ASSUME TypeOK, Books, NEW t \in Tasks, RegisterSession(t) PROVE Books'
<1>1. /\ task[t].pc = "register" /\ task' = [task EXCEPT ![t] = Idle]
      /\ stats' = Bump({"probe_sessions_total"}) /\ sequence' = sequence
  BY DEF RegisterSession, Conclude
<1>2. RelayBooks'
  BY <1>1, RelayBooksKept DEF Balanced, Books
<1>3. "probe_sessions_total" \in Counters
  BY DEF Counters
<1>4. /\ stats["probe_sessions_total"] \in Nat
      /\ stats'["probe_sessions_total"] = stats["probe_sessions_total"] + 1
  BY <1>1, <1>3, Bumped
<1>5. Pending' = Pending \ {t} /\ t \in Pending
  BY <1>1 DEF Pending, TypeOK, Idle
<1>6. /\ IsFiniteSet(Pending \ {t}) /\ Cardinality(Pending \ {t}) = Cardinality(Pending) - 1
      /\ Cardinality(Pending) \in Nat
  BY <1>5, FS_RemoveElement, FS_CardinalityType DEF Books, ProbeBooks
<1>7. ProbeBooks'
  BY <1>1, <1>4, <1>5, <1>6 DEF Books, ProbeBooks
<1> QED
  BY <1>2, <1>7 DEF Books

\* Whatever else a handler does, it counts a packet with its outcome or not at all.
LEMMA RelayStepBooks ==
  ASSUME TypeOK, Books, NEW t \in Tasks,
         \/ Resolve(t) \/ ResolveFails(t) \/ RelayFails(t) \/ RelayReplies(t) \/ RelayTimesOut(t)
  PROVE  Books'
<1>1. task[t].pc \in {"resolve", "transmit", "await"} /\ sequence' = sequence
  BY DEF Resolve, ResolveFails, RelayFails, RelayReplies, RelayTimesOut, TimerArmed
<1> DEFINE echo    == {"udp_session_rx_packets", "udp_session_tx_packets"}
           error   == {"udp_relay_error"}
           replied == {"udp_relay_tx_packets", "udp_relay_rx_packets",
                       "udp_session_rx_packets", "udp_session_tx_packets"}
<1>2. \A names \in {echo, error, replied, TimeoutCounters, TimeoutCounters \cup echo} :
        Balanced(names) /\ "probe_sessions_total" \notin names
  BY DEF Balanced, TimeoutCounters
<1>3. \/ \E names \in {echo, error, replied, TimeoutCounters, TimeoutCounters \cup echo} :
           Conclude(t, names)
      \/ \E d : task' = [task EXCEPT ![t] = [@ EXCEPT !.pc = "transmit", !.dest = d]]
                /\ UNCHANGED stats
  BY DEF Resolve, ResolveFails, RelayFails, RelayReplies, RelayTimesOut
<1>4. ASSUME NEW d, task' = [task EXCEPT ![t] = [@ EXCEPT !.pc = "transmit", !.dest = d]],
             UNCHANGED stats
      PROVE  Books'
  <2>1. [task[t] EXCEPT !.pc = "transmit", !.dest = d].pc = "transmit"
    BY DEF TypeOK, Task
  <2>2. Pending' = Pending
    BY <1>1, <1>4, <2>1 DEF Pending, TypeOK
  <2> QED
    BY <1>1, <1>4, <2>2 DEF Books, RelayBooks, ProbeBooks
<1> HIDE DEF echo, error, replied
<1> QED
  BY <1>1, <1>2, <1>3, <1>4, ConcludeBooks

LEMMA TransmitBooks == ASSUME TypeOK, Books, NEW t \in Tasks, Transmit(t) PROVE Books'
<1>1. /\ task[t].pc = "transmit" /\ task' = [task EXCEPT ![t].pc = "await"]
      /\ UNCHANGED <<sequence, stats>>
  BY DEF Transmit
<1>2. [task[t] EXCEPT !.pc = "await"].pc = "await"
  BY DEF TypeOK, Task
<1>3. Pending' = Pending
  BY <1>1, <1>2 DEF Pending, TypeOK
<1> QED
  BY <1>1, <1>3 DEF Books, RelayBooks, ProbeBooks

\* The counters and the sequence begin anew.
LEMMA CleanBooks ==
  ASSUME sequence = 0, task = [t \in Tasks |-> Idle], stats = [c \in Counters |-> 0]
  PROVE  Books
<1>1. Pending = {}
  BY DEF Pending, Idle
<1>2. IsFiniteSet(Pending) /\ Cardinality(Pending) = 0
  BY <1>1, FS_EmptySet
<1>3. \A c \in Counters : stats[c] = 0
  OBVIOUS
<1> QED
  BY <1>2, <1>3 DEF Books, RelayBooks, ProbeBooks, Counters

LEMMA RestartBooks == ASSUME Restart PROVE Books'
<1>1. /\ sequence' = 0 /\ stats' = [c \in Counters |-> 0] /\ Pending' = {}
  BY DEF Restart, Pending, Idle
<1>2. IsFiniteSet(Pending') /\ Cardinality(Pending') = 0
  BY <1>1, FS_EmptySet
<1>3. \A c \in Counters : stats'[c] = 0
  BY <1>1
<1> QED
  BY <1>1, <1>2, <1>3 DEF Books, RelayBooks, ProbeBooks, Counters

LEMMA NextBooks == TypeOK /\ Books /\ [Next]_vars => Books'
<1> SUFFICES ASSUME TypeOK, Books, [Next]_vars PROVE Books'
  OBVIOUS
<1>1. ASSUME UNCHANGED <<sequence, task, stats>> PROVE Books'
  BY <1>1 DEF Books, RelayBooks, ProbeBooks, Pending
<1>2. CASE HealthSnapshot \/ Tick \/ UNCHANGED vars
  BY <1>1, <1>2 DEF HealthSnapshot, Tick, vars
<1>3. ASSUME NEW t \in Tasks, Advance(t) PROVE Books'
  BY <1>3, RegisterBooks, RelayStepBooks, TransmitBooks DEF Advance
<1>4. ASSUME NEW t \in Tasks, ReceiveOther(t) PROVE Books'
  BY <1>4, OtherBooks
<1>5. ASSUME NEW t \in Tasks, NEW c \in Credentials, NEW p \in {None} \cup Policies,
             ReceiveProbe(t, c, p)
      PROVE  Books'
  BY <1>5, ProbeBooksKept
<1>6. ASSUME NEW t \in Tasks, NEW r \in Requests, ReceiveData(t, r) PROVE Books'
  BY <1>6, DataBooks
<1> QED
  BY <1>2, <1>3, <1>4, <1>5, <1>6, RestartBooks DEF Next

-----------------------------------------------------------------------------

\* The books balance whenever no handler is in flight.
THEOREM CountersBalance == Spec => []CountersReconcile
<1>1. Init => Books
  BY CleanBooks DEF Init
<1>2. TypeOK /\ Books => CountersReconcile
  <2> SUFFICES ASSUME TypeOK, Books, \A t \in Tasks : task[t].pc = "idle"
               PROVE  /\ RelayBooks /\ sequence = stats["probe_sessions_total"]
    BY DEF CountersReconcile, RelayBooks
  <2>1. Pending = {}
    BY DEF Pending
  <2>2. Cardinality(Pending) = 0
    BY <2>1, FS_EmptySet
  <2>3. stats["probe_sessions_total"] \in Nat
    BY DEF TypeOK, Counters
  <2> QED
    BY <2>2, <2>3 DEF Books, ProbeBooks
<1> QED
  BY <1>1, <1>2, NextBooks, TypeCorrect, PTL DEF Spec

=============================================================================
