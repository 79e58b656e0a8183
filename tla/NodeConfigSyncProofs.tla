------------------------ MODULE NodeConfigSyncProofs ------------------------
(***************************************************************************)
(* Proofs about NodeConfigSync, for any endpoints and any number of        *)
(* revisions.                                                              *)
(*                                                                         *)
(* Everything rests on the order of the node's steps: what it reports is   *)
(* never newer than what it applied, what it applied never newer than the  *)
(* file, and the file never newer than the panel, so that a report cannot  *)
(* raise the column that numbers revisions.                                *)
(***************************************************************************)
EXTENDS NodeConfigSync, TLAPS

\* Nobody knows a revision the panel has not published yet.
RevisionsKnown ==
  /\ \A p \in published : p.revision <= panel.revision
  /\ \A r \in reports : r <= panel.revision
  /\ runtime.revision <= panel.revision
  /\ file.form = "whole" => file.revision <= panel.revision

\* Where the loop holds an answer, and that it goes on only with a newer one.
PollShape ==
  /\ poll.pc \in {"answered", "writing", "written"} <=> poll.remote # None
  /\ poll.pc \in {"writing", "written"} => poll.remote.revision > runtime.revision
  /\ poll.pc # "idle" => up

\* Persisted before applied.
FileAhead ==
  /\ file.form = "whole" => file.revision >= runtime.revision
  /\ (file.form = "whole" /\ poll.pc = "written") => file.revision = poll.remote.revision

\* A node that listens has a network.
BoundHasNetwork == (up /\ bound.listener # None) => runtime.network # None

IInv ==
  /\ TypeOK
  /\ OneConfigPerRevision /\ RevisionsKnown
  /\ PollShape /\ FileAhead
  /\ BoundHasNetwork /\ ListenAddrTruthful /\ RestartSurfaced

-----------------------------------------------------------------------------

LEMMA InitInv == Init => IInv
<1> SUFFICES ASSUME NEW network \in Network,
                    panel = [revision |-> 1, network |-> network],
                    published = {panel},
                    NEW n \in {network, None},
                    file = [form |-> "whole", revision |-> 1, network |-> n],
                    runtime = [revision |-> 1, network |-> n, restart_required |-> FALSE],
                    up = FALSE, bound = Listening(None), poll = Idle, reports = {}
             PROVE  IInv
  BY DEF Init
<1> USE NodeConfigSyncAssumption
<1>1. TypeOK
  <2>1. panel \in Config /\ published \subseteq Config
    BY DEF Config
  <2>2. file \in File
    BY DEF File
  <2>3. runtime \in [revision : Nat, network : Network \cup {None},
                    restart_required : BOOLEAN]
    OBVIOUS
  <2>4. bound \in [listener : Listeners \cup {None}, quic : Quics \cup {None}]
    BY DEF Listening
  <2>5. poll \in Poll
    BY DEF Poll, Idle
  <2> QED
    BY <2>1, <2>2, <2>3, <2>4, <2>5 DEF TypeOK
<1>2. OneConfigPerRevision /\ RevisionsKnown
  BY DEF OneConfigPerRevision, RevisionsKnown, Idle
<1>3. PollShape /\ FileAhead
  BY DEF PollShape, FileAhead, Idle
<1>4. BoundHasNetwork /\ ListenAddrTruthful /\ RestartSurfaced
  BY DEF BoundHasNetwork, ListenAddrTruthful, RestartSurfaced
<1> QED
  BY <1>1, <1>2, <1>3, <1>4 DEF IInv

-----------------------------------------------------------------------------
(* The panel *)

LEMMA PublishStep == ASSUME IInv, NEW n \in Network, PublishConfig(n) PROVE IInv'
<1> USE NodeConfigSyncAssumption DEF IInv
<1> DEFINE next == [revision |-> panel.revision + 1, network |-> n]
<1>1. /\ panel' = next /\ published' = published \cup {next}
      /\ UNCHANGED <<file, up, runtime, bound, poll, reports>>
  BY DEF PublishConfig
<1>2. next \in Config /\ next.revision = panel.revision + 1 /\ panel.revision \in Nat
  BY DEF Config, TypeOK
<1> HIDE DEF next
<1>3. TypeOK'
  BY <1>1, <1>2 DEF TypeOK
<1>4. \A p \in published : p.revision \in Nat /\ p.revision < next.revision
  BY <1>2 DEF RevisionsKnown, TypeOK, Config
<1>5. OneConfigPerRevision'
  BY <1>1, <1>4 DEF OneConfigPerRevision
<1>6. RevisionsKnown'
  <2>1. \A r \in reports : r <= next.revision
    BY <1>2 DEF RevisionsKnown, TypeOK
  <2>2. runtime.revision <= next.revision
    BY <1>2 DEF RevisionsKnown, TypeOK
  <2>3. file.form = "whole" => file.revision <= next.revision
    BY <1>2 DEF RevisionsKnown, TypeOK, File
  <2>4. \A p \in published' : p.revision <= next.revision
    BY <1>1, <1>2, <1>4
  <2> QED
    BY <1>1, <2>1, <2>2, <2>3, <2>4 DEF RevisionsKnown
<1>7. PollShape' /\ FileAhead' /\ BoundHasNetwork' /\ ListenAddrTruthful'
  BY <1>1 DEF PollShape, FileAhead, BoundHasNetwork, ListenAddrTruthful
<1>8. RestartSurfaced'
  BY <1>1 DEF RestartSurfaced
<1> QED
  BY <1>3, <1>5, <1>6, <1>7, <1>8

\* A report never raises the revision, so the row stays what was published.
LEMMA ReportStep ==
  ASSUME IInv, NEW r \in reports, ReceiveReport(r) \/ LoseReport(r) PROVE IInv'
<1> USE NodeConfigSyncAssumption DEF IInv
<1>1. reports' \subseteq reports
  BY DEF ReceiveReport, LoseReport
<1>2. panel' = panel
  <2>1. Raised(r) = panel.revision
    BY DEF Raised, RevisionsKnown, TypeOK, Config
  <2>2. panel = [panel EXCEPT !.revision = panel.revision]
    BY DEF TypeOK, Config
  <2> QED
    BY <2>1, <2>2 DEF ReceiveReport, LoseReport
<1>3. UNCHANGED <<published, file, up, runtime, bound, poll>>
  BY DEF ReceiveReport, LoseReport
<1>4. TypeOK'
  BY <1>1, <1>2, <1>3 DEF TypeOK
<1>5. RevisionsKnown'
  BY <1>1, <1>2, <1>3 DEF RevisionsKnown
<1>6. OneConfigPerRevision' /\ PollShape' /\ FileAhead' /\ BoundHasNetwork'
      /\ ListenAddrTruthful' /\ RestartSurfaced'
  BY <1>2, <1>3 DEF OneConfigPerRevision, PollShape, FileAhead, BoundHasNetwork,
                    ListenAddrTruthful, RestartSurfaced
<1> QED
  BY <1>4, <1>5, <1>6

-----------------------------------------------------------------------------
(* The config loop *)

\* A poll that ends, or has only been asked, holds no answer.
LEMMA PollMoves ==
  ASSUME IInv,
         poll' = Idle \/ (up /\ poll.pc = "idle" /\ poll' = [poll EXCEPT !.pc = "asked"]),
         UNCHANGED <<panel, published, file, up, runtime, bound, reports>>
  PROVE  IInv'
<1> USE NodeConfigSyncAssumption DEF IInv
<1>1. /\ poll' \in Poll /\ poll'.remote = None /\ poll'.pc \in {"idle", "asked"}
      /\ poll'.pc # "idle" => up
  BY DEF TypeOK, Poll, Idle, PollShape
<1>2. TypeOK'
  BY <1>1 DEF TypeOK
<1>3. OneConfigPerRevision' /\ PollShape' /\ FileAhead'
  BY <1>1 DEF OneConfigPerRevision, PollShape, FileAhead
<1>4. RevisionsKnown' /\ BoundHasNetwork' /\ ListenAddrTruthful' /\ RestartSurfaced'
  BY DEF RevisionsKnown, BoundHasNetwork, ListenAddrTruthful, RestartSurfaced
<1> QED
  BY <1>2, <1>3, <1>4

LEMMA AnswerStep == ASSUME IInv, AnswerConfig PROVE IInv'
<1> USE NodeConfigSyncAssumption DEF IInv
<1>1. /\ poll.pc = "asked" /\ poll' = [poll EXCEPT !.pc = "answered", !.remote = panel]
      /\ UNCHANGED <<panel, published, file, up, runtime, bound, reports>>
  BY DEF AnswerConfig
<1>2. panel \in Config /\ panel \in published /\ None \notin Config
  BY DEF TypeOK, OneConfigPerRevision, Config
<1>3. poll' \in Poll /\ poll'.pc = "answered" /\ poll'.remote = panel
  BY <1>1, <1>2 DEF TypeOK, Poll
<1>4. TypeOK'
  BY <1>1, <1>3 DEF TypeOK
<1>5. OneConfigPerRevision' /\ PollShape' /\ FileAhead'
  BY <1>1, <1>2, <1>3 DEF OneConfigPerRevision, PollShape, FileAhead
<1>6. RevisionsKnown' /\ BoundHasNetwork' /\ ListenAddrTruthful' /\ RestartSurfaced'
  BY <1>1 DEF RevisionsKnown, BoundHasNetwork, ListenAddrTruthful, RestartSurfaced
<1> QED
  BY <1>4, <1>5, <1>6

\* The four steps that end a poll, or begin one.
LEMMA QuietPollStep ==
  ASSUME IInv, AskConfig \/ PollFails \/ IgnoreConfig \/ PersistRefused PROVE IInv'
  BY PollMoves DEF AskConfig, PollFails, IgnoreConfig, PersistRefused

\* A torn file promises nothing.
LEMMA TornFile ==
  ASSUME NEW form \in {"partial", "broken"}
  PROVE  Torn(form) \in File /\ Torn(form).form # "whole"
  BY DEF Torn, File

\* A step that tears the file, and leaves the loop writing or idle.
LEMMA TearStep ==
  ASSUME IInv, NEW form \in {"partial", "broken"}, file' = Torn(form),
         up' \in BOOLEAN, up' => up,
         \/ poll' = Idle
         \/ up' /\ poll.pc = "answered" /\ Newer(poll.remote.revision)
              /\ poll' = [poll EXCEPT !.pc = "writing", !.form = file.form],
         UNCHANGED <<panel, published, runtime, bound, reports>>
  PROVE  IInv'
<1> USE NodeConfigSyncAssumption DEF IInv
<1>1. file' \in File /\ file'.form # "whole"
  BY TornFile
<1>2. poll' \in Poll /\ PollShape' /\ (poll'.remote # None => poll'.remote \in published)
  <2>1. CASE poll' = Idle
    <3>1. poll' \in Poll /\ poll'.pc = "idle" /\ poll'.remote = None
      BY <2>1 DEF Poll, Idle
    <3> QED
      BY <3>1 DEF PollShape
  <2>2. CASE /\ up' /\ poll.pc = "answered" /\ Newer(poll.remote.revision)
             /\ poll' = [poll EXCEPT !.pc = "writing", !.form = file.form]
    <3>1. file.form \in {"whole", "partial", "broken"}
      BY DEF TypeOK, File
    <3>2. poll' \in Poll /\ poll'.pc = "writing" /\ poll'.remote = poll.remote
      BY <2>2, <3>1 DEF TypeOK, Poll
    <3>3. poll.remote # None /\ poll.remote.revision > runtime.revision
      BY <2>2 DEF PollShape, Newer
    <3> QED
      BY <2>2, <3>2, <3>3 DEF PollShape, OneConfigPerRevision
  <2> QED
    BY <2>1, <2>2
<1>3. TypeOK'
  BY <1>1, <1>2 DEF TypeOK
<1>4. OneConfigPerRevision' /\ RevisionsKnown' /\ FileAhead'
  BY <1>1, <1>2 DEF OneConfigPerRevision, RevisionsKnown, FileAhead
<1>5. BoundHasNetwork' /\ ListenAddrTruthful' /\ RestartSurfaced'
  BY DEF BoundHasNetwork, ListenAddrTruthful, RestartSurfaced
<1> QED
  BY <1>2, <1>3, <1>4, <1>5

LEMMA BeginWriteStep == ASSUME IInv, BeginWrite PROVE IInv'
  BY TearStep DEF BeginWrite, IInv, TypeOK, PollShape

LEMMA WriteFailsStep == ASSUME IInv, WriteFails PROVE IInv'
  BY TearStep DEF WriteFails, IInv, TypeOK

LEMMA FinishWriteStep == ASSUME IInv, FinishWrite PROVE IInv'
<1> USE NodeConfigSyncAssumption DEF IInv
<1>1. /\ poll.pc = "writing" /\ poll' = [poll EXCEPT !.pc = "written"]
      /\ file' = Content(poll.form, poll.remote)
      /\ UNCHANGED <<panel, published, up, runtime, bound, reports>>
  BY DEF FinishWrite
<1>2. /\ poll.remote \in Config /\ poll.remote \in published
      /\ poll.remote.revision > runtime.revision
  BY <1>1 DEF PollShape, OneConfigPerRevision, TypeOK
<1>3. /\ file' \in File /\ file'.revision = poll.remote.revision
      /\ file'.network = poll.remote.network
  BY <1>1, <1>2 DEF Content, File, Config, TypeOK, Poll
<1>4. /\ poll' \in Poll /\ poll'.pc = "written" /\ poll'.remote = poll.remote
  BY <1>1 DEF TypeOK, Poll
<1>5. TypeOK'
  BY <1>1, <1>3, <1>4 DEF TypeOK
<1>6. [revision |-> file'.revision, network |-> file'.network] = poll.remote
  BY <1>2, <1>3 DEF Config
<1>7. OneConfigPerRevision'
  BY <1>1, <1>2, <1>4, <1>6 DEF OneConfigPerRevision
<1>8. RevisionsKnown'
  BY <1>1, <1>2, <1>3 DEF RevisionsKnown
<1>9. PollShape'
  BY <1>1, <1>2, <1>4 DEF PollShape
<1>10. FileAhead'
  BY <1>1, <1>2, <1>3, <1>4 DEF FileAhead, TypeOK, Config
<1>11. BoundHasNetwork' /\ ListenAddrTruthful' /\ RestartSurfaced'
  BY <1>1 DEF BoundHasNetwork, ListenAddrTruthful, RestartSurfaced
<1> QED
  BY <1>5, <1>7, <1>8, <1>9, <1>10, <1>11

\* Applying keeps the listener that is bound and says so when it is not the one
\* the revision asks for.
LEMMA ApplyStep == ASSUME IInv, ApplyConfig PROVE IInv'
<1> USE NodeConfigSyncAssumption DEF IInv
<1> DEFINE remote == poll.remote
           cur == runtime.network
           changed == ListenerChanged(cur, remote.network)
           net == [listener |-> NextListener(cur, remote.network),
                   quic |-> remote.network.quic]
           flag == runtime.restart_required \/ changed
           next == [revision |-> remote.revision, network |-> net,
                    restart_required |-> flag]
<1>1. poll.pc = "written" /\ poll' = Idle /\ up
      /\ UNCHANGED <<panel, published, file, up, bound, reports>>
  BY DEF ApplyConfig, PollShape
<1>2. /\ remote \in Config /\ remote \in published
      /\ remote.revision > runtime.revision
  BY <1>1 DEF PollShape, OneConfigPerRevision, TypeOK
<1>3. ~(remote.revision <= runtime.revision)
  BY <1>2 DEF TypeOK, Config
<1>4. runtime' = next
  BY <1>3 DEF ApplyConfig
<1>5. cur \in Network \cup {None}
  BY DEF TypeOK
<1>6. remote.revision \in Nat /\ remote.network \in Network
  BY <1>2 DEF Config
<1>7. /\ net \in Network /\ net # None
      /\ changed => cur # None /\ net.listener = cur.listener
      /\ ~changed => net.listener = remote.network.listener
      /\ (cur # None) => net.listener = cur.listener
  BY <1>5, <1>6 DEF Network, NextListener, ListenerChanged
<1>8. flag \in BOOLEAN
  BY DEF TypeOK, ListenerChanged
<1> HIDE DEF net, flag
<1>9. /\ runtime' \in [revision : Nat, network : Network \cup {None},
                       restart_required : BOOLEAN]
      /\ runtime'.revision = remote.revision /\ runtime'.network = net
      /\ runtime'.restart_required = flag
  BY <1>4, <1>6, <1>7, <1>8
<1>10. poll' \in Poll /\ poll'.pc = "idle" /\ poll'.remote = None
  BY <1>1 DEF Poll, Idle
<1> HIDE DEF next
<1>11. TypeOK'
  BY <1>1, <1>9, <1>10 DEF TypeOK
<1>12. OneConfigPerRevision' /\ PollShape'
  BY <1>1, <1>10 DEF OneConfigPerRevision, PollShape
<1>13. RevisionsKnown' /\ FileAhead'
  BY <1>1, <1>2, <1>6, <1>9, <1>10 DEF RevisionsKnown, FileAhead
<1>14. BoundHasNetwork' /\ ListenAddrTruthful'
  BY <1>1, <1>7, <1>9 DEF BoundHasNetwork, ListenAddrTruthful
<1>15. RestartSurfaced'
  <2> SUFFICES ASSUME ~flag, bound.listener # None
               PROVE  \E p \in published : p.revision = remote.revision
                                            /\ p.network.listener = bound.listener
    BY <1>1, <1>9 DEF RestartSurfaced
  <2>1. ~changed
    BY DEF flag
  <2>2. cur # None /\ bound.listener = cur.listener
    BY <1>1 DEF BoundHasNetwork, ListenAddrTruthful
  <2>3. remote.network.listener = bound.listener
    BY <1>7, <2>1, <2>2
  <2> QED
    BY <1>2, <2>3
<1> QED
  BY <1>11, <1>12, <1>13, <1>14, <1>15

-----------------------------------------------------------------------------
(* Reports and the life of the process *)

LEMMA SendStep == ASSUME IInv, SendReport PROVE IInv'
<1> USE NodeConfigSyncAssumption DEF IInv
<1>1. /\ reports' = reports \cup {runtime.revision}
      /\ UNCHANGED <<panel, published, file, up, runtime, bound, poll>>
  BY DEF SendReport
<1>2. TypeOK' /\ RevisionsKnown'
  BY <1>1 DEF TypeOK, RevisionsKnown
<1>3. OneConfigPerRevision' /\ PollShape' /\ FileAhead' /\ BoundHasNetwork'
      /\ ListenAddrTruthful' /\ RestartSurfaced'
  BY <1>1 DEF OneConfigPerRevision, PollShape, FileAhead, BoundHasNetwork,
              ListenAddrTruthful, RestartSurfaced
<1> QED
  BY <1>2, <1>3

LEMMA StopStep == ASSUME IInv, Stop PROVE IInv'
<1> USE NodeConfigSyncAssumption DEF IInv
<1>1. /\ up' = FALSE /\ poll' = Idle
      /\ UNCHANGED <<panel, published, runtime, bound, reports>>
  BY DEF Stop
<1>2. CASE UNCHANGED file
  <2>1. poll' \in Poll /\ poll'.pc = "idle" /\ poll'.remote = None
    BY <1>1 DEF Poll, Idle
  <2>2. TypeOK'
    BY <1>1, <1>2, <2>1 DEF TypeOK
  <2>3. OneConfigPerRevision' /\ RevisionsKnown' /\ PollShape' /\ FileAhead'
    BY <1>1, <1>2, <2>1 DEF OneConfigPerRevision, RevisionsKnown, PollShape, FileAhead
  <2>4. BoundHasNetwork' /\ ListenAddrTruthful' /\ RestartSurfaced'
    BY <1>1 DEF BoundHasNetwork, ListenAddrTruthful, RestartSurfaced
  <2> QED
    BY <2>2, <2>3, <2>4
<1>3. ASSUME NEW form \in {"partial", "broken"}, file' = Torn(form) PROVE IInv'
  BY <1>1, <1>3, TearStep
<1> QED
  BY <1>2, <1>3 DEF Stop

\* What a node starts from is a configuration the panel published, all of it.
LEMMA StartStep == ASSUME IInv, Start PROVE IInv'
<1> USE NodeConfigSyncAssumption DEF IInv
<1>1. /\ ~up /\ file.form = "whole" /\ up' = TRUE
      /\ runtime' = [revision |-> file.revision, network |-> file.network,
                     restart_required |-> FALSE]
      /\ bound' = Listening(file.network)
      /\ reports' = reports \cup {file.revision}
      /\ UNCHANGED <<panel, published, file, poll>>
  BY DEF Start, Startable
<1>2. file.revision \in Nat /\ file.network \in Network \cup {None}
  BY DEF TypeOK, File
<1>3. /\ bound' \in [listener : Listeners \cup {None}, quic : Quics \cup {None}]
      /\ bound'.listener # None => file.network # None /\ bound' = file.network
  BY <1>1, <1>2 DEF Listening, Network
<1>4. runtime' \in [revision : Nat, network : Network \cup {None},
                    restart_required : BOOLEAN]
  BY <1>1, <1>2
<1>5. TypeOK'
  BY <1>1, <1>2, <1>3, <1>4 DEF TypeOK
<1>6. OneConfigPerRevision' /\ FileAhead'
  BY <1>1, <1>2, <1>4 DEF OneConfigPerRevision, FileAhead, PollShape
<1>7. RevisionsKnown'
  BY <1>1 DEF RevisionsKnown
<1>8. PollShape'
  BY <1>1 DEF PollShape
<1>9. BoundHasNetwork' /\ ListenAddrTruthful'
  BY <1>1, <1>3 DEF BoundHasNetwork, ListenAddrTruthful
<1>10. RestartSurfaced'
  <2> SUFFICES ASSUME bound'.listener # None
               PROVE  \E p \in published : p.revision = file.revision
                                            /\ p.network.listener = bound'.listener
    BY <1>1 DEF RestartSurfaced
  <2>1. [revision |-> file.revision, network |-> file.network] \in published
    BY <1>1, <1>3 DEF OneConfigPerRevision
  <2> QED
    BY <1>3, <2>1
<1> QED
  BY <1>5, <1>6, <1>7, <1>8, <1>9, <1>10

LEMMA NextInv == IInv /\ [Next]_vars => IInv'
<1> SUFFICES ASSUME IInv, [Next]_vars PROVE IInv'
  OBVIOUS
<1>1. CASE UNCHANGED vars
  BY <1>1 DEF vars, IInv, TypeOK, OneConfigPerRevision, RevisionsKnown, PollShape,
              FileAhead, BoundHasNetwork, ListenAddrTruthful, RestartSurfaced
<1>2. ASSUME NEW n \in Network, PublishConfig(n) PROVE IInv'
  BY <1>2, PublishStep
<1>3. ASSUME NEW r \in reports, ReceiveReport(r) \/ LoseReport(r) PROVE IInv'
  BY <1>3, ReportStep
<1> QED
  BY <1>1, <1>2, <1>3, QuietPollStep, AnswerStep, BeginWriteStep, FinishWriteStep,
     WriteFailsStep, ApplyStep, SendStep, StopStep, StartStep
  DEF Next, StartFails

-----------------------------------------------------------------------------
(* The theorems *)

LEMMA Invariance == Spec => []IInv
  BY InitInv, NextInv, PTL DEF Spec

\* Every variable keeps its type.
THEOREM TypeCorrect == Spec => []TypeOK
<1>1. IInv => TypeOK
  BY DEF IInv
<1> QED
  BY <1>1, Invariance, PTL

\* A revision number names one configuration everywhere it is known, however late
\* reports and answers are.
THEOREM RevisionsNameConfigs == Spec => []OneConfigPerRevision
<1>1. IInv => OneConfigPerRevision
  BY DEF IInv
<1> QED
  BY <1>1, Invariance, PTL

\* The UDP/TCP endpoint a node reports is the one it bound, after any sequence of
\* revisions.
THEOREM ListenersAreReported == Spec => []ListenAddrTruthful
<1>1. IInv => ListenAddrTruthful
  BY DEF IInv
<1> QED
  BY <1>1, Invariance, PTL

\* A node that does not ask for a restart listens where its revision wants it to
\* (UDP and TCP), although changes are deferred around later revisions.
THEOREM ChangesAreSurfaced == Spec => []RestartSurfaced
<1>1. IInv => RestartSurfaced
  BY DEF IInv
<1> QED
  BY <1>1, Invariance, PTL

\* No crash or restart makes a node fall back behind a revision it applied.
THEOREM RestartsTakeEffect == Spec => RestartTakesEffect
<1>1. ASSUME IInv, [Next]_vars
      PROVE  [(~up /\ up') =>
                /\ runtime'.revision >= runtime.revision
                /\ bound'.listener # None =>
                     [revision |-> runtime'.revision, network |-> bound'] \in published]_vars
  <2> SUFFICES ASSUME ~up, up', Next
               PROVE  /\ runtime'.revision >= runtime.revision
                      /\ bound'.listener # None =>
                           [revision |-> runtime'.revision, network |-> bound'] \in published
    BY <1>1 DEF vars
  <2>1. Start
    BY DEF Next, PublishConfig, ReceiveReport, LoseReport, AskConfig, AnswerConfig,
           PollFails, IgnoreConfig, PersistRefused, BeginWrite, FinishWrite, WriteFails,
           ApplyConfig, SendReport, Stop, StartFails, vars
  <2>2. /\ file.form = "whole"
        /\ runtime'.revision = file.revision /\ bound' = Listening(file.network)
    BY <2>1 DEF Start, Startable
  <2>3. runtime'.revision >= runtime.revision
    BY <1>1, <2>2 DEF IInv, FileAhead
  <2>4. bound'.listener # None =>
          [revision |-> runtime'.revision, network |-> bound'] \in published
    BY <1>1, <2>2 DEF IInv, OneConfigPerRevision, Listening
  <2> QED
    BY <2>3, <2>4
<1> QED
  BY <1>1, Invariance, PTL DEF Spec, RestartTakesEffect

=============================================================================
