--------------------------- MODULE NodeConfigSync ---------------------------
(***************************************************************************)
(* How a network configuration travels from the control API to a node: the *)
(* admin publishes revisions, the config loop of the node polls them,      *)
(* writes them into config.toml and only then applies what can be applied  *)
(* without rebinding a listener; a restart reads the file again.  Reports  *)
(* and handshakes carry the node's revision back to the panel.             *)
(*                                                                         *)
(* Either side may fail at any step: a poll or a report is lost or late,   *)
(* the disk fills up, the process dies with the file half written.         *)
(*                                                                         *)
(* Abstractions.  A network configuration is the endpoint of the UDP/TCP   *)
(* listener (listen_ip, server_ip, server_port together) and the endpoint  *)
(* of the QUIC listener (relay_server_ip, relay_server_port, disable_quic; *)
(* None when there is none); area, tag and the like are applied the way    *)
(* the QUIC fields are.  config.toml is whole, or it lacks sections a      *)
(* NodeConfig needs ("partial", an empty file included), or it is no TOML  *)
(* at all ("broken").  Nobody edits the file by hand.                      *)
(***************************************************************************)
EXTENDS Naturals

CONSTANTS
  Listeners,    \* endpoints a UDP/TCP listener may be configured to
  Quics,        \* endpoints a QUIC listener may be configured to
  Bindable,     \* those of them the host can bind
  None,         \* Option::None
  MaxRevision   \* bound: last revision published

Network == [listener : Listeners, quic : Quics \cup {None}]

Config == [revision : Nat, network : Network]

ASSUME NodeConfigSyncAssumption ==
  /\ None \notin Listeners \cup Quics \cup Network \cup Config
  /\ MaxRevision \in Nat \ {0}

VARIABLES
  panel,      \* the node's row in accel_nodes
  published,  \* history: what was ever published under which revision
  file,       \* config.toml
  up,         \* the process runs
  runtime,    \* RuntimeState.runtime_config; of the last life while down
  bound,      \* the endpoints listened on, likewise
  poll,       \* where run_config_loop is
  reports     \* revisions in reports and handshakes under way to the panel

vars == <<panel, published, file, up, runtime, bound, poll, reports>>

File == [form : {"whole", "partial", "broken"}, revision : Nat,
         network : Network \cup {None}]

Poll == [pc : {"idle", "asked", "answered", "writing", "written"},
         remote : Config \cup {None},             \* NodeConfigResponse
         form : {"whole", "partial", "broken"}]   \* of the file being rewritten

Idle == [pc |-> "idle", remote |-> None, form |-> "whole"]

-----------------------------------------------------------------------------
(***************************************************************************)
(* Slips: what a plausible mistake would make of a definition below.  No   *)
(* action uses them; the mutants of PROJECT.json substitute them to show   *)
(* that a property notices.                                                *)
(***************************************************************************)
Overwritten(revision)        == revision
AdoptedListener(cur, remote) == remote.listener
KeptUnbound(cur, remote)     == IF cur = None THEN None ELSE remote.listener
QuicChanged(cur, remote)     == cur # None /\ cur.quic # remote.quic
UnnumberedContent(form, remote) ==
  [form |-> form, revision |-> runtime.revision, network |-> remote.network]
NotNextRevision(revision)    == revision > runtime.revision + 1

-----------------------------------------------------------------------------
(* The control API *)

\* update_admin_node_config: one transaction updates the row and takes the next
\* revision.
PublishConfig(network) ==
  /\ panel.revision < MaxRevision
  /\ panel' = [revision |-> panel.revision + 1, network |-> network]
  /\ published' = published \cup {panel'}
  /\ UNCHANGED <<file, up, runtime, bound, poll, reports>>

\* GREATEST(config_revision, ?)
Raised(revision) == IF revision > panel.revision THEN revision ELSE panel.revision

\* persist_node_report and persist_node_handshake, however late.
ReceiveReport(revision) ==
  /\ revision \in reports
  /\ panel' = [panel EXCEPT !.revision = Raised(revision)]
  /\ reports' = reports \ {revision}
  /\ UNCHANGED <<published, file, up, runtime, bound, poll>>

\* The request does not arrive or is refused; reports of a disabled or draining
\* node leave the row alone too.
LoseReport(revision) ==
  /\ reports' = reports \ {revision}
  /\ revision \in reports
  /\ UNCHANGED <<panel, published, file, up, runtime, bound, poll>>

\* node_config: revision and network come from one SELECT.
AnswerConfig ==
  /\ poll.pc = "asked"
  /\ poll' = [poll EXCEPT !.pc = "answered", !.remote = panel]
  /\ UNCHANGED <<panel, published, file, up, runtime, bound, reports>>

-----------------------------------------------------------------------------
(* The config loop of the node: fetch_and_apply_config *)

AskConfig ==
  /\ up /\ poll.pc = "idle"
  /\ poll' = [poll EXCEPT !.pc = "asked"]
  /\ UNCHANGED <<panel, published, file, up, runtime, bound, reports>>

\* Time-out, a status other than success, a body that does not decode.
PollFails ==
  /\ poll.pc \in {"asked", "answered"}
  /\ poll' = Idle
  /\ UNCHANGED <<panel, published, file, up, runtime, bound, reports>>

\* remote.config_revision > state.config_revision()
Newer(revision) == revision > runtime.revision

IgnoreConfig ==
  /\ poll.pc = "answered" /\ ~Newer(poll.remote.revision)
  /\ poll' = Idle
  /\ UNCHANGED <<panel, published, file, up, runtime, bound, reports>>

\* persist_remote_network_config cannot read the file back: nothing is applied.
PersistRefused ==
  /\ poll.pc = "answered" /\ Newer(poll.remote.revision)
  /\ file.form = "broken"
  /\ poll' = Idle
  /\ UNCHANGED <<panel, published, file, up, runtime, bound, reports>>

\* A file cut short says nothing that can be relied on.
Torn(form) == [form |-> form, revision |-> 0, network |-> None]

\* persist_remote_network_config has read and edited the file; fs::write truncates it.
BeginWrite ==
  /\ poll.pc = "answered" /\ Newer(poll.remote.revision)
  /\ file.form # "broken"
  /\ poll' = [poll EXCEPT !.pc = "writing", !.form = file.form]
  /\ file' = Torn("partial")
  /\ UNCHANGED <<panel, published, up, runtime, bound, reports>>

\* What is written: the other sections are those that were read.
Content(form, remote) ==
  [form |-> form, revision |-> remote.revision, network |-> remote.network]

FinishWrite ==
  /\ poll.pc = "writing"
  /\ file' = Content(poll.form, poll.remote)
  /\ poll' = [poll EXCEPT !.pc = "written"]
  /\ UNCHANGED <<panel, published, up, runtime, bound, reports>>

\* The disk is full: what was written of the file stays, nothing is applied.
WriteFails ==
  /\ poll.pc = "writing"
  /\ \E form \in {"partial", "broken"} : file' = Torn(form)
  /\ poll' = Idle
  /\ UNCHANGED <<panel, published, up, runtime, bound, reports>>

\* network_listener_changed; a node that had no network takes the remote one.
ListenerChanged(cur, remote) == cur # None /\ cur.listener # remote.listener

\* The listener fields of next_network.
NextListener(cur, remote) ==
  IF ListenerChanged(cur, remote) THEN cur.listener ELSE remote.listener

\* apply_remote_network_config
ApplyConfig ==
  LET remote == poll.remote
      cur == runtime.network
  IN /\ poll.pc = "written"
     /\ \/ /\ remote.revision <= runtime.revision
           /\ UNCHANGED runtime
        \/ /\ remote.revision > runtime.revision
           /\ runtime' = [revision |-> remote.revision,
                          network  |-> [listener |-> NextListener(cur, remote.network),
                                        quic |-> remote.network.quic],
                          restart_required |-> runtime.restart_required
                                                 \/ ListenerChanged(cur, remote.network)]
     /\ poll' = Idle
     /\ UNCHANGED <<panel, published, file, up, bound, reports>>

\* send_report, at every tick of the report loop.
SendReport ==
  /\ up
  /\ reports' = reports \cup {runtime.revision}
  /\ UNCHANGED <<panel, published, file, up, runtime, bound, poll>>

-----------------------------------------------------------------------------
(* The life of the process *)

\* The process ends: a graceful restart waits for the write, a crash does not.
Stop ==
  /\ up
  /\ up' = FALSE
  /\ poll' = Idle
  /\ \/ poll.pc # "writing" /\ UNCHANGED file
     \/ poll.pc = "writing" /\ \E form \in {"partial", "broken"} : file' = Torn(form)
  /\ UNCHANGED <<panel, published, runtime, bound, reports>>

Listening(network) ==
  IF network = None THEN [listener |-> None, quic |-> None] ELSE network

\* NodeConfig::from_file succeeds and so do spawn_network_listeners and
\* spawn_quic_tunnel; main gives up otherwise.
Startable ==
  /\ file.form = "whole"
  /\ Listening(file.network).listener \in Bindable \cup {None}
  /\ Listening(file.network).quic \in Bindable \cup {None}

\* main, up to the handshake.
Start ==
  /\ ~up /\ Startable
  /\ up' = TRUE
  /\ runtime' = [revision |-> file.revision, network |-> file.network,
                 restart_required |-> FALSE]
  /\ bound' = Listening(file.network)
  /\ reports' = reports \cup {runtime'.revision}
  /\ UNCHANGED <<panel, published, file, poll>>

\* main returns an error; systemd tries again after RestartSec.
StartFails ==
  /\ ~up /\ ~Startable
  /\ UNCHANGED vars

\* install.sh has written the file from the bootstrap response (a config.toml without
\* a [network] section is accepted too); its first start is still to come.
Init ==
  \E network \in Network :
    /\ panel = [revision |-> 1, network |-> network]
    /\ published = {panel}
    /\ \E n \in {network, None} :
         /\ file = [form |-> "whole", revision |-> 1, network |-> n]
         /\ runtime = [revision |-> 1, network |-> n, restart_required |-> FALSE]
    /\ up = FALSE
    /\ bound = Listening(None)
    /\ poll = Idle
    /\ reports = {}

Next ==
  \/ \E n \in Network : PublishConfig(n)
  \/ \E r \in reports : ReceiveReport(r) \/ LoseReport(r)
  \/ AskConfig \/ AnswerConfig \/ PollFails
  \/ IgnoreConfig \/ PersistRefused
  \/ BeginWrite \/ FinishWrite \/ WriteFails \/ ApplyConfig
  \/ SendReport
  \/ Stop \/ Start \/ StartFails

Spec == Init /\ [][Next]_vars

\* systemd starts the node again for ever (Restart=always), the loop polls at every
\* tick, and neither the network nor the process fails at every single poll.
Fairness ==
  /\ WF_vars(Start)
  /\ SF_vars(AskConfig) /\ SF_vars(AnswerConfig) /\ SF_vars(IgnoreConfig)
  /\ SF_vars(BeginWrite) /\ SF_vars(FinishWrite) /\ SF_vars(ApplyConfig)

FairSpec == Spec /\ Fairness

-----------------------------------------------------------------------------
(* Correctness *)

TypeOK ==
  /\ panel \in Config
  /\ published \subseteq Config
  /\ file \in File
  /\ up \in BOOLEAN
  /\ runtime \in [revision : Nat, network : Network \cup {None},
                  restart_required : BOOLEAN]
  /\ bound \in [listener : Listeners \cup {None}, quic : Quics \cup {None}]
  /\ poll \in Poll
  /\ reports \subseteq Nat

\* A revision names one configuration, for the panel, for the file and for answers
\* under way, although reports write to the very column that numbers revisions
\* (GREATEST) and polls overlap updates.  A node compares nothing but revisions: two
\* configurations under one number would leave it on the wrong one for good.
OneConfigPerRevision ==
  /\ panel \in published
  /\ \A p, q \in published : p.revision = q.revision => p = q
  /\ poll.remote # None => poll.remote \in published
  /\ (file.form = "whole" /\ file.network # None) =>
       [revision |-> file.revision, network |-> file.network] \in published

\* The listen_addr a node reports is the one it listens on, also while a change of
\* it waits for a restart.
ListenAddrTruthful ==
  (up /\ bound.listener # None) => runtime.network.listener = bound.listener

\* A running node that does not ask for a restart listens where the configuration
\* it says it runs wants it to (UDP and TCP), through any sequence of revisions.
RestartSurfaced ==
  (up /\ ~runtime.restart_required /\ bound.listener # None) =>
    \E p \in published : p.revision = runtime.revision
                         /\ p.network.listener = bound.listener

\* The same of every listener, as api/openapi-node.yaml and README.md put it:
\* endpoint changes are marked restart_required until the service restarts.
EndpointChangeSurfaced ==
  (up /\ ~runtime.restart_required /\ bound.listener # None) =>
    [revision |-> runtime.revision, network |-> bound] \in published

\* A revision the node applied is never lost again: whenever it comes up after a
\* crash or a restart, it runs and listens on a revision at least as new, because
\* the file is written before anything is applied.
RestartTakesEffect ==
  [][(~up /\ up') =>
       /\ runtime'.revision >= runtime.revision
       /\ bound'.listener # None =>
            [revision |-> runtime'.revision, network |-> bound'] \in published]_vars

\* Beyond the reach of another revision: down on a file it cannot start from, or
\* running on one it cannot rewrite.
Stuck == IF up THEN file.form = "broken" ELSE ~Startable

\* Every published revision, or a newer one, reaches the node in spite of lost
\* polls and restarts, unless an interrupted write or an endpoint the host cannot
\* bind has put it out of reach; the code has neither the rollback nor the degraded
\* start that docs/node-ops-upgrade.md:106-108 describes for the latter.
ConfigConverges ==
  \A r \in 1..MaxRevision :
    (panel.revision >= r) ~> ((up /\ runtime.revision >= r) \/ Stuck)

=============================================================================
