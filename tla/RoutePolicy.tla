----------------------------- MODULE RoutePolicy -----------------------------
(***************************************************************************)
(* Route policies: what validate_route_policy of the panel accepts, which  *)
(* target the panel and the probe client pick from a policy, and what      *)
(* match_route_policy_target of the node lets through.  Pure operators.    *)
(*                                                                         *)
(* Abstractions.  An address is a number below 2^Width, a domain any other *)
(* value, None an absent field.  Texts are compared as the panel           *)
(* normalises them (trimmed, ASCII lower case): an address with spaces     *)
(* around it and a block without a prefix are left out.                    *)
(***************************************************************************)
EXTENDS Integers, Sequences, Functions

CONSTANTS
  Width,       \* bits of an address: 32 or 128
  MaxTargets,  \* 128
  MaxPorts,    \* 32
  PortNumbers, \* 0..65535
  None         \* an absent field

Protocols == {"udp", "tcp"}
HostTypes == {"domain", "ipv4", "ipv6", "cidr", "observed_ip", "steam_sdr", "any"}

\* 1 << n
Power[n \in 0..Width] == IF n = 0 THEN 1 ELSE 2 * Power[n - 1]

Addresses == 0..(Power[Width] - 1)

IsList(s) == s \in Seq(Range(s))

ASSUME RoutePolicyAssumption ==
  /\ Width \in Nat /\ PortNumbers \subseteq Nat
  /\ None \notin Protocols /\ None \notin Addresses

-----------------------------------------------------------------------------
(***************************************************************************)
(* Slips: plausible mistakes in the definitions below; nothing uses them   *)
(***************************************************************************)
\* MAX << 32 is MAX << 0 when the shift wraps around
WrappedMask(ip, prefix)   == IF prefix = 0 THEN ip ELSE ip - (ip % Power[Width - prefix])
ObservedFirst(rule)       == IF rule.observed # <<>> THEN rule.observed[1]
                             ELSE IF rule.resolved # <<>> THEN rule.resolved[1] ELSE rule.host
OpenEnded(rule, protocol, port) ==
  \E range \in Range(rule.ports) : range.protocol = protocol /\ port >= range.from

-----------------------------------------------------------------------------
(* The panel: RoutePolicy as serde reads it, validate_route_policy *)

TypedRule(rule) ==
  /\ IsList(rule.ports) /\ IsList(rule.resolved) /\ IsList(rule.observed) /\ IsList(rule.cidrs)
  /\ \A range \in Range(rule.ports) : range.from \in PortNumbers /\ range.to \in PortNumbers
  /\ \A cidr \in Range(rule.cidrs) : cidr.prefix \in Nat

TypedPolicy(policy) ==
  IsList(policy.targets) /\ \A rule \in Range(policy.targets) : TypedRule(rule)

ValidPort(range) ==
  /\ range.protocol \in Protocols
  /\ range.from # 0 /\ range.to # 0 /\ range.from <= range.to

ValidRule(rule) ==
  /\ rule.type \in HostTypes
  /\ Len(rule.ports) \in 1..MaxPorts
  /\ \A range \in Range(rule.ports) : ValidPort(range)

ValidPolicy(policy) ==
  /\ policy.default \in Protocols \cup {None}
  /\ Len(policy.targets) \in 1..MaxTargets
  /\ \A rule \in Range(policy.targets) : ValidRule(rule)

-----------------------------------------------------------------------------
(* The node: match_route_policy_target *)

\* ip & mask
Masked(ip, prefix) == ip - (ip % Power[Width - prefix])

InCidr(host, cidr) ==
  /\ host \in Addresses /\ cidr.base \in Addresses /\ cidr.prefix <= Width
  /\ Masked(host, cidr.prefix) = Masked(cidr.base, cidr.prefix)

InCidrs(host, rule) == \E cidr \in Range(rule.cidrs) : InCidr(host, cidr)
IsHost(name, rule)  == rule.host # None /\ name = rule.host
IsResolved(host, rule) == host \in Range(rule.resolved)
IsObserved(host, rule) == host \in Range(rule.observed)

\* target_matches_host
HostMatches(rule, target) ==
  CASE rule.type = "any" -> TRUE
    [] rule.type = "domain" ->
         IsHost(target.host, rule) \/ IsHost(target.domain, rule) \/ IsResolved(target.host, rule)
    [] rule.type \in {"ipv4", "ipv6"} ->
         IsHost(target.host, rule) \/ IsResolved(target.host, rule)
    [] rule.type = "observed_ip" ->
         IsObserved(target.host, rule) \/ IsResolved(target.host, rule)
    [] rule.type = "cidr" -> InCidrs(target.host, rule)
    [] rule.type = "steam_sdr" ->
         \/ IsHost(target.host, rule) \/ IsResolved(target.host, rule)
         \/ IsObserved(target.host, rule) \/ InCidrs(target.host, rule)
         \/ /\ rule.host = None /\ rule.resolved = <<>>
            /\ rule.observed = <<>> /\ rule.cidrs = <<>>
    [] OTHER -> FALSE

PortMatches(rule, protocol, port) ==
  \E range \in Range(rule.ports) :
    range.protocol = protocol /\ port \in range.from..range.to

\* The protocol of the target, of the policy, or udp.
ProtocolOf(policy, target) ==
  IF target.protocol # None THEN target.protocol
  ELSE IF policy.default # None THEN policy.default ELSE "udp"

\* The rules that let the target through; the loop returns the first.
Matches(policy, target) ==
  {i \in DOMAIN policy.targets :
     LET rule == policy.targets[i]
     IN /\ target.id \in {None, rule.id}
        /\ PortMatches(rule, ProtocolOf(policy, target), target.port)
        /\ HostMatches(rule, target)}

Admits(policy, target) ==
  ProtocolOf(policy, target) \in Protocols /\ Matches(policy, target) # {}

-----------------------------------------------------------------------------
(* Picking a target: representative_route_policy_target, select_session_target *)

HasName(rule) == rule.host # None \/ rule.resolved # <<>> \/ rule.observed # <<>>

\* host, else the first resolved, else the first observed address
NameOf(rule) ==
  IF rule.host # None THEN rule.host
  ELSE IF rule.resolved # <<>> THEN rule.resolved[1] ELSE rule.observed[1]

PortsFor(rule, protocol) == {i \in DOMAIN rule.ports : rule.ports[i].protocol = protocol}

\* Both loops take the first rule with a port range for the protocol that has a name;
\* the panel also takes one that needs none, as 0.0.0.0.
Nameless(rule) == ~HasName(rule) /\ rule.type \in {"any", "steam_sdr"}

Pickable(policy, protocol, nameless) ==
  {i \in DOMAIN policy.targets :
     LET rule == policy.targets[i]
     IN /\ PortsFor(rule, protocol) # {}
        /\ HasName(rule) \/ (nameless /\ Nameless(rule))}

First(indices) == CHOOSE i \in indices : \A j \in indices : i <= j

Picked(policy, protocol, nameless) == policy.targets[First(Pickable(policy, protocol, nameless))]

PortFor(rule, protocol) == rule.ports[First(PortsFor(rule, protocol))].from

\* representative_route_policy_target
Representative(policy, protocol) ==
  LET rule == Picked(policy, protocol, TRUE)
  IN [host |-> IF Nameless(rule) THEN 0 ELSE NameOf(rule), port |-> PortFor(rule, protocol)]

\* select_session_target of the probe client
DerivedTarget(policy, protocol) ==
  LET rule == Picked(policy, protocol, FALSE)
  IN [id |-> rule.id, protocol |-> protocol, host |-> NameOf(rule),
      port |-> PortFor(rule, protocol),
      domain |-> IF rule.type = "domain" THEN rule.host ELSE None]

=============================================================================
