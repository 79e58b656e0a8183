--------------------------- MODULE MCConnectIntents ---------------------------
(***************************************************************************)
(* Small instances of ConnectIntents: two nodes, rules in two regions      *)
(* and none, a user with two devices; requests of sessions with policies   *)
(* of every host type over three-bit addresses.                            *)
(***************************************************************************)
EXTENDS ConnectIntents, TLC

CONSTANTS h1, h2, u1, d1, d2, east, west, domain

MCQuality == 1 :> "fast" @@ 2 :> "normal"

Rule(n, region, priority) ==
  [node |-> n, region |-> region, priority |-> priority,
   target |-> [host |-> n, port |-> 1]]

MCRules == {Rule(1, east, 1), Rule(2, west, 0), Rule(2, None, 0)}

Catalog(device, region) ==
  [user |-> u1, device |-> device, region |-> region, quality |-> "normal", vouched |-> TRUE,
   node |-> None, target |-> None, policy |-> None, protocol |-> "udp"]

Session(policy, protocol) ==
  [Catalog(d1, None) EXCEPT !.node = 1, !.policy = policy, !.protocol = protocol]

Block(base, prefix) == [base |-> base, prefix |-> prefix]
Ports(protocol, from, to) == [protocol |-> protocol, from |-> from, to |-> to]

Target(type, host, resolved, observed, cidrs, ports) ==
  [id |-> type, type |-> type, host |-> host, resolved |-> resolved, observed |-> observed,
   cidrs |-> cidrs, ports |-> ports]

Policy(default, targets) == [default |-> default, targets |-> targets]

Udp == <<Ports("udp", 2, 4)>>
Tcp == <<Ports("tcp", 1, 1), Ports("udp", 7, 8)>>

MCPolicies ==
  {Policy(None, <<Target("domain", domain, <<3>>, <<2>>, <<>>, Tcp),
                  Target("ipv4", 5, <<6>>, <<>>, <<>>, Udp)>>),
   Policy("tcp", <<Target("observed_ip", None, <<1>>, <<6, 0>>, <<>>, Tcp),
                   Target("cidr", None, <<>>, <<>>, <<Block(5, 2), Block(2, 3)>>, Udp)>>),
   Policy(None, <<Target("cidr", None, <<>>, <<>>, <<Block(5, 0)>>, Tcp),
                  Target("domain", None, <<4>>, <<>>, <<>>, Udp)>>),
   Policy(None, <<Target("steam_sdr", None, <<>>, <<>>, <<>>, Tcp)>>),
   Policy("udp", <<Target("steam_sdr", None, <<>>, <<2>>, <<Block(4, 1)>>, Udp),
                   Target("any", None, <<>>, <<>>, <<>>, Tcp)>>)}

\* One device asks for anything, the other for the game.
MCRequests ==
  h1 :> ({Catalog(d1, east), [Session(None, "tcp") EXCEPT !.target = [host |-> 9, port |-> 1]]}
         \cup {Session(policy, protocol) : policy \in MCPolicies, protocol \in Protocols})
  @@ h2 :> {Catalog(d2, east)}

MCTurning == {Rule(1, east, 1)}

\* What happens once the last request is answered is of no interest.
Busy == Cardinality(intents) < MaxIntents \/ \E h \in Handlers : handler[h] # Free

\* For the question of the order: two rules of the region, one request at a time.
MCOrderRules    == {Rule(1, east, 1), Rule(2, east, 0)}
MCOrderQuality  == 1 :> "normal" @@ 2 :> "normal"
MCOrderRequests == h1 :> {Catalog(d1, east)}
=============================================================================
