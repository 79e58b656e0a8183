------------------------------ MODULE MCCatalog ------------------------------
(***************************************************************************)
(* A small instance of Catalog: two games, one region, two nodes; a nested *)
(* and a flat catalog, one that contradicts itself, deletions, an admin.   *)
(***************************************************************************)
EXTENDS Catalog

CONSTANTS h1, h2, n1, n2, business

Given(e) == <<"given", e>>

Route(game, region, node, target, external) ==
  [game |-> game, region |-> region, node |-> node, target |-> target, external |-> external]

Region(game, region, routes) ==
  [game |-> game, region |-> region, name |-> "region", rules |-> routes]

Game(game, name, cats, areas, routes) ==
  [game |-> game, name |-> name, categories |-> cats, regions |-> areas, rules |-> routes]

Sync(newGames, newRegions, newRules) ==
  [kind |-> "sync", source |-> business, games |-> newGames, regions |-> newRegions,
   rules |-> newRules]

Nested ==
  Sync(<<Game(1, "new", <<"fps", "pc", "fps">>,
              <<Region(None, 1, <<Route(None, None, n1, "a", None)>>)>>,
              <<Route(1, None, n2, "b", None)>>)>>, <<>>, <<>>)

\* the same route twice, and another game's
Flat ==
  Sync(<<>>, <<Region(1, 1, <<Route(None, 1, n2, "a", Given("e"))>>)>>,
       <<Route(2, None, n1, "c", Given("e")), Route(2, None, n2, "c", None)>>)

Contradictory == Sync(<<>>, <<Region(1, 1, <<Route(2, None, n1, "a", None)>>)>>, <<>>)

Delete(gameIds, regionIds, ids, externals) ==
  [kind |-> "delete", games |-> gameIds, regions |-> regionIds, ids |-> ids,
   externals |-> externals, source |-> None]

OfAdmin(kind) ==
  [kind |-> kind, game |-> Game(1, "own", <<"rpg">>, <<>>, <<>>),
   rule |-> [Route(1, 1, n1, "d", None) EXCEPT !.external = None] @@ [source |-> None], id |-> 1]

MCRequests ==
  {Nested, Flat, Contradictory, Delete(<<1>>, <<>>, <<>>, <<>>),
   Delete(<<>>, <<<<1, 1>>>>, <<2>>, <<Given("e")>>), Delete(<<>>, <<>>, <<>>, <<>>),
   [kind |-> "delete_node", node |-> n1]}
  \cup {OfAdmin(kind) : kind \in {"create_game", "update_game", "delete_game", "create_rule",
                                  "update_rule", "delete_rule"}}
=============================================================================
