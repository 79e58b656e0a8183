----------------------------- MODULE CatalogStore -----------------------------
(***************************************************************************)
(* What the business system may rely on: a sync or a delete changes the    *)
(* catalog as a whole or not at all, whatever fails half way, and nobody   *)
(* meets a part of it.  Admins change a row or the categories of a game.   *)
(*                                                                         *)
(* Each operation is stated by what holds of the catalog after it; Catalog *)
(* executes it statement by statement.  A row of a payload has no id.      *)
(***************************************************************************)
EXTENDS Integers, Sequences

CONSTANTS
  Syncs,     \* normalised catalogs: sequences of games, regions and rules
  Deletes,   \* normalised delete requests
  Games,     \* games admins write, with their categories
  Rules,     \* rules admins write
  None       \* no region, no external id, any source

VARIABLES
  games,       \* accel_games
  categories,  \* accel_game_categories
  regions,     \* accel_game_regions
  rules,       \* game_route_rules
  nodes        \* ids of accel_nodes

store == <<games, categories, regions, rules, nodes>>

-----------------------------------------------------------------------------

\* The last row a payload has for each key.
Latest(rows, Key(_)) ==
  {rows[i] : i \in {j \in DOMAIN rows :
                      \A k \in DOMAIN rows : k > j => Key(rows[k]) # Key(rows[j])}}

Others(table, payload, Key(_)) == {row \in table : \A new \in payload : Key(new) # Key(row)}

GameOf(row)    == row.game
RegionOf(row)  == <<row.game, row.region>>
RouteOf(row)   == <<row.source, row.external>>
Content(row)   == <<RouteOf(row), RegionOf(row), row.node, row.target>>

\* category is the first of its categories, as older panels had it.
GameRow(game) ==
  [game |-> game.game, name |-> game.name,
   category |-> IF game.categories = <<>> THEN None ELSE Head(game.categories)]

CategoryRows(game) ==
  {[game |-> game.game, category |-> game.categories[i], sort_order |-> i - 1] :
     i \in DOMAIN game.categories}

\* Rows that come with the keys of others replace them, the rest is left alone.  The rows of
\* rules keep their ids.
PutRows(newGames, newRegions, newRules) ==
  LET synced == rules' \ Others(rules', newRules, RouteOf)
  IN /\ games' = Others(games, newGames, GameOf) \cup {GameRow(game) : game \in newGames}
     /\ categories' = Others(categories, newGames, GameOf)
                      \cup UNION {CategoryRows(game) : game \in newGames}
     /\ regions' = Others(regions, newRegions, RegionOf) \cup newRegions
     /\ Others(rules', newRules, RouteOf) = Others(rules, newRules, RouteOf)
     /\ {Content(rule) : rule \in synced} = {Content(rule) : rule \in newRules}
     /\ \A r, s \in rules' : r.id = s.id => r = s
     /\ \A old \in rules, new \in synced : RouteOf(old) = RouteOf(new) <=> old.id = new.id
     /\ \A rule \in newRules : rule.node \in nodes
     /\ UNCHANGED nodes

Sync(catalog) ==
  PutRows(Latest(catalog.games, GameOf), Latest(catalog.regions, RegionOf),
          Latest(catalog.rules, RouteOf))

Named(request, rule) ==
  \/ rule.id \in request.ids
  \/ rule.external \in request.externals \ {None} /\ request.source \in {None, rule.source}
  \/ RegionOf(rule) \in request.regions
  \/ rule.game \in request.games

\* A region goes with its rules, a game with everything it has.
Delete(request) ==
  /\ games' = {row \in games : row.game \notin request.games}
  /\ categories' = {row \in categories : row.game \notin request.games}
  /\ regions' = {row \in regions : /\ row.game \notin request.games
                                   /\ RegionOf(row) \notin request.regions}
  /\ rules' = {rule \in rules : ~Named(request, rule)}
  /\ UNCHANGED nodes

-----------------------------------------------------------------------------
(* Admins, and what else the panel does to the catalog *)

PutGame(game) ==
  /\ games' = Others(games, {game}, GameOf) \cup {GameRow(game)}
  /\ UNCHANGED <<regions, rules, nodes>>

SetCategories(game) ==
  /\ categories' = Others(categories, {game}, GameOf) \cup CategoryRows(game)
  /\ UNCHANGED <<regions, rules, nodes>>

\* A new game comes with its categories, an old one gets them later.
WriteGame(game) ==
  \/ PutGame(game) /\ UNCHANGED categories
  \/ SetCategories(game) /\ UNCHANGED games
  \/ PutGame(game) /\ SetCategories(game)

\* The categories go first.  The rules of the game stay.
DropGame(game) ==
  /\ \/ categories' = {row \in categories : row.game # game} /\ UNCHANGED games
     \/ games' = {row \in games : row.game # game} /\ UNCHANGED categories
  /\ UNCHANGED <<regions, rules, nodes>>

\* A rule is written with the key it has, or goes.
WriteRule(rule) ==
  /\ rule.node \in nodes
  /\ \E new \in rules' : /\ RegionOf(new) = RegionOf(rule) /\ new.node = rule.node
                         /\ new.target = rule.target
                         /\ {r \in rules' : r.id # new.id} = {r \in rules : r.id # new.id}
                         /\ \A old \in rules : old.id = new.id => RouteOf(old) = RouteOf(new)
  /\ UNCHANGED <<games, categories, regions, nodes>>

DropRule ==
  /\ \E rule \in rules : rules' = rules \ {rule}
  /\ UNCHANGED <<games, categories, regions, nodes>>

\* The rules of a node go with it.
DropNode(node) ==
  /\ nodes' = nodes \ {node}
  /\ rules' = {rule \in rules : rule.node # node}
  /\ UNCHANGED <<games, categories, regions>>

\* A panel that starts gives every game its category and every game of a rule a row.
Seed ==
  /\ categories \subseteq categories'
  /\ \A row \in games : row.category # None =>
       \E c \in categories' : c.game = row.game /\ c.category = row.category
  /\ \A c \in categories' \ categories :
       c.sort_order = 0 /\ \E row \in games : row.game = c.game /\ row.category = c.category
  /\ games \subseteq games'
  /\ \A rule \in rules : \E row \in games' : row.game = rule.game
  /\ \A row \in games' \ games :
       row.category = None /\ \E rule \in rules : row.game = rule.game
  /\ UNCHANGED <<regions, rules, nodes>>

Next ==
  \/ \E catalog \in Syncs : Sync(catalog)
  \/ \E request \in Deletes : Delete(request)
  \/ \E game \in Games : WriteGame(game) \/ DropGame(game.game)
  \/ \E rule \in Rules : WriteRule(rule)
  \/ DropRule \/ Seed
  \/ \E node \in nodes : DropNode(node)

Spec == games = {} /\ categories = {} /\ regions = {} /\ rules = {} /\ [][Next]_store

=============================================================================
