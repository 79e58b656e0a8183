------------------------------- MODULE Catalog -------------------------------
(***************************************************************************)
(* The game catalog: games, their categories, regions and route rules.     *)
(* The business system syncs and deletes parts of it, in a transaction     *)
(* each; admins write games and rules, an update and a deletion of a game  *)
(* being two transactions; nodes are deleted; a panel that starts seeds    *)
(* the games of rules.                                                     *)
(*                                                                         *)
(* Requests are served by handlers.  A request is a program: transactions, *)
(* each a list of SQL statements.  The row and gap locks of InnoDB         *)
(* make the others wait for a transaction under way, the victim of a dead- *)
(* lock fails.  A handler may fail after any statement.                    *)
(*                                                                         *)
(* Abstractions.  Names, platforms, icons, areas, tags, priorities and     *)
(* statuses are one name or left out.  The logs of the business API, which *)
(* are written when all is done and may be lost, are left out.  Keys are   *)
(* equal or not (the collation of the database ignores case), and ids have *)
(* no gaps (AUTO_INCREMENT leaves some).                                   *)
(***************************************************************************)
EXTENDS Integers, Sequences, SequencesExt

CONSTANTS
  Handlers,    \* requests served at once
  Requests,    \* bound: requests that come
  Nodes,       \* ids of nodes
  MaxRequests, \* bound: how many come
  MaxCategories, \* 16
  None         \* no region, no external id, any source

VARIABLES
  table,    \* the tables, as the statements executed have left them
  saved,    \* what a rollback restores
  handler,  \* requests under way
  holder,   \* the handler whose transaction is under way, or None
  came      \* requests that came

vars == <<table, saved, handler, holder, came>>

Free  == [pc |-> "free"]
Empty == [games |-> {}, categories |-> {}, regions |-> {}, rules |-> {}, nodes |-> Nodes,
          next_id |-> 1]

-----------------------------------------------------------------------------
(***************************************************************************)
(* Slips: plausible mistakes in the definitions below; no action uses them *)
(***************************************************************************)
KeepsPart(t)             == t
GivenOnly(rule, region, game) == rule.external
RegionAlone(t, r)        == [t EXCEPT !.regions = {row \in @ : <<row.game, row.region>> # r}]
Reuses(t)                == 1

-----------------------------------------------------------------------------
(* normalize_business_sync_catalog *)

\* What is nested inherits the game and the region, and may not contradict them.
Inherited(own, parent) == IF own = None THEN parent ELSE own
Consistent(own, parent) == own = None \/ parent = None \/ own = parent

\* default_business_route_external_id; the hash is taken to be injective
DefaultExternal(rule, region, game) == <<game, region, rule.node, rule.target>>
ExternalOf(rule, region, game) ==
  IF rule.external = None THEN DefaultExternal(rule, region, game) ELSE rule.external

RuleIn(source, rule, region, game) ==
  LET r == Inherited(rule.region, region)
      g == Inherited(rule.game, game)
  IN [source |-> source, external |-> ExternalOf(rule, r, g), game |-> g, region |-> r,
      node |-> rule.node, target |-> rule.target]

RulesIn(source, rules, region, game) ==
  [i \in DOMAIN rules |-> RuleIn(source, rules[i], region, game)]

RegionIn(region, game) ==
  [game |-> Inherited(region.game, game), region |-> region.region, name |-> region.name]

\* Categories of a game, without those that come again.
Distinct(categories) ==
  LET seen[n \in 0..Len(categories)] ==
        IF n = 0 THEN <<>>
        ELSE IF Contains(seen[n - 1], categories[n]) THEN seen[n - 1]
        ELSE Append(seen[n - 1], categories[n])
  IN seen[Len(categories)]

GameIn(game) ==
  [game |-> game.game, name |-> game.name, categories |-> Distinct(game.categories)]

\* Games with their regions and rules, then regions with their rules, then rules.
Normalised(request) ==
  LET Of(region, game) ==
        RulesIn(request.source, region.rules, region.region, Inherited(region.game, game))
      RulesOf(game) ==
        FlattenSeq([i \in DOMAIN game.regions |-> Of(game.regions[i], game.game)])
        \o RulesIn(request.source, game.rules, None, game.game)
  IN [games   |-> [i \in DOMAIN request.games |-> GameIn(request.games[i])],
      regions |-> FlattenSeq([i \in DOMAIN request.games |->
                    [j \in DOMAIN request.games[i].regions |->
                       RegionIn(request.games[i].regions[j], request.games[i].game)]])
                  \o [i \in DOMAIN request.regions |-> RegionIn(request.regions[i], None)],
      rules   |-> FlattenSeq([i \in DOMAIN request.games |-> RulesOf(request.games[i])])
                  \o FlattenSeq([i \in DOMAIN request.regions |-> Of(request.regions[i], None)])
                  \o RulesIn(request.source, request.rules, None, None)]

ValidRegion(region, game) ==
  /\ Consistent(region.game, game) /\ Inherited(region.game, game) # None
  /\ \A rule \in ToSet(region.rules) :
       Consistent(rule.game, Inherited(region.game, game)) /\ Consistent(rule.region, region.region)

ValidSync(request) ==
  /\ request.games # <<>> \/ request.regions # <<>> \/ request.rules # <<>>
  /\ \A game \in ToSet(request.games) :
       /\ Len(game.categories) <= MaxCategories
       /\ \A region \in ToSet(game.regions) : ValidRegion(region, game.game)
       /\ \A rule \in ToSet(game.rules) : Consistent(rule.game, game.game)
  /\ \A region \in ToSet(request.regions) : ValidRegion(region, None)
  /\ \A rule \in ToSet(request.rules) : rule.game # None

\* normalize_business_delete_catalog
ValidDelete(request) ==
  \E name \in {"games", "regions", "ids", "externals"} : request[name] # <<>>

Valid(request) ==
  CASE request.kind = "sync"   -> ValidSync(request)
    [] request.kind = "delete" -> ValidDelete(request)
    [] OTHER                   -> TRUE

\* The lists of a request are lists, and None is the external id of no rule.
IsList(s) == s \in Seq(ToSet(s))

TypedGame(game) ==
  /\ IsList(game.categories) /\ IsList(game.regions) /\ IsList(game.rules)
  /\ \A region \in ToSet(game.regions) : IsList(region.rules)

TypedSync(request) ==
  /\ IsList(request.games) /\ \A game \in ToSet(request.games) : TypedGame(game)
  /\ IsList(request.regions) /\ \A region \in ToSet(request.regions) : IsList(region.rules)
  /\ IsList(request.rules)
  /\ \A rule \in ToSet(Normalised(request).rules) :
       DefaultExternal(rule, rule.region, rule.game) # None

TypedDelete(request) ==
  /\ IsList(request.games) /\ IsList(request.regions)
  /\ IsList(request.ids) /\ IsList(request.externals) /\ None \notin ToSet(request.externals)

Typed(request) ==
  \/ request.kind = "sync" /\ TypedSync(request)
  \/ request.kind = "delete" /\ TypedDelete(request)
  \/ request.kind \in {"create_game", "update_game", "delete_game"} /\ TypedGame(request.game)
  \/ request.kind \in {"create_rule", "update_rule", "delete_rule", "delete_node"}

ASSUME CatalogAssumption ==
  /\ \A request \in Requests : Typed(request)
  /\ None \notin Handlers /\ MaxRequests \in Nat

-----------------------------------------------------------------------------
(* SQL statements: what they do to the tables *)

\* The column category, from before a game had several.
Primary(game) == IF game.categories = <<>> THEN None ELSE Head(game.categories)

\* INSERT .. ON DUPLICATE KEY UPDATE, uniq_game_id; a new game, a renamed one
PutGame(t, game) ==
  [t EXCEPT !.games = {row \in @ : row.game # game.game}
                      \cup {[game |-> game.game, name |-> game.name, category |-> Primary(game)]}]

\* replace_business_game_categories: first away with the old ones
DropCategories(t, g) == [t EXCEPT !.categories = {row \in @ : row.game # g}]

PutCategory(t, row) ==
  [t EXCEPT !.categories =
     {r \in @ : <<r.game, r.category>> # <<row.game, row.category>>} \cup {row}]

\* uniq_game_region
PutRegion(t, row) ==
  [t EXCEPT !.regions = {r \in @ : <<r.game, r.region>> # <<row.game, row.region>>} \cup {row}]

\* AUTO_INCREMENT
NextId(t) == t.next_id

\* idx_route_external: NULLs are never equal
SameRoute(row, rule) ==
  rule.external # None /\ <<row.source, row.external>> = <<rule.source, rule.external>>

WithId(rule, id) ==
  [id |-> id, source |-> rule.source, external |-> rule.external, game |-> rule.game,
   region |-> rule.region, node |-> rule.node, target |-> rule.target]

PutRule(t, rule) ==
  LET same == {row \in t.rules : SameRoute(row, rule)}
  IN IF same = {}
     THEN [t EXCEPT !.rules = @ \cup {WithId(rule, NextId(t))}, !.next_id = NextId(t) + 1]
     ELSE [t EXCEPT !.rules = (@ \ same) \cup {WithId(rule, row.id) : row \in same}]

\* update_admin_route_rule: sync_source and external_id stay
SetRule(t, id, rule) ==
  [t EXCEPT !.rules = {IF row.id # id THEN row
                       ELSE [row EXCEPT !.game = rule.game, !.region = rule.region,
                                        !.node = rule.node, !.target = rule.target] : row \in @}]

DropRuleById(t, id) == [t EXCEPT !.rules = {row \in @ : row.id # id}]

DropRuleByExternal(t, external, source) ==
  [t EXCEPT !.rules = {row \in @ : row.external # external \/ source \notin {None, row.source}}]

\* The rules of the region, then the region.
DropRegion(t, r) ==
  [t EXCEPT !.rules   = {row \in @ : <<row.game, row.region>> # r},
            !.regions = {row \in @ : <<row.game, row.region>> # r}]

DropGameRules(t, g)   == [t EXCEPT !.rules = {row \in @ : row.game # g}]
DropGameRegions(t, g) == [t EXCEPT !.regions = {row \in @ : row.game # g}]
DropGame(t, g)        == [t EXCEPT !.games = {row \in @ : row.game # g}]

\* ON DELETE CASCADE of fk_route_node
DropNode(t, n) ==
  [t EXCEPT !.nodes = @ \ {n}, !.rules = {row \in @ : row.node # n}]

\* ensure_game_categories_table: INSERT IGNORE of what accel_games has in category
SeededCategories(t) ==
  {[game |-> row.game, category |-> row.category, sort_order |-> 0] :
     row \in {r \in t.games : /\ r.category # None
                              /\ \A c \in t.categories :
                                    <<c.game, c.category>> # <<r.game, r.category>>}}

\* seed_game_catalog_from_routes
SeededGames(t) ==
  {[game |-> g, name |-> "seeded", category |-> None] :
     g \in {row.game : row \in t.rules} \ {row.game : row \in t.games}}

Seeded(t) ==
  [t EXCEPT !.categories = @ \cup SeededCategories(t), !.games = @ \cup SeededGames(t)]

Executed(t, s) ==
  CASE s.do = "put_game"        -> PutGame(t, s.row)
    [] s.do = "new_game"        -> PutGame(t, s.row)
    [] s.do = "set_game"        -> PutGame(t, s.row)
    [] s.do = "put_category"    -> PutCategory(t, s.row)
    [] s.do = "put_region"      -> PutRegion(t, s.row)
    [] s.do = "put_rule"        -> PutRule(t, s.row)
    [] s.do = "set_rule"        -> SetRule(t, s.id, s.row)
    [] s.do = "drop_rule"       -> DropRuleById(t, s.id)
    [] s.do = "drop_external"   -> DropRuleByExternal(t, s.external, s.source)
    [] s.do = "drop_region"     -> DropRegion(t, s.region)
    [] s.do = "drop_rules"      -> DropGameRules(t, s.game)
    [] s.do = "drop_regions"    -> DropGameRegions(t, s.game)
    [] s.do = "drop_categories" -> DropCategories(t, s.game)
    [] s.do = "drop_game"       -> DropGame(t, s.game)
    [] s.do = "drop_node"       -> DropNode(t, s.node)

\* The tables after every number of the statements.
Run(t, statements) ==
  LET after[n \in 0..Len(statements)] ==
        IF n = 0 THEN t ELSE Executed(after[n - 1], statements[n])
  IN after

\* map_game_write_error, map_route_rule_write_error; no row to update
Refused(t, s) ==
  \/ s.do = "new_game" /\ \E row \in t.games : row.game = s.row.game
  \/ s.do = "set_game" /\ \A row \in t.games : row.game # s.row.game
  \/ s.do \in {"put_rule", "set_rule"} /\ s.row.node \notin t.nodes
  \/ s.do = "set_rule" /\ \A row \in t.rules : row.id # s.id

-----------------------------------------------------------------------------
(* Programs: transactions, each a list of statements *)

\* replace_business_game_categories
ReplaceCategories(game) ==
  <<[do |-> "drop_categories", game |-> game.game]>>
  \o [i \in DOMAIN game.categories |->
        [do |-> "put_category",
         row |-> [game |-> game.game, category |-> game.categories[i], sort_order |-> i - 1]]]

WriteGame(do, game) == <<[do |-> do, row |-> game]>>

\* sync_business_catalog
SyncProgram(request) ==
  LET catalog == Normalised(request)
      ofGames == [i \in DOMAIN catalog.games |->
                    WriteGame("put_game", catalog.games[i]) \o ReplaceCategories(catalog.games[i])]
      Put(do, rows) == [i \in DOMAIN rows |-> [do |-> do, row |-> rows[i]]]
  IN <<FlattenSeq(ofGames) \o Put("put_region", catalog.regions) \o Put("put_rule", catalog.rules)>>

\* delete_business_catalog
DropsOfGame(g) ==
  <<[do |-> "drop_rules", game |-> g], [do |-> "drop_regions", game |-> g],
    [do |-> "drop_categories", game |-> g], [do |-> "drop_game", game |-> g]>>

DeleteProgram(request) ==
  LET ofIds       == [i \in DOMAIN request.ids |-> [do |-> "drop_rule", id |-> request.ids[i]]]
      ofExternals == [i \in DOMAIN request.externals |->
                        [do |-> "drop_external", external |-> request.externals[i],
                         source |-> request.source]]
      ofRegions   == [i \in DOMAIN request.regions |->
                        [do |-> "drop_region", region |-> request.regions[i]]]
      ofGames     == [i \in DOMAIN request.games |-> DropsOfGame(request.games[i])]
  IN <<ofIds \o ofExternals \o ofRegions \o FlattenSeq(ofGames)>>

\* insert_admin_game, update_admin_game, delete_admin_game
AdminGameProgram(request) ==
  LET game == GameIn(request.game)
  IN CASE request.kind = "create_game" -> <<WriteGame("new_game", game) \o ReplaceCategories(game)>>
       [] request.kind = "update_game" -> <<WriteGame("set_game", game), ReplaceCategories(game)>>
       [] OTHER -> <<<<[do |-> "drop_categories", game |-> game.game]>>,
                     <<[do |-> "drop_game", game |-> game.game]>>>>

\* insert_admin_route_rule, update_admin_route_rule, delete_admin_route_rule
AdminRuleProgram(request) ==
  <<<<CASE request.kind = "create_rule" -> [do |-> "put_rule", row |-> request.rule]
        [] request.kind = "update_rule" ->
             [do |-> "set_rule", id |-> request.id, row |-> request.rule]
        [] OTHER                        -> [do |-> "drop_rule", id |-> request.id]>>>>

Program(request) ==
  CASE request.kind = "sync"        -> SyncProgram(request)
    [] request.kind = "delete"      -> DeleteProgram(request)
    [] request.kind = "delete_node" -> <<<<[do |-> "drop_node", node |-> request.node]>>>>
    [] request.kind \in {"create_game", "update_game", "delete_game"} -> AdminGameProgram(request)
    [] OTHER                        -> AdminRuleProgram(request)

-----------------------------------------------------------------------------
(* Handlers *)

\* The handlers of the business API, their copies for admins, the handlers of the admin API
Receive(h, request) ==
  /\ handler[h] = Free /\ came < MaxRequests
  /\ came' = came + 1
  /\ Valid(request)
  /\ handler' = [handler EXCEPT ![h] = [pc |-> "serving", program |-> Program(request),
                                        turn |-> 1, done |-> 0]]
  /\ UNCHANGED <<table, saved, holder>>

\* The transaction whose turn it is; done of its statements are executed.
Transaction(h) == handler[h].program[handler[h].turn]

\* pool.begin
Begin(h) ==
  /\ handler[h].pc = "serving" /\ handler[h].turn <= Len(handler[h].program) /\ holder = None
  /\ holder' = h /\ saved' = table
  /\ UNCHANGED <<table, handler, came>>

Execute(h) ==
  /\ holder = h /\ handler[h].done < Len(Transaction(h))
  /\ LET statement == Transaction(h)[handler[h].done + 1]
     IN /\ ~Refused(table, statement)
        /\ table' = Executed(table, statement)
  /\ handler' = [handler EXCEPT ![h].done = @ + 1]
  /\ UNCHANGED <<saved, holder, came>>

\* tx.commit
Commit(h) ==
  /\ holder = h /\ handler[h].done = Len(Transaction(h))
  /\ holder' = None
  /\ handler' = [handler EXCEPT ![h].turn = @ + 1, ![h].done = 0]
  /\ saved' = table
  /\ UNCHANGED <<table, came>>

Answer(h) ==
  /\ handler[h].pc = "serving" /\ handler[h].turn > Len(handler[h].program)
  /\ handler' = [handler EXCEPT ![h] = Free]
  /\ UNCHANGED <<table, saved, holder, came>>

\* What a transaction that is dropped leaves; AUTO_INCREMENT is not taken back.
RolledBack(t) == [saved EXCEPT !.next_id = t.next_id]

\* A statement is refused, the database fails, the client is gone, the panel ends: the
\* transactions that are left are not begun.
Fail(h) ==
  /\ handler[h] # Free
  /\ handler' = [handler EXCEPT ![h] = Free]
  /\ IF holder = h
     THEN table' = RolledBack(table) /\ saved' = RolledBack(table) /\ holder' = None
     ELSE UNCHANGED <<table, saved, holder>>
  /\ UNCHANGED came

\* A panel that starts: every handler is gone, categories and games are seeded.
Restart ==
  /\ holder = None
  /\ handler' = [h \in Handlers |-> Free]
  /\ table' = Seeded(table) /\ saved' = Seeded(table)
  /\ UNCHANGED <<holder, came>>

Init ==
  /\ table = Empty /\ saved = Empty
  /\ handler = [h \in Handlers |-> Free]
  /\ holder = None /\ came = 0

Next ==
  \/ \E h \in Handlers :
       \/ \E request \in Requests : Receive(h, request)
       \/ Begin(h) \/ Execute(h) \/ Commit(h) \/ Answer(h) \/ Fail(h)
  \/ Restart

Spec == Init /\ [][Next]_vars

-----------------------------------------------------------------------------
(* Correctness *)

\* No transaction under way: nothing to restore.  Ids identify the rows, and so does what a
\* business system calls them; a row names a node there is.
TypeOK ==
  /\ table.nodes \subseteq Nodes /\ came \in 0..MaxRequests
  /\ \A row \in table.rules : row.id \in 1..(table.next_id - 1) /\ row.node \in table.nodes
  /\ \A r, s \in table.rules : r.id = s.id \/ SameRoute(r, s) => r = s
  /\ \A h \in Handlers : handler[h].pc \in {"free", "serving"}
  /\ holder \in Handlers \cup {None}
  /\ holder = None => saved = table

\* A business system that gets no answer sends its catalog again.  The second time changes
\* nothing: no rule is there twice, whether or not the catalog gives it an external id.
Ran(request, t) == Run(t, Program(request)[1])[Len(Program(request)[1])]

Runs(request, t) == \A rule \in ToSet(Normalised(request).rules) : rule.node \in t.nodes

SyncIdempotent ==
  holder = None =>
    \A request \in {r \in Requests : r.kind = "sync" /\ Valid(r) /\ Runs(r, table)} :
      Ran(request, Ran(request, table)) = Ran(request, table)

Catalogs(kind) == {request \in Requests : request.kind = kind /\ Valid(request)}
Written(kinds) == {request \in Requests : request.kind \in kinds}
Selected(request) ==
  [games |-> ToSet(request.games), regions |-> ToSet(request.regions), ids |-> ToSet(request.ids),
   externals |-> ToSet(request.externals), source |-> request.source]

\* What the others see of the tables is the abstract catalog.
Store == INSTANCE CatalogStore WITH
  Syncs      <- {Normalised(request) : request \in Catalogs("sync")},
  Deletes    <- {Selected(request) : request \in Catalogs("delete")},
  Games      <- {GameIn(r.game) : r \in Written({"create_game", "update_game", "delete_game"})},
  Rules      <- {r.rule : r \in Written({"create_rule", "update_rule"})},
  games      <- saved.games,
  categories <- saved.categories,
  regions    <- saved.regions,
  rules      <- saved.rules,
  nodes      <- saved.nodes

\* Syncs and deletes are all or nothing in what is committed, whatever goes wrong.  Committed
\* states are what a single SELECT reads: a listing that takes several, outside a transaction,
\* may still mix two of them.
ImplementsStore == Store!Spec

=============================================================================
