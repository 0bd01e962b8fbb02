------------------------------ MODULE Telemetry ------------------------------
(***************************************************************************)
(* cache/redis_cache.py and api/app.py: the engine's process projects its  *)
(* portfolio and its status into Redis, one key after the other; the REST  *)
(* API answers from Redis, and from a portfolio of its own when Redis has  *)
(* nothing to say.  Redis becomes unreachable, restarts empty, and         *)
(* outlives the engine's process.                                          *)
(*                                                                         *)
(* The engine's process has one thread: the books do not move while it is  *)
(* inside rehydrate.  Redis and the API are other processes.               *)
(***************************************************************************)
EXTENDS Portfolio, FiniteSets, SequencesExt

CONSTANTS
    Fills,                              \* signed size, price, brokerage and day of each
    MarkPrices,
    MaxTraded,                          \* bound on the volume of one life of the process
    MaxCrashes                          \* bound on the restarts of the engine's process

ASSUME TelemetryAssumption ==
    /\ Fills \subseteq [delta : Int \ {0}, price : Nat \ {0}, fee : Nat, day : Days]
    /\ MarkPrices \subseteq Nat \ {0}
    /\ MaxTraded \in Nat /\ MaxCrashes \in Nat

VARIABLES
    kill_switch,        \* RiskManager.kill_switch_active of the engine
    redis,              \* the value under each key, or Missing
    redis_up,           \* Redis answers the engine and the API
    fail_silent,        \* RedisStateCache.fail_silent
    todo,               \* the keys rehydrate has still to write
    count,              \* its local variable of that name
    crashes,
    returned,           \* history: what the last rehydrate returned, 0 if the books moved since
    kept                \* history: Redis has lost nothing since that rehydrate began

cacheVars == <<redis, redis_up, fail_silent>>
rehydrateVars == <<todo, count>>
historyVars == <<returned, kept>>
vars == <<portfolioVars, kill_switch, cacheVars, rehydrateVars, crashes, historyVars>>

Keys == {"position", "portfolio", "latest", "status"}

Missing == [present |-> FALSE]

\* _positions holds a symbol from its first fill on, _latest_market_prices from its first
\* fill or mark on.
Tracked == position.total_quantity_traded > 0
Priced == market_price > 0

\* The engine has a value for the key.
Known(key) == (key = "position" => Tracked) /\ (key = "latest" => Priced)

\* set_position, set_portfolio, set_latest_price and set_system_status, called with what the
\* engine's process knows; a status that comes without details has no kill switch.
Payload(key) ==
    CASE key = "position" -> [present |-> TRUE, quantity |-> position.quantity,
                              avg_entry_price |-> position.average_entry_price]
      [] key = "portfolio" -> [present |-> TRUE, equity |-> EquityAt(cash, position.quantity, market_price),
                               cash |-> cash, unrealized_pnl |-> position.unrealized_pnl,
                               realized_pnl |-> position.realized_pnl, drawdown |-> drawdown]
      [] key = "latest" -> [present |-> TRUE, price |-> market_price]
      [] key = "status" -> [present |-> TRUE, status |-> IF kill_switch THEN "HALTED" ELSE "RUNNING",
                            details |-> {}]

StatusWithDetails == [Payload("status") EXCEPT !.details = {[kill_switch |-> kill_switch]}]

Init ==
    /\ PortfolioInit
    /\ kill_switch = FALSE
    /\ redis = [key \in Keys |-> Missing] /\ redis_up = TRUE
    /\ fail_silent \in BOOLEAN
    /\ todo = <<>> /\ count = 0 /\ crashes = 0
    /\ returned = 0 /\ kept = TRUE

-----------------------------------------------------------------------------
\* The engine's own work, between two calls of the cache.
Working == todo = <<>>

BooksMove == returned' = 0 /\ UNCHANGED kept

Trade(f) ==
    /\ Working
    /\ position.total_quantity_traded + AbsVal(f.delta) <= MaxTraded
    /\ ProcessFill(f.delta, f.price, f.fee, f.day)
    /\ BooksMove
    /\ UNCHANGED <<kill_switch, cacheVars, rehydrateVars, crashes>>

Mark(price) ==
    /\ Working
    /\ MarkToMarket(price)
    /\ BooksMove
    /\ UNCHANGED <<kill_switch, cacheVars, rehydrateVars, crashes>>

SwitchKill ==
    /\ Working
    /\ kill_switch' = ~kill_switch
    /\ BooksMove
    /\ UNCHANGED <<portfolioVars, cacheVars, rehydrateVars, crashes>>

-----------------------------------------------------------------------------
\* One of the four setters; a refused write leaves the old value.
Publish(key) ==
    /\ Working /\ redis_up /\ Known(key)
    /\ \E value \in {Payload(key)} \cup (IF key = "status" THEN {StatusWithDetails} ELSE {}) :
          redis' = [redis EXCEPT ![key] = value]
    /\ UNCHANGED <<portfolioVars, kill_switch, redis_up, fail_silent, rehydrateVars, crashes, historyVars>>

Clear ==
    /\ Working /\ redis_up
    /\ redis' = [key \in Keys |-> Missing]
    /\ kept' = FALSE
    /\ UNCHANGED <<portfolioVars, kill_switch, redis_up, fail_silent, rehydrateVars, crashes, returned>>

\* Fault: a closed position is not worth writing.
RehydrationOfOpen ==
    (IF position.quantity # 0 THEN <<"position">> ELSE <<>>) \o <<"portfolio">>
    \o (IF Priced THEN <<"latest">> ELSE <<>>) \o <<"status">>

\* The order in which rehydrate writes, for a caller that passes the prices it knows and its
\* status (both may be left out; nothing in the repository but a test calls it).
Rehydration ==
    (IF Tracked THEN <<"position">> ELSE <<>>) \o <<"portfolio">>
    \o (IF Priced THEN <<"latest">> ELSE <<>>) \o <<"status">>

BeginRehydrate ==
    /\ Working
    /\ todo' = Rehydration
    /\ count' = 0
    /\ returned' = 0 /\ kept' = TRUE
    /\ UNCHANGED <<portfolioVars, kill_switch, cacheVars, crashes>>

\* What rehydrate returns after its last key.
Return(n) ==
    returned' = (IF Len(todo) = 1 THEN n ELSE returned) /\ UNCHANGED kept

\* Fault: every key is counted.
RefuseCounted ==
    /\ todo # <<>> /\ ~redis_up /\ fail_silent
    /\ todo' = Tail(todo) /\ count' = count + 1
    /\ Return(count + 1)
    /\ UNCHANGED <<portfolioVars, kill_switch, cacheVars, crashes>>

WriteKey ==
    /\ todo # <<>> /\ redis_up
    /\ redis' = [redis EXCEPT ![Head(todo)] = Payload(Head(todo))]
    /\ todo' = Tail(todo) /\ count' = count + 1
    /\ Return(count + 1)
    /\ UNCHANGED <<portfolioVars, kill_switch, redis_up, fail_silent, crashes>>

\* _safe_set swallows the exception, ...
RefuseKey ==
    /\ todo # <<>> /\ ~redis_up /\ fail_silent
    /\ todo' = Tail(todo)
    /\ Return(count)
    /\ UNCHANGED <<portfolioVars, kill_switch, cacheVars, count, crashes>>

\* ... or raises it out of rehydrate, which then returns nothing.
RaiseKey ==
    /\ todo # <<>> /\ ~redis_up /\ ~fail_silent
    /\ todo' = <<>>
    /\ UNCHANGED <<portfolioVars, kill_switch, cacheVars, count, crashes, historyVars>>

-----------------------------------------------------------------------------
\* Redis (external) stops answering, answers again, or restarts without its data.
RedisDown ==
    /\ redis_up
    /\ redis_up' = FALSE
    /\ UNCHANGED <<portfolioVars, kill_switch, redis, fail_silent, rehydrateVars, crashes, historyVars>>

RedisUp ==
    /\ ~redis_up
    /\ redis_up' = TRUE
    /\ redis' \in {redis, [key \in Keys |-> Missing]}
    /\ kept' = (kept /\ redis' = redis)
    /\ UNCHANGED <<portfolioVars, kill_switch, fail_silent, rehydrateVars, crashes, returned>>

\* The engine's process ends anywhere, also between two keys, and starts with empty books.
Restart ==
    /\ crashes < MaxCrashes
    /\ crashes' = crashes + 1
    /\ cash' = InitialCash /\ peak_equity' = InitialCash
    /\ position' = [f \in DOMAIN position |-> 0]
    /\ market_price' = 0 /\ total_brokerage' = 0 /\ drawdown' = 0
    /\ daily_realized_pnl' = [day \in Days |-> 0]
    /\ kill_switch' = FALSE
    /\ todo' = <<>> /\ count' = 0
    /\ BooksMove
    /\ UNCHANGED cacheVars

Rehydrate == BeginRehydrate \/ WriteKey \/ RefuseKey \/ RaiseKey

Work ==
    \/ \E f \in Fills : Trade(f)
    \/ \E price \in MarkPrices : Mark(price)
    \/ SwitchKill

Next ==
    \/ Work
    \/ \E key \in Keys : Publish(key)
    \/ Clear \/ Rehydrate
    \/ RedisDown \/ RedisUp \/ Restart

Spec == Init /\ [][Next]_vars

\* A write that can be made is made: rehydrate does not wait for anything.
FairSpec == Spec /\ WF_vars(WriteKey \/ RefuseKey \/ RaiseKey)

-----------------------------------------------------------------------------
\* What _safe_get does for the API, whose own cache may be silent or not: it raises, or ...
Raises(silent) == ~redis_up /\ ~silent

\* ... returns a value or none.
Get(key) == IF redis_up THEN redis[key] ELSE Missing

\* What raises in an endpoint is answered with HTTP 500.
Failure == [source |-> "none"]

\* Portfolio(initial_cash=1_000_000.0), the one create_app makes when it is given none, as by
\* the application the module builds; nothing ever moves it.
DefaultCash == 100000000

\* GET /portfolio.
PortfolioReply(silent) ==
    CASE Raises(silent) -> Failure
      [] ~Raises(silent) /\ Get("portfolio").present ->
            [source |-> "cache", equity |-> redis["portfolio"].equity, cash |-> redis["portfolio"].cash,
             realized_pnl |-> redis["portfolio"].realized_pnl,
             unrealized_pnl |-> redis["portfolio"].unrealized_pnl,
             drawdown |-> redis["portfolio"].drawdown]
      [] OTHER ->
            [source |-> "domain", equity |-> DefaultCash, cash |-> DefaultCash,
             realized_pnl |-> 0, unrealized_pnl |-> 0, drawdown |-> 0]

\* GET /status: the details of the cached status may lack the kill switch, and what the API
\* falls back on are the defaults of create_app.
StatusReply(silent) ==
    CASE Raises(silent) -> Failure
      [] ~Raises(silent) /\ Get("status").present ->
            [source |-> "cache", status |-> redis["status"].status,
             kill_switch |-> \E d \in redis["status"].details : d.kill_switch]
      [] OTHER -> [source |-> "domain", status |-> "RUNNING", kill_switch |-> FALSE]

\* The cached value is the current one, with or without details.
Current(key) ==
    redis[key] \in {Payload(key)} \cup (IF key = "status" THEN {StatusWithDetails} ELSE {})

\* The count that rehydrate returns can be trusted: that many keys show the engine's state,
\* until the books move or Redis loses data, however often Redis failed in between.
CountIsHonest == kept => Cardinality({key \in Keys : Current(key)}) >= returned

\* A reply that tells what the engine's portfolio tells.
TellsTheEngine(reply) ==
    /\ reply.equity = Equity /\ reply.cash = cash
    /\ reply.realized_pnl = position.realized_pnl /\ reply.unrealized_pnl = position.unrealized_pnl
    /\ reply.drawdown = drawdown

\* After a rehydrate that returned all its keys, and until the books or the kill switch move,
\* what GET /portfolio and GET /status take from the cache is what the engine knows, however
\* often Redis fails, is cleared or comes back empty; and they take it from there as long as
\* Redis answers and has lost nothing.
RepliesAreCurrent ==
    returned = Len(Rehydration) =>
        \A silent \in BOOLEAN :
            /\ PortfolioReply(silent).source = "cache" => TellsTheEngine(PortfolioReply(silent))
            /\ StatusReply(silent).source = "cache" =>
                   StatusReply(silent).status = Payload("status").status
            /\ kept /\ redis_up =>
                   PortfolioReply(silent).source = "cache" /\ StatusReply(silent).source = "cache"

\* Rehydrating brings the cache back: if it is called again and again while Redis answers and
\* the books rest, every key the engine has a value for ends up current, also that of a
\* position that was closed while Redis was away.
CacheCatchesUp ==
    /\ []<><<BeginRehydrate>>_vars
    /\ <>[]redis_up
    /\ <>[][~Work /\ ~Restart /\ ~Clear]_vars
    => <>[]\A key \in Keys : Known(key) => Current(key)
=============================================================================
