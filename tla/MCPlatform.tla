---------------------------- MODULE MCPlatform ----------------------------
(***************************************************************************)
(* The parts of the backend that keep state of their own in Redis, in the  *)
(* database or in the process, each on a small instance.  They share no    *)
(* state with each other, so in a behaviour one of them moves and the      *)
(* others stay in their one initial state: every property is checked in    *)
(* the sum of their state spaces in place of the product.                  *)
(***************************************************************************)
EXTENDS Alerts, PriceSubscriptions, CacheWarm, Sessions, TokenRefresh, LoginGuard,
        RequestGuards, JobQueue, RedisClient, Database, ServerProcess,
        QueryCache, Migrations, Pagination

VARIABLE part   \* the component that moves
vars == <<part, alertVars, wsVars, warmVars, sessionVars, tokenVars, loginVars, guardVars,
          queueVars, redisVars, trxVars, retryVars, lifecycleVars, queryCacheVars,
          migrationVars, paginationVars, metricsVars, poolVars>>

Part == {"alerts", "ws", "warm", "sessions", "tokens", "login", "guards", "queue",
         "redis", "trx", "retries", "lifecycle", "query cache", "migrations", "pages",
         "metrics", "pool"}

Init ==
  /\ part \in Part
  /\ AlertsInit /\ (part # "alerts" => quote = "low")
  /\ WsInit /\ WarmInit /\ SessionsInit /\ TokensInit /\ LoginInit
  /\ GuardsInit /\ QueueInit /\ RedisInit /\ TrxInit /\ RetriesInit
  /\ LifecycleInit /\ QueryCacheInit /\ MigrationsInit /\ PaginationInit /\ MetricsInit
  /\ PoolInit

\* The variables of every component but p are left alone.
OthersRest(p) ==
  /\ UNCHANGED part
  /\ p # "alerts" => UNCHANGED alertVars
  /\ p # "ws" => UNCHANGED wsVars
  /\ p # "warm" => UNCHANGED warmVars
  /\ p # "sessions" => UNCHANGED sessionVars
  /\ p # "tokens" => UNCHANGED tokenVars
  /\ p # "login" => UNCHANGED loginVars
  /\ p # "guards" => UNCHANGED guardVars
  /\ p # "queue" => UNCHANGED queueVars
  /\ p # "redis" => UNCHANGED redisVars
  /\ p # "trx" => UNCHANGED trxVars
  /\ p # "retries" => UNCHANGED retryVars
  /\ p # "lifecycle" => UNCHANGED lifecycleVars
  /\ p # "query cache" => UNCHANGED queryCacheVars
  /\ p # "migrations" => UNCHANGED migrationVars
  /\ p # "pages" => UNCHANGED paginationVars
  /\ p # "metrics" => UNCHANGED metricsVars
  /\ p # "pool" => UNCHANGED poolVars

Next ==
  /\ OthersRest(part)
  /\ \/ part = "alerts" /\ AlertsNext
     \/ part = "ws" /\ WsNext
     \/ part = "warm" /\ WarmNext
     \/ part = "sessions" /\ SessionsNext
     \/ part = "tokens" /\ TokensNext
     \/ part = "login" /\ LoginNext
     \/ part = "guards" /\ GuardsNext
     \/ part = "queue" /\ QueueNext
     \/ part = "redis" /\ RedisNext
     \/ part = "trx" /\ TrxNext
     \/ part = "retries" /\ RetriesNext
     \/ part = "lifecycle" /\ LifecycleNext
     \/ part = "query cache" /\ QueryCacheNext
     \/ part = "migrations" /\ MigrationsNext
     \/ part = "pages" /\ PaginationNext
     \/ part = "metrics" /\ MetricsNext
     \/ part = "pool" /\ PoolNext

Spec == Init /\ [][Next]_vars

===========================================================================
