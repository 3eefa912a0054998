----------------------------- MODULE MCAdminLogs -----------------------------
(***************************************************************************)
(* Instances of AdminLogs for TLC.                                         *)
(***************************************************************************)
EXTENDS AdminLogs, TLC

MCIntervals == ("1 hour" :> 1) @@ ("6 hours" :> 2) @@ ("24 hours" :> 4)
                 @@ ("7 days" :> 5)

Row(i, t, level) ==
  [id |-> i, ts |-> t, level |-> level, msg |-> "other", path |-> <<>>]

\* Three rows, of which a clear of six hours takes one at first and then two; or
\* two of one instant.
MCTables == {{Row(1, -3, "WARN"), Row(2, -2, "ERROR"), Row(3, -1, "WARN")},
             {Row(2, -2, "WARN"), Row(3, -2, "WARN")}}

Env(reveal, rate, level, user, pass) ==
  [RATE_LIMIT_CREATE_PER_MIN |-> Unset, RATE_LIMIT_REVEAL_PER_MIN |-> reveal,
   RATE_LIMIT_HEALTH_PER_MIN |-> rate, LOG_DB_MIN_LEVEL |-> level,
   ADMIN_USER |-> user, ADMIN_PASSWORD |-> pass]

MCEnvironments == {Env(0, -1, Unset, "admin", "pw"),
                   Env(Bad, Unset, "info", Unset, "")}
MCEnvironment  == {Env(Bad, Unset, Unset, "admin", "pw")}

Admin == <<"admin", "pw">>

Get(path) == [method |-> "GET", path |-> path, auth |-> Unset]
Post(path) == [method |-> "POST", path |-> path, auth |-> Unset]
Logs(level, window, page, auth) ==
  [method |-> "GET", path |-> <<"health", "logs">>, level |-> level,
   window |-> window, page |-> page, auth |-> auth]
Clear(olderThan, origin, referer) ==
  [method |-> "POST", path |-> <<"health", "logs", "clear">>,
   olderThan |-> olderThan, origin |-> origin, referer |-> referer, auth |-> Admin]

Walks == {Logs("", "", -1, Admin), Logs("", "24h", 1, Admin),
          Logs("WARN", "7d", 9, Admin)}
Clears == {Clear("", "same", Unset), Clear("6h", Unset, Unset),
           Clear("1h", "other", "same")}
Others == {[Get(<<"health">>) EXCEPT !.auth = Admin],
           Logs("", "7d", Junk, <<"", "">>)}
Links == UNION {{Post(<<"s", t, "reveal">>), Get(<<"", "s", t>>),
                 Get(<<"s", t, ".git", "config">>)} : t \in Tokens}

MCRequests == Walks \cup Clears \cup Others \cup Links
MCTokenRequests == Links \cup {Logs("", "7d", 0, Admin)}
=============================================================================
