----------------------------- MODULE RequestPath -----------------------------
(***************************************************************************)
(* What happens to a request before a handler runs, as functions of the    *)
(* configuration and the request: config.Load, the probe filter and the    *)
(* masking of handler.Middleware, the routes of main, AdminHandler.        *)
(* BasicAuth and sameOrigin.                                               *)
(*                                                                         *)
(* A path is the sequence of its segments after the leading slash: "/" is  *)
(* <<"">>, "/s/t/reveal" is <<"s", t, "reveal">>.                          *)
(***************************************************************************)
EXTENDS Integers, Sequences

CONSTANTS
  Tokens,   \* path segments that are tokens of links
  Unset,    \* an environment variable or a header that is not there
  Bad       \* the text of an environment variable that is no number; the empty
            \* one is such a text

-----------------------------------------------------------------------------
(* Configuration *)

\* getEnv; an empty value is as good as none.
getEnv(v, fallback) == IF v \in {Unset, ""} THEN fallback ELSE v

\* getEnvInt: also the fallback for what does not parse, the empty text (which
\* the code tells apart, to the same end) included.
getEnvInt(v, fallback) == IF v \in {Unset, Bad} THEN fallback ELSE v

AtLeastZero(n) == IF n < 0 THEN 0 ELSE n

\* Load: the fields that decide about requests and records.
Load(env) ==
  [createRate  |-> AtLeastZero(getEnvInt(env.RATE_LIMIT_CREATE_PER_MIN, 10)),
   revealRate  |-> AtLeastZero(getEnvInt(env.RATE_LIMIT_REVEAL_PER_MIN, 20)),
   healthRate  |-> AtLeastZero(getEnvInt(env.RATE_LIMIT_HEALTH_PER_MIN, 5)),
   dbMinLevel  |-> getEnv(env.LOG_DB_MIN_LEVEL, "warn"),
   adminUser   |-> getEnv(env.ADMIN_USER, ""),
   adminPass   |-> getEnv(env.ADMIN_PASSWORD, "")]

Severity == [DEBUG |-> -4, INFO |-> 0, WARN |-> 4, ERROR |-> 8]

\* parseLogLevel of main: warn unless it is one of the others.
parseLogLevel(s) ==
  CASE s = "debug" -> Severity["DEBUG"]
    [] s = "info"  -> Severity["INFO"]
    [] s = "error" -> Severity["ERROR"]
    [] OTHER       -> Severity["WARN"]

-----------------------------------------------------------------------------
(* Middleware *)

\* One name of each kind of pattern: matched as a prefix of the path, or only
\* with something below it.
ProbeNames == {".git", "robots.txt", "admin"}
ProbeDirs  == {"api", ".well-known"}

isProbeRequest(path) ==
  \/ path[1] \in ProbeNames
  \/ path[1] \in ProbeDirs /\ Len(path) > 1
  \/ \E i \in 1 .. Len(path) - 1 : path[i] = ".git"

\* mutant: only the page's own path is masked.
maskExactPath(path) ==
  IF Len(path) = 2 /\ path[1] = "s" /\ path[2] # ""
    THEN [path EXCEPT ![2] = "[token]"] ELSE path

\* "/s/{token}" and "/s/{token}/..."
maskTokenInPath(path) ==
  IF Len(path) >= 2 /\ path[1] = "s" /\ path[2] # ""
    THEN [path EXCEPT ![2] = "[token]"] ELSE path

-----------------------------------------------------------------------------
(* Routes *)

\* http.ServeMux redirects a path that is not clean.
Unclean(path) == \E i \in 1 .. Len(path) - 1 : path[i] = ""

\* The patterns of main; "GET /" and "POST /" take whatever is left.
Route(method, path) ==
  LET link == Len(path) >= 2 /\ path[1] = "s" /\ path[2] # "" IN
  CASE Unclean(path) -> "redirect"
    [] method = "GET"  /\ path[1] = "static" /\ Len(path) > 1 -> "static"
    [] method = "GET"  /\ link /\ Len(path) = 2 -> "page"
    [] method = "POST" /\ link /\ Len(path) = 3 /\ path[3] = "reveal" -> "reveal"
    [] method = "GET"  /\ path = <<"health">> -> "health"
    [] method = "GET"  /\ path = <<"health", "logs">> -> "logs"
    [] method = "POST" /\ path = <<"health", "logs", "clear">> -> "clear"
    [] method = "GET"  -> "index"
    [] OTHER -> "create"

\* The rate of the limiter a route is wrapped in; Limit is absent for rate 0.
RateOf(cfg, route) ==
  CASE route = "create" -> cfg.createRate
    [] route = "reveal" -> cfg.revealRate
    [] route \in {"health", "logs", "clear"} -> cfg.healthRate
    [] OTHER -> 0

-----------------------------------------------------------------------------
(* Admin *)

\* mutant: nobody looks whether credentials are configured.
BasicAuthUnset(cfg, auth) ==
  IF auth = Unset \/ auth # <<cfg.adminUser, cfg.adminPass>> THEN 401 ELSE 200

\* 403 without configured credentials, 401 without the right ones.
BasicAuth(cfg, auth) ==
  IF cfg.adminUser = "" \/ cfg.adminPass = "" THEN 403
  ELSE IF auth = Unset \/ auth # <<cfg.adminUser, cfg.adminPass>> THEN 401
  ELSE 200

\* The Origin header decides, without it the Referer, without both nothing.
\* A header is "same" if its host is the request's.
sameOrigin(req) ==
  IF req.origin # Unset THEN req.origin = "same"
  ELSE req.referer \in {Unset, "same"}
=============================================================================
