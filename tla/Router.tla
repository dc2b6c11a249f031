------------------------------- MODULE Router -------------------------------
(***************************************************************************)
(* router.ServeHTTP, normalizePath and pathID (internal/api/router.go): a  *)
(* sequence of cases of which the first that fits a request handles it.    *)
(* A path is the sequence of what stands between its slashes.  A rule is   *)
(* named by what it asks of a request; each calls one handler.  Cases that *)
(* follow one another and cannot both fit a request stand in one set.      *)
(***************************************************************************)
EXTENDS Integers, Sequences

CONSTANTS
  Versions,  \* first parts of paths that look like an API version
  RouteIds   \* ids and names that clients put into paths

(* Ids have parts, and at least one: a client that leaves an id out asks    *)
(* for something else.                                                      *)
ASSUME RouteIdsHaveParts == RouteIds \subseteq Seq(STRING) \ {<<>>}

VARIABLES
  asked,   \* the rule and the id that a client has in mind
  routed   \* the rule that took its request and the id the handler was given

routeVars == <<asked, routed>>

\* What stands between two slashes in a row.
Empty == ""

Exact(method, path) == {[form |-> "exact", method |-> method, path |-> path, last |-> Empty]}
Below(method, section, lasts) ==
  {[form |-> "below", method |-> method, path |-> <<section>>, last |-> last] : last \in lasts}
All(method, section) == {[form |-> "all", method |-> method, path |-> <<section>>, last |-> Empty]}

Table == <<
  Exact("GET", <<"_ping">>) \cup Exact("HEAD", <<"_ping">>) \cup Exact("GET", <<"version">>)
    \cup Exact("GET", <<"info">>),
  Exact("GET", <<"containers", "json">>) \cup Exact("POST", <<"containers", "create">>),
  Below("GET", "containers", {"json", "stats", "top", "changes", "archive"})
    \cup Below("POST", "containers", {"start", "wait", "stop", "restart", "kill", "pause", "unpause", "attach", "resize"})
    \cup Below("PUT", "containers", {"archive"}),
  Exact("POST", <<"containers", "prune">>) \cup All("DELETE", "containers"),
  Below("GET", "containers", {"logs"}) \cup Below("POST", "containers", {"exec"}),
  Below("POST", "exec", {"start", "resize"}) \cup Below("GET", "exec", {"json"}),
  Exact("GET", <<"events">>) \cup Exact("GET", <<"images", "json">>) \cup Exact("POST", <<"images", "create">>),
  Below("GET", "images", {"json", "history"}) \cup Below("POST", "images", {"push"}),
  Exact("POST", <<"images", "load">>) \cup Below("GET", "images", {"get"}),
  Exact("POST", <<"images", "prune">>) \cup All("DELETE", "images"),
  Exact("GET", <<"volumes">>) \cup Exact("POST", <<"volumes", "create">>),
  All("GET", "volumes") \cup All("DELETE", "volumes") \cup Exact("POST", <<"volumes", "prune">>),
  Exact("GET", <<"networks">>) \cup Exact("POST", <<"networks", "create">>),
  All("GET", "networks") \cup Below("POST", "networks", {"connect", "disconnect"}) \cup All("DELETE", "networks"),
  Exact("POST", <<"networks", "prune">>) \cup Exact("POST", <<"auth">>) \cup Exact("POST", <<"build">>)
    \cup Exact("POST", <<"build", "prune">>) >>

Rules == UNION {Table[n] : n \in DOMAIN Table}

(* versionPrefix: "v" and a number, which is the name of no section.        *)
ASSUME VersionsAreNoSections == \A rule \in Rules : rule.path[1] \notin Versions

\* The default case, with the paths that are not planned.
NotImplemented == [form |-> "none", method |-> Empty, path |-> <<>>, last |-> Empty]

(* HasPrefix and HasSuffix may share a part: /containers/json has both.     *)
Fits(rule, method, path) ==
  /\ method = rule.method
  /\ CASE rule.form = "exact" -> path = rule.path
       [] rule.form = "below" -> Len(path) >= 2 /\ path[1] = rule.path[1] /\ path[Len(path)] = rule.last
       [] OTHER -> Len(path) >= 2 /\ path[1] = rule.path[1]

(* Mutant: the last case that fits wins.                                    *)
RouteLast(method, path) ==
  LET fitting == {n \in DOMAIN Table : \E rule \in Table[n] : Fits(rule, method, path)} IN
  IF fitting = {} THEN NotImplemented
  ELSE CHOOSE rule \in Table[CHOOSE n \in fitting : \A m \in fitting : m <= n] : Fits(rule, method, path)

Route(method, path) ==
  LET fitting == {n \in DOMAIN Table : \E rule \in Table[n] : Fits(rule, method, path)} IN
  IF fitting = {} THEN NotImplemented
  ELSE CHOOSE rule \in Table[CHOOSE n \in fitting : \A m \in fitting : n <= m] : Fits(rule, method, path)

(* normalizePath: one version in front goes, if something follows it.       *)
Normalized(path) == IF Len(path) >= 2 /\ path[1] \in Versions THEN Tail(path) ELSE path

(* strings.Trim(value, "/").                                                *)
Trimmed(path) ==
  LET parts == {n \in DOMAIN path : path[n] # Empty} IN
  IF parts = {} THEN <<>>
  ELSE SubSeq(path, CHOOSE n \in parts : \A m \in parts : n <= m, CHOOSE n \in parts : \A m \in parts : m <= n)

(* pathID: TrimSuffix takes the last part only with a slash before it.      *)
PathID(rule, path) ==
  CASE rule.form = "exact" -> <<>>
    [] rule.form = "below" /\ Len(path) > 2 -> Trimmed(SubSeq(path, 2, Len(path) - 1))
    [] OTHER -> Trimmed(Tail(path))

RouteInit == asked = <<>> /\ routed = <<>>

(* The path a client sends when it wants `rule` for `id`.                   *)
PathFor(rule, id) ==
  CASE rule.form = "exact" -> rule.path
    [] rule.form = "below" -> rule.path \o id \o <<rule.last>>
    [] OTHER -> rule.path \o id

ServeHTTP(rule, id, version) ==
  /\ asked = <<>>
  /\ asked' = <<rule, IF rule.form = "exact" THEN <<>> ELSE Trimmed(id)>>
  /\ LET path == Normalized(version \o PathFor(rule, id)) IN
     routed' = <<Route(rule.method, path), PathID(Route(rule.method, path), path)>>

RouteNext ==
  \E rule \in Rules, id \in RouteIds, version \in {<<>>} \cup {<<v>> : v \in Versions} :
    ServeHTTP(rule, id, version)

RouteSpec == RouteInit /\ [][RouteNext]_routeVars
-----------------------------------------------------------------------------
(* No case hides one that comes after it: every request reaches the handler *)
(* it is meant for, with its id, even if the id reads like a route, has     *)
(* slashes in it or, as container names may, one before it.                 *)
EveryRouteIsReached == routed = asked
=============================================================================
