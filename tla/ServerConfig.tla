---------------------------- MODULE ServerConfig ----------------------------
(***************************************************************************)
(* The per-server configuration of mod_socket_handoff.c, from the first    *)
(* directive to the requests whose socket paths are checked against it.    *)
(* Apache creates a configuration for a server with its first directive,   *)
(* applies the directives of the file in their order, merges the main      *)
(* server's into each virtual host's, and runs the post_config hook, which *)
(* caches what the allowed prefix is, as a name and as a directory.  The   *)
(* file system goes on changing under the cache.                           *)
(***************************************************************************)
EXTENDS Integers, FiniteSets

CONSTANTS VHosts,         \* the virtual hosts
          Main,           \* the main server
          Prefixes,       \* socket path prefixes
          RunPrefix,      \* "/run/"
          BadPrefixes,    \* prefixes that apr_filepath_merge refuses
          Dirs,           \* directories that a prefix can lead to
          NULL,           \* no prefix, no directory
          Numbers,        \* bound: the numbers written in directives
          MaxDirectives   \* bound: directives in the file

ASSUME ServerAssumption == Main \notin VHosts
ASSUME PrefixAssumption ==
    RunPrefix \in Prefixes \ BadPrefixes /\ NULL \notin Prefixes \cup Dirs
ASSUME FileAssumption == Numbers \subseteq Int /\ MaxDirectives \in Nat

VARIABLES phase,     \* "reading", "merged", "serving" or "failed"
          conf,      \* the configuration of each server
          resolved,  \* resolved_prefix of each server, set by post_config
          truename,  \* resolved_prefix_truename, likewise
          leads,     \* the file system: the directory that a prefix leads to
          led,       \* history: those that it has led to since post_config
          given,     \* history: what the file has said for each server
          count      \* directives read

fileVars == <<conf, given, count>>
cacheVars == <<resolved, truename, leads, led>>
vars == <<phase, fileVars, cacheVars>>

Servers == VHosts \cup {Main}

\* The prefixes that are the name of a place in the file system.
Located == Prefixes \ BadPrefixes

\* The settings that have a _set flag, and the ones with a number.
Settings == {"enabled", "connect", "send", "retries"}
Timeouts == {"connect", "send"}

\* A configuration: values, _set flags, and the allowed prefix.
Configs == [val : [Settings -> Int], set : [Settings -> BOOLEAN], prefix : Prefixes]

DefaultOf(d) ==
    CASE d = "enabled" -> 1
      [] d = "connect" -> 100
      [] d = "send" -> 200
      [] d = "retries" -> 2

create_server_config ==
    [val |-> [d \in Settings |-> DefaultOf(d)],
     set |-> [d \in Settings |-> FALSE],
     prefix |-> RunPrefix]

\* Faulty variant: a value is taken for unset when it is the default.
merge_server_config_by_value(base, add) ==
    [val |-> [d \in Settings |-> IF add.val[d] # DefaultOf(d) THEN add.val[d]
                                                              ELSE base.val[d]],
     set |-> [d \in Settings |-> add.set[d] \/ base.set[d]],
     prefix |-> add.prefix]

\* allowed_socket_prefix has no flag: the server's own is taken unless it is
\* null, and create_server_config never leaves it null.
merge_server_config(base, add) ==
    [val |-> [d \in Settings |-> IF add.set[d] THEN add.val[d] ELSE base.val[d]],
     set |-> [d \in Settings |-> add.set[d] \/ base.set[d]],
     prefix |-> IF add.prefix # NULL THEN add.prefix ELSE base.prefix]

\* Faulty variant: strtol's result is checked against the upper limit only.
InRangeUpper(d, n) ==
    CASE d \in Timeouts -> n <= 60000
      [] d = "retries" -> n <= 10
      [] OTHER -> n \in {0, 1}

\* The values that a directive accepts; Apache itself parses the On and Off of
\* SocketHandoffEnabled.
InRange(d, n) ==
    CASE d \in Timeouts -> 1 <= n /\ n <= 60000
      [] d = "retries" -> 0 <= n /\ n <= 10
      [] OTHER -> n \in {0, 1}

\* What the file has said so far for a server: [value, whether it has].
Nothing == [val |-> [d \in Settings |-> 0], set |-> [d \in Settings |-> FALSE],
            prefix |-> NULL]

Init ==
    /\ phase = "reading"
    /\ conf = [s \in Servers |-> create_server_config]
    /\ resolved = [s \in Servers |-> NULL]
    /\ truename = [s \in Servers |-> NULL]
    /\ leads = [p \in Located |-> NULL]
    /\ led = [p \in Located |-> {}]
    /\ given = [s \in Servers |-> Nothing]
    /\ count = 0

\* Configuration c with d set to n.
With(c, d, n) ==
    [val |-> [c.val EXCEPT ![d] = n], set |-> [c.set EXCEPT ![d] = TRUE],
     prefix |-> c.prefix]

\* set_enabled, set_connect_timeout, set_send_timeout, set_max_retries: the
\* argument is a number that the setting accepts.
Set(s, d, n) ==
    /\ phase = "reading"
    /\ count < MaxDirectives
    /\ InRange(d, n)
    /\ conf' = [conf EXCEPT ![s] = With(@, d, n)]
    /\ given' = [given EXCEPT ![s] = With(@, d, n)]
    /\ count' = count + 1
    /\ UNCHANGED <<phase, cacheVars>>

\* The same with an argument that is no number, or one out of range: the
\* handler returns a message and Apache does not start.
SetFails(d) ==
    /\ phase = "reading"
    /\ count < MaxDirectives
    /\ d # "enabled"
    /\ phase' = "failed"
    /\ UNCHANGED <<fileVars, cacheVars>>

set_allowed_prefix(s, p) ==
    /\ phase = "reading"
    /\ count < MaxDirectives
    /\ conf' = [conf EXCEPT ![s].prefix = p]
    /\ given' = [given EXCEPT ![s].prefix = p]
    /\ count' = count + 1
    /\ UNCHANGED <<phase, cacheVars>>

\* Whether the file has a directive of the module for a server.
Own(s) == given[s].prefix # NULL \/ \E d \in Settings : given[s].set[d]

\* The file ends: Apache merges the main server's configuration into each virtual
\* host's; hosts that have none of their own use the main server's.
Merge ==
    /\ phase = "reading"
    /\ conf' = [s \in Servers |-> IF s # Main /\ Own(s)
                                  THEN merge_server_config(conf[Main], conf[s])
                                  ELSE conf[Main]]
    /\ phase' = "merged"
    /\ UNCHANGED <<given, count, cacheVars>>

\* apr_filepath_merge on a prefix, as a name; a slash is put at the end of the result,
\* so that /run/app has /run/app/x below it and not /run/application/x.
Resolve(p) == IF p \in BadPrefixes THEN NULL ELSE p

\* The same with APR_FILEPATH_TRUENAME, which follows links and fails if the path does
\* not exist: the directory that the prefix leads to in the file system fs.
TrueName(fs, p) == IF p \in BadPrefixes THEN NULL ELSE fs[p]

\* What the file system may be when post_config looks at it.
FileSystems == [Located -> Dirs \cup {NULL}]

\* Faulty variant: the result is not reset and the status not looked at, so that a
\* prefix that does not exist gets the directory of the server before.
post_config_keeps ==
    /\ phase = "merged"
    /\ \E fs \in FileSystems :
          /\ leads' = fs
          /\ led' = [p \in Located |-> {fs[p]} \ {NULL}]
          /\ truename' = [s \in Servers |->
                             IF TrueName(fs, conf[s].prefix) # NULL
                               THEN TrueName(fs, conf[s].prefix)
                               ELSE TrueName(fs, conf[Main].prefix)]
    /\ resolved' = [s \in Servers |-> Resolve(conf[s].prefix)]
    /\ phase' = "serving"
    /\ UNCHANGED fileVars

\* socket_handoff_post_config: every server's prefix is resolved and cached as a name,
\* if it can be, and as a directory, if it exists.
post_config ==
    /\ phase = "merged"
    /\ \E fs \in FileSystems :
          /\ leads' = fs
          /\ led' = [p \in Located |-> {fs[p]} \ {NULL}]
          /\ truename' = [s \in Servers |-> TrueName(fs, conf[s].prefix)]
    /\ resolved' = [s \in Servers |-> Resolve(conf[s].prefix)]
    /\ phase' = "serving"
    /\ UNCHANGED fileVars

\* External: a directory or a link is made, moved or removed while Apache runs.
Relink(p, dir) ==
    /\ phase = "serving"
    /\ leads' = [leads EXCEPT ![p] = dir]
    /\ led' = [led EXCEPT ![p] = @ \cup ({dir} \ {NULL})]
    /\ UNCHANGED <<phase, fileVars, resolved, truename>>

\* A socket path as validate_socket_path sees it: the prefix that its name begins with,
\* whether it is below it or only beside it (/run/application/x for /run/app), whether
\* there is a file, and the directory that the file is in if it is a link.
Paths == [prefix : Located, below : BOOLEAN, there : BOOLEAN,
          link : Dirs \cup {NULL}]

Within(path, p) == path.prefix = p /\ path.below

\* apr_filepath_merge on the path with APR_FILEPATH_TRUENAME: the directory of the file.
RealDir(path) ==
    IF path.there /\ leads[path.prefix] # NULL
    THEN IF path.link # NULL THEN path.link ELSE leads[path.prefix]
    ELSE NULL

\* validate_socket_path: the path is below the prefix by its name, and, if it exists,
\* by its true name too; what post_config could not cache is resolved here.
validate_socket_path(s, path) ==
    LET prefix == IF resolved[s] # NULL THEN resolved[s] ELSE Resolve(conf[s].prefix)
        dir == IF truename[s] # NULL THEN truename[s] ELSE TrueName(leads, conf[s].prefix)
    IN /\ prefix # NULL /\ Within(path, prefix)
       /\ RealDir(path) # NULL => dir # NULL /\ RealDir(path) = dir

Next ==
    \/ \E s \in Servers : \/ \E d \in Settings, n \in Numbers : Set(s, d, n)
                          \/ \E p \in Prefixes : set_allowed_prefix(s, p)
    \/ \E d \in Settings : SetFails(d)
    \/ Merge
    \/ post_config
    \/ \E p \in Located, dir \in Dirs \cup {NULL} : Relink(p, dir)

Spec == Init /\ [][Next]_vars

-----------------------------------------------------------------------------
(* Properties.                                                             *)

\* In particular no server is ever without a prefix, which validate_socket_path
\* would take as leave to accept any path.
TypeOK ==
    /\ phase \in {"reading", "merged", "serving", "failed"}
    /\ conf \in [Servers -> Configs]
    /\ resolved \in [Servers -> Prefixes \cup {NULL}]
    /\ truename \in [Servers -> Dirs \cup {NULL}]
    /\ leads \in FileSystems
    /\ led \in [Located -> SUBSET Dirs]
    /\ given \in [Servers -> [val : [Settings -> Int], set : [Settings -> BOOLEAN],
                              prefix : Prefixes \cup {NULL}]]
    /\ count \in 0..MaxDirectives

\* Every server that takes requests has the limits that the deadline arithmetic
\* of connect_with_retry relies on (ConfigAssumption of ConnectRetry), whatever
\* the file says and wherever the values come from.
ServedInRange ==
    phase = "serving" =>
        \A s \in Servers :
            /\ \A d \in Timeouts : 1 <= conf[s].val[d] /\ conf[s].val[d] <= 60000
            /\ 0 <= conf[s].val["retries"] /\ conf[s].val["retries"] <= 10

\* The setting that the file makes for a server: its own, else the main
\* server's, else the default.
Meant(s, d) ==
    IF given[s].set[d] THEN given[s].val[d]
    ELSE IF given[Main].set[d] THEN given[Main].val[d] ELSE DefaultOf(d)

\* A virtual host inherits what it does not set itself, in whatever order the
\* file is written, and keeps what it sets even if that is the default.
Inherits ==
    phase \in {"merged", "serving"} =>
        \A s \in Servers, d \in Settings : conf[s].val[d] = Meant(s, d)

\* The prefix that the file means for a server.  A host with directives of its own
\* and no prefix has "/run/", whatever the main server's is.
MeantPrefix(s) ==
    IF given[s].prefix # NULL THEN given[s].prefix
    ELSE IF ~Own(s) /\ given[Main].prefix # NULL THEN given[Main].prefix ELSE RunPrefix

\* However the file system changes under the cache, a path that a server accepts is
\* below the server's own prefix, and what is there is in a directory that the prefix
\* has led to since the start, links followed.  And as long as the prefix has led to
\* one directory only, there at the start or made later, every file in it is accepted:
\* the cache can be stale only when a prefix is led elsewhere under a running server.
PrefixHolds ==
    phase = "serving" =>
        \A s \in Servers, path \in Paths :
            LET p == MeantPrefix(s)
            IN /\ validate_socket_path(s, path) =>
                     Within(path, p) /\ RealDir(path) \in led[p] \cup {NULL}
               /\ Within(path, p) /\ path.link = NULL /\ Cardinality(led[p]) <= 1 =>
                     validate_socket_path(s, path)
=============================================================================
