------------------------- MODULE ServerConfigProofs -------------------------
(***************************************************************************)
(* The configuration of every server that takes requests is in range and   *)
(* is the one the file means, for any file and any virtual hosts, and what *)
(* it lets through is below its prefix, however the file system changes.   *)
(***************************************************************************)
EXTENDS ServerConfig, FiniteSetTheorems, TLAPS

\* What holds of the configurations while the file is read: the values and
\* flags are those of the last directive, or the defaults.
ReadingInv ==
    \A s \in Servers, d \in Settings :
        /\ conf[s].set[d] = given[s].set[d]
        /\ conf[s].val[d] = IF given[s].set[d] THEN given[s].val[d] ELSE DefaultOf(d)

\* Every value ever written is one that the directive accepts.
GivenInRange ==
    \A s \in Servers, d \in Settings :
        given[s].set[d] => InRange(d, given[s].val[d])

\* The prefix of every server, before and after the merge.
PrefixInv ==
    /\ phase = "reading" =>
         \A s \in Servers : conf[s].prefix = IF given[s].prefix # NULL THEN given[s].prefix
                                                                  ELSE RunPrefix
    /\ phase \in {"merged", "serving"} =>
         \A s \in Servers : conf[s].prefix = MeantPrefix(s)

\* What is cached while requests are served: the name is the prefix's own, and a
\* directory is one that the prefix has led to, though it may not be the one it
\* leads to now.
CacheInv ==
    /\ \A p \in Located : IsFiniteSet(led[p])
    /\ phase = "serving" =>
         /\ \A p \in Located : leads[p] # NULL => leads[p] \in led[p]
         /\ \A s \in Servers :
              /\ resolved[s] = Resolve(conf[s].prefix)
              /\ truename[s] # NULL => /\ conf[s].prefix \in Located
                                       /\ truename[s] \in led[conf[s].prefix]

\* The inductive invariant.  The range of a served value follows from
\* GivenInRange and Inherits: nothing is checked again at the merge.
IInv ==
    /\ TypeOK
    /\ phase = "reading" => ReadingInv
    /\ GivenInRange
    /\ Inherits
    /\ PrefixInv
    /\ CacheInv

LEMMA DefaultsInRange ==
    \A d \in Settings : DefaultOf(d) \in Int /\ InRange(d, DefaultOf(d))
BY SMT DEF Settings, Timeouts, DefaultOf, InRange

LEMMA MainIsServer == Main \in Servers
BY DEF Servers

LEMMA InitIInv == Init => IInv
<1> SUFFICES ASSUME Init PROVE IInv
  OBVIOUS
<1> USE DEF Init
<1>1. create_server_config \in Configs
  BY DefaultsInRange, PrefixAssumption DEF create_server_config, Configs
<1>2. TypeOK
  BY <1>1, FileAssumption DEF TypeOK, Nothing, FileSystems
<1>3. ReadingInv
  BY DEF ReadingInv, Nothing, create_server_config
<1>4. GivenInRange
  BY DEF GivenInRange, Nothing
<1>5. PrefixInv
  BY DEF PrefixInv, Nothing, create_server_config
<1>6. CacheInv
  BY FS_EmptySet DEF CacheInv
<1> QED
  BY <1>2, <1>3, <1>4, <1>5, <1>6 DEF IInv, Inherits

\* A directive with an acceptable argument keeps the invariant.
LEMMA SetKeeps ==
    ASSUME IInv, NEW s \in Servers, NEW d \in Settings, NEW n \in Numbers, Set(s, d, n)
    PROVE  IInv'
<1> USE DEF IInv
<1> n \in Int
  BY FileAssumption
<1>1. conf' \in [Servers -> Configs]
  BY DEF Set, With, TypeOK, Configs
<1>2. given' \in [Servers -> [val : [Settings -> Int], set : [Settings -> BOOLEAN],
                              prefix : Prefixes \cup {NULL}]]
  BY DEF Set, With, TypeOK
<1>3. count' \in 0..MaxDirectives
  BY FileAssumption DEF Set, TypeOK
<1>4. TypeOK'
  BY <1>1, <1>2, <1>3 DEF Set, cacheVars, TypeOK
<1>5. ReadingInv'
  BY DEF Set, With, TypeOK, Configs, ReadingInv
<1>6. GivenInRange'
  BY DEF Set, With, TypeOK, GivenInRange
<1>7. PrefixInv'
  BY DEF Set, With, TypeOK, Configs, PrefixInv
<1>8. CacheInv'
  BY DEF Set, cacheVars, CacheInv
<1> QED
  BY <1>4, <1>5, <1>6, <1>7, <1>8 DEF Set, Inherits

\* SocketHandoffAllowedPrefix keeps it.
LEMMA PrefixKeeps ==
    ASSUME IInv, NEW s \in Servers, NEW p \in Prefixes, set_allowed_prefix(s, p)
    PROVE  IInv'
<1> USE DEF IInv
<1>1. conf' \in [Servers -> Configs]
  BY ZenonT(40) DEF set_allowed_prefix, TypeOK, Configs
<1>2. given' \in [Servers -> [val : [Settings -> Int], set : [Settings -> BOOLEAN],
                              prefix : Prefixes \cup {NULL}]]
  BY DEF set_allowed_prefix, TypeOK
<1>3. count' \in 0..MaxDirectives
  BY FileAssumption DEF set_allowed_prefix, TypeOK
<1>4. TypeOK'
  BY <1>1, <1>2, <1>3 DEF set_allowed_prefix, cacheVars, TypeOK
<1>5. ReadingInv'
  BY DEF set_allowed_prefix, TypeOK, Configs, ReadingInv
<1>6. GivenInRange'
  BY DEF set_allowed_prefix, TypeOK, GivenInRange
<1>7. PrefixInv'
  BY PrefixAssumption DEF set_allowed_prefix, TypeOK, Configs, PrefixInv
<1>8. CacheInv'
  BY DEF set_allowed_prefix, cacheVars, CacheInv
<1> QED
  BY <1>4, <1>5, <1>6, <1>7, <1>8 DEF set_allowed_prefix, Inherits

\* The merge gives every server the settings and the prefix that the file means.
LEMMA MergeKeeps == ASSUME IInv, Merge PROVE IInv'
<1> USE DEF IInv
<1>1. TypeOK'
  BY MainIsServer DEF Merge, cacheVars, TypeOK, Configs, merge_server_config
<1>2. GivenInRange'
  BY DEF Merge, GivenInRange
<1>3. Inherits'
  <2>1. ASSUME NEW s \in Servers, NEW d \in Settings
        PROVE  conf'[s].val[d] = Meant(s, d)
    <3>1. CASE s # Main /\ Own(s)
      BY <3>1, MainIsServer
         DEF Merge, TypeOK, Configs, merge_server_config, ReadingInv, Meant
    <3>2. CASE ~(s # Main /\ Own(s))
      BY <3>2, MainIsServer DEF Merge, TypeOK, Configs, ReadingInv, Meant, Own
    <3> QED
      BY <3>1, <3>2
  <2> QED
    BY <2>1 DEF Merge, Inherits, Meant
<1>4. PrefixInv'
  <2>1. ASSUME NEW s \in Servers
        PROVE  conf'[s].prefix = MeantPrefix(s)
    <3>1. CASE s # Main /\ Own(s)
      BY <3>1, MainIsServer, PrefixAssumption
         DEF Merge, TypeOK, Configs, merge_server_config, PrefixInv, MeantPrefix
    <3>2. CASE ~(s # Main /\ Own(s))
      BY <3>2, MainIsServer DEF Merge, PrefixInv, MeantPrefix, Own
    <3> QED
      BY <3>1, <3>2
  <2> QED
    BY <2>1 DEF Merge, PrefixInv, MeantPrefix, Own
<1>5. CacheInv'
  BY DEF Merge, cacheVars, CacheInv
<1> QED
  BY <1>1, <1>2, <1>3, <1>4, <1>5 DEF Merge

\* post_config fills the caches from the file system as it is then.
LEMMA PostConfigKeeps == ASSUME IInv, post_config PROVE IInv'
<1> USE DEF IInv, post_config, fileVars
<1> PICK fs \in FileSystems :
       /\ leads' = fs
       /\ led' = [p \in Located |-> {fs[p]} \ {NULL}]
       /\ truename' = [s \in Servers |-> TrueName(fs, conf[s].prefix)]
  OBVIOUS
<1>1. \A s \in Servers : conf[s].prefix \in Prefixes
  BY DEF TypeOK, Configs
<1>2. \A s \in Servers : conf[s].prefix \notin BadPrefixes => conf[s].prefix \in Located
  BY <1>1 DEF Located
<1>3. \A p \in Located : fs[p] \in Dirs \cup {NULL}
  BY DEF FileSystems
<1>4. TypeOK'
  <2>1. resolved' \in [Servers -> Prefixes \cup {NULL}]
    BY <1>1 DEF Resolve
  <2>2. truename' \in [Servers -> Dirs \cup {NULL}]
    BY <1>2, <1>3 DEF TrueName
  <2>3. led' \in [Located -> SUBSET Dirs]
    BY <1>3
  <2> QED
    BY <2>1, <2>2, <2>3 DEF TypeOK
<1>5. GivenInRange'
  BY DEF GivenInRange
<1>6. Inherits'
  BY DEF Inherits, Meant
<1>7. PrefixInv'
  BY DEF PrefixInv, MeantPrefix, Own
<1>8. CacheInv'
  <2>1. ASSUME NEW p \in Located PROVE IsFiniteSet(led'[p])
    BY FS_Singleton, FS_Difference
  <2>2. ASSUME NEW p \in Located, leads'[p] # NULL PROVE leads'[p] \in led'[p]
    BY <2>2
  <2>3. ASSUME NEW s \in Servers PROVE resolved'[s] = Resolve(conf'[s].prefix)
    OBVIOUS
  <2>4. ASSUME NEW s \in Servers, truename'[s] # NULL
        PROVE  conf'[s].prefix \in Located /\ truename'[s] \in led'[conf'[s].prefix]
    BY <2>4, <1>2 DEF TrueName
  <2> QED
    BY <2>1, <2>2, <2>3, <2>4 DEF CacheInv
<1> QED
  BY <1>4, <1>5, <1>6, <1>7, <1>8

\* The file system changes under the cache.
LEMMA RelinkKeeps ==
    ASSUME IInv, NEW p \in Located, NEW dir \in Dirs \cup {NULL}, Relink(p, dir)
    PROVE  IInv'
<1> USE DEF IInv, Relink, fileVars
<1>1. TypeOK'
  <2>1. leads' \in FileSystems
    BY DEF TypeOK, FileSystems
  <2>2. led' \in [Located -> SUBSET Dirs]
    BY DEF TypeOK
  <2> QED
    BY <2>1, <2>2 DEF TypeOK
<1>2. GivenInRange'
  BY DEF GivenInRange
<1>3. Inherits'
  BY DEF Inherits, Meant
<1>4. PrefixInv'
  BY DEF PrefixInv, MeantPrefix, Own
<1>5. CacheInv'
  <2>1. \A q \in Located : led[q] \subseteq led'[q]
    BY DEF TypeOK
  <2>2. ASSUME NEW q \in Located PROVE IsFiniteSet(led'[q])
    BY FS_Singleton, FS_Difference, FS_Union DEF TypeOK, CacheInv
  <2>3. ASSUME NEW q \in Located, leads'[q] # NULL PROVE leads'[q] \in led'[q]
    BY <2>3, <2>1 DEF TypeOK, FileSystems, CacheInv
  <2> QED
    BY <2>1, <2>2, <2>3 DEF CacheInv
<1> QED
  BY <1>1, <1>2, <1>3, <1>4, <1>5

LEMMA NextIInv == IInv /\ [Next]_vars => IInv'
<1> SUFFICES ASSUME IInv, [Next]_vars PROVE IInv'
  OBVIOUS
<1>1. ASSUME NEW d \in Settings, SetFails(d) PROVE IInv'
  BY <1>1 DEF SetFails, fileVars, cacheVars, IInv, TypeOK, GivenInRange, Inherits,
              PrefixInv, CacheInv
<1>2. CASE UNCHANGED vars
  BY <1>2 DEF vars, fileVars, cacheVars, IInv, TypeOK, ReadingInv, GivenInRange,
              Inherits, Meant, PrefixInv, MeantPrefix, Own, CacheInv
<1> QED
  BY SetKeeps, PrefixKeeps, MergeKeeps, PostConfigKeeps, RelinkKeeps, <1>1, <1>2 DEF Next

LEMMA IInvInRange == IInv => ServedInRange
<1> SUFFICES ASSUME IInv, phase = "serving", NEW s \in Servers,
                    NEW d \in Settings \ {"enabled"}
             PROVE  InRange(d, conf[s].val[d])
  BY SMT DEF ServedInRange, InRange, Settings, Timeouts
<1>1. conf[s].val[d] = Meant(s, d)
  BY DEF IInv, Inherits
<1> QED
  BY <1>1, DefaultsInRange, MainIsServer DEF IInv, GivenInRange, Meant

LEMMA AlwaysIInv == Spec => []IInv
BY InitIInv, NextIInv, PTL DEF Spec

\* The configurations, caches and history have their types.
THEOREM TypeCorrect == Spec => []TypeOK
<1>1. IInv => TypeOK
  BY DEF IInv
<1> QED
  BY <1>1, AlwaysIInv, PTL

\* Whatever the configuration file says, no server takes requests with a
\* timeout or a retry count outside the range that the directives document;
\* this is the assumption that the proofs about ConnectRetry start from.
THEOREM ServedInRangeHolds == Spec => []ServedInRange
BY IInvInRange, AlwaysIInv, PTL

\* merge_server_config gives every virtual host its own settings and, for the
\* others, the main server's, for every file.
THEOREM InheritsHolds == Spec => []Inherits
<1>1. IInv => Inherits
  BY DEF IInv
<1> QED
  BY <1>1, AlwaysIInv, PTL

\* A path that is accepted is below the meant prefix, its file in a directory that the
\* prefix has led to.
LEMMA AcceptedIsWithin ==
    ASSUME IInv, phase = "serving", NEW s \in Servers, NEW path \in Paths,
           validate_socket_path(s, path)
    PROVE  /\ Within(path, MeantPrefix(s))
           /\ RealDir(path) \in led[MeantPrefix(s)] \cup {NULL}
<1> DEFINE p == MeantPrefix(s)
<1>1. conf[s].prefix = p
  BY DEF IInv, PrefixInv
<1>2. p \in Prefixes
  BY <1>1 DEF IInv, TypeOK, Configs
<1> HIDE DEF p
<1>3. Resolve(p) # NULL /\ Within(path, Resolve(p))
  BY <1>1 DEF validate_socket_path, IInv, CacheInv
<1>4. p \in Located /\ Resolve(p) = p
  BY <1>2, <1>3 DEF Resolve, Located
<1>5. ASSUME RealDir(path) # NULL PROVE RealDir(path) \in led[p]
  <2>1. CASE truename[s] # NULL
    BY <1>1, <1>5, <2>1 DEF validate_socket_path, IInv, CacheInv
  <2>2. CASE truename[s] = NULL
    <3>1. RealDir(path) = leads[p]
      BY <1>1, <1>4, <1>5, <2>2 DEF validate_socket_path, TrueName, Located
    <3> QED
      BY <3>1, <1>4, <1>5 DEF IInv, CacheInv
  <2> QED
    BY <2>1, <2>2
<1> QED
  BY <1>3, <1>4, <1>5 DEF p

\* A set of at most one element has no two.
LEMMA AtMostOne ==
    ASSUME NEW D, IsFiniteSet(D), Cardinality(D) <= 1, NEW x \in D, NEW y \in D
    PROVE  x = y
<1> SUFFICES ASSUME x # y PROVE FALSE
  OBVIOUS
<1>1. IsFiniteSet({x, y}) /\ Cardinality({x, y}) <= Cardinality(D)
  BY FS_Subset
<1>2. Cardinality({x}) = 1 /\ IsFiniteSet({x})
  BY FS_Singleton
<1>3. Cardinality({x} \cup {y}) = Cardinality({x}) + 1
  BY <1>2, FS_AddElement
<1>4. {x} \cup {y} = {x, y}
  OBVIOUS
<1>5. Cardinality(D) \in Nat
  BY FS_CardinalityType
<1> QED
  BY <1>1, <1>2, <1>3, <1>4, <1>5

\* A file below the meant prefix is accepted if the prefix has led to one directory.
LEMMA WithinIsAccepted ==
    ASSUME IInv, phase = "serving", NEW s \in Servers, NEW path \in Paths,
           Within(path, MeantPrefix(s)), path.link = NULL,
           Cardinality(led[MeantPrefix(s)]) <= 1
    PROVE  validate_socket_path(s, path)
<1> DEFINE p == MeantPrefix(s)
<1>1. conf[s].prefix = p
  BY DEF IInv, PrefixInv
<1> HIDE DEF p
<1>2. p \in Located /\ path.prefix = p
  BY DEF Within, Paths, p
<1>3. Resolve(p) = p /\ p # NULL
  BY <1>2, PrefixAssumption DEF Resolve, Located
<1>4. resolved[s] = p
  BY <1>1, <1>3 DEF IInv, CacheInv
<1>5. ASSUME RealDir(path) # NULL
      PROVE  RealDir(path) = IF truename[s] # NULL THEN truename[s] ELSE TrueName(leads, p)
  <2>1. RealDir(path) = leads[p] /\ leads[p] \in led[p]
    BY <1>2, <1>5 DEF RealDir, IInv, CacheInv
  <2>2. CASE truename[s] # NULL
    <3>1. truename[s] \in led[p]
      BY <1>1, <2>2 DEF IInv, CacheInv
    <3>2. IsFiniteSet(led[p]) /\ Cardinality(led[p]) <= 1
      BY <1>2 DEF IInv, CacheInv, p
    <3> QED
      BY <2>1, <2>2, <3>1, <3>2, AtMostOne
  <2>3. CASE truename[s] = NULL
    BY <1>2, <2>1, <2>3 DEF TrueName, Located
  <2> QED
    BY <2>2, <2>3
<1> QED
  BY <1>1, <1>3, <1>4, <1>5 DEF validate_socket_path, p

\* Whatever the file system does under the caches of post_config, every server holds
\* the paths of its requests to the prefix that the file means for it: what it accepts
\* lies below the prefix and in a directory that the prefix has led to since the start,
\* and it refuses nothing that is there unless the prefix was led elsewhere.
THEOREM PrefixAlwaysHolds == Spec => []PrefixHolds
<1>1. IInv => PrefixHolds
  <2> SUFFICES ASSUME IInv, phase = "serving", NEW s \in Servers, NEW path \in Paths
               PROVE  /\ validate_socket_path(s, path) =>
                           /\ Within(path, MeantPrefix(s))
                           /\ RealDir(path) \in led[MeantPrefix(s)] \cup {NULL}
                      /\ (/\ Within(path, MeantPrefix(s)) /\ path.link = NULL
                          /\ Cardinality(led[MeantPrefix(s)]) <= 1) =>
                           validate_socket_path(s, path)
    BY DEF PrefixHolds
  <2> QED
    BY AcceptedIsWithin, WithinIsAccepted
<1> QED
  BY <1>1, AlwaysIInv, PTL
=============================================================================
