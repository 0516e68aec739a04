------------------------------- MODULE Packages -------------------------------
(* package/: the package manager of a project. The resolver walks the           *)
(* dependencies depth first, one call of resolve_package a step, and keeps a    *)
(* version for each package; a conflict switches the version in place, or       *)
(* erases the package and resolves it again. What comes out is written to the   *)
(* lock file, which pins the versions of later installations, and installed.    *)
(* Features are left out: the manager enables none, so that no optional         *)
(* dependency is ever followed.                                                 *)
EXTENDS Naturals, Sequences, FiniteSets, Functions

CONSTANTS
  Names,            \* packages
  Shorter,          \* package -> those whose name is the beginning of its name
  Requires,         \* package and version -> what its manifest requires
  Manifests,        \* manifests a project may start with
  Edits,            \* dependencies a user may add, with their kind
  Registries,       \* what a process may register at first
  Strategies,       \* ways to select among versions
  MaxDepth,         \* ResolverConfig::max_depth, configured or by default
  BacktrackLimit,   \* ResolverConfig::backtrack_limit, too
  MaxCommands       \* bound on the commands given

VARIABLES
  published,        \* packages and versions the registry has
  manifest,         \* the project's Claw.toml
  strategy,         \* ResolverConfig::strategy
  lock,             \* Claw.lock: name -> version and source
  dirs,             \* directories of the package cache
  tomls,            \* those with a Claw.toml in them
  records,          \* install_records_: name -> status
  op,               \* the command at work
  mode,             \* where it stands
  calls,           \* calls of resolve_package, below them the manifest
  resolved,         \* ResolutionState::resolved
  asked,            \* ResolutionState::constraints
  remaining,        \* packages the command has still to install
  backtracks,       \* ResolutionState::backtrack_count
  commands,         \* commands given so far
  erased,           \* a package was erased during this resolution
  switched,         \* packages that had their version switched in place
  settled           \* the lock was written whole, by a resolution that met no
                    \* conflict, for the manifest as it is, and the registry
                    \* has had what it pins ever since

pkgVars == <<published, manifest, strategy, lock, dirs, tomls, records, op, mode, calls,
             resolved, asked, backtracks, remaining, commands, erased, switched, settled>>

resolution == <<calls, resolved, asked, backtracks, erased, switched>>
project == <<published, manifest, strategy, lock, settled>>
installation == <<dirs, tomls, records>>

---------------------------------------------------------------------------
(* Versions and the constraints on them. The tag of a prerelease is a number    *)
(* for its place among the tags, 0 for a release; build metadata takes part in  *)
(* no comparison and is left out. A constraint that is not a version, as the    *)
(* one of a path dependency, reads as version 0.0.0.                            *)

Version == [major : Nat, minor : Nat, patch : Nat, pre : Nat]

V(major, minor, patch) == [major |-> major, minor |-> minor, patch |-> patch, pre |-> 0]

\* operator<
Before(v, w) ==
    \/ v.major < w.major
    \/ v.major = w.major /\ v.minor < w.minor
    \/ v.major = w.major /\ v.minor = w.minor /\ v.patch < w.patch
    \/ /\ v.major = w.major /\ v.minor = w.minor /\ v.patch = w.patch
       /\ v.pre # 0 /\ (w.pre = 0 \/ v.pre < w.pre)

SatisfiesCaret(v, base) ==
    /\ ~Before(v, base)
    /\ v.major = base.major
    /\ base.major = 0 => v.minor = base.minor
    /\ base.major = 0 => v.patch >= base.patch

SatisfiesTilde(v, base) ==
    ~Before(v, base) /\ v.major = base.major /\ v.minor = base.minor

\* The bounds a constraint gives, or the widest ones.
SatisfiesRange(v, low, lowInc, high, highInc) ==
    /\ IF lowInc THEN ~Before(v, low) ELSE Before(low, v)
    /\ IF highInc THEN ~Before(high, v) ELSE Before(v, high)

Satisfies(v, c) ==
    CASE c.op = "*" -> TRUE
      [] c.op = "exact" -> v = c.version
      [] c.op = "path" -> v = V(0, 0, 0)
      [] c.op = "^" -> SatisfiesCaret(v, c.version)
      [] c.op = "~" -> SatisfiesTilde(v, c.version)
      [] c.op = "range" -> SatisfiesRange(v, c.low, c.lowInc, c.high, c.highInc)

---------------------------------------------------------------------------
Constraint ==
         [op : {"*", "path"}]
    \cup [op : {"exact", "^", "~"}, version : Version]
    \cup [op : {"range"}, low : Version, lowInc : BOOLEAN, high : Version, highInc : BOOLEAN]

Requirement == [name : Names, con : Constraint, optional : BOOLEAN]
Manifest == [normal : Seq(Requirement), dev : Seq(Requirement), build : Seq(Requirement)]

ASSUME PackagesAssumption ==
    /\ IsFiniteSet(Names) /\ IsFiniteSet(DOMAIN Requires)
    /\ DOMAIN Requires \subseteq Names \X Version
    /\ \A p \in DOMAIN Requires : Requires[p] \in Seq(Requirement)
    /\ Manifests \subseteq Manifest
    /\ \A e \in Edits : e.kind \in {"normal", "dev", "build"} /\ e.dep \in Requirement
    /\ Shorter \in [Names -> SUBSET Names]
    /\ Registries \subseteq SUBSET DOMAIN Requires
    /\ Strategies \subseteq {"Newest", "Oldest", "Minimal", "Lockfile"}
    /\ MaxDepth \in Nat /\ BacktrackLimit \in Nat /\ MaxCommands \in Nat

Nothing == [n \in {} |-> {}]

Commands == {"install", "update", "package"}
Origins == {"path", "registry"}    \* what is not "path" is treated as "registry"
Locked == [version : Version, source : Origins]
ResolvedPackage == [version : Version, source : Origins, deps : SUBSET Names]
Visit == [name : Names \cup {"root"}, version : Version, source : Origins,
          todo : Seq(Requirement)]

PackagesTypeOK ==
    /\ published \subseteq DOMAIN Requires /\ manifest \in Manifest /\ strategy \in Strategies
    /\ lock \in [DOMAIN lock -> Locked] /\ DOMAIN lock \subseteq Names
    /\ tomls \subseteq dirs /\ dirs \subseteq Names \X Version
    /\ records \in [DOMAIN records -> {"cached", "installed", "failed"}]
    /\ op \in Commands
    /\ mode \in {"idle", "resolving", "locking", "installing", "failed"}
    /\ calls \in Seq(Visit)
    /\ resolved \in [DOMAIN resolved -> ResolvedPackage] /\ DOMAIN resolved \subseteq Names
    /\ asked \in [Names -> SUBSET Constraint]
    /\ remaining \subseteq Names /\ switched \subseteq Names
    /\ backtracks \in 0..BacktrackLimit /\ commands \in 0..MaxCommands
    /\ erased \in BOOLEAN /\ settled \in BOOLEAN

(*************************** Versions and manifests ***************************)

Versions(n) == {p[2] : p \in {q \in published : q[1] = n}}

Newest(vs) == CHOOSE v \in vs : \A w \in vs : ~Before(v, w)
Oldest(vs) == CHOOSE v \in vs : \A w \in vs : ~Before(w, v)
Releases(vs) == {v \in vs : v.pre = 0}

\* The strategy at work: resolve_single has the default configuration.
Selection == IF op = "package" THEN "Newest" ELSE strategy

\* select_best_version; only an installation gives the resolver the lock.
SelectBest(n, vs) ==
    CASE Selection = "Newest" -> Newest(vs)
      [] Selection = "Oldest" -> Oldest(vs)
      [] Selection = "Minimal" -> Oldest(IF Releases(vs) = {} THEN vs ELSE Releases(vs))
      [] Selection = "Lockfile" ->
            IF op = "install" /\ n \in DOMAIN lock /\ lock[n].version \in vs
            THEN lock[n].version
            ELSE Newest(vs)

\* The members of S in a list of dependencies, in their order.
Filtered(deps, S) ==
    LET kept[i \in 0..Len(deps)] ==
            IF i = 0 THEN <<>>
            ELSE IF deps[i] \in S THEN Append(kept[i - 1], deps[i])
            ELSE kept[i - 1]
    IN  kept[Len(deps)]

Mandatory(deps) == Filtered(deps, {d \in Range(deps) : ~d.optional})

\* The dependencies resolve_package and resolve_with_config go through.
DependenciesOf(n, v) == IF <<n, v>> \in published THEN Mandatory(Requires[<<n, v>>]) ELSE <<>>
Direct == Mandatory(manifest.normal) \o manifest.dev \o manifest.build

\* write_manifest, and the next command reads back what it wrote: there are no
\* build dependencies, and none is optional any more.
Written(m) ==
    LET plain(deps) == [i \in DOMAIN deps |-> [deps[i] EXCEPT !.optional = FALSE]]
    IN  [normal |-> plain(m.normal), dev |-> plain(m.dev), build |-> <<>>]

Places(deps, n) == {i \in DOMAIN deps : deps[i].name = n}

SetDependency(deps, d) ==
    IF Places(deps, d.name) = {}
    THEN Append(deps, d)
    ELSE LET i == CHOOSE i \in Places(deps, d.name) : \A j \in Places(deps, d.name) : i <= j
         IN  [deps EXCEPT ![i].con = d.con]

Without(deps, n) == Filtered(deps, {d \in Range(deps) : d.name # n})

(******************************** The resolver ********************************)

Top == calls[Len(calls)]
Visiting == mode = "resolving" /\ Top.todo # <<>>
Dependency == Head(Top.todo)

InProgress == {calls[i].name : i \in 2..Len(calls)}
Circular == Dependency.name \in InProgress
TooDeep == Len(calls) > MaxDepth

\* Constraints with the one of this call.
Asks == [asked EXCEPT ![Dependency.name] = @ \cup {Dependency.con}]

IsResolved == Dependency.name \in DOMAIN resolved
MeetsThis(v) == Satisfies(v, Dependency.con)
MeetsAll(v) == \A c \in Asks[Dependency.name] : Satisfies(v, c)

Meets == IsResolved /\ MeetsThis(resolved[Dependency.name].version)
Compatible == {v \in Versions(Dependency.name) : MeetsAll(v)}

\* The conflict nothing can be done about, and the one that erases the package.
Stuck == IsResolved /\ ~Meets /\ Compatible = {} /\ backtracks >= BacktrackLimit
Erases == IsResolved /\ ~Meets /\ Compatible = {} /\ backtracks < BacktrackLimit

\* A lock that is read for the dependencies of the project only.
PinnedForProject ==
    /\ op = "install" /\ Len(calls) = 1 /\ Dependency.name \in DOMAIN lock
    /\ MeetsThis(lock[Dependency.name].version)

Pinned ==
    op = "install" /\ Dependency.name \in DOMAIN lock /\ MeetsThis(lock[Dependency.name].version)

Candidates == {v \in Versions(Dependency.name) : MeetsThis(v)}

\* The version resolve_package takes for a package it has none of, and its source.
Chosen ==
    IF Pinned
    THEN [version |-> lock[Dependency.name].version, source |-> lock[Dependency.name].source]
    ELSE [version |-> SelectBest(Dependency.name, Candidates),
          source |-> IF Dependency.con.op = "path" THEN "path" ELSE "registry"]

\* The call of the frame on top is done with its first dependency.
Passed == [calls EXCEPT ![Len(calls)].todo = Tail(@)]

Begins(command, deps, targets) ==
    /\ mode \in {"idle", "failed"} /\ commands < MaxCommands
    /\ commands' = commands + 1 /\ op' = command /\ mode' = "resolving"
    /\ calls' = <<[name |-> "root", version |-> V(0, 0, 0), source |-> "path", todo |-> deps]>>
    /\ resolved' = Nothing /\ asked' = [n \in Names |-> {}] /\ backtracks' = 0
    /\ erased' = FALSE /\ switched' = {} /\ remaining' = targets
    /\ UNCHANGED <<project, dirs, tomls>>

Install == Begins("install", Direct, {}) /\ records' = Nothing
Update == Begins("update", Direct, {}) /\ records' = Nothing

\* resolve_single.
InstallPackage ==
    \E e \in Edits : Begins("package", <<e.dep>>, {e.dep.name}) /\ UNCHANGED records

Resolves == UNCHANGED <<project, installation, op, remaining, commands>>

\* What is resolved already will do.
AlreadyResolved ==
    /\ Visiting /\ ~Circular /\ ~TooDeep /\ Meets
    /\ asked' = Asks /\ calls' = Passed
    /\ UNCHANGED <<mode, resolved, backtracks, erased, switched>> /\ Resolves

\* Another version meets every constraint so far: it takes the place of the one
\* before, whose dependencies stay.
SwitchVersion ==
    /\ Visiting /\ ~Circular /\ ~TooDeep /\ IsResolved /\ ~Meets /\ Compatible # {}
    /\ asked' = Asks /\ calls' = Passed
    /\ resolved' = [resolved EXCEPT ![Dependency.name].version =
                        SelectBest(Dependency.name, Compatible)]
    /\ switched' = switched \cup {Dependency.name}
    /\ UNCHANGED <<mode, backtracks, erased>> /\ Resolves

\* A version is chosen by this constraint alone, and its dependencies come next.
ChooseVersion ==
    /\ Visiting /\ ~Circular /\ ~TooDeep /\ (IsResolved => Erases)
    /\ Pinned \/ Candidates # {}
    /\ asked' = Asks
    /\ calls' = Append(Passed, [name |-> Dependency.name, version |-> Chosen.version,
                                 source |-> Chosen.source,
                                 todo |-> DependenciesOf(Dependency.name, Chosen.version)])
    /\ resolved' = Restrict(resolved, DOMAIN resolved \ {Dependency.name})
    /\ backtracks' = IF IsResolved THEN backtracks + 1 ELSE backtracks
    /\ erased' = (erased \/ IsResolved)
    /\ UNCHANGED <<mode, switched>> /\ Resolves

\* A package is resolved with all that it needs.
FinishPackage ==
    /\ mode = "resolving" /\ Top.todo = <<>> /\ Len(calls) > 1
    /\ resolved' = [n \in DOMAIN resolved \cup {Top.name} |->
                       IF n = Top.name
                       THEN [version |-> Top.version, source |-> Top.source,
                             deps |-> {d.name : d \in Range(DependenciesOf(n, Top.version))}]
                       ELSE resolved[n]]
    /\ calls' = SubSeq(calls, 1, Len(calls) - 1)
    /\ UNCHANGED <<mode, asked, backtracks, erased, switched>> /\ Resolves

\* A call that returns false ends the resolution.
GiveUp ==
    /\ Visiting
    /\ Circular \/ TooDeep \/ Stuck \/ ((IsResolved => Erases) /\ ~Pinned /\ Candidates = {})
    /\ mode' = "failed"
    /\ UNCHANGED resolution /\ Resolves

\* install_package goes on without a lock.
FinishResolution ==
    /\ mode = "resolving" /\ Top.todo = <<>> /\ Len(calls) = 1
    /\ mode' = IF op = "package" THEN "installing" ELSE "locking"
    /\ UNCHANGED resolution /\ Resolves

(************************* The lock and the directories ************************)

\* get_ordered_packages: level by level, those whose dependencies are all out.
LockOrder ==
    LET level[i \in 0..Cardinality(Names)] ==
            IF i = 0 THEN {}
            ELSE {n \in DOMAIN resolved :
                      resolved[n].deps \cap DOMAIN resolved \subseteq level[i - 1]}
    IN  level[Cardinality(Names)]

LockOf(ns) ==
    [n \in ns |-> [version |-> resolved[n].version, source |-> resolved[n].source]]

\* Of a lock file, or of what was resolved: the registry has all of it.
InRegistry(packages) == \A n \in DOMAIN packages : <<n, packages[n].version>> \in published

\* update_lockfile: the file is written over.
WriteLock ==
    /\ mode = "locking"
    /\ lock' = LockOf(LockOrder)
    /\ settled' = (~erased /\ switched = {} /\ InRegistry(resolved))
    /\ mode' = "installing" /\ remaining' = DOMAIN resolved
    /\ UNCHANGED <<published, manifest, strategy, installation, op, resolution, commands>>

\* is_cached, that install_package does not ask.
Cached(p) == op # "package" /\ p \in tomls

Installs(n, status) ==
    /\ remaining' = remaining \ {n}
    /\ records' = [m \in DOMAIN records \cup {n} |-> IF m = n THEN status ELSE records[m]]
    /\ UNCHANGED <<project, op, mode, resolution, commands>>

InstallCached ==
    mode = "installing" /\ \E n \in remaining :
       /\ Cached(<<n, resolved[n].version>>)
       /\ Installs(n, "cached") /\ UNCHANGED <<dirs, tomls>>

\* download_and_install. The registry copies sources only; the files of a path are
\* all copied, unless one of them fails, which nobody hears of.
InstallOne ==
    mode = "installing" /\ \E n \in remaining :
       LET p == <<n, resolved[n].version>> IN
       /\ ~Cached(p)
       /\ dirs' = dirs \cup {p}
       /\ \/ Installs(n, "failed") /\ UNCHANGED tomls
          \/ /\ Installs(n, "installed")
             /\ tomls' \in IF resolved[n].source = "path" THEN {tomls, tomls \cup {p}}
                           ELSE {tomls}

\* The command is done, and the resolver is gone.
Ends ==
    /\ mode' = "idle" /\ calls' = <<>> /\ resolved' = Nothing
    /\ asked' = [n \in Names |-> {}] /\ backtracks' = 0 /\ erased' = FALSE
    /\ switched' = {} /\ remaining' = {}
    /\ UNCHANGED <<manifest, strategy, dirs, tomls, op, commands>>

Finish ==
    mode = "installing" /\ remaining = {} /\ Ends /\ UNCHANGED <<published, lock, settled, records>>

\* What is left of a number, and of a version, when its text is cut short: what is
\* no version then reads as 0.0.0.
Beginnings(k) == {k} \cup {h \in 1..k : \E i \in 1..9 : h = k \div 10^i}

CutVersions(v) ==
         {V(0, 0, 0), v}
    \cup {V(h, 0, 0) : h \in Beginnings(v.major)}
    \cup {V(v.major, h, 0) : h \in Beginnings(v.minor)}
    \cup {V(v.major, v.minor, h) : h \in Beginnings(v.patch)}
    \cup {[v EXCEPT !.pre = tag] : tag \in 1..v.pre}

\* What a record reads as that is cut short: as a version of its package from
\* nowhere, or of the one whose name is left.
CutRecord(n) ==
    {<<m, V(0, 0, 0)>> : m \in Shorter[n]} \cup {<<n, v>> : v \in CutVersions(resolved[n].version)}

\* A file that is cut holds what comes first in it, and maybe one more record that is
\* cut short, in the place of another of that name (add_package).
CutShort(ns) == \A n \in ns : resolved[n].deps \cap LockOrder \subseteq ns

WithCut(ns, p) ==
    [n \in ns \cup {p[1]} |-> IF n = p[1] THEN [version |-> p[2], source |-> "registry"]
                             ELSE LockOf(ns)[n]]

CutLock ==
    \E ns \in SUBSET LockOrder : CutShort(ns) /\
       \/ lock' = LockOf(ns)
       \/ \E n \in LockOrder \ ns : \E p \in CutRecord(n) :
             CutShort(ns \cup {n}) /\ lock' = WithCut(ns, p)

\* The process dies, or is done and another one comes: its program registers packages
\* again, and there are no records. The lock it was writing may be cut.
Crash ==
    /\ Ends /\ published' \in Registries /\ records' = Nothing
    /\ \/ lock' = lock /\ settled' = (settled /\ InRegistry(lock)')
       \/ mode = "locking" /\ CutLock /\ settled' = FALSE

(****************************** The other commands ****************************)

Between ==
    /\ mode \in {"idle", "failed"} /\ commands < MaxCommands /\ commands' = commands + 1
    /\ UNCHANGED <<strategy, op, mode, resolution, remaining>>

\* register_package.
PublishVersion ==
    \E p \in DOMAIN Requires \ published :
       /\ published' = published \cup {p}
       /\ Between /\ UNCHANGED <<manifest, lock, settled, installation>>

\* add_dependency and remove: the lock stays as it is.
Rewrites(m) == manifest' = Written(m) /\ settled' = FALSE

AddDependency ==
    \E e \in Edits :
       /\ Rewrites([manifest EXCEPT ![e.kind] = SetDependency(@, e.dep)])
       /\ Between /\ UNCHANGED <<published, lock, installation>>

RemoveDependency ==
    \E n \in Names :
       /\ IF \E kind \in DOMAIN manifest : Places(manifest[kind], n) # {}
          THEN Rewrites([kind \in DOMAIN manifest |-> Without(manifest[kind], n)])
          ELSE UNCHANGED <<manifest, settled>>
       /\ dirs' = {p \in dirs : p[1] # n} /\ tomls' = {p \in tomls : p[1] # n}
       /\ Between /\ UNCHANGED <<published, lock, records>>

\* update_package: the latest version, if there is one.
UpdatePackage ==
    \E n \in Names :
       /\ Versions(n) # {}
       /\ dirs' = dirs \cup {<<n, Newest(Versions(n))>>}
       /\ Between /\ UNCHANGED <<published, manifest, lock, settled, tomls, records>>

\* clear_cache.
Clean ==
    /\ dirs' = {} /\ tomls' = {}
    /\ Between /\ UNCHANGED <<published, manifest, lock, settled, records>>

PackagesInit ==
    /\ published \in Registries /\ manifest \in Manifests
    /\ strategy \in Strategies
    /\ lock = Nothing /\ settled = FALSE /\ dirs = {} /\ tomls = {} /\ records = Nothing
    /\ op = "install" /\ mode = "idle" /\ calls = <<>> /\ resolved = Nothing
    /\ asked = [n \in Names |-> {}] /\ backtracks = 0 /\ remaining = {} /\ commands = 0
    /\ erased = FALSE /\ switched = {}

Resolving ==
    \/ AlreadyResolved \/ SwitchVersion \/ ChooseVersion \/ FinishPackage \/ GiveUp
    \/ FinishResolution

PackagesNext ==
    \/ Install \/ Update \/ InstallPackage
    \/ Resolving
    \/ WriteLock \/ InstallCached \/ InstallOne \/ Finish \/ Crash
    \/ PublishVersion \/ AddDependency \/ RemoveDependency \/ UpdatePackage \/ Clean

(********************************* Properties *********************************)

\* A resolution that succeeds gives every dependency of the project a version, and
\* every dependency of a package that kept the version it was resolved with. When
\* nothing had to be erased, every version meets every constraint put on its
\* package, by whomever, and no cycle keeps a package out of the lock file. The
\* recursion is never deeper than there are packages (resolve_package,
\* resolve_with_config, get_ordered_packages).
ResolutionSound ==
    /\ Len(calls) <= Cardinality(Names) + 1
    /\ mode = "locking" =>
           /\ \A d \in Range(Direct) : d.name \in DOMAIN resolved
           /\ \A n \in DOMAIN resolved \ switched :
                 \A d \in Range(DependenciesOf(n, resolved[n].version)) :
                    d.name \in DOMAIN resolved
           /\ ~erased => /\ LockOrder = DOMAIN resolved
                         /\ \A n \in DOMAIN resolved :
                               \A c \in asked[n] : Satisfies(resolved[n].version, c)

\* "Ensures reproducible builds with exact version pinning" (lock_file.cpp): what a
\* resolution without conflicts has locked is what every later installation of the
\* same manifest takes, package by package, whatever was published since, and it
\* never fails to.
LockReproduces ==
    settled /\ op = "install" =>
        /\ mode # "failed"
        /\ mode = "locking" => /\ DOMAIN resolved = DOMAIN lock
                               /\ \A n \in DOMAIN lock :
                                     resolved[n].version = lock[n].version
==============================================================================
