---------------------------- MODULE BuildContents ----------------------------
(***************************************************************************)
(* The versions in a build and the mods they require (models/modversion.py,*)
(* models/build_modversion.py, models/write_api.py,                        *)
(* models/mod_dependency.py).                                              *)
(*                                                                         *)
(* A request that adds or updates versions is one transaction.  It reads   *)
(* the build and the required mods once (REPEATABLE READ), walks through   *)
(* the required mods one by one, and its writes appear when it commits.    *)
(* Locks keep some requests apart: the management site and "Update all     *)
(* mods" lock the row of the build, the write API the rows of the mod in   *)
(* the build or, if it has none, the gap where they would be.              *)
(*                                                                         *)
(* The model follows one build.  Its Minecraft version does not change; a  *)
(* version lists it, is universal, or is for another one.                  *)
(***************************************************************************)
EXTENDS Integers, FiniteSets

CONSTANTS
  Mods,
  Versions,    \* ids of stored versions: a later one is larger
  Catalog,     \* of each version: [mod, minecraft, loaders, primary]
  Launchers,   \* the mods of type LAUNCHER
  Loaders,     \* names of modloaders
  SiteRequests, ApiRequests,  \* requests of the management site and of the write
                              \* API that change the build
  Editors,     \* requests that change what a mod requires
  Loads,       \* sets of requests that may run at once in a behaviour
  Requirable,  \* pairs of mods of which one may come to require the other
  MaxRows      \* bound: the largest no of a row

NoLoader == "none"     \* modloader and forge are NULL
Unnamed == "unnamed"   \* only forge, the version of the loader, is set
Requests == SiteRequests \cup ApiRequests
BuildLoaders == Loaders \cup {NoLoader, Unnamed}

ASSUME BuildContentsAssumption ==
  /\ Versions \subseteq Nat \ {0}
  /\ Catalog \in
       [Versions -> [mod : Mods, minecraft : {"listed", "universal", "other"},
                     loaders : SUBSET Loaders, primary : Loaders \cup {NoLoader}]]
  \* primary_modloader is the first of the loaders
  /\ \A v \in Versions :
       IF Catalog[v].loaders = {} THEN Catalog[v].primary = NoLoader
                                  ELSE Catalog[v].primary \in Catalog[v].loaders
  /\ Launchers \subseteq Mods
  /\ "FORGE" \in Loaders /\ Loaders \cap {NoLoader, Unnamed} = {}
  /\ Requirable \subseteq Mods \X Mods
  /\ Loads \subseteq SUBSET (Requests \cup Editors)
  /\ MaxRows \in Nat

VARIABLES
  rows,      \* build_modversion: [mod, no, version]; among the rows of a mod a
             \* later id is a larger no
  loader,    \* builds.modloader and builds.forge
  deps,      \* mod_dependencies: pairs of a mod and one it requires
  requests,  \* local state of the requests
  editors,   \* local state of the editors
  owed,      \* history: mods that must be there when a request commits
  load       \* the requests that may run at once

vars == <<rows, loader, deps, requests, editors, owed, load>>

-----------------------------------------------------------------------------
(* Compatibility and required mods                                         *)

ModOf(v) == Catalog[v].mod
ModsOf(S) == {x.mod : x \in S}

\* version_is_compatible, and the conditions of the queries that repeat it.
Fits(v, l) ==
  /\ Catalog[v].minecraft # "other"
  /\ l = NoLoader \/ Catalog[v].loaders = {} \/ l \in Catalog[v].loaders

Candidates(m, l) == {v \in Versions : ModOf(v) = m /\ Fits(v, l)}

\* A version that lists the build's Minecraft version comes first, then one
\* that names its loader, then the latest.
Precedes(v, w, l) ==
  LET weight(x) == (IF Catalog[x].minecraft = "listed" THEN 2 ELSE 0)
                     + (IF l \in Catalog[x].loaders THEN 1 ELSE 0)
  IN weight(v) > weight(w) \/ (weight(v) = weight(w) /\ v > w)

\* The one candidate that precedes all others, if there is a candidate.
Best(m, l) ==
  {v \in Candidates(m, l) : \A w \in Candidates(m, l) \ {v} : Precedes(v, w, l)}

\* The loader of the build as the management site reads it, and as the write
\* API does, which takes a version without a loader for one of Forge.
SiteLoader(l) == IF l = Unnamed THEN NoLoader ELSE l
ApiLoader(l) == IF l = Unnamed THEN "FORGE" ELSE l

\* sync_launcher_build_metadata
Synced(v, l) ==
  IF ModOf(v) \notin Launchers THEN l
  ELSE IF Catalog[v].primary # NoLoader THEN Catalog[v].primary
  ELSE IF l = NoLoader THEN Unnamed
  ELSE l

Direct(graph, m) == {n \in Mods : <<m, n>> \in graph}

\* What m requires, directly or not, and m.
Required(graph, m) ==
  {n \in Mods : \A S \in SUBSET Mods :
     m \in S /\ (\A x \in S : Direct(graph, x) \subseteq S) => n \in S}

-----------------------------------------------------------------------------
Idle == [pc |-> "idle", kind |-> "site", changes |-> {}, jobs |-> {},
         loader |-> NoLoader, graph |-> {}, present |-> {}, pending |-> {},
         visited |-> {}, found |-> {}]

IdleEditor == [pc |-> "idle", kind |-> "site", mods |-> {}, needs |-> {}]

\* No mod requires itself through others (CircularDependencyError): what is
\* added one after another never makes a circle.
NoCircles ==
  \A m \in Mods : \A n \in Direct(deps, m) : m \notin Required(deps, n)

\* A build is new, in a library where mods may require others.
Init ==
  /\ rows = {}
  /\ loader \in Loaders \cup {NoLoader}
  /\ deps \in SUBSET Requirable /\ NoCircles
  /\ requests = [r \in Requests |-> Idle]
  /\ editors = [e \in Editors |-> IdleEditor]
  /\ owed = [r \in Requests |-> {}]
  /\ load \in Loads

Walking(q) == requests[q].pc = "walking"
Adding(q) == requests[q].pc \in {"walking", "ready"}
LocksBuild(q) == Adding(q) /\ requests[q].kind \in {"site", "all"}

\* "Update all mods" locks every row of the build, the write API a row it
\* updates.
HoldsRow(q, row) ==
  /\ Adding(q)
  /\ \/ requests[q].kind = "all"
     \/ /\ requests[q].kind = "api"
        /\ \E c \in requests[q].changes : c.mod = row.mod /\ c.no = row.no

\* Nobody else inserts a row of this mod.
HoldsGap(q, m) ==
  /\ Adding(q)
  /\ \/ requests[q].kind = "all"
     \/ /\ requests[q].kind = "api"
        /\ \E c \in requests[q].changes : c.mod = m /\ c.no = 0

-----------------------------------------------------------------------------
(* Adding and updating versions                                            *)

\* A request has its locks and its snapshot.  A change of row 0 is an insert.
\* A job resolves what one mod requires.
Start(r, kind, changes, jobs) ==
  /\ requests' = [requests EXCEPT ![r] =
       [pc |-> "walking", kind |-> kind, changes |-> changes, jobs |-> jobs,
        loader |-> NoLoader, graph |-> deps,
        present |-> ModsOf(rows) \cup ModsOf(changes),
        pending |-> {}, visited |-> {}, found |-> {}]]
  /\ owed' = [owed EXCEPT ![r] =
       UNION {Required(deps, m) : m \in ModsOf(changes)}]
  /\ UNCHANGED <<rows, loader, deps, editors, load>>

\* A slip: the loader the build had before its new launcher.
JobLoaderOfBuild(v) == SiteLoader(loader)

\* The loader a management request resolves with: a launcher brings its own.
JobLoader(v) ==
  IF ModOf(v) \in Launchers /\ Catalog[v].primary # NoLoader
  THEN Catalog[v].primary
  ELSE SiteLoader(loader)

\* The number of the mod's first row, which is updated, or 0: one is inserted.
FirstRow(m) ==
  LET nos == {row.no : row \in {x \in rows : x.mod = m}}
  IN IF nos = {} THEN {0} ELSE {n \in nos : \A k \in nos : n <= k}

\* A slip: the build is not locked.
OpenSiteUnlocked(r, v) ==
  /\ requests[r].pc = "idle"
  /\ Fits(v, SiteLoader(loader))
  /\ \E no \in FirstRow(ModOf(v)) :
       Start(r, "site", {[mod |-> ModOf(v), no |-> no, version |-> v]},
             {[mod |-> ModOf(v), loader |-> JobLoader(v)]})

\* add_modversion_to_selected_build
OpenSite(r, v) ==
  /\ requests[r].pc = "idle"
  /\ \A q \in Requests : ~LocksBuild(q)
  /\ Fits(v, SiteLoader(loader))
  /\ \E no \in FirstRow(ModOf(v)) :
       Start(r, "site", {[mod |-> ModOf(v), no |-> no, version |-> v]},
             {[mod |-> ModOf(v), loader |-> JobLoader(v)]})

\* add_build_mod and update_build_mod read the build before they start.
ReadApi(r, v) ==
  /\ requests[r].pc = "idle"
  /\ Fits(v, ApiLoader(loader))
  /\ requests' = [requests EXCEPT ![r] =
       [pc |-> "read", kind |-> "api",
        changes |-> {[mod |-> ModOf(v), no |-> 0, version |-> v]}, jobs |-> {},
        loader |-> ApiLoader(loader), graph |-> {}, present |-> {},
        pending |-> {}, visited |-> {}, found |-> {}]]
  /\ UNCHANGED <<rows, loader, deps, editors, owed, load>>

\* The write API locks the rows of the mod: an add finds none, an update one.
StartApi(r, no) ==
  \E c \in requests[r].changes :
    Start(r, "api", {[mod |-> c.mod, no |-> no, version |-> c.version]},
          {[mod |-> c.mod, loader |-> requests[r].loader]})

AddApi(r) ==
  /\ requests[r].pc = "read"
  /\ \A c \in requests[r].changes : c.mod \notin ModsOf(rows)
  /\ StartApi(r, 0)

PutApi(r) ==
  /\ requests[r].pc = "read"
  /\ \E row \in rows :
       /\ \A c \in requests[r].changes : c.mod = row.mod
       /\ \A q \in Requests : ~HoldsRow(q, row)
       /\ StartApi(r, row.no)

\* The mod is in the build already, or is not: nothing changes.
RefuseApi(r) ==
  /\ requests[r].pc = "read"
  /\ requests' = [requests EXCEPT ![r] = Idle]
  /\ UNCHANGED <<rows, loader, deps, editors, owed, load>>

\* update_all_compatible considers no universal version; it prefers the one
\* the provider selected for the mod, else takes the latest.
Replacement(row, preferred) ==
  LET stored == {v \in Candidates(row.mod, SiteLoader(loader)) :
                   Catalog[v].minecraft = "listed"}
      wanted == IF stored \cap preferred # {} THEN stored \cap preferred ELSE stored
  IN {v \in wanted : \A w \in wanted : w <= v}

OpenAll(r, preferred) ==
  LET changes == UNION {{[mod |-> row.mod, no |-> row.no, version |-> v] :
                           v \in Replacement(row, preferred) \ {row.version}} :
                             row \in rows}
  IN
  /\ requests[r].pc = "idle"
  /\ changes # {}
  /\ \A q \in Requests : ~LocksBuild(q) /\ \A row \in rows : ~HoldsRow(q, row)
  /\ Start(r, "all", changes,
       {[mod |-> c.mod, loader |-> JobLoader(c.version)] : c \in changes})

-----------------------------------------------------------------------------
(* _add_required_dependencies: one job after another                        *)

Walk(r, jobs, l, present, pending, visited, found) ==
  /\ requests' = [requests EXCEPT ![r] =
       [pc |-> "walking", kind |-> requests[r].kind,
        changes |-> requests[r].changes, jobs |-> jobs, loader |-> l,
        graph |-> requests[r].graph, present |-> present, pending |-> pending,
        visited |-> visited, found |-> found]]
  /\ UNCHANGED <<rows, loader, deps, editors, owed, load>>

NextJob(r) ==
  LET q == requests[r] IN
  /\ Walking(r)
  /\ q.pending = {}
  /\ \E j \in q.jobs :
       Walk(r, q.jobs \ {j}, j.loader, q.present, Direct(q.graph, j.mod) \ {j.mod},
            {j.mod}, q.found)

\* A slip: what a required mod requires is not followed.
ResolvePresentAlone(r, m) ==
  LET q == requests[r] IN
  /\ Walking(r)
  /\ m \in q.pending \cap q.present
  /\ Walk(r, q.jobs, q.loader, q.present, q.pending \ {m}, q.visited \cup {m},
          q.found)

\* A mod of the queue, which is a set here.  The mods it requires follow, those
\* visited already are skipped.
Queue(q, m) == (q.pending \cup Direct(q.graph, m)) \ (q.visited \cup {m})

ResolvePresent(r, m) ==
  LET q == requests[r] IN
  /\ Walking(r)
  /\ m \in q.pending \cap q.present
  /\ Walk(r, q.jobs, q.loader, q.present, Queue(q, m), q.visited \cup {m}, q.found)

\* The build lacks the mod: its best version is inserted.
ResolveMissing(r, m) ==
  LET q == requests[r] IN
  /\ Walking(r)
  /\ m \in q.pending \ q.present
  /\ \E v \in Best(m, q.loader) :
       Walk(r, q.jobs, q.loader, q.present \cup {m}, Queue(q, m),
            q.visited \cup {m}, q.found \cup {v})

\* What it has read matters no more.
Resolved(r) ==
  LET q == requests[r] IN
  /\ Walking(r)
  /\ q.jobs = {} /\ q.pending = {}
  /\ requests' = [requests EXCEPT ![r] =
       [pc |-> "ready", kind |-> q.kind, changes |-> q.changes, jobs |-> {},
        loader |-> NoLoader, graph |-> {}, present |-> {}, pending |-> {},
        visited |-> {}, found |-> q.found]]
  /\ UNCHANGED <<rows, loader, deps, editors, owed, load>>

End(r) ==
  /\ requests' = [requests EXCEPT ![r] = Idle]
  /\ owed' = [owed EXCEPT ![r] = {}]

\* Rolled back: a required mod has no version that fits, the database chose
\* the request as the victim of a deadlock, or it failed.
Fail(r) ==
  /\ Adding(r)
  /\ End(r)
  /\ UNCHANGED <<rows, loader, deps, editors, load>>

\* The versions a request inserts, and the mods they belong to.
Inserts(r) ==
  requests[r].found \cup
    {c.version : c \in {x \in requests[r].changes : x.no = 0}}
InsertedMods(r) == {ModOf(v) : v \in Inserts(r)}

Changed(r, row) ==
  {c \in requests[r].changes : c.mod = row.mod /\ c.no = row.no}

\* A new row gets a number above those of the mod's rows and those that
\* requests refer to.
NewNos(m) ==
  {n \in 1 .. MaxRows :
     \A x \in rows \cup UNION {requests[q].changes : q \in Requests} :
       x.mod = m => x.no < n}
NewNo(m) == CHOOSE n \in NewNos(m) : TRUE

\* The transaction ends.  An update of a row that is gone changes nothing.
Commit(r) ==
  LET q == requests[r] IN
  /\ q.pc = "ready"
  /\ \A p \in Requests \ {r} :
       /\ \A m \in InsertedMods(r) : ~HoldsGap(p, m)
       /\ \A row \in rows : HoldsRow(p, row) => Changed(r, row) = {}
  /\ \A m \in InsertedMods(r) : NewNos(m) # {}
  /\ rows' = {row \in rows : Changed(r, row) = {}}
       \cup (UNION {Changed(r, row) : row \in rows})
       \cup {[mod |-> ModOf(v), no |-> NewNo(ModOf(v)), version |-> v] :
               v \in Inserts(r)}
  /\ \/ q.kind = "api" /\ loader' = loader
     \/ /\ q.kind # "api"
        /\ LET launched == {c \in q.changes : c.mod \in Launchers}
           IN IF launched = {} THEN loader' = loader
              ELSE \E c \in launched : loader' = Synced(c.version, loader)
  /\ End(r)
  /\ UNCHANGED <<deps, editors, load>>

-----------------------------------------------------------------------------
(* Other changes of the build                                              *)

Free(row) == \A q \in Requests : ~HoldsRow(q, row)

\* A slip: the replacement may be a version of another mod.
UpdateOtherMod(old, v) ==
  LET found == {row \in rows : row.version = old} IN
  /\ old # v
  /\ found # {} /\ \A row \in found : Free(row)
  /\ ModOf(v) \in Launchers => \A q \in Requests : ~LocksBuild(q)
  /\ Fits(v, SiteLoader(loader))
  /\ rows' = (rows \ found) \cup
       {[mod |-> row.mod, no |-> row.no, version |-> v] : row \in found}
  /\ loader' = Synced(v, loader)
  /\ UNCHANGED <<deps, requests, editors, owed, load>>

\* update_modversion_in_build: other than an add, it resolves nothing.
Update(old, v) ==
  LET found == {row \in rows : row.version = old} IN
  /\ ModOf(old) = ModOf(v) /\ old # v
  /\ found # {} /\ \A row \in found : Free(row)
  /\ ModOf(v) \in Launchers => \A q \in Requests : ~LocksBuild(q)
  /\ Fits(v, SiteLoader(loader))
  /\ rows' = (rows \ found) \cup
       {[mod |-> row.mod, no |-> row.no, version |-> v] : row \in found}
  /\ loader' = Synced(v, loader)
  /\ UNCHANGED <<deps, requests, editors, owed, load>>

\* delete_build_modversion and remove_build_mod: mods that require it stay.
Remove(row) ==
  /\ row \in rows
  /\ Free(row)
  /\ rows' = rows \ {row}
  /\ owed' = [r \in Requests |-> owed[r] \ {row.mod}]
  /\ UNCHANGED <<loader, deps, requests, editors, load>>

\* Build.update and the write API's update_build.
EditBuild(l) ==
  /\ \A q \in Requests : ~LocksBuild(q)
  /\ l # loader
  /\ loader' = l
  /\ UNCHANGED <<rows, deps, requests, editors, owed, load>>

-----------------------------------------------------------------------------
(* What a mod requires                                                     *)

\* ModDependency.add adds one pair, _sync_dependencies replaces them all.
Edited(graph, kind, m, needs) ==
  (IF kind = "api" THEN {e \in graph : e[1] # m} ELSE graph)
    \cup {<<m, n>> : n \in needs}

\* A slip: only a direct circle is found.
OpenEditDirectOnly(e, kind, m, needs) ==
  /\ editors[e].pc = "idle"
  /\ m \notin needs
  /\ kind = "site" => Cardinality(needs) = 1 /\ needs \cap Direct(deps, m) = {}
  /\ \A n \in needs : <<n, m>> \notin deps
  /\ editors' = [editors EXCEPT ![e] =
       [pc |-> "open", kind |-> kind, mods |-> {m}, needs |-> needs]]
  /\ UNCHANGED <<rows, loader, deps, requests, owed, load>>

\* The pairs are read and searched for a way back to m.
OpenEdit(e, kind, m, needs) ==
  /\ editors[e].pc = "idle"
  /\ m \notin needs
  /\ kind = "site" => Cardinality(needs) = 1 /\ needs \cap Direct(deps, m) = {}
  /\ \A n \in needs : m \notin Required(Edited(deps, kind, m, needs), n)
  /\ editors' = [editors EXCEPT ![e] =
       [pc |-> "open", kind |-> kind, mods |-> {m}, needs |-> needs]]
  /\ UNCHANGED <<rows, loader, deps, requests, owed, load>>

CommitEdit(e) ==
  /\ editors[e].pc = "open"
  /\ \E m \in editors[e].mods :
       deps' = Edited(deps, editors[e].kind, m, editors[e].needs)
  /\ editors' = [editors EXCEPT ![e] = IdleEditor]
  /\ UNCHANGED <<rows, loader, requests, owed, load>>

\* ModDependency.delete
DeleteDependency(m, n) ==
  /\ <<m, n>> \in deps
  /\ deps' = deps \ {<<m, n>>}
  /\ UNCHANGED <<rows, loader, requests, editors, owed, load>>

-----------------------------------------------------------------------------
Site(r) ==
  \/ \E v \in Versions : OpenSite(r, v)
  \/ \E preferred \in SUBSET {v \in Versions : Catalog[v].minecraft = "listed"} :
       OpenAll(r, preferred)

Api(r) ==
  \/ \E v \in Versions : ReadApi(r, v)
  \/ AddApi(r) \/ PutApi(r) \/ RefuseApi(r)

Transaction(r) ==
  \/ NextJob(r)
  \/ \E m \in Mods : ResolvePresent(r, m) \/ ResolveMissing(r, m)
  \/ Resolved(r)
  \/ Fail(r)
  \/ Commit(r)

EditDependencies(e) ==
  \/ \E m \in Mods : \E needs \in SUBSET {n \in Mods : <<m, n>> \in Requirable},
       kind \in {"site", "api"} : OpenEdit(e, kind, m, needs)
  \/ CommitEdit(e)

Next ==
  \/ \E r \in load \cap SiteRequests : Site(r)
  \/ \E r \in load \cap ApiRequests : Api(r)
  \/ \E r \in load \cap Requests : Transaction(r)
  \/ \E old, v \in Versions : Update(old, v)
  \/ \E row \in rows : Remove(row)
  \/ \E l \in Loaders \cup {NoLoader} : EditBuild(l)
  \/ \E e \in load \cap Editors : EditDependencies(e)
  \/ \E m, n \in Mods : DeleteDependency(m, n)

Spec == Init /\ [][Next]_vars

-----------------------------------------------------------------------------
Row == [mod : Mods, no : Nat, version : Versions]
Job == [mod : Mods, loader : BuildLoaders]

Request ==
  [pc : {"idle", "read", "walking", "ready"}, kind : {"site", "api", "all"},
   changes : SUBSET Row, jobs : SUBSET Job, loader : BuildLoaders,
   graph : SUBSET (Mods \X Mods), present : SUBSET Mods, pending : SUBSET Mods,
   visited : SUBSET Mods, found : SUBSET Versions]

Editor == [pc : {"idle", "open"}, kind : {"site", "api"}, mods : SUBSET Mods,
           needs : SUBSET Mods]

\* The build, its rows and the requests have their types, and a row has a
\* version of its mod.
TypeOK ==
  /\ rows \subseteq Row
  /\ \A row \in rows : ModOf(row.version) = row.mod
  /\ loader \in BuildLoaders
  /\ deps \subseteq Mods \X Mods
  /\ requests \in [Requests -> Request]
  /\ editors \in [Editors -> Editor]
  /\ owed \in [Requests -> SUBSET Mods]
  /\ load \in Loads

\* A build has one version of a mod at most, although nothing in its table
\* forbids a second one: neither the requests of the management site and the
\* required mods they add side by side, nor a request of the write API that runs
\* by itself, add a mod that is there.
OneVersionPerMod ==
  \A x, y \in rows : x.mod = y.mod => x = y

\* When an add, an update or "Update all mods" is done, every mod it touched
\* is in the build with everything the mod requires, directly or not, except
\* what somebody else removed while the request was running.
AddsAreComplete ==
  [][\A r \in Requests : Commit(r) => owed[r] \subseteq ModsOf(rows')]_vars

\* What the management site adds to a build, the required mods included, fits
\* the loader that the build has afterwards, a new launcher's included.
SiteAddsFit ==
  [][\A r \in Requests : Commit(r) /\ requests[r].kind = "site" =>
       \A row \in rows' \ rows : Fits(row.version, SiteLoader(loader'))]_vars
=============================================================================
