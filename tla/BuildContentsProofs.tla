------------------------- MODULE BuildContentsProofs -------------------------
(***************************************************************************)
(* An add is complete when it commits: the mods it touched are in the build*)
(* with everything they require, whatever other requests run beside it.    *)
(*                                                                         *)
(* What a request still owes is found by its walk: a mod it owes is        *)
(* present, or required by a mod it has visited or has a job for, and what *)
(* a visited mod requires directly is visited or pending.                  *)
(*                                                                         *)
(* Then what the locks of a build ensure, and what they leave to the       *)
(* number of requests that run at once: what the management site adds fits *)
(* the loader, among any requests; a build has one version of a mod if the *)
(* requests at once are all of the management site, or there is only one;  *)
(* required mods make no circle if there is one editor at a time.          *)
(***************************************************************************)
EXTENDS BuildContents, TLAPS

\* The mods a request inserts.
Added(q) ==
  {ModOf(v) : v \in q.found} \cup {c.mod : c \in {x \in q.changes : x.no = 0}}

\* A request q that owes the mods o, in a build with the mods here.
WalkCovers(q, o, here) ==
  /\ q.visited \subseteq q.present
  /\ ModsOf(q.jobs) \subseteq q.present
  /\ \A x \in q.visited : Direct(q.graph, x) \subseteq q.visited \cup q.pending
  /\ \A n \in o : n \in q.present \/
       \E x \in q.visited \cup ModsOf(q.jobs) : n \in Required(q.graph, x)
  /\ o \cap q.present \subseteq here \cup Added(q)

Covers(q, o, here) ==
  /\ q.pc = "walking" => WalkCovers(q, o, here)
  /\ q.pc = "ready" => o \subseteq here \cup Added(q)

OwnVersions(S) == \A c \in S : ModOf(c.version) = c.mod

IInv ==
  /\ TypeOK
  /\ \A r \in Requests :
       /\ OwnVersions(requests[r].changes)
       /\ Covers(requests[r], owed[r], ModsOf(rows))

-----------------------------------------------------------------------------
LEMMA IdleCovers == \A here : Covers(Idle, {}, here)
  BY DEF Covers, Idle

LEMMA IdleType == Idle \in Request
  BY DEF Idle, Request, BuildLoaders

LEMMA LoaderTypes ==
  /\ NoLoader \in BuildLoaders
  /\ \A l \in BuildLoaders : SiteLoader(l) \in BuildLoaders
  /\ \A l \in BuildLoaders : ApiLoader(l) \in BuildLoaders
  /\ \A v \in Versions, l \in BuildLoaders : Synced(v, l) \in BuildLoaders
  BY BuildContentsAssumption
     DEF BuildLoaders, SiteLoader, ApiLoader, Synced, NoLoader, Unnamed

\* A set that contains a mod with what its members require contains all it
\* requires, and every mod is among those it requires.
LEMMA RequiredIsLeast ==
  ASSUME NEW graph, NEW m \in Mods, NEW S \in SUBSET Mods, m \in S,
         \A x \in S : Direct(graph, x) \subseteq S
  PROVE  Required(graph, m) \subseteq S
  BY DEF Required

LEMMA RequiredInMods == \A graph, m : Required(graph, m) \subseteq Mods
  BY DEF Required

\* The mods of a build that grows are covered as before.
LEMMA MoreIsHere ==
  ASSUME NEW q, NEW o, NEW here, NEW now, Covers(q, o, here),
         here \subseteq now
  PROVE  Covers(q, o, now)
  BY DEF Covers, WalkCovers

\* Without a mod that is removed a request owes less.
LEMMA OneRemoved ==
  ASSUME NEW q, NEW o, NEW here, NEW now, NEW m, Covers(q, o, here),
         here \subseteq now \cup {m}
  PROVE  Covers(q, o \ {m}, now)
  BY DEF Covers, WalkCovers

LEMMA Initial == Init => IInv
<1> SUFFICES ASSUME Init PROVE IInv
  OBVIOUS
<1>1. TypeOK
  <2>1. requests \in [Requests -> Request]
    BY IdleType DEF Init
  <2>2. editors \in [Editors -> Editor]
    BY DEF Init, IdleEditor, Editor
  <2>3. loader \in BuildLoaders
    BY DEF Init, BuildLoaders
  <2>4. deps \subseteq Mods \X Mods
    BY BuildContentsAssumption DEF Init
  <2>5. owed \in [Requests -> SUBSET Mods] /\ load \in Loads /\ rows = {}
    BY DEF Init
  <2> QED
    BY <2>1, <2>2, <2>3, <2>4, <2>5 DEF TypeOK
<1>2. ASSUME NEW r \in Requests
      PROVE  OwnVersions(requests[r].changes)
               /\ Covers(requests[r], owed[r], ModsOf(rows))
  <2>1. requests[r] = Idle /\ owed[r] = {}
    BY DEF Init
  <2>2. OwnVersions(Idle.changes)
    BY DEF Idle, OwnVersions
  <2> QED
    BY <2>1, <2>2, IdleCovers
<1> QED
  BY <1>1, <1>2 DEF IInv

-----------------------------------------------------------------------------
(* Steps of one request                                                    *)

\* The state of one request, and what it owes, become q and o.
LEMMA OneRequest ==
  ASSUME IInv, NEW r \in Requests, NEW q \in Request, NEW o \in SUBSET Mods,
         OwnVersions(q.changes), Covers(q, o, ModsOf(rows)),
         requests' = [requests EXCEPT ![r] = q],
         owed' = [owed EXCEPT ![r] = o],
         UNCHANGED <<rows, loader, deps, editors, load>>
  PROVE  IInv'
<1>1. TypeOK'
  BY DEF IInv, TypeOK, Row
<1>2. ASSUME NEW p \in Requests
      PROVE  (OwnVersions(requests[p].changes)
               /\ Covers(requests[p], owed[p], ModsOf(rows)))'
  <2>1. rows' = rows
    OBVIOUS
  <2>2. CASE p = r
    <3>1. requests'[p] = q /\ owed'[p] = o
      BY <2>2 DEF IInv, TypeOK
    <3> QED
      BY <3>1, <2>1 DEF OwnVersions, ModsOf, Covers, WalkCovers, Added
  <2>3. CASE p # r
    <3>1. requests'[p] = requests[p] /\ owed'[p] = owed[p]
      BY <2>3 DEF IInv, TypeOK
    <3>2. OwnVersions(requests[p].changes)
            /\ Covers(requests[p], owed[p], ModsOf(rows))
      BY DEF IInv
    <3> QED
      BY <3>1, <3>2, <2>1 DEF OwnVersions, ModsOf, Covers, WalkCovers, Added
  <2> QED
    BY <2>2, <2>3
<1> QED
  BY <1>1, <1>2 DEF IInv

\* What the request owes is the same.
LEMMA OneWalk ==
  ASSUME IInv, NEW r \in Requests, NEW q \in Request,
         OwnVersions(q.changes), Covers(q, owed[r], ModsOf(rows)),
         requests' = [requests EXCEPT ![r] = q],
         UNCHANGED <<rows, loader, deps, editors, owed, load>>
  PROVE  IInv'
<1>1. owed[r] \in SUBSET Mods /\ owed' = [owed EXCEPT ![r] = owed[r]]
  BY DEF IInv, TypeOK
<1> QED
  BY <1>1, OneRequest

\* A request that starts owes what its jobs require.
LEMMA StartCovers ==
  ASSUME NEW changes, NEW jobs, NEW graph, NEW here, NEW q,
         ModsOf(jobs) = ModsOf(changes), ModsOf(changes) \subseteq Mods,
         \A c \in changes : c.no = 0 \/ c.mod \in here,
         q.pc = "walking", q.changes = changes, q.jobs = jobs, q.graph = graph,
         q.present = here \cup ModsOf(changes), q.pending = {}, q.visited = {},
         q.found = {}
  PROVE  Covers(q, UNION {Required(graph, m) : m \in ModsOf(changes)}, here)
<1>1. ModsOf(changes) \subseteq here \cup Added(q)
  BY DEF ModsOf, Added
<1> QED
  BY <1>1 DEF Covers, WalkCovers

LEMMA StartKeeps ==
  ASSUME IInv, NEW r \in Requests, NEW kind \in {"site", "api", "all"},
         NEW changes \in SUBSET Row, NEW jobs \in SUBSET Job,
         OwnVersions(changes), ModsOf(jobs) = ModsOf(changes),
         \A c \in changes : c.no = 0 \/ c.mod \in ModsOf(rows),
         Start(r, kind, changes, jobs)
  PROVE  IInv'
<1> DEFINE q == [pc |-> "walking", kind |-> kind, changes |-> changes,
                 jobs |-> jobs, loader |-> NoLoader, graph |-> deps,
                 present |-> ModsOf(rows) \cup ModsOf(changes),
                 pending |-> {}, visited |-> {}, found |-> {}]
           o == UNION {Required(deps, m) : m \in ModsOf(changes)}
<1>1. ModsOf(rows) \subseteq Mods /\ ModsOf(changes) \subseteq Mods
  BY DEF IInv, TypeOK, ModsOf, Row
<1>2. q \in Request
  BY <1>1, LoaderTypes DEF IInv, TypeOK, Request
<1>3. Covers(q, o, ModsOf(rows))
  BY <1>1, StartCovers
<1>4. o \in SUBSET Mods
  BY RequiredInMods
<1>5. /\ requests' = [requests EXCEPT ![r] = q]
      /\ owed' = [owed EXCEPT ![r] = o]
      /\ UNCHANGED <<rows, loader, deps, editors, load>>
  BY DEF Start
<1>6. OwnVersions(q.changes)
  OBVIOUS
<1> HIDE DEF q, o
<1> QED
  BY <1>2, <1>3, <1>4, <1>5, <1>6, OneRequest

\* A request that walks on keeps its changes and its snapshot of the pairs.
LEMMA WalkKeeps ==
  ASSUME IInv, NEW r \in Requests, Walking(r), NEW jobs \in SUBSET Job,
         NEW l \in BuildLoaders, NEW present \in SUBSET Mods,
         NEW pending \in SUBSET Mods, NEW visited \in SUBSET Mods,
         NEW found \in SUBSET Versions,
         WalkCovers([pc |-> "walking", kind |-> requests[r].kind,
                     changes |-> requests[r].changes, jobs |-> jobs, loader |-> l,
                     graph |-> requests[r].graph, present |-> present,
                     pending |-> pending, visited |-> visited, found |-> found],
                    owed[r], ModsOf(rows)),
         Walk(r, jobs, l, present, pending, visited, found)
  PROVE  IInv'
<1> DEFINE q == [pc |-> "walking", kind |-> requests[r].kind,
                 changes |-> requests[r].changes, jobs |-> jobs, loader |-> l,
                 graph |-> requests[r].graph, present |-> present,
                 pending |-> pending, visited |-> visited, found |-> found]
<1>1. requests[r] \in Request
  BY DEF IInv, TypeOK
<1>2. q \in Request
  BY <1>1 DEF Request
<1>3. Covers(q, owed[r], ModsOf(rows))
  <2>1. q.pc = "walking"
    OBVIOUS
  <2>2. WalkCovers(q, owed[r], ModsOf(rows))
    OBVIOUS
  <2> HIDE DEF q
  <2> QED
    BY <2>1, <2>2 DEF Covers
<1>4. OwnVersions(q.changes)
  BY DEF IInv
<1>5. requests' = [requests EXCEPT ![r] = q]
        /\ UNCHANGED <<rows, loader, deps, editors, owed, load>>
  BY DEF Walk
<1> HIDE DEF q
<1> QED
  BY <1>2, <1>3, <1>4, <1>5, OneWalk

\* When nothing is pending, what the visited mods require is present.
LEMMA VisitedDone ==
  ASSUME NEW q \in Request, NEW o, NEW here, WalkCovers(q, o, here),
         q.pending = {}
  PROVE  \A x \in q.visited : Required(q.graph, x) \subseteq q.present
<1> SUFFICES ASSUME NEW x \in q.visited
             PROVE  Required(q.graph, x) \subseteq q.present
  OBVIOUS
<1>1. q.visited \in SUBSET Mods
  BY DEF Request
<1>2. \A y \in q.visited : Direct(q.graph, y) \subseteq q.visited
  BY DEF WalkCovers
<1>3. Required(q.graph, x) \subseteq q.visited
  BY <1>1, <1>2, RequiredIsLeast
<1> QED
  BY <1>3 DEF WalkCovers

LEMMA CoversWalk ==
  ASSUME IInv, NEW r \in Requests, Walking(r)
  PROVE  requests[r] \in Request
           /\ WalkCovers(requests[r], owed[r], ModsOf(rows))
  BY DEF IInv, TypeOK, Walking, Covers

LEMMA NextJobKeeps ==
  ASSUME IInv, NEW r \in Requests, NextJob(r)
  PROVE  IInv'
<1> DEFINE q == requests[r]
<1>1. PICK j \in q.jobs :
        Walk(r, q.jobs \ {j}, j.loader, q.present,
             Direct(q.graph, j.mod) \ {j.mod}, {j.mod}, q.found)
  BY DEF NextJob
<1>2. q \in Request /\ WalkCovers(q, owed[r], ModsOf(rows))
        /\ Walking(r) /\ q.pending = {}
  BY CoversWalk DEF NextJob
<1>3. \A x \in q.visited : Required(q.graph, x) \subseteq q.present
  BY <1>2, VisitedDone
<1>4. j.mod \in Mods /\ j.loader \in BuildLoaders /\ j.mod \in q.present
  BY <1>2 DEF Request, Job, WalkCovers, ModsOf
<1>5. \A x \in ModsOf(q.jobs) : x = j.mod \/ x \in ModsOf(q.jobs \ {j})
  BY DEF ModsOf
<1>6. WalkCovers([pc |-> "walking", kind |-> q.kind, changes |-> q.changes,
                  jobs |-> q.jobs \ {j}, loader |-> j.loader,
                  graph |-> q.graph, present |-> q.present,
                  pending |-> Direct(q.graph, j.mod) \ {j.mod},
                  visited |-> {j.mod}, found |-> q.found],
                 owed[r], ModsOf(rows))
  <2>1. ModsOf(q.jobs \ {j}) \subseteq q.present
    BY <1>2 DEF WalkCovers, ModsOf
  <2>2. \A n \in owed[r] : n \in q.present \/
          \E x \in {j.mod} \cup ModsOf(q.jobs \ {j}) : n \in Required(q.graph, x)
    BY <1>2, <1>3, <1>5 DEF WalkCovers
  <2>3. owed[r] \cap q.present \subseteq ModsOf(rows) \cup Added(q)
    BY <1>2 DEF WalkCovers
  <2> QED
    BY <1>4, <2>1, <2>2, <2>3 DEF WalkCovers, Added
<1>7. q.jobs \ {j} \in SUBSET Job /\ q.present \in SUBSET Mods
        /\ q.found \in SUBSET Versions
        /\ Direct(q.graph, j.mod) \ {j.mod} \in SUBSET Mods
  BY <1>2 DEF Request, Direct
<1> QED
  BY <1>1, <1>2, <1>4, <1>6, <1>7, WalkKeeps

\* A mod is taken from the queue, and found if it was missing.
LEMMA ResolveCovers ==
  ASSUME NEW q \in Request, NEW o, NEW here, WalkCovers(q, o, here),
         NEW m \in q.pending, NEW found, q.found \subseteq found,
         m \in q.present \/ m \in {ModOf(v) : v \in found}
  PROVE  WalkCovers([pc |-> "walking", kind |-> q.kind, changes |-> q.changes,
                     jobs |-> q.jobs, loader |-> q.loader, graph |-> q.graph,
                     present |-> q.present \cup {m}, pending |-> Queue(q, m),
                     visited |-> q.visited \cup {m}, found |-> found], o, here)
<1> DEFINE p == [pc |-> "walking", kind |-> q.kind, changes |-> q.changes,
                 jobs |-> q.jobs, loader |-> q.loader, graph |-> q.graph,
                 present |-> q.present \cup {m}, pending |-> Queue(q, m),
                 visited |-> q.visited \cup {m}, found |-> found]
<1>0. /\ p.jobs = q.jobs /\ p.graph = q.graph /\ p.pending = Queue(q, m)
      /\ p.present = q.present \cup {m} /\ p.visited = q.visited \cup {m}
      /\ p.found = found /\ p.changes = q.changes
  OBVIOUS
<1> HIDE DEF p
<1>1. \A x \in p.visited : Direct(p.graph, x) \subseteq p.visited \cup p.pending
  BY <1>0 DEF WalkCovers, Queue
<1>2. \A n \in o : n \in p.present \/
        \E x \in p.visited \cup ModsOf(p.jobs) : n \in Required(p.graph, x)
  BY <1>0 DEF WalkCovers
<1>3. o \cap p.present \subseteq here \cup Added(p)
  <2>1. Added(q) \subseteq Added(p)
    BY <1>0 DEF Added
  <2>2. m \in q.present \/ m \in Added(p)
    BY <1>0 DEF Added
  <2> QED
    BY <1>0, <2>1, <2>2 DEF WalkCovers
<1>4. p.visited \subseteq p.present /\ ModsOf(p.jobs) \subseteq p.present
  BY <1>0 DEF WalkCovers
<1>5. WalkCovers(p, o, here)
  BY <1>1, <1>2, <1>3, <1>4 DEF WalkCovers
<1> QED
  BY <1>5 DEF p

LEMMA ResolveKeeps ==
  ASSUME IInv, NEW r \in Requests, NEW m \in Mods,
         ResolvePresent(r, m) \/ ResolveMissing(r, m)
  PROVE  IInv'
<1> DEFINE q == requests[r]
<1>1. q \in Request /\ WalkCovers(q, owed[r], ModsOf(rows)) /\ Walking(r)
        /\ m \in q.pending
  BY CoversWalk DEF ResolvePresent, ResolveMissing
<1>2. /\ q.jobs \in SUBSET Job /\ q.loader \in BuildLoaders
      /\ q.present \cup {m} \in SUBSET Mods /\ Queue(q, m) \in SUBSET Mods
      /\ q.visited \cup {m} \in SUBSET Mods /\ q.found \in SUBSET Versions
  BY <1>1 DEF Request, Queue, Direct
<1>3. CASE ResolvePresent(r, m)
  <2>1. q.present \cup {m} = q.present
    BY <1>3 DEF ResolvePresent
  <2>2. Walk(r, q.jobs, q.loader, q.present \cup {m}, Queue(q, m),
             q.visited \cup {m}, q.found)
    BY <1>3, <2>1 DEF ResolvePresent
  <2>3. m \in q.present
    BY <1>3 DEF ResolvePresent
  <2>4. WalkCovers([pc |-> "walking", kind |-> q.kind, changes |-> q.changes,
                    jobs |-> q.jobs, loader |-> q.loader, graph |-> q.graph,
                    present |-> q.present \cup {m}, pending |-> Queue(q, m),
                    visited |-> q.visited \cup {m}, found |-> q.found],
                   owed[r], ModsOf(rows))
    BY <1>1, <2>3, ResolveCovers
  <2> QED
    BY <1>1, <1>2, <2>2, <2>4, WalkKeeps
<1>4. CASE ResolveMissing(r, m)
  <2>1. PICK v \in Best(m, q.loader) :
          Walk(r, q.jobs, q.loader, q.present \cup {m}, Queue(q, m),
               q.visited \cup {m}, q.found \cup {v})
    BY <1>4 DEF ResolveMissing
  <2>2. v \in Versions /\ ModOf(v) = m
    BY DEF Best, Candidates
  <2>3. q.found \cup {v} \in SUBSET Versions
    BY <1>2, <2>2
  <2>4. m \in {ModOf(w) : w \in q.found \cup {v}}
    BY <2>2
  <2>5. WalkCovers([pc |-> "walking", kind |-> q.kind, changes |-> q.changes,
                    jobs |-> q.jobs, loader |-> q.loader, graph |-> q.graph,
                    present |-> q.present \cup {m}, pending |-> Queue(q, m),
                    visited |-> q.visited \cup {m}, found |-> q.found \cup {v}],
                   owed[r], ModsOf(rows))
    BY <1>1, <2>4, ResolveCovers
  <2> QED
    BY <1>1, <1>2, <2>1, <2>3, <2>5, WalkKeeps
<1> QED
  BY <1>3, <1>4

LEMMA ResolvedKeeps ==
  ASSUME IInv, NEW r \in Requests, Resolved(r)
  PROVE  IInv'
<1> DEFINE q == requests[r]
           p == [pc |-> "ready", kind |-> q.kind, changes |-> q.changes,
                 jobs |-> {}, loader |-> NoLoader, graph |-> {}, present |-> {},
                 pending |-> {}, visited |-> {}, found |-> q.found]
<1>1. q \in Request /\ WalkCovers(q, owed[r], ModsOf(rows))
        /\ q.pending = {} /\ q.jobs = {}
  BY CoversWalk DEF Resolved
<1>2. \A x \in q.visited : Required(q.graph, x) \subseteq q.present
  BY <1>1, VisitedDone
<1>3. owed[r] \subseteq q.present
  BY <1>1, <1>2 DEF WalkCovers, ModsOf
<1>4. owed[r] \subseteq ModsOf(rows) \cup Added(q)
  BY <1>1, <1>3 DEF WalkCovers
<1>5. p.pc = "ready" /\ p.found = q.found /\ p.changes = q.changes
  OBVIOUS
<1>6. p \in Request
  BY <1>1, LoaderTypes DEF Request
<1>7. requests' = [requests EXCEPT ![r] = p]
        /\ UNCHANGED <<rows, loader, deps, editors, owed, load>>
  BY DEF Resolved
<1>8. OwnVersions(p.changes)
  BY <1>5 DEF IInv
<1> HIDE DEF p
<1>9. Covers(p, owed[r], ModsOf(rows))
  BY <1>4, <1>5 DEF Covers, Added
<1> QED
  BY <1>6, <1>7, <1>8, <1>9, OneWalk

LEMMA FailKeeps ==
  ASSUME IInv, NEW r \in Requests, Fail(r) \/ RefuseApi(r)
  PROVE  IInv'
<1>1. OwnVersions(Idle.changes)
  BY DEF Idle, OwnVersions
<1>2. CASE Fail(r)
  BY <1>1, <1>2, IdleCovers, IdleType, OneRequest DEF Fail, End
<1>3. CASE RefuseApi(r)
  <2>1. Covers(Idle, owed[r], ModsOf(rows))
    BY DEF Covers, Idle
  <2> QED
    BY <1>1, <1>3, <2>1, IdleType, OneWalk DEF RefuseApi
<1> QED
  BY <1>2, <1>3

-----------------------------------------------------------------------------
(* The requests start                                                      *)

\* The loaders a job may have.
LEMMA JobLoaderType ==
  ASSUME TypeOK, NEW v \in Versions
  PROVE  JobLoader(v) \in BuildLoaders /\ ModOf(v) \in Mods
  BY BuildContentsAssumption, LoaderTypes
     DEF JobLoader, TypeOK, BuildLoaders, ModOf

LEMMA OpenSiteKeeps ==
  ASSUME IInv, NEW r \in Requests, NEW v \in Versions, OpenSite(r, v)
  PROVE  IInv'
<1>1. PICK no \in FirstRow(ModOf(v)) :
        Start(r, "site", {[mod |-> ModOf(v), no |-> no, version |-> v]},
              {[mod |-> ModOf(v), loader |-> JobLoader(v)]})
  BY DEF OpenSite
<1> DEFINE changes == {[mod |-> ModOf(v), no |-> no, version |-> v]}
           jobs == {[mod |-> ModOf(v), loader |-> JobLoader(v)]}
<1>2. no \in Nat /\ (no = 0 \/ ModOf(v) \in ModsOf(rows))
  BY DEF FirstRow, IInv, TypeOK, Row, ModsOf
<1>3. changes \in SUBSET Row /\ jobs \in SUBSET Job
  BY <1>2, JobLoaderType DEF IInv, Row, Job
<1>4. OwnVersions(changes) /\ ModsOf(jobs) = ModsOf(changes)
        /\ \A c \in changes : c.no = 0 \/ c.mod \in ModsOf(rows)
  BY <1>2 DEF OwnVersions, ModsOf
<1>5. Start(r, "site", changes, jobs)
  BY <1>1
<1> HIDE DEF changes, jobs
<1> QED
  BY <1>3, <1>4, <1>5, StartKeeps

LEMMA OpenAllKeeps ==
  ASSUME IInv, NEW r \in Requests, NEW preferred, OpenAll(r, preferred)
  PROVE  IInv'
<1> DEFINE changes == UNION {{[mod |-> row.mod, no |-> row.no, version |-> v] :
                                v \in Replacement(row, preferred) \ {row.version}} :
                                  row \in rows}
           jobs == {[mod |-> c.mod, loader |-> JobLoader(c.version)] : c \in changes}
<1>1. Start(r, "all", changes, jobs)
  BY DEF OpenAll
<1>2. \A row \in rows : \A v \in Replacement(row, preferred) :
        v \in Versions /\ ModOf(v) = row.mod
  BY DEF Replacement, Candidates
<1>3. \A c \in changes : c \in Row /\ ModOf(c.version) = c.mod
                         /\ c.mod \in ModsOf(rows)
  BY <1>2 DEF IInv, TypeOK, Row, ModsOf
<1> HIDE DEF changes
<1>4. jobs \in SUBSET Job
  BY <1>3, JobLoaderType DEF IInv, Row, Job
<1>5. ModsOf(jobs) = ModsOf(changes)
  <2>1. ASSUME NEW c \in changes PROVE c.mod \in ModsOf(jobs)
    <3>1. [mod |-> c.mod, loader |-> JobLoader(c.version)] \in jobs
      OBVIOUS
    <3> QED
      BY <3>1 DEF ModsOf
  <2>2. \A j \in jobs : \E c \in changes : j.mod = c.mod
    OBVIOUS
  <2> QED
    BY <2>1, <2>2 DEF ModsOf
<1> HIDE DEF jobs
<1> QED
  BY <1>1, <1>3, <1>4, <1>5, StartKeeps DEF OwnVersions

LEMMA ReadApiKeeps ==
  ASSUME IInv, NEW r \in Requests, NEW v \in Versions, ReadApi(r, v)
  PROVE  IInv'
<1> DEFINE q == [pc |-> "read", kind |-> "api",
                 changes |-> {[mod |-> ModOf(v), no |-> 0, version |-> v]},
                 jobs |-> {}, loader |-> ApiLoader(loader), graph |-> {},
                 present |-> {}, pending |-> {}, visited |-> {}, found |-> {}]
<1>1. q \in Request
  BY LoaderTypes, JobLoaderType DEF IInv, TypeOK, Request, Row
<1>2. OwnVersions(q.changes) /\ q.pc = "read"
  BY DEF OwnVersions
<1>3. requests' = [requests EXCEPT ![r] = q]
        /\ UNCHANGED <<rows, loader, deps, editors, owed, load>>
  BY DEF ReadApi
<1> HIDE DEF q
<1>4. Covers(q, owed[r], ModsOf(rows))
  BY <1>2 DEF Covers
<1> QED
  BY <1>1, <1>2, <1>3, <1>4, OneWalk

LEMMA StartApiKeeps ==
  ASSUME IInv, NEW r \in Requests, AddApi(r) \/ PutApi(r)
  PROVE  IInv'
<1>1. PICK no \in Nat, c \in requests[r].changes :
        /\ no = 0 \/ c.mod \in ModsOf(rows)
        /\ Start(r, "api", {[mod |-> c.mod, no |-> no, version |-> c.version]},
                 {[mod |-> c.mod, loader |-> requests[r].loader]})
  <2>1. CASE AddApi(r)
    BY <2>1 DEF AddApi, StartApi
  <2>2. CASE PutApi(r)
    <3>1. PICK row \in rows :
            /\ \A c \in requests[r].changes : c.mod = row.mod
            /\ StartApi(r, row.no)
      BY <2>2 DEF PutApi
    <3>2. row.no \in Nat /\ row.mod \in ModsOf(rows)
      BY DEF IInv, TypeOK, Row, ModsOf
    <3> QED
      BY <3>1, <3>2 DEF StartApi
  <2> QED
    BY <2>1, <2>2
<1> DEFINE changes == {[mod |-> c.mod, no |-> no, version |-> c.version]}
           jobs == {[mod |-> c.mod, loader |-> requests[r].loader]}
<1>2. c \in Row /\ ModOf(c.version) = c.mod /\ requests[r].loader \in BuildLoaders
  BY DEF IInv, TypeOK, Request, OwnVersions
<1>3. changes \in SUBSET Row /\ jobs \in SUBSET Job
  BY <1>2 DEF Row, Job
<1>4. OwnVersions(changes) /\ ModsOf(jobs) = ModsOf(changes)
        /\ \A d \in changes : d.no = 0 \/ d.mod \in ModsOf(rows)
  BY <1>1, <1>2 DEF OwnVersions, ModsOf
<1>5. Start(r, "api", changes, jobs)
  BY <1>1
<1> HIDE DEF changes, jobs
<1> QED
  BY <1>3, <1>4, <1>5, StartKeeps

-----------------------------------------------------------------------------
(* The build changes                                                       *)

\* No mod leaves the build, and no request changes.
LEMMA BuildKeeps ==
  ASSUME IInv, rows' \subseteq Row, OwnVersions(rows'), loader' \in BuildLoaders,
         deps' \subseteq Mods \X Mods, editors' \in [Editors -> Editor],
         ModsOf(rows) \subseteq ModsOf(rows'), UNCHANGED <<requests, owed, load>>
  PROVE  IInv'
<1>1. TypeOK'
  BY DEF IInv, TypeOK, OwnVersions
<1>2. ASSUME NEW p \in Requests
      PROVE  (OwnVersions(requests[p].changes)
               /\ Covers(requests[p], owed[p], ModsOf(rows)))'
  <2>1. OwnVersions(requests[p].changes)
          /\ Covers(requests[p], owed[p], ModsOf(rows))
    BY DEF IInv
  <2>2. Covers(requests[p], owed[p], ModsOf(rows'))
    BY <2>1, MoreIsHere
  <2> QED
    BY <2>1, <2>2 DEF OwnVersions, ModsOf, Covers, WalkCovers, Added
<1> QED
  BY <1>1, <1>2 DEF IInv

\* What a commit writes.
LEMMA Committed ==
  ASSUME IInv, NEW r \in Requests, Commit(r)
  PROVE  /\ rows' \subseteq Row /\ OwnVersions(rows')
         /\ ModsOf(rows) \cup Added(requests[r]) \subseteq ModsOf(rows')
         /\ loader' \in BuildLoaders
<1> DEFINE kept == {row \in rows : Changed(r, row) = {}}
           changed == UNION {Changed(r, row) : row \in rows}
           new == {[mod |-> ModOf(v), no |-> NewNo(ModOf(v)), version |-> v] :
                     v \in Inserts(r)}
<1>1. rows' = kept \cup changed \cup new
  BY DEF Commit
<1>2. \A c \in requests[r].changes : c \in Row /\ ModOf(c.version) = c.mod
  BY DEF IInv, TypeOK, Request, OwnVersions
<1>3. kept \subseteq Row /\ OwnVersions(kept)
  BY DEF IInv, TypeOK, OwnVersions
<1>4. changed \subseteq requests[r].changes
  BY DEF Changed
<1>5. new \subseteq Row /\ OwnVersions(new)
  <2>1. Inserts(r) \subseteq Versions
    BY <1>2 DEF Inserts, IInv, TypeOK, Request, Row
  <2>2. \A v \in Inserts(r) : NewNo(ModOf(v)) \in Nat
    BY DEF Commit, InsertedMods, NewNo, NewNos
  <2>3. \A v \in Versions : ModOf(v) \in Mods
    BY BuildContentsAssumption DEF ModOf
  <2>4. new \subseteq Row
    BY <2>1, <2>2, <2>3 DEF Row
  <2>5. OwnVersions(new)
    BY DEF OwnVersions
  <2> QED
    BY <2>4, <2>5
<1>6. ModsOf(rows) \subseteq ModsOf(kept) \cup ModsOf(changed)
  BY DEF ModsOf, Changed
<1>7. Added(requests[r]) \subseteq ModsOf(new)
  <2>1. ASSUME NEW v \in Inserts(r) PROVE ModOf(v) \in ModsOf(new)
    <3>1. [mod |-> ModOf(v), no |-> NewNo(ModOf(v)), version |-> v] \in new
      OBVIOUS
    <3> QED
      BY <3>1 DEF ModsOf
  <2>2. \A m \in Added(requests[r]) : \E v \in Inserts(r) : m = ModOf(v)
    BY <1>2 DEF Added, Inserts
  <2> QED
    BY <2>1, <2>2
<1>8. loader' \in BuildLoaders
  BY <1>2, LoaderTypes DEF Commit, IInv, TypeOK, Row
<1> HIDE DEF kept, changed, new
<1>9. rows' \subseteq Row /\ OwnVersions(rows')
  BY <1>1, <1>2, <1>3, <1>4, <1>5 DEF OwnVersions
<1>10. ModsOf(rows) \cup Added(requests[r]) \subseteq ModsOf(rows')
  BY <1>1, <1>6, <1>7 DEF ModsOf
<1> QED
  BY <1>8, <1>9, <1>10

LEMMA CommitKeeps ==
  ASSUME IInv, NEW r \in Requests, Commit(r)
  PROVE  IInv'
<1>1. /\ rows' \subseteq Row /\ OwnVersions(rows')
      /\ ModsOf(rows) \subseteq ModsOf(rows') /\ loader' \in BuildLoaders
  BY Committed
<1>2. /\ requests' = [requests EXCEPT ![r] = Idle]
      /\ owed' = [owed EXCEPT ![r] = {}]
      /\ UNCHANGED <<deps, editors, load>>
  BY DEF Commit, End
<1>3. TypeOK'
  BY <1>1, <1>2, IdleType DEF IInv, TypeOK, OwnVersions
<1>4. ASSUME NEW p \in Requests
      PROVE  (OwnVersions(requests[p].changes)
               /\ Covers(requests[p], owed[p], ModsOf(rows)))'
  <2>1. CASE p = r
    <3>1. requests'[p] = Idle /\ owed'[p] = {}
      BY <1>2, <2>1 DEF IInv, TypeOK
    <3>2. OwnVersions(Idle.changes) /\ Idle.pc = "idle"
      BY DEF OwnVersions, Idle
    <3> QED
      BY <3>1, <3>2 DEF OwnVersions, Covers
  <2>2. CASE p # r
    <3>1. requests'[p] = requests[p] /\ owed'[p] = owed[p]
      BY <1>2, <2>2 DEF IInv, TypeOK
    <3>2. OwnVersions(requests[p].changes)
            /\ Covers(requests[p], owed[p], ModsOf(rows))
      BY DEF IInv
    <3>3. Covers(requests[p], owed[p], ModsOf(rows'))
      BY <1>1, <3>2, MoreIsHere
    <3> QED
      BY <3>1, <3>2, <3>3 DEF OwnVersions, ModsOf, Covers, WalkCovers, Added
  <2> QED
    BY <2>1, <2>2
<1> QED
  BY <1>3, <1>4 DEF IInv

LEMMA UpdateKeeps ==
  ASSUME IInv, NEW old \in Versions, NEW v \in Versions, Update(old, v)
  PROVE  IInv'
<1> DEFINE found == {row \in rows : row.version = old}
           new == {[mod |-> row.mod, no |-> row.no, version |-> v] : row \in found}
<1>1. rows' = (rows \ found) \cup new
  BY DEF Update
<1>2. new \subseteq Row /\ OwnVersions(new) /\ ModsOf(found) \subseteq ModsOf(new)
  <2>1. ModOf(v) \in Mods /\ \A row \in found : row \in Row /\ row.mod = ModOf(v)
    BY BuildContentsAssumption DEF IInv, TypeOK, Row, Update, ModOf
  <2>2. new \subseteq Row
    BY <2>1 DEF Row
  <2>3. OwnVersions(new)
    BY <2>1 DEF OwnVersions
  <2>4. ASSUME NEW row \in found PROVE row.mod \in ModsOf(new)
    <3>1. [mod |-> row.mod, no |-> row.no, version |-> v] \in new
      OBVIOUS
    <3> QED
      BY <3>1 DEF ModsOf
  <2> QED
    BY <2>2, <2>3, <2>4 DEF ModsOf
<1>3. rows' \subseteq Row /\ OwnVersions(rows')
  BY <1>1, <1>2 DEF IInv, TypeOK, OwnVersions
<1>4. ModsOf(rows) \subseteq ModsOf(rows')
  BY <1>1, <1>2 DEF ModsOf
<1>5. loader' \in BuildLoaders
  BY LoaderTypes DEF Update, IInv, TypeOK
<1>6. deps' \subseteq Mods \X Mods /\ editors' \in [Editors -> Editor]
        /\ UNCHANGED <<requests, owed, load>>
  BY DEF Update, IInv, TypeOK
<1> QED
  BY <1>3, <1>4, <1>5, <1>6, BuildKeeps

LEMMA RemoveKeeps ==
  ASSUME IInv, NEW row \in rows, Remove(row)
  PROVE  IInv'
<1>1. /\ rows' = rows \ {row}
      /\ owed' = [r \in Requests |-> owed[r] \ {row.mod}]
      /\ UNCHANGED <<loader, deps, requests, editors, load>>
  BY DEF Remove
<1>2. TypeOK'
  BY <1>1 DEF IInv, TypeOK
<1>3. ModsOf(rows) \subseteq ModsOf(rows') \cup {row.mod}
  BY <1>1 DEF ModsOf
<1>4. ASSUME NEW p \in Requests
      PROVE  (OwnVersions(requests[p].changes)
               /\ Covers(requests[p], owed[p], ModsOf(rows)))'
  <2>1. OwnVersions(requests[p].changes)
          /\ Covers(requests[p], owed[p], ModsOf(rows))
    BY DEF IInv
  <2>2. Covers(requests[p], owed[p] \ {row.mod}, ModsOf(rows'))
    BY <1>3, <2>1, OneRemoved
  <2>3. owed'[p] = owed[p] \ {row.mod}
    BY <1>1
  <2> QED
    BY <1>1, <2>1, <2>2, <2>3 DEF OwnVersions, ModsOf, Covers, WalkCovers, Added
<1> QED
  BY <1>2, <1>4 DEF IInv

\* The loader, and what mods require.
LEMMA OtherEditsKeep ==
  ASSUME IInv,
         \/ \E l \in Loaders \cup {NoLoader} : EditBuild(l)
         \/ \E e \in Editors : EditDependencies(e)
         \/ \E m, n \in Mods : DeleteDependency(m, n)
  PROVE  IInv'
<1>1. rows' = rows /\ UNCHANGED <<requests, owed, load>>
  BY DEF EditBuild, EditDependencies, OpenEdit, CommitEdit, DeleteDependency
<1>2. loader' \in BuildLoaders
  BY DEF EditBuild, EditDependencies, OpenEdit, CommitEdit, DeleteDependency,
         IInv, TypeOK, BuildLoaders
<1>3. deps' \subseteq Mods \X Mods /\ editors' \in [Editors -> Editor]
  <2>1. CASE \E l \in Loaders \cup {NoLoader} : EditBuild(l)
    BY <2>1 DEF EditBuild, IInv, TypeOK
  <2>2. CASE \E m, n \in Mods : DeleteDependency(m, n)
    BY <2>2 DEF DeleteDependency, IInv, TypeOK
  <2>3. ASSUME NEW e \in Editors, EditDependencies(e)
        PROVE  deps' \subseteq Mods \X Mods /\ editors' \in [Editors -> Editor]
    <3>1. CASE CommitEdit(e)
      <4>1. IdleEditor \in Editor
        BY DEF IdleEditor, Editor
      <4>2. PICK m \in editors[e].mods :
              deps' = Edited(deps, editors[e].kind, m, editors[e].needs)
        BY <3>1 DEF CommitEdit
      <4>3. m \in Mods /\ editors[e].needs \subseteq Mods
        BY DEF IInv, TypeOK, Editor
      <4>4. deps' \subseteq Mods \X Mods
        BY <4>2, <4>3 DEF Edited, IInv, TypeOK
      <4> QED
        BY <3>1, <4>1, <4>4 DEF CommitEdit, IInv, TypeOK
    <3>2. ASSUME NEW m \in Mods, NEW needs \in SUBSET Mods,
                 NEW kind \in {"site", "api"}, OpenEdit(e, kind, m, needs)
          PROVE  deps' \subseteq Mods \X Mods /\ editors' \in [Editors -> Editor]
      BY <3>2 DEF OpenEdit, IInv, TypeOK, Editor
    <3>3. EditDependencies(e) =>
            CommitEdit(e) \/ \E m \in Mods, needs \in SUBSET Mods,
              kind \in {"site", "api"} : OpenEdit(e, kind, m, needs)
      BY DEF EditDependencies
    <3> QED
      BY <2>3, <3>1, <3>2, <3>3
  <2> QED
    BY <2>1, <2>2, <2>3
<1>4. rows' \subseteq Row /\ OwnVersions(rows') /\ ModsOf(rows) \subseteq ModsOf(rows')
  BY <1>1 DEF IInv, TypeOK, OwnVersions
<1> QED
  BY <1>1, <1>2, <1>3, <1>4, BuildKeeps

-----------------------------------------------------------------------------
LEMMA NextKeeps == IInv /\ [Next]_vars => IInv'
<1> SUFFICES ASSUME IInv, [Next]_vars PROVE IInv'
  OBVIOUS
<1>1. ASSUME NEW r \in Requests, Site(r) PROVE IInv'
  BY <1>1, OpenSiteKeeps, OpenAllKeeps DEF Site
<1>2. ASSUME NEW r \in Requests, Api(r) PROVE IInv'
  BY <1>2, ReadApiKeeps, StartApiKeeps, FailKeeps DEF Api
<1>3. ASSUME NEW r \in Requests, Transaction(r) PROVE IInv'
  BY <1>3, NextJobKeeps, ResolveKeeps, ResolvedKeeps, FailKeeps, CommitKeeps
     DEF Transaction
<1>4. CASE UNCHANGED vars
  <2>1. rows' \subseteq Row /\ OwnVersions(rows') /\ loader' \in BuildLoaders
          /\ deps' \subseteq Mods \X Mods /\ editors' \in [Editors -> Editor]
          /\ ModsOf(rows) \subseteq ModsOf(rows')
    BY <1>4 DEF vars, IInv, TypeOK, OwnVersions
  <2> QED
    BY <1>4, <2>1, BuildKeeps DEF vars
<1> QED
  BY <1>1, <1>2, <1>3, <1>4, UpdateKeeps, RemoveKeeps, OtherEditsKeep
     DEF Next, Requests

\* The invariant that is inductive: types, and what requests still owe.
THEOREM Inductive == Spec => []IInv
<1>1. Init => IInv
  BY Initial
<1>2. IInv /\ [Next]_vars => IInv'
  BY NextKeeps
<1> QED
  BY <1>1, <1>2, PTL DEF Spec

\* The build, its rows and the requests have their types.
THEOREM TypeCorrect == Spec => []TypeOK
<1>1. IInv => TypeOK
  BY DEF IInv
<1> QED
  BY <1>1, Inductive, PTL

\* Whatever other requests and editors do meanwhile, an add that commits leaves
\* the mods it touched in the build with all they require, directly or not,
\* except what was removed while it ran: _add_required_dependencies finds what
\* it has to find, with circles among the mods too.
THEOREM AddsComplete == Spec => AddsAreComplete
<1>1. IInv => [\A r \in Requests : Commit(r) => owed[r] \subseteq ModsOf(rows')]_vars
  <2> SUFFICES ASSUME IInv, NEW r \in Requests, Commit(r)
               PROVE  owed[r] \subseteq ModsOf(rows')
    OBVIOUS
  <2>1. owed[r] \subseteq ModsOf(rows) \cup Added(requests[r])
    BY DEF IInv, Covers, Commit
  <2> QED
    BY <2>1, Committed
<1> QED
  BY <1>1, Inductive, PTL DEF AddsAreComplete

-----------------------------------------------------------------------------
(* Circles                                                                 *)

\* Editors of required mods run one after another.
EditorsAlone == \A l \in Loads : \A e, f \in l \cap Editors : e = f

Acyclic(graph) ==
  \A m \in Mods : \A n \in Direct(graph, m) : m \notin Required(graph, n)

LEMMA RequiredIsClosed ==
  ASSUME NEW graph, NEW m \in Mods
  PROVE  /\ m \in Required(graph, m)
         /\ \A x \in Required(graph, m) :
              Direct(graph, x) \subseteq Required(graph, m)
  BY DEF Required, Direct

\* With fewer pairs a mod requires less.
LEMMA RequiredShrinks ==
  ASSUME NEW less, NEW graph, NEW m \in Mods,
         \A x \in Mods : Direct(less, x) \subseteq Direct(graph, x)
  PROVE  Required(less, m) \subseteq Required(graph, m)
<1> DEFINE S == Required(graph, m)
<1>1. S \in SUBSET Mods /\ m \in S /\ \A x \in S : Direct(graph, x) \subseteq S
  BY RequiredIsClosed, RequiredInMods
<1> HIDE DEF S
<1>2. \A x \in S : Direct(less, x) \subseteq S
  BY <1>1
<1>3. Required(less, m) \subseteq S
  BY <1>1, <1>2, RequiredIsLeast
<1> QED
  BY <1>3 DEF S

LEMMA FewerPairs ==
  ASSUME NEW less, NEW graph, Acyclic(graph),
         \A x \in Mods : Direct(less, x) \subseteq Direct(graph, x)
  PROVE  Acyclic(less)
<1> SUFFICES ASSUME NEW m \in Mods, NEW n \in Direct(less, m)
             PROVE  m \notin Required(less, n)
  BY DEF Acyclic
<1>1. n \in Mods /\ n \in Direct(graph, m)
  BY DEF Direct
<1>2. Required(less, n) \subseteq Required(graph, n)
  BY <1>1, RequiredShrinks
<1> QED
  BY <1>1, <1>2 DEF Acyclic

\* A mod may come to require others if none of them leads back to it.
LEMMA MorePairs ==
  ASSUME NEW graph, NEW m \in Mods, NEW needs \in SUBSET Mods, Acyclic(graph),
         NEW more, more = graph \cup {<<m, n>> : n \in needs},
         \A n \in needs : m \notin Required(more, n)
  PROVE  Acyclic(more)
<1>1. \A x \in Mods : Direct(graph, x) \subseteq Direct(more, x)
  BY DEF Direct
<1>2. \A x \in Mods \ {m} : Direct(more, x) = Direct(graph, x)
  BY DEF Direct
<1>3. Direct(more, m) = Direct(graph, m) \cup needs
  BY DEF Direct
<1> SUFFICES ASSUME NEW x \in Mods, NEW n \in Direct(more, x),
                    x \in Required(more, n)
             PROVE  FALSE
  BY DEF Acyclic
<1>4. n \in Mods
  BY DEF Direct
<1>5. n \in Direct(graph, x)
  \* x is not m: the new pairs lead to no way back to m.
  <2>1. CASE x = m
    BY <1>3, <2>1
  <2>2. CASE x # m
    BY <1>2, <2>2
  <2> QED
    BY <2>1, <2>2
<1>6. x \notin Required(graph, n)
  BY <1>5 DEF Acyclic
<1>7. m \in Required(graph, n)
  \* Otherwise n requires what it did before.
  <2> SUFFICES ASSUME m \notin Required(graph, n) PROVE FALSE
    OBVIOUS
  <2> DEFINE S == Required(graph, n)
  <2>1. S \in SUBSET Mods /\ n \in S /\ \A y \in S : Direct(graph, y) \subseteq S
    BY <1>4, RequiredIsClosed, RequiredInMods
  <2>2. m \notin S /\ x \notin S
    BY <1>6
  <2> HIDE DEF S
  <2>3. \A y \in S : Direct(more, y) \subseteq S
    BY <1>2, <2>1, <2>2
  <2>4. Required(more, n) \subseteq S
    BY <1>4, <2>1, <2>3, RequiredIsLeast
  <2> QED
    BY <2>2, <2>4
<1>8. m \in Required(more, n)
  BY <1>1, <1>4, <1>7, RequiredShrinks
\* So x is beyond m, and one of the needs leads to x, on to n and back to m.
<1>9. PICK k \in needs : x \in Required(more, k)
  <2> SUFFICES ASSUME \A k \in needs : x \notin Required(more, k) PROVE FALSE
    OBVIOUS
  <2> DEFINE S == Required(graph, n) \cup UNION {Required(more, k) : k \in needs}
  <2>1. S \in SUBSET Mods /\ n \in S
    BY <1>4, RequiredIsClosed, RequiredInMods
  <2>2. \A y \in S : Direct(more, y) \subseteq S
    <3>1. ASSUME NEW k \in needs, NEW y \in Required(more, k)
          PROVE  Direct(more, y) \subseteq S
      BY ZenonT(30), <3>1, RequiredIsClosed
    <3>2. ASSUME NEW y \in Required(graph, n), y # m
          PROVE  Direct(more, y) \subseteq S
      BY <1>2, <1>4, <3>2, RequiredIsClosed, RequiredInMods
    <3>3. Direct(more, m) \subseteq S
      <4>1. \A k \in needs : k \in Required(more, k)
        BY RequiredIsClosed
      <4>2. Direct(graph, m) \subseteq S
        BY <1>4, <1>7, RequiredIsClosed
      <4> QED
        BY <1>3, <4>1, <4>2
    <3>4. ASSUME NEW y \in S PROVE Direct(more, y) \subseteq S
      <4>1. CASE y = m
        BY <3>3, <4>1
      <4>2. CASE y # m /\ y \in Required(graph, n)
        BY <3>2, <4>2
      <4>3. CASE \E k \in needs : y \in Required(more, k)
        BY <3>1, <4>3
      <4> QED
        BY <4>1, <4>2, <4>3
    <3> HIDE DEF S
    <3> QED
      BY <3>4
  <2>3. x \notin S
    BY <1>6
  <2> HIDE DEF S
  <2>4. Required(more, n) \subseteq S
    BY <1>4, <2>1, <2>2, RequiredIsLeast
  <2> QED
    BY <2>3, <2>4
<1>10. n \in Required(more, k)
  BY <1>9, RequiredIsClosed
<1>11. Required(more, n) \subseteq Required(more, k)
  <2> DEFINE S == Required(more, k)
  <2>1. S \in SUBSET Mods /\ n \in S /\ \A y \in S : Direct(more, y) \subseteq S
    BY <1>10, RequiredIsClosed, RequiredInMods
  <2> HIDE DEF S
  <2>2. Required(more, n) \subseteq S
    BY <1>4, <2>1, RequiredIsLeast
  <2> QED
    BY <2>2 DEF S
<1> QED
  BY <1>8, <1>9, <1>11

\* What an editor writes, it has found free of circles.
Searched(graph, q) ==
  \A m \in q.mods : \A n \in q.needs :
    m \notin Required(Edited(graph, q.kind, m, q.needs), n)

CirclesInv ==
  /\ NoCircles
  /\ \A e \in Editors :
       editors[e].pc = "open" => e \in load /\ Searched(deps, editors[e])

\* It stays so while only pairs go.
LEMMA SearchedStays ==
  ASSUME NEW less, NEW graph, less \subseteq graph,
         NEW q \in Editor, Searched(graph, q)
  PROVE  Searched(less, q)
<1> SUFFICES ASSUME NEW m \in q.mods, NEW n \in q.needs
             PROVE  m \notin Required(Edited(less, q.kind, m, q.needs), n)
  BY DEF Searched
<1>1. n \in Mods
  BY DEF Editor
<1>2. Edited(less, q.kind, m, q.needs) \subseteq Edited(graph, q.kind, m, q.needs)
  BY DEF Edited
<1>3. \A x \in Mods : Direct(Edited(less, q.kind, m, q.needs), x)
                        \subseteq Direct(Edited(graph, q.kind, m, q.needs), x)
  BY <1>2 DEF Direct
<1>4. Required(Edited(less, q.kind, m, q.needs), n)
        \subseteq Required(Edited(graph, q.kind, m, q.needs), n)
  BY <1>1, <1>3, RequiredShrinks
<1> QED
  BY <1>4 DEF Searched

\* One write of pairs that were searched makes no circle.
LEMMA EditedIsAcyclic ==
  ASSUME NEW graph, NEW kind, NEW m \in Mods, NEW needs \in SUBSET Mods,
         Acyclic(graph), \A n \in needs : m \notin Required(Edited(graph, kind, m, needs), n)
  PROVE  Acyclic(Edited(graph, kind, m, needs))
<1> DEFINE base == IF kind = "api" THEN {e \in graph : e[1] # m} ELSE graph
           more == Edited(graph, kind, m, needs)
<1>1. more = base \cup {<<m, n>> : n \in needs}
  BY DEF Edited
<1>2. base \subseteq graph
  OBVIOUS
<1> HIDE DEF base, more
<1>3. Acyclic(base)
  <2>1. \A x \in Mods : Direct(base, x) \subseteq Direct(graph, x)
    BY <1>2 DEF Direct
  <2> QED
    BY <2>1, FewerPairs
<1>4. \A n \in needs : m \notin Required(more, n)
  BY DEF more
<1>5. Acyclic(more)
  BY <1>1, <1>3, <1>4, MorePairs
<1> QED
  BY <1>5 DEF more

\* All other steps leave the pairs and the editors alone.
LEMMA OtherSteps ==
  ASSUME [Next]_vars
  PROVE  \/ UNCHANGED <<deps, editors, load>>
         \/ \E e \in load \cap Editors : EditDependencies(e)
         \/ \E m, n \in Mods : DeleteDependency(m, n)
<1>1. ASSUME NEW r, Site(r) PROVE UNCHANGED <<deps, editors, load>>
  BY <1>1 DEF Site, OpenSite, OpenAll, Start
<1>2. ASSUME NEW r, Api(r) PROVE UNCHANGED <<deps, editors, load>>
  BY <1>2 DEF Api, ReadApi, AddApi, PutApi, RefuseApi, StartApi, Start
<1>3. ASSUME NEW r, Transaction(r) PROVE UNCHANGED <<deps, editors, load>>
  BY <1>3 DEF Transaction, NextJob, ResolvePresent, ResolveMissing, Walk,
              Resolved, Fail, Commit
<1>4. ASSUME NEW old, NEW v, Update(old, v) PROVE UNCHANGED <<deps, editors, load>>
  BY <1>4 DEF Update
<1>5. ASSUME NEW row, Remove(row) PROVE UNCHANGED <<deps, editors, load>>
  BY <1>5 DEF Remove
<1>6. ASSUME NEW l, EditBuild(l) PROVE UNCHANGED <<deps, editors, load>>
  BY <1>6 DEF EditBuild
<1> QED
  BY <1>1, <1>2, <1>3, <1>4, <1>5, <1>6 DEF Next, vars

LEMMA OpenEditCircles ==
  ASSUME TypeOK, CirclesInv, NEW e \in load \cap Editors, NEW m \in Mods,
         NEW needs \in SUBSET Mods, NEW kind \in {"site", "api"},
         OpenEdit(e, kind, m, needs)
  PROVE  CirclesInv'
<1> DEFINE q == [pc |-> "open", kind |-> kind, mods |-> {m}, needs |-> needs]
<1>1. Searched(deps, q)
  BY DEF OpenEdit, Searched
<1>2. editors' = [editors EXCEPT ![e] = q] /\ UNCHANGED <<deps, load>>
  BY DEF OpenEdit
<1> HIDE DEF q
<1>3. NoCircles'
  BY <1>2 DEF CirclesInv, NoCircles
<1>4. ASSUME NEW f \in Editors, editors'[f].pc = "open"
      PROVE  f \in load' /\ Searched(deps', editors'[f])
  <2>1. CASE f = e
    BY <1>1, <1>2, <2>1 DEF TypeOK
  <2>2. CASE f # e
    <3>1. editors'[f] = editors[f]
      BY <1>2, <2>2 DEF TypeOK
    <3> QED
      BY <1>2, <1>4, <3>1 DEF CirclesInv
  <2> QED
    BY <2>1, <2>2
<1>5. ASSUME NEW f \in Editors, (editors[f].pc = "open")'
      PROVE  (f \in load /\ Searched(deps, editors[f]))'
  BY <1>4, <1>5 DEF Searched
<1> QED
  BY <1>3, <1>5 DEF CirclesInv

LEMMA CommitEditCircles ==
  ASSUME EditorsAlone, TypeOK, CirclesInv, NEW e \in load \cap Editors,
         CommitEdit(e)
  PROVE  CirclesInv'
<1>1. PICK m \in editors[e].mods :
        deps' = Edited(deps, editors[e].kind, m, editors[e].needs)
  BY DEF CommitEdit
<1>2. m \in Mods /\ editors[e].needs \in SUBSET Mods
  BY DEF TypeOK, Editor
<1>3. Acyclic(deps)
  BY DEF CirclesInv, NoCircles, Acyclic
<1>4. \A n \in editors[e].needs :
        m \notin Required(Edited(deps, editors[e].kind, m, editors[e].needs), n)
  BY DEF CirclesInv, Searched, CommitEdit
<1>5. Acyclic(deps')
  BY <1>1, <1>2, <1>3, <1>4, EditedIsAcyclic
<1>6. NoCircles'
  BY <1>5 DEF NoCircles, Acyclic
<1>7. ASSUME NEW f \in Editors PROVE (editors[f].pc # "open")'
  <2>1. editors' = [editors EXCEPT ![e] = IdleEditor]
    BY DEF CommitEdit
  <2>2. CASE f = e
    BY <2>1, <2>2 DEF TypeOK, IdleEditor
  <2>3. CASE f # e
    <3>1. f \notin load
      BY <2>3 DEF EditorsAlone, TypeOK
    <3> QED
      BY <2>1, <2>3, <3>1 DEF TypeOK, CirclesInv
  <2> QED
    BY <2>2, <2>3
<1> QED
  BY <1>6, <1>7 DEF CirclesInv

LEMMA DeleteDependencyCircles ==
  ASSUME TypeOK, CirclesInv, NEW m \in Mods, NEW n \in Mods, DeleteDependency(m, n)
  PROVE  CirclesInv'
<1>1. deps' \subseteq deps /\ UNCHANGED <<editors, load>>
  BY DEF DeleteDependency
<1>2. \A x \in Mods : Direct(deps', x) \subseteq Direct(deps, x)
  BY <1>1 DEF Direct
<1>3. Acyclic(deps)
  BY DEF CirclesInv, NoCircles, Acyclic
<1>4. Acyclic(deps')
  BY <1>2, <1>3, FewerPairs
<1>5. ASSUME NEW e \in Editors, (editors[e].pc = "open")'
      PROVE  (e \in load /\ Searched(deps, editors[e]))'
  <2>1. e \in load /\ Searched(deps, editors[e]) /\ editors[e] \in Editor
    BY <1>1, <1>5 DEF CirclesInv, TypeOK
  <2>2. Searched(deps', editors[e])
    BY <1>1, <2>1, SearchedStays
  <2> QED
    BY <1>1, <2>1, <2>2 DEF Searched
<1> QED
  BY <1>4, <1>5 DEF CirclesInv, NoCircles, Acyclic

\* Adding one relationship after another, by ModDependency.add and
\* _sync_dependencies, while others delete some, never makes a circle.
THEOREM OneEditorNoCircles ==
  ASSUME EditorsAlone
  PROVE  Spec => []NoCircles
<1>1. Init => CirclesInv
  <2> SUFFICES ASSUME Init PROVE CirclesInv
    OBVIOUS
  <2>1. \A e \in Editors : editors[e].pc = "idle"
    BY DEF Init, IdleEditor
  <2> QED
    BY <2>1 DEF CirclesInv, Init
<1>2. TypeOK /\ CirclesInv /\ [Next]_vars => CirclesInv'
  <2> SUFFICES ASSUME TypeOK, CirclesInv, [Next]_vars PROVE CirclesInv'
    OBVIOUS
  <2>1. CASE UNCHANGED <<deps, editors, load>>
    BY <2>1 DEF CirclesInv, NoCircles, Searched
  <2>2. ASSUME NEW e \in load \cap Editors, EditDependencies(e)
        PROVE  CirclesInv'
    <3>1. \/ CommitEdit(e)
          \/ \E m \in Mods : \E needs \in SUBSET Mods, kind \in {"site", "api"} :
               OpenEdit(e, kind, m, needs)
      BY <2>2 DEF EditDependencies
    <3> QED
      BY <3>1, OpenEditCircles, CommitEditCircles
  <2>3. ASSUME NEW m \in Mods, NEW n \in Mods, DeleteDependency(m, n)
        PROVE  CirclesInv'
    BY <2>3, DeleteDependencyCircles
  <2> QED
    BY <2>1, <2>2, <2>3, OtherSteps
<1>3. CirclesInv => NoCircles
  BY DEF CirclesInv
<1> QED
  BY <1>1, <1>2, <1>3, TypeCorrect, PTL DEF Spec

-----------------------------------------------------------------------------
(* What the management site adds                                           *)

\* The version v and all that was found for it fit the loader l, which is the
\* one the request resolves with.
WalkFits(q, v, l) ==
  /\ Fits(v, l)
  /\ \A w \in q.found : Fits(w, l)
  /\ \A j \in q.jobs : j.loader = l
  /\ q.pending # {} => q.loader = l

\* They fit the loader that a build with the loader l has after the request.
SiteFits(q, l) ==
  \E c \in q.changes :
    /\ q.changes = {c}
    /\ WalkFits(q, c.version, SiteLoader(Synced(c.version, l)))

FitInv ==
  /\ \A p, q \in Requests : LocksBuild(p) /\ LocksBuild(q) => p = q
  /\ \A r \in Requests :
       Adding(r) /\ requests[r].kind = "site" => SiteFits(requests[r], loader)

\* A launcher's loader is the one its build reads afterwards.
LEMMA JobLoaderIsSynced ==
  ASSUME NEW v \in Versions, loader \in BuildLoaders
  PROVE  JobLoader(v) = SiteLoader(Synced(v, loader))
  BY BuildContentsAssumption
     DEF JobLoader, SiteLoader, Synced, BuildLoaders, NoLoader, Unnamed, ModOf

\* A version that fits the build fits the build with it.
LEMMA FitsSynced ==
  ASSUME NEW v \in Versions, loader \in BuildLoaders, Fits(v, SiteLoader(loader))
  PROVE  Fits(v, SiteLoader(Synced(v, loader)))
  BY BuildContentsAssumption
     DEF Fits, SiteLoader, Synced, BuildLoaders, NoLoader, Unnamed, ModOf

\* The state of one request becomes q, and the loader stays.
LEMMA OneFits ==
  ASSUME TypeOK, FitInv, NEW r \in Requests, NEW q,
         requests' = [requests EXCEPT ![r] = q], loader' = loader,
         q.pc \in {"walking", "ready"} /\ q.kind \in {"site", "all"} =>
           LocksBuild(r) \/ \A p \in Requests : ~LocksBuild(p),
         q.pc \in {"walking", "ready"} /\ q.kind = "site" => SiteFits(q, loader)
  PROVE  FitInv'
<1>1. requests'[r] = q /\ \A p \in Requests \ {r} : requests'[p] = requests[p]
  BY DEF TypeOK
<1>2. ASSUME NEW p \in Requests, LocksBuild(p)'
      PROVE  LocksBuild(p) \/ (p = r /\ \A o \in Requests : ~LocksBuild(o))
  BY <1>1, <1>2 DEF LocksBuild, Adding
<1>3. ASSUME NEW p \in Requests, NEW o \in Requests,
             LocksBuild(p)', LocksBuild(o)'
      PROVE  p = o
  BY <1>2, <1>3 DEF FitInv
<1>4. ASSUME NEW p \in Requests, (Adding(p) /\ requests[p].kind = "site")'
      PROVE  SiteFits(requests[p], loader)'
  <2>1. SiteFits(requests'[p], loader)
    BY <1>1, <1>4 DEF FitInv, Adding
  <2> QED
    BY <2>1 DEF SiteFits, WalkFits
<1> QED
  BY <1>3, <1>4 DEF FitInv

LEMMA OpenSiteFits ==
  ASSUME TypeOK, FitInv, NEW r \in Requests, NEW v \in Versions, OpenSite(r, v)
  PROVE  FitInv'
<1>1. PICK no \in FirstRow(ModOf(v)) :
        Start(r, "site", {[mod |-> ModOf(v), no |-> no, version |-> v]},
              {[mod |-> ModOf(v), loader |-> JobLoader(v)]})
  BY DEF OpenSite
<1> DEFINE c == [mod |-> ModOf(v), no |-> no, version |-> v]
           q == [pc |-> "walking", kind |-> "site", changes |-> {c},
                 jobs |-> {[mod |-> ModOf(v), loader |-> JobLoader(v)]},
                 loader |-> NoLoader, graph |-> deps,
                 present |-> ModsOf(rows) \cup ModsOf({c}),
                 pending |-> {}, visited |-> {}, found |-> {}]
<1>2. requests' = [requests EXCEPT ![r] = q] /\ loader' = loader
  BY <1>1 DEF Start
<1>3. \A p \in Requests : ~LocksBuild(p)
  BY DEF OpenSite
<1>4. Fits(v, SiteLoader(Synced(v, loader)))
        /\ JobLoader(v) = SiteLoader(Synced(v, loader))
  BY FitsSynced, JobLoaderIsSynced DEF OpenSite, TypeOK
<1>5. WalkFits(q, v, SiteLoader(Synced(v, loader)))
  BY <1>4 DEF WalkFits
<1>6. c \in q.changes /\ q.changes = {c} /\ c.version = v
  OBVIOUS
<1> HIDE DEF q, c
<1>7. SiteFits(q, loader)
  BY <1>5, <1>6 DEF SiteFits
<1> QED
  BY <1>2, <1>3, <1>7, OneFits

LEMMA StartFits ==
  ASSUME TypeOK, FitInv, NEW r \in Requests, NEW kind \in {"api", "all"},
         NEW changes, NEW jobs, Start(r, kind, changes, jobs),
         kind = "all" => \A p \in Requests : ~LocksBuild(p)
  PROVE  FitInv'
<1> DEFINE q == [pc |-> "walking", kind |-> kind, changes |-> changes,
                 jobs |-> jobs, loader |-> NoLoader, graph |-> deps,
                 present |-> ModsOf(rows) \cup ModsOf(changes),
                 pending |-> {}, visited |-> {}, found |-> {}]
<1>1. requests' = [requests EXCEPT ![r] = q] /\ loader' = loader
  BY DEF Start
<1>2. q.kind = kind
  OBVIOUS
<1>3. q.kind = "all" => \A p \in Requests : ~LocksBuild(p)
  BY <1>2
<1>4. q.kind # "site"
  BY <1>2
<1> HIDE DEF q
<1> QED
  BY <1>1, <1>3, <1>4, OneFits

\* A request that ends, is refused or only reads.
LEMMA IdleFits ==
  ASSUME TypeOK, FitInv, NEW r \in Requests, NEW q,
         requests' = [requests EXCEPT ![r] = q], loader' = loader,
         q.pc \in {"idle", "read"}
  PROVE  FitInv'
  BY OneFits

\* What a request has left and has found after a step of its walk fits, if it
\* did before.
LEMMA WalkStepFits ==
  ASSUME TypeOK, FitInv, NEW r \in Requests, Walking(r), NEW jobs, NEW l,
         NEW present, NEW pending, NEW visited, NEW found,
         Walk(r, jobs, l, present, pending, visited, found),
         \A v, fit : WalkFits(requests[r], v, fit) =>
           /\ \A w \in found : Fits(w, fit)
           /\ \A j \in jobs : j.loader = fit
           /\ pending # {} => l = fit
  PROVE  FitInv'
<1> DEFINE q == [pc |-> "walking", kind |-> requests[r].kind,
                 changes |-> requests[r].changes, jobs |-> jobs, loader |-> l,
                 graph |-> requests[r].graph, present |-> present,
                 pending |-> pending, visited |-> visited, found |-> found]
<1>1. requests' = [requests EXCEPT ![r] = q] /\ loader' = loader
  BY DEF Walk
<1>2. q.kind = requests[r].kind /\ q.changes = requests[r].changes
  OBVIOUS
<1>3. \A v, fit : WalkFits(requests[r], v, fit) => WalkFits(q, v, fit)
  BY DEF WalkFits
<1> HIDE DEF q
<1>4. q.kind \in {"site", "all"} => LocksBuild(r)
  BY <1>2 DEF LocksBuild, Adding, Walking
<1>5. q.kind = "site" => SiteFits(q, loader)
  BY <1>2, <1>3 DEF FitInv, SiteFits, Adding, Walking
<1> QED
  BY <1>1, <1>4, <1>5, OneFits

LEMMA NextJobFits ==
  ASSUME TypeOK, FitInv, NEW r \in Requests, NextJob(r)
  PROVE  FitInv'
<1>1. PICK j \in requests[r].jobs :
        Walk(r, requests[r].jobs \ {j}, j.loader, requests[r].present,
             Direct(requests[r].graph, j.mod) \ {j.mod}, {j.mod},
             requests[r].found)
  BY DEF NextJob
<1>2. Walking(r)
  BY DEF NextJob
<1> QED
  BY <1>1, <1>2, WalkStepFits DEF WalkFits

LEMMA ResolveFits ==
  ASSUME TypeOK, FitInv, NEW r \in Requests, NEW m \in Mods,
         ResolvePresent(r, m) \/ ResolveMissing(r, m)
  PROVE  FitInv'
<1> DEFINE q == requests[r]
<1>1. Walking(r) /\ q.pending # {}
  BY DEF ResolvePresent, ResolveMissing
<1>2. CASE ResolvePresent(r, m)
  <2>1. Walk(r, q.jobs, q.loader, q.present, Queue(q, m), q.visited \cup {m}, q.found)
    BY <1>2 DEF ResolvePresent
  <2> QED
    BY <1>1, <2>1, WalkStepFits DEF WalkFits
<1>3. CASE ResolveMissing(r, m)
  <2>1. PICK v \in Best(m, q.loader) :
          Walk(r, q.jobs, q.loader, q.present \cup {m}, Queue(q, m),
               q.visited \cup {m}, q.found \cup {v})
    BY <1>3 DEF ResolveMissing
  <2>2. Fits(v, q.loader)
    BY DEF Best, Candidates
  <2>3. \A w, fit : WalkFits(q, w, fit) =>
          /\ \A x \in q.found \cup {v} : Fits(x, fit)
          /\ \A j \in q.jobs : j.loader = fit
          /\ q.loader = fit
    BY <1>1, <2>2 DEF WalkFits
  <2> QED
    BY <1>1, <2>1, <2>3, WalkStepFits
<1> QED
  BY <1>2, <1>3

LEMMA ResolvedFits ==
  ASSUME TypeOK, FitInv, NEW r \in Requests, Resolved(r)
  PROVE  FitInv'
<1> DEFINE q == [pc |-> "ready", kind |-> requests[r].kind,
                 changes |-> requests[r].changes, jobs |-> {},
                 loader |-> NoLoader, graph |-> {}, present |-> {},
                 pending |-> {}, visited |-> {}, found |-> requests[r].found]
<1>1. requests' = [requests EXCEPT ![r] = q] /\ loader' = loader
  BY DEF Resolved
<1>2. q.kind = requests[r].kind /\ q.changes = requests[r].changes
  OBVIOUS
<1>3. \A v, fit : WalkFits(requests[r], v, fit) => WalkFits(q, v, fit)
  BY DEF WalkFits
<1>4. Walking(r)
  BY DEF Resolved
<1> HIDE DEF q
<1>5. q.kind \in {"site", "all"} => LocksBuild(r)
  BY <1>2, <1>4 DEF LocksBuild, Adding, Walking
<1>6. q.kind = "site" => SiteFits(q, loader)
  BY <1>2, <1>3, <1>4 DEF FitInv, SiteFits, Adding, Walking
<1> QED
  BY <1>1, <1>5, <1>6, OneFits

LEMMA FailFits ==
  ASSUME TypeOK, FitInv, NEW r \in Requests, Fail(r) \/ RefuseApi(r)
  PROVE  FitInv'
<1>1. requests' = [requests EXCEPT ![r] = Idle] /\ loader' = loader
  BY DEF Fail, End, RefuseApi
<1>2. Idle.pc = "idle"
  BY DEF Idle
<1> QED
  BY <1>1, <1>2, IdleFits

LEMMA ReadApiFits ==
  ASSUME TypeOK, FitInv, NEW r \in Requests, NEW v \in Versions, ReadApi(r, v)
  PROVE  FitInv'
<1> DEFINE q == [pc |-> "read", kind |-> "api",
                 changes |-> {[mod |-> ModOf(v), no |-> 0, version |-> v]},
                 jobs |-> {}, loader |-> ApiLoader(loader), graph |-> {},
                 present |-> {}, pending |-> {}, visited |-> {}, found |-> {}]
<1>1. requests' = [requests EXCEPT ![r] = q] /\ loader' = loader
  BY DEF ReadApi
<1>2. q.pc = "read"
  OBVIOUS
<1> HIDE DEF q
<1> QED
  BY <1>1, <1>2, IdleFits

\* While a request of the management site runs nobody changes the loader.
LEMMA LoaderFits ==
  ASSUME FitInv, UNCHANGED requests,
         loader' = loader \/ \A q \in Requests : ~LocksBuild(q)
  PROVE  FitInv'
<1>1. ASSUME NEW p \in Requests, NEW o \in Requests, LocksBuild(p)', LocksBuild(o)'
      PROVE  p = o
  BY <1>1 DEF FitInv, LocksBuild, Adding
<1>2. ASSUME NEW p \in Requests, (Adding(p) /\ requests[p].kind = "site")'
      PROVE  SiteFits(requests[p], loader)'
  <2>1. loader' = loader
    BY <1>2 DEF LocksBuild, Adding
  <2>2. SiteFits(requests[p], loader)
    BY <1>2 DEF FitInv, Adding
  <2> QED
    BY <2>1, <2>2 DEF SiteFits, WalkFits
<1> QED
  BY <1>1, <1>2 DEF FitInv

LEMMA CommitFits ==
  ASSUME TypeOK, FitInv, NEW r \in Requests, Commit(r)
  PROVE  FitInv'
<1>1. requests' = [requests EXCEPT ![r] = Idle]
  BY DEF Commit, End
<1>2. requests'[r] = Idle /\ \A p \in Requests \ {r} : requests'[p] = requests[p]
  BY <1>1 DEF TypeOK
<1>3. ~Adding(r)'
  BY <1>2 DEF Adding, Idle
<1>4. ASSUME NEW p \in Requests, NEW o \in Requests, LocksBuild(p)', LocksBuild(o)'
      PROVE  p = o
  BY <1>2, <1>3, <1>4 DEF FitInv, LocksBuild, Adding
<1>5. ASSUME NEW p \in Requests, (Adding(p) /\ requests[p].kind = "site")'
      PROVE  SiteFits(requests[p], loader)'
  <2>1. p # r /\ LocksBuild(p) /\ requests'[p] = requests[p]
    BY <1>2, <1>3, <1>5 DEF LocksBuild, Adding
  <2>2. ~LocksBuild(r)
    BY <2>1 DEF FitInv
  <2>3. requests[r].kind = "api"
    BY <2>2 DEF LocksBuild, Adding, Commit, TypeOK, Request
  <2>4. loader' = loader
    BY <2>3 DEF Commit
  <2>5. SiteFits(requests[p], loader)
    BY <1>5, <2>1 DEF FitInv, Adding
  <2> QED
    BY <2>1, <2>4, <2>5 DEF SiteFits, WalkFits
<1> QED
  BY <1>4, <1>5 DEF FitInv

LEMMA FitStep ==
  ASSUME TypeOK, FitInv, [Next]_vars
  PROVE  FitInv'
<1>1. ASSUME NEW r \in Requests, Site(r) PROVE FitInv'
  <2>1. ASSUME NEW preferred, OpenAll(r, preferred) PROVE FitInv'
    <3>1. \E changes, jobs : Start(r, "all", changes, jobs)
      BY <2>1 DEF OpenAll
    <3>2. \A p \in Requests : ~LocksBuild(p)
      BY <2>1 DEF OpenAll
    <3> QED
      BY <3>1, <3>2, StartFits
  <2> QED
    BY <1>1, <2>1, OpenSiteFits DEF Site
<1>2. ASSUME NEW r \in Requests, Api(r) PROVE FitInv'
  <2>1. ASSUME NEW no, StartApi(r, no) PROVE FitInv'
    <3>1. \E changes, jobs : Start(r, "api", changes, jobs)
      BY <2>1 DEF StartApi
    <3> QED
      BY <3>1, StartFits
  <2> QED
    BY <1>2, <2>1, ReadApiFits, FailFits DEF Api, AddApi, PutApi
<1>3. ASSUME NEW r \in Requests, Transaction(r) PROVE FitInv'
  BY <1>3, NextJobFits, ResolveFits, ResolvedFits, FailFits, CommitFits
     DEF Transaction
<1>4. ASSUME NEW old \in Versions, NEW v \in Versions, Update(old, v)
      PROVE  FitInv'
  <2>1. UNCHANGED requests
    BY <1>4 DEF Update
  <2>2. loader' = loader \/ \A q \in Requests : ~LocksBuild(q)
    BY <1>4 DEF Update, Synced
  <2> QED
    BY <2>1, <2>2, LoaderFits
<1>5. ASSUME NEW l, EditBuild(l) PROVE FitInv'
  BY <1>5, LoaderFits DEF EditBuild
<1>6. CASE UNCHANGED <<requests, loader>>
  BY <1>6, LoaderFits
<1>7. ASSUME NEW row, Remove(row) PROVE UNCHANGED <<requests, loader>>
  BY <1>7 DEF Remove
<1>8. ASSUME NEW e, EditDependencies(e) PROVE UNCHANGED <<requests, loader>>
  BY <1>8 DEF EditDependencies, OpenEdit, CommitEdit
<1>9. ASSUME NEW m, NEW n, DeleteDependency(m, n)
      PROVE  UNCHANGED <<requests, loader>>
  BY <1>9 DEF DeleteDependency
<1> QED
  BY <1>1, <1>2, <1>3, <1>4, <1>5, <1>6, <1>7, <1>8, <1>9
     DEF Next, vars, Requests

\* Among any requests that run at once, what a request of the management site
\* adds fits the loader of the build it leaves behind, although the loader that
\* it resolves required mods with is computed before the launcher is written:
\* the lock of the build's row lets nobody change the loader in between.
THEOREM SiteAddsFitTheLoader == Spec => SiteAddsFit
<1>1. Init => FitInv
  BY DEF Init, FitInv, LocksBuild, Adding, Idle
<1>2. TypeOK /\ FitInv /\ [Next]_vars => FitInv'
  BY FitStep
<1>3. IInv /\ FitInv =>
        [\A r \in Requests : Commit(r) /\ requests[r].kind = "site" =>
           \A row \in rows' \ rows : Fits(row.version, SiteLoader(loader'))]_vars
  <2> SUFFICES ASSUME IInv, FitInv, NEW r \in Requests, Commit(r),
                      requests[r].kind = "site", NEW row \in rows' \ rows
               PROVE  Fits(row.version, SiteLoader(loader'))
    OBVIOUS
  <2>1. PICK c \in requests[r].changes :
          /\ requests[r].changes = {c}
          /\ WalkFits(requests[r], c.version, SiteLoader(Synced(c.version, loader)))
    BY DEF FitInv, SiteFits, Adding, Commit
  <2>2. ModOf(c.version) = c.mod
    BY DEF IInv, OwnVersions
  <2>3. loader' = Synced(c.version, loader)
    <3>1. CASE c.mod \in Launchers
      BY <2>1, <3>1 DEF Commit
    <3>2. CASE c.mod \notin Launchers
      BY <2>1, <2>2, <3>2 DEF Commit, Synced
    <3> QED
      BY <3>1, <3>2
  <2>4. row.version = c.version \/ row.version \in requests[r].found
    BY <2>1 DEF Commit, Changed, Inserts
  <2> QED
    BY <2>1, <2>3, <2>4 DEF WalkFits
<1>4. IInv => TypeOK
  BY DEF IInv
<1> QED
  BY <1>1, <1>2, <1>3, <1>4, Inductive, PTL DEF Spec, SiteAddsFit

-----------------------------------------------------------------------------
(* One version of a mod                                                    *)

\* The requests at once are all of the management site, or there is only one.
LoadsApart ==
  \A l \in Loads :
    l \cap ApiRequests = {} \/ \A p, q \in l \cap Requests : p = q

\* What a request q inserts is not among the mods here of the build, and it
\* inserts no mod twice.
Apart(q, here) ==
  /\ \A c, d \in q.changes : c.mod = d.mod => c = d
  /\ \A v, w \in q.found : ModOf(v) = ModOf(w) => v = w
  /\ \A v \in q.found : ModOf(v) \notin here \cup ModsOf(q.changes)
  /\ \A c \in q.changes : c.no = 0 => c.mod \notin here
  /\ q.pc = "walking" =>
       here \cup ModsOf(q.changes) \cup {ModOf(v) : v \in q.found} \subseteq q.present

ApartInv ==
  /\ OneVersionPerMod
  /\ \A row \in rows : row.no # 0
  /\ \A p, q \in Requests : Adding(p) /\ Adding(q) => p = q
  /\ \A q \in Requests : Adding(q) =>
       /\ q \in load
       /\ q \in ApiRequests \/ LocksBuild(q)
       /\ Apart(requests[q], ModsOf(rows))

\* Fewer mods are in the build.
LEMMA ApartStays ==
  ASSUME NEW q, NEW here, NEW now, now \subseteq here, Apart(q, here)
  PROVE  Apart(q, now)
  BY DEF Apart

\* The state of one request becomes q, and the build stays.
LEMMA OneApart ==
  ASSUME TypeOK, ApartInv, NEW r \in Requests, NEW q,
         requests' = [requests EXCEPT ![r] = q], UNCHANGED <<rows, load>>,
         q.pc \in {"walking", "ready"} =>
           /\ Adding(r) \/ \A p \in Requests : ~Adding(p)
           /\ r \in load
           /\ r \in ApiRequests \/ q.kind \in {"site", "all"}
           /\ Apart(q, ModsOf(rows))
  PROVE  ApartInv'
<1>1. requests'[r] = q /\ \A p \in Requests \ {r} : requests'[p] = requests[p]
  BY DEF TypeOK
<1>2. OneVersionPerMod' /\ (\A row \in rows : row.no # 0)'
  BY DEF ApartInv, OneVersionPerMod
<1>3. ASSUME NEW p \in Requests, Adding(p)'
      PROVE  Adding(p) \/ (p = r /\ \A o \in Requests : ~Adding(o))
  BY <1>1, <1>3 DEF Adding
<1>4. ASSUME NEW p \in Requests, NEW o \in Requests, Adding(p)', Adding(o)'
      PROVE  p = o
  BY <1>3, <1>4 DEF ApartInv
<1>5. ASSUME NEW p \in Requests, Adding(p)'
      PROVE  (/\ p \in load
              /\ p \in ApiRequests \/ LocksBuild(p)
              /\ Apart(requests[p], ModsOf(rows)))'
  <2>1. p \in load' /\ (p \in ApiRequests \/ LocksBuild(p))'
          /\ Apart(requests'[p], ModsOf(rows))
    BY <1>1, <1>5 DEF ApartInv, Adding, LocksBuild
  <2> QED
    BY <2>1 DEF Apart, ModsOf
<1> QED
  BY <1>2, <1>4, <1>5 DEF ApartInv

LEMMA StartApart ==
  ASSUME TypeOK, ApartInv, NEW r \in load \cap Requests,
         NEW kind \in {"site", "api", "all"}, NEW changes, NEW jobs,
         Start(r, kind, changes, jobs), \A p \in Requests : ~Adding(p),
         r \in ApiRequests \/ kind \in {"site", "all"},
         \A c, d \in changes : c.mod = d.mod => c = d,
         \A c \in changes : c.no = 0 => c.mod \notin ModsOf(rows)
  PROVE  ApartInv'
<1> DEFINE q == [pc |-> "walking", kind |-> kind, changes |-> changes,
                 jobs |-> jobs, loader |-> NoLoader, graph |-> deps,
                 present |-> ModsOf(rows) \cup ModsOf(changes),
                 pending |-> {}, visited |-> {}, found |-> {}]
<1>1. requests' = [requests EXCEPT ![r] = q] /\ UNCHANGED <<rows, load>>
  BY DEF Start
<1>2. Apart(q, ModsOf(rows)) /\ q.kind = kind
  BY DEF Apart
<1> HIDE DEF q
<1> QED
  BY <1>1, <1>2, OneApart

\* A request of the management site that finds the build unlocked is alone.
LEMMA SiteAlone ==
  ASSUME LoadsApart, TypeOK, ApartInv, NEW r \in load \cap Requests,
         requests[r].pc = "idle", \A q \in Requests : ~LocksBuild(q)
  PROVE  \A p \in Requests : ~Adding(p)
<1> SUFFICES ASSUME NEW p \in Requests, Adding(p) PROVE FALSE
  OBVIOUS
<1>1. p \in load /\ p \in ApiRequests
  BY DEF ApartInv
<1>2. p = r
  BY <1>1 DEF LoadsApart, TypeOK
<1> QED
  BY <1>2 DEF Adding

LEMMA ApiAlone ==
  ASSUME LoadsApart, TypeOK, ApartInv, NEW r \in load \cap ApiRequests,
         requests[r].pc = "read"
  PROVE  \A p \in Requests : ~Adding(p)
<1> SUFFICES ASSUME NEW p \in Requests, Adding(p) PROVE FALSE
  OBVIOUS
<1>1. p \in load
  BY DEF ApartInv
<1>2. p = r
  BY <1>1 DEF LoadsApart, TypeOK, Requests
<1> QED
  BY <1>2 DEF Adding

LEMMA OpenSiteApart ==
  ASSUME LoadsApart, TypeOK, ApartInv, NEW r \in load \cap Requests,
         NEW v \in Versions, OpenSite(r, v)
  PROVE  ApartInv'
<1>1. PICK no \in FirstRow(ModOf(v)) :
        Start(r, "site", {[mod |-> ModOf(v), no |-> no, version |-> v]},
              {[mod |-> ModOf(v), loader |-> JobLoader(v)]})
  BY DEF OpenSite
<1>2. no = 0 => ModOf(v) \notin ModsOf(rows)
  BY DEF FirstRow, ApartInv, ModsOf
<1>3. \A p \in Requests : ~Adding(p)
  BY SiteAlone DEF OpenSite
<1> DEFINE changes == {[mod |-> ModOf(v), no |-> no, version |-> v]}
<1>4. /\ \A c, d \in changes : c.mod = d.mod => c = d
      /\ \A c \in changes : c.no = 0 => c.mod \notin ModsOf(rows)
  BY <1>2
<1>5. Start(r, "site", changes, {[mod |-> ModOf(v), loader |-> JobLoader(v)]})
  BY <1>1
<1> HIDE DEF changes
<1> QED
  BY <1>3, <1>4, <1>5, StartApart

LEMMA OpenAllApart ==
  ASSUME LoadsApart, TypeOK, ApartInv, NEW r \in load \cap Requests,
         NEW preferred, OpenAll(r, preferred)
  PROVE  ApartInv'
<1> DEFINE changes == UNION {{[mod |-> row.mod, no |-> row.no, version |-> v] :
                                v \in Replacement(row, preferred) \ {row.version}} :
                                  row \in rows}
           jobs == {[mod |-> c.mod, loader |-> JobLoader(c.version)] : c \in changes}
<1>1. Start(r, "all", changes, jobs)
  BY DEF OpenAll
<1>2. \A p \in Requests : ~Adding(p)
  BY SiteAlone DEF OpenAll
<1>3. \A row \in rows : \A v, w \in Replacement(row, preferred) : v = w
  BY BuildContentsAssumption DEF Replacement, Candidates
<1>4. \A c \in changes : \E row \in rows : \E v \in Replacement(row, preferred) :
        c = [mod |-> row.mod, no |-> row.no, version |-> v]
  OBVIOUS
<1> HIDE DEF changes
<1>5. ASSUME NEW c \in changes, NEW d \in changes, c.mod = d.mod
      PROVE  c = d
  <2>1. PICK x \in rows : \E v \in Replacement(x, preferred) :
          c = [mod |-> x.mod, no |-> x.no, version |-> v]
    BY <1>4
  <2>2. PICK y \in rows : \E v \in Replacement(y, preferred) :
          d = [mod |-> y.mod, no |-> y.no, version |-> v]
    BY <1>4
  <2>3. x = y
    BY <1>5, <2>1, <2>2 DEF ApartInv, OneVersionPerMod
  <2> QED
    BY <1>3, <2>1, <2>2, <2>3
<1>6. \A c \in changes : c.no # 0
  BY <1>4 DEF ApartInv
<1> HIDE DEF jobs
<1> QED
  BY <1>1, <1>2, <1>5, <1>6, StartApart

LEMMA ReadApiApart ==
  ASSUME TypeOK, ApartInv, NEW r \in Requests, NEW v, ReadApi(r, v)
  PROVE  ApartInv'
<1> DEFINE q == [pc |-> "read", kind |-> "api",
                 changes |-> {[mod |-> ModOf(v), no |-> 0, version |-> v]},
                 jobs |-> {}, loader |-> ApiLoader(loader), graph |-> {},
                 present |-> {}, pending |-> {}, visited |-> {}, found |-> {}]
<1>1. requests' = [requests EXCEPT ![r] = q] /\ UNCHANGED <<rows, load>>
  BY DEF ReadApi
<1>2. q.pc = "read"
  OBVIOUS
<1> HIDE DEF q
<1> QED
  BY <1>1, <1>2, OneApart

LEMMA StartApiApart ==
  ASSUME LoadsApart, TypeOK, ApartInv, NEW r \in load \cap ApiRequests,
         AddApi(r) \/ PutApi(r)
  PROVE  ApartInv'
<1>0. r \in load \cap Requests
  BY DEF Requests
<1>1. PICK no \in Nat, c \in requests[r].changes :
        /\ no = 0 => c.mod \notin ModsOf(rows)
        /\ Start(r, "api", {[mod |-> c.mod, no |-> no, version |-> c.version]},
                 {[mod |-> c.mod, loader |-> requests[r].loader]})
  <2>1. CASE AddApi(r)
    BY <2>1 DEF AddApi, StartApi
  <2>2. CASE PutApi(r)
    <3>1. PICK row \in rows : StartApi(r, row.no)
      BY <2>2 DEF PutApi
    <3>2. row.no # 0 /\ row.no \in Nat
      BY DEF ApartInv, TypeOK, Row
    <3> QED
      BY <3>1, <3>2 DEF StartApi
  <2> QED
    BY <2>1, <2>2
<1>2. \A p \in Requests : ~Adding(p)
  BY ApiAlone DEF AddApi, PutApi
<1> DEFINE changes == {[mod |-> c.mod, no |-> no, version |-> c.version]}
<1>3. /\ \A x, y \in changes : x.mod = y.mod => x = y
      /\ \A x \in changes : x.no = 0 => x.mod \notin ModsOf(rows)
  BY <1>1
<1>4. Start(r, "api", changes, {[mod |-> c.mod, loader |-> requests[r].loader]})
  BY <1>1
<1> HIDE DEF changes
<1> QED
  BY <1>0, <1>2, <1>3, <1>4, StartApart

\* A step of the walk that finds at most a mod that was not present.
LEMMA WalkApart ==
  ASSUME TypeOK, ApartInv, NEW r \in Requests, Walking(r), NEW jobs, NEW l,
         NEW present, NEW pending, NEW visited, NEW found,
         Walk(r, jobs, l, present, pending, visited, found),
         requests[r].present \subseteq present,
         \/ found = requests[r].found
         \/ \E v : /\ found = requests[r].found \cup {v}
                   /\ ModOf(v) \in present \ requests[r].present
  PROVE  ApartInv'
<1> DEFINE q == [pc |-> "walking", kind |-> requests[r].kind,
                 changes |-> requests[r].changes, jobs |-> jobs, loader |-> l,
                 graph |-> requests[r].graph, present |-> present,
                 pending |-> pending, visited |-> visited, found |-> found]
<1>1. requests' = [requests EXCEPT ![r] = q] /\ UNCHANGED <<rows, load>>
  BY DEF Walk
<1>2. /\ q.kind = requests[r].kind /\ q.changes = requests[r].changes
      /\ q.found = found /\ q.present = present
  OBVIOUS
<1> HIDE DEF q
<1>3. Adding(r) /\ Apart(requests[r], ModsOf(rows)) /\ requests[r].pc = "walking"
        /\ r \in load /\ (r \in ApiRequests \/ requests[r].kind \in {"site", "all"})
  BY DEF ApartInv, Walking, Adding, LocksBuild
<1>4. Apart(q, ModsOf(rows))
  <2>1. CASE found = requests[r].found
    BY <1>2, <1>3, <2>1 DEF Apart
  <2>2. ASSUME NEW v, found = requests[r].found \cup {v},
               ModOf(v) \in present \ requests[r].present
        PROVE  Apart(q, ModsOf(rows))
    <3>1. \A w \in requests[r].found : ModOf(w) # ModOf(v)
      BY <1>3, <2>2 DEF Apart
    <3>2. ModOf(v) \notin ModsOf(rows) \cup ModsOf(q.changes)
      BY <1>2, <1>3, <2>2 DEF Apart
    <3>3. \A w \in q.found : w = v \/ w \in requests[r].found
      BY <1>2, <2>2
    <3> QED
      BY <1>2, <1>3, <2>2, <3>1, <3>2, <3>3 DEF Apart
  <2> QED
    BY <2>1, <2>2
<1> QED
  BY <1>1, <1>2, <1>3, <1>4, OneApart

LEMMA WalkStepsApart ==
  ASSUME TypeOK, ApartInv, NEW r \in Requests,
         \/ NextJob(r)
         \/ \E m \in Mods : ResolvePresent(r, m) \/ ResolveMissing(r, m)
  PROVE  ApartInv'
<1> DEFINE q == requests[r]
<1>1. Walking(r)
  BY DEF NextJob, ResolvePresent, ResolveMissing
<1>2. CASE NextJob(r)
  <2>1. \E jobs, l, pending, visited :
          Walk(r, jobs, l, q.present, pending, visited, q.found)
    BY <1>2 DEF NextJob
  <2> QED
    BY <1>1, <2>1, WalkApart
<1>3. ASSUME NEW m, ResolvePresent(r, m) PROVE ApartInv'
  <2>1. \E jobs, l, pending, visited :
          Walk(r, jobs, l, q.present, pending, visited, q.found)
    BY <1>3 DEF ResolvePresent
  <2> QED
    BY <1>1, <2>1, WalkApart
<1>4. ASSUME NEW m, ResolveMissing(r, m) PROVE ApartInv'
  <2>1. PICK v \in Best(m, q.loader) :
          Walk(r, q.jobs, q.loader, q.present \cup {m}, Queue(q, m),
               q.visited \cup {m}, q.found \cup {v})
    BY <1>4 DEF ResolveMissing
  <2>2. ModOf(v) = m /\ m \notin q.present
    BY <1>4 DEF Best, Candidates, ResolveMissing
  <2>3. ModOf(v) \in (q.present \cup {m}) \ requests[r].present
    BY <2>2
  <2> QED
    BY <1>1, <2>1, <2>3, WalkApart
<1> QED
  BY <1>2, <1>3, <1>4

LEMMA ResolvedApart ==
  ASSUME TypeOK, ApartInv, NEW r \in Requests, Resolved(r)
  PROVE  ApartInv'
<1> DEFINE q == [pc |-> "ready", kind |-> requests[r].kind,
                 changes |-> requests[r].changes, jobs |-> {},
                 loader |-> NoLoader, graph |-> {}, present |-> {},
                 pending |-> {}, visited |-> {}, found |-> requests[r].found]
<1>1. requests' = [requests EXCEPT ![r] = q] /\ UNCHANGED <<rows, load>>
  BY DEF Resolved
<1>2. /\ q.kind = requests[r].kind /\ q.changes = requests[r].changes
      /\ q.found = requests[r].found /\ q.pc = "ready"
  OBVIOUS
<1> HIDE DEF q
<1>3. Adding(r) /\ Apart(requests[r], ModsOf(rows))
        /\ r \in load /\ (r \in ApiRequests \/ requests[r].kind \in {"site", "all"})
  BY DEF ApartInv, Resolved, Walking, Adding, LocksBuild
<1>4. Apart(q, ModsOf(rows))
  BY <1>2, <1>3 DEF Apart
<1> QED
  BY <1>1, <1>2, <1>3, <1>4, OneApart

LEMMA EndApart ==
  ASSUME TypeOK, ApartInv, NEW r \in Requests, Fail(r) \/ RefuseApi(r)
  PROVE  ApartInv'
<1>1. requests' = [requests EXCEPT ![r] = Idle] /\ UNCHANGED <<rows, load>>
  BY DEF Fail, End, RefuseApi
<1>2. Idle.pc = "idle"
  BY DEF Idle
<1> QED
  BY <1>1, <1>2, OneApart

\* The build changes, no mod comes, and no request changes.
LEMMA RowsApart ==
  ASSUME ApartInv, UNCHANGED <<requests, load>>, OneVersionPerMod',
         \A row \in rows' : row.no # 0, ModsOf(rows') \subseteq ModsOf(rows)
  PROVE  ApartInv'
<1>1. ASSUME NEW p \in Requests, NEW o \in Requests, Adding(p)', Adding(o)'
      PROVE  p = o
  BY <1>1 DEF ApartInv, Adding
<1>2. ASSUME NEW p \in Requests, Adding(p)'
      PROVE  (/\ p \in load
              /\ p \in ApiRequests \/ LocksBuild(p)
              /\ Apart(requests[p], ModsOf(rows)))'
  <2>1. p \in load /\ (p \in ApiRequests \/ LocksBuild(p))
          /\ Apart(requests[p], ModsOf(rows))
    BY <1>2 DEF ApartInv, Adding
  <2>2. Apart(requests[p], ModsOf(rows'))
    BY <2>1, ApartStays
  <2> QED
    BY <2>1, <2>2 DEF Apart, ModsOf, Adding, LocksBuild
<1> QED
  BY <1>1, <1>2 DEF ApartInv

LEMMA UpdateApart ==
  ASSUME ApartInv, NEW old, NEW v, Update(old, v)
  PROVE  ApartInv'
<1> DEFINE found == {row \in rows : row.version = old}
           new == {[mod |-> row.mod, no |-> row.no, version |-> v] : row \in found}
<1>1. rows' = (rows \ found) \cup new /\ UNCHANGED <<requests, load>>
  BY DEF Update
<1>2. \A x \in rows' : \E row \in rows :
        /\ x.mod = row.mod /\ x.no = row.no
        /\ IF row \in found THEN x = [mod |-> row.mod, no |-> row.no, version |-> v]
                            ELSE x = row
  BY <1>1
<1> HIDE DEF found, new
<1>3. ASSUME NEW x \in rows', NEW y \in rows', x.mod = y.mod
      PROVE  x = y
  BY <1>2, <1>3 DEF ApartInv, OneVersionPerMod
<1>4. OneVersionPerMod'
  BY <1>3 DEF OneVersionPerMod
<1>5. ModsOf(rows') \subseteq ModsOf(rows) /\ \A x \in rows' : x.no # 0
  BY <1>2 DEF ModsOf, ApartInv
<1> QED
  BY <1>1, <1>4, <1>5, RowsApart

LEMMA RemoveApart ==
  ASSUME ApartInv, NEW row \in rows, Remove(row)
  PROVE  ApartInv'
<1>1. rows' = rows \ {row} /\ UNCHANGED <<requests, load>>
  BY DEF Remove
<1>2. OneVersionPerMod'
  BY <1>1 DEF ApartInv, OneVersionPerMod
<1>3. ModsOf(rows') \subseteq ModsOf(rows) /\ \A x \in rows' : x.no # 0
  BY <1>1 DEF ModsOf, ApartInv
<1> QED
  BY <1>1, <1>2, <1>3, RowsApart

\* What is committed has one version of a mod.
LEMMA CommitOneVersion ==
  ASSUME IInv, ApartInv, NEW r \in Requests, Commit(r)
  PROVE  OneVersionPerMod' /\ \A x \in rows' : x.no # 0
<1> DEFINE kept == {row \in rows : Changed(r, row) = {}}
           changed == UNION {Changed(r, row) : row \in rows}
           new == {[mod |-> ModOf(v), no |-> NewNo(ModOf(v)), version |-> v] :
                     v \in Inserts(r)}
<1>1. rows' = kept \cup changed \cup new
  BY DEF Commit
<1>2. Apart(requests[r], ModsOf(rows)) /\ OwnVersions(requests[r].changes)
  BY DEF ApartInv, IInv, Commit, Adding
<1>3. \A v \in Inserts(r) : ModOf(v) \notin ModsOf(rows)
  BY <1>2 DEF Inserts, Apart, OwnVersions
<1>4. \A v, w \in Inserts(r) : ModOf(v) = ModOf(w) => v = w
  BY <1>2 DEF Inserts, Apart, OwnVersions, ModsOf
<1>5. \A x, y \in new : x.mod = y.mod => x = y
  BY <1>4
<1>6. \A x \in new : x.mod \notin ModsOf(rows) /\ x.no # 0
  BY <1>3 DEF Commit, InsertedMods, NewNo, NewNos
<1>7. \A x \in kept : x \in rows /\ Changed(r, x) = {}
  OBVIOUS
<1>8. \A c \in changed : \E row \in rows : c \in Changed(r, row)
  OBVIOUS
<1> HIDE DEF kept, changed, new
<1>9. \A c \in changed : c \in requests[r].changes /\ c.no # 0
                         /\ \E row \in rows : c \in Changed(r, row) /\ c.mod = row.mod
  BY <1>8 DEF Changed, ApartInv
<1>10. \A x \in kept \cup changed : x.mod \in ModsOf(rows) /\ x.no # 0
  BY <1>7, <1>9 DEF ModsOf, ApartInv
<1>11. \A x, y \in changed : x.mod = y.mod => x = y
  BY <1>2, <1>9 DEF Apart
<1>12. \A x \in kept, c \in changed : x.mod # c.mod
  BY <1>7, <1>9 DEF ApartInv, OneVersionPerMod
<1>13. \A x, y \in kept : x.mod = y.mod => x = y
  BY <1>7 DEF ApartInv, OneVersionPerMod
<1>14. ASSUME NEW x \in rows', NEW y \in rows', x.mod = y.mod
       PROVE  x = y
  <2>1. CASE x \in new
    BY <1>1, <1>5, <1>6, <1>10, <1>14, <2>1
  <2>2. CASE x \in kept
    BY <1>1, <1>6, <1>10, <1>12, <1>13, <1>14, <2>2
  <2>3. CASE x \in changed
    BY <1>1, <1>6, <1>10, <1>11, <1>12, <1>14, <2>3
  <2> QED
    BY <1>1, <2>1, <2>2, <2>3
<1> QED
  BY <1>1, <1>6, <1>10, <1>14 DEF OneVersionPerMod

LEMMA CommitApart ==
  ASSUME IInv, ApartInv, NEW r \in Requests, Commit(r)
  PROVE  ApartInv'
<1>1. requests' = [requests EXCEPT ![r] = Idle]
  BY DEF Commit, End
<1>2. OneVersionPerMod' /\ \A x \in rows' : x.no # 0
  BY CommitOneVersion
<1>3. ASSUME NEW p \in Requests PROVE ~Adding(p)'
  <2>1. Adding(r)
    BY DEF Commit, Adding
  <2>2. CASE p = r
    BY <1>1, <2>2 DEF IInv, TypeOK, Adding, Idle
  <2>3. CASE p # r
    BY <1>1, <2>1, <2>3 DEF ApartInv, Adding, IInv, TypeOK
  <2> QED
    BY <2>2, <2>3
<1> QED
  BY <1>2, <1>3 DEF ApartInv

LEMMA ApartStep ==
  ASSUME LoadsApart, IInv, ApartInv, [Next]_vars
  PROVE  ApartInv'
<1>0. TypeOK
  BY DEF IInv
<1>1. ASSUME NEW r \in load \cap Requests, Site(r) PROVE ApartInv'
  BY <1>0, <1>1, OpenSiteApart, OpenAllApart DEF Site
<1>2. ASSUME NEW r \in load \cap ApiRequests, Api(r) PROVE ApartInv'
  <2>1. r \in Requests
    BY DEF Requests
  <2> QED
    BY <1>0, <1>2, <2>1, ReadApiApart, StartApiApart, EndApart DEF Api
<1>3. ASSUME NEW r \in Requests, Transaction(r) PROVE ApartInv'
  BY <1>0, <1>3, WalkStepsApart, ResolvedApart, EndApart, CommitApart
     DEF Transaction
<1>4. ASSUME NEW old, NEW v, Update(old, v) PROVE ApartInv'
  BY <1>4, UpdateApart
<1>5. ASSUME NEW row \in rows, Remove(row) PROVE ApartInv'
  BY <1>5, RemoveApart
<1>6. CASE UNCHANGED <<rows, requests, load>>
  <2>1. OneVersionPerMod' /\ \A row \in rows' : row.no # 0
    BY <1>6 DEF ApartInv, OneVersionPerMod
  <2> QED
    BY <1>6, <2>1, RowsApart
<1>7. ASSUME NEW l, EditBuild(l) PROVE UNCHANGED <<rows, requests, load>>
  BY <1>7 DEF EditBuild
<1>8. ASSUME NEW e, EditDependencies(e) PROVE UNCHANGED <<rows, requests, load>>
  BY <1>8 DEF EditDependencies, OpenEdit, CommitEdit
<1>9. ASSUME NEW m, NEW n, DeleteDependency(m, n)
      PROVE  UNCHANGED <<rows, requests, load>>
  BY <1>9 DEF DeleteDependency
<1> QED
  BY <1>1, <1>2, <1>3, <1>4, <1>5, <1>6, <1>7, <1>8, <1>9
     DEF Next, vars, Requests

\* A build has at most one version of a mod, whatever the management site does
\* at once, or whatever one request of the write API does by itself: what an
\* add and its required mods insert is not there when they commit.
THEOREM OneVersion ==
  ASSUME LoadsApart
  PROVE  Spec => []OneVersionPerMod
<1>1. Init => ApartInv
  BY DEF Init, ApartInv, OneVersionPerMod, Adding, Idle
<1>2. IInv /\ ApartInv /\ [Next]_vars => ApartInv'
  BY ApartStep
<1>3. ApartInv => OneVersionPerMod
  BY DEF ApartInv
<1> QED
  BY <1>1, <1>2, <1>3, Inductive, PTL DEF Spec
=============================================================================
