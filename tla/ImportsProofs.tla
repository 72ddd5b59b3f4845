---------------------------- MODULE ImportsProofs ----------------------------
(***************************************************************************)
(* Proofs about Imports: every property its run checks, for every set of   *)
(* projects and releases, every catalog and every bound.                   *)
(*                                                                         *)
(* The invariants come in layers. Rows says what the tables and the        *)
(* request look like; Graph what a request knows of the graph that it      *)
(* resolves; Settled that this still holds of the library: these three are *)
(* inductive together. On top of them Kept says what the request has to    *)
(* take back, and Founded why no version is left without its requirements. *)
(***************************************************************************)
EXTENDS Imports, FiniteSetTheorems, FunctionTheorems, SequenceTheorems, TLAPS

-----------------------------------------------------------------------------
(* Requests                                                                *)

MaybeProjects == Projects \cup {None}
MaybeReleases == Releases \cup {None}

Contexts ==
  [mods : [Projects -> ModRows \cup {None}], edges : SUBSET (ModIds \X ModIds),
   externals : [Projects -> MaybeReleases], processed : SUBSET (Projects \X Releases),
   createdMods : SUBSET ModIds, linked : SUBSET (ModIds \X Projects),
   createdVersions : SUBSET (1..MaxVersion), artifacts : SUBSET (Projects \X Names)]

Frames ==
  [release : Releases, mod : ModRows, name : Names \cup {None},
   todo : SUBSET Requirements, have : SUBSET ModIds, existing : BOOLEAN]

Resolving == {"lookup", "link", "create"}
Taking == {"rollback", "sweep", "failed", "abandoned"}
Going == {"enter", "dependencies", "choose", "files", "insert", "returned"} \cup Resolving

Requests ==
  [todo : SUBSET (Projects \ Configs), have : SUBSET ModIds,
   kind : {"none", "import", "bootstrap", "materialize"},
   pc : {"idle", "bootstrap"} \cup Going \cup Taking,
   stack : Seq(Frames), ctx : Contexts,
   need : (Projects \ Configs) \cup {None}, target : ModIds \cup {0}, stored : BOOLEAN]

\* Which steps belong to which kind of request.
Shaped(q) ==
  /\ q.kind = "none" <=> q.pc = "idle"
  /\ q.kind = "import" => /\ q.pc \in Resolving \cup {"returned", "failed"}
                          /\ q.ctx = NoContext
  /\ q.kind = "bootstrap" => \/ q.pc \in Resolving \cup Taking
                             \/ q.pc \in {"bootstrap", "returned"}
  /\ q.kind = "materialize" => q.pc \in Going \cup Taking
  /\ q.kind # "materialize" => q.stack = <<>> /\ ~ q.stored
  /\ q.kind = "materialize" => q.stack # <<>>
  /\ q.pc \in Resolving \cup {"choose"} => q.need # None
  /\ q.pc = "link" => q.target # 0
  /\ q.pc = "idle" => q.ctx = NoContext

\* The projects of the calls in progress.
PathOf(s) == {s[i].mod.link : i \in DOMAIN s}

\* Each call works on a project of its own, with a release of it.
Stacked(q) ==
  /\ \A i \in DOMAIN q.stack :
       /\ q.stack[i].mod.link = ProjectOf[q.stack[i].release]
       /\ \A j \in DOMAIN q.stack :
            q.stack[i].mod.link = q.stack[j].mod.link => i = j
  /\ \A p \in Projects : q.ctx.mods[p] # None => q.ctx.mods[p].link = p
  /\ q.kind = "materialize" /\ q.pc \in Resolving \cup {"choose"} =>
       q.need \notin PathOf(q.stack)
  /\ q.pc = "choose" => q.ctx.mods[q.need] # None

\* A request names no row that the AUTO_INCREMENT has not reached.
Counted(q, last) ==
  /\ \A i \in DOMAIN q.stack : q.stack[i].mod.id <= last.mods
  /\ \A p \in Projects : q.ctx.mods[p] # None => q.ctx.mods[p].id <= last.mods
  /\ \A i \in q.ctx.createdMods : i <= last.mods
  /\ \A i \in q.ctx.createdVersions : i <= last.versions

-----------------------------------------------------------------------------
(* The tables                                                              *)

VersionRows == [id : 1..MaxVersion, mod : ModIds, ext : Releases,
                name : Names, md5 : Archives]
FileRows == [slug : Projects, name : Names, md5 : Archives]

NamesOf(r) == {<<NumberOf[r], None>>, <<NumberOf[r], r>>}
Trusted(r) == r \in Hashed \/ ProjectOf[r] \in Configs

TablesTyped ==
  /\ catalog \in Catalogs
  /\ mods \subseteq ModRows
  /\ versions \subseteq VersionRows
  /\ edges \subseteq ModIds \X ModIds
  /\ files \subseteq FileRows
  /\ lastIds \in [mods : 0..MaxMod, versions : 0..MaxVersion]
  /\ made \in 0..MaxRequests

RowsUnique ==
  /\ \A m, n \in mods : m.id = n.id \/ m.slug = n.slug => m = n
  /\ \A x, y \in files : x.slug = y.slug /\ x.name = y.name => x = y

RowsCounted ==
  /\ \A m \in mods : m.id <= lastIds.mods
  /\ \A v \in versions : /\ v.id <= lastIds.versions
                         /\ v.mod <= lastIds.mods
                         /\ v.name \in NamesOf(v.ext)
                         /\ Trusted(v.ext)
  /\ \A e \in edges : e[1] <= lastIds.mods /\ e[2] <= lastIds.mods

BeforeOK ==
  /\ before.mods \subseteq ModRows /\ before.versions \subseteq VersionRows
  /\ before.edges \subseteq ModIds \X ModIds
  /\ \A m, n \in before.mods : m.id = n.id => m = n
  /\ \A m \in before.mods : m.id <= lastIds.mods
  /\ \A v \in before.versions : v.mod <= lastIds.mods
  /\ \A e \in before.edges : e[1] <= lastIds.mods /\ e[2] <= lastIds.mods

RequestAt(q, last) == q \in Requests /\ Shaped(q) /\ Stacked(q) /\ Counted(q, last)
RequestOK == RequestAt(req, lastIds)

Rows == TablesTyped /\ RowsUnique /\ RowsCounted /\ BeforeOK /\ RequestOK

-----------------------------------------------------------------------------
(* The graph that a request resolves                                       *)

Needs(D, r) == {d \in D : d.release = r}
Pinned(d, c) == d.pin \in {None, c.externals[d.project]}
Processed(p, c) == <<p, c.externals[p]>> \in c.processed

\* Requirements of the i-th call that are met.
MetBy(D, f) == Needs(D, f.release) \ f.todo
Entered(q, i) == i > 1 \/ (q.pc # "enter" /\ q.ctx.externals[q.stack[1].mod.link] # None)

\* The calls below the top have checked their requirements, and wait for one.
Waiting(D, q) ==
  /\ \A i \in DOMAIN q.stack : q.stack[i].todo \subseteq Needs(D, q.stack[i].release)
  /\ \A i \in DOMAIN q.stack : i > 1 =>
       /\ ~ Conflict(Needs(D, q.stack[i].release))
       /\ \E d \in q.stack[i].todo : /\ d.project = q.stack[i - 1].mod.link
                                     /\ d.pin \in {None, q.stack[i - 1].release}

\* Where the top is.
AtTop(D, q) ==
  /\ q.stack[1].mod.link \in Configs =>
       /\ Len(q.stack) = 1
       /\ q.ctx = NoContext
       /\ q.pc \in {"files", "insert", "returned"}
  /\ Entered(q, 1) => ~ Conflict(Needs(D, q.stack[1].release))
  /\ q.pc \in Resolving \cup {"choose"} => \E d \in q.stack[1].todo : d.project = q.need
  /\ q.pc = "enter" => q.stack[1].todo = {} /\ q.stack[1].have = {}
  /\ q.pc \in {"dependencies", "choose"} \cup Resolving =>
       q.ctx.externals[q.stack[1].mod.link] # None
  /\ q.pc \in {"files", "insert"} =>
       /\ q.stack[1].todo = {} /\ q.stack[1].have = {} /\ ~ q.stack[1].existing
       /\ q.stack[1].mod.link \notin Configs =>
            q.ctx.externals[q.stack[1].mod.link] # None
  /\ q.pc = "insert" => /\ q.stack[1].name \in NamesOf(q.stack[1].release)
                        /\ Verified(q.stack[1])
  /\ q.pc = "returned" => Len(q.stack) = 1
  /\ q.stored => /\ q.pc = "returned"
                 /\ q.stack[1].todo = {} /\ q.stack[1].have = {}

\* What the context says of the projects that the graph uses.
Known(D, q) ==
  /\ \A i \in DOMAIN q.stack :
       i > 1 \/ q.ctx.externals[q.stack[1].mod.link] # None =>
         /\ q.ctx.mods[q.stack[i].mod.link] = q.stack[i].mod
         /\ q.ctx.externals[q.stack[i].mod.link] = q.stack[i].release
  /\ \A p \in Projects : q.ctx.externals[p] # None =>
       /\ ProjectOf[q.ctx.externals[p]] = p
       /\ q.ctx.externals[p] \in Compatible
       /\ p \notin Configs
       /\ p \in PathOf(q.stack) \/ Processed(p, q.ctx)
  /\ \A x \in q.ctx.processed :
       /\ q.ctx.externals[x[1]] = x[2]
       /\ q.ctx.mods[x[1]] # None
       /\ \A d \in Needs(D, x[2]) : Processed(d.project, q.ctx) /\ Pinned(d, q.ctx)

MetKnown(D, q) ==
  \A i \in DOMAIN q.stack : Entered(q, i) =>
    \A d \in MetBy(D, q.stack[i]) : Processed(d.project, q.ctx) /\ Pinned(d, q.ctx)

Resolves(q) == q.kind = "materialize" /\ q.pc \in Going

GraphOf(D, q) ==
  Resolves(q) => Waiting(D, q) /\ AtTop(D, q) /\ Known(D, q) /\ MetKnown(D, q)

Graph == GraphOf(catalog, req)

-----------------------------------------------------------------------------
(* The graph in the library                                                *)

Steady == calm \/ whole

InPlace(M, m) == \E n \in M : n.id = m.id /\ n.link = m.link /\ n.slug = m.slug
Has(V, i, r) == \E v \in V : v.mod = i /\ v.ext = r

\* The mods of the graph are where the request found them, and it only looks
\* for those that it has not found.
ModsInPlace(q, M) ==
  /\ q.pc \in Resolving => q.ctx.mods[q.need] = None
  /\ \A p \in Projects : q.ctx.mods[p] # None => InPlace(M, q.ctx.mods[p])
  /\ \A i \in DOMAIN q.stack : InPlace(M, q.stack[i].mod)

VersionsInPlace(q, V) ==
  /\ q.pc # "returned" =>
       \A i \in DOMAIN q.stack :
         q.stack[i].existing <=> Has(V, q.stack[i].mod.id, q.stack[i].release)
  /\ \A x \in q.ctx.processed : Has(V, q.ctx.mods[x[1]].id, x[2])
  /\ q.stored => Has(V, q.stack[1].mod.id, q.stack[1].release)

EdgesInPlace(D, q, E) ==
  /\ \A x \in q.ctx.processed : \A d \in Needs(D, x[2]) :
       <<q.ctx.mods[x[1]].id, q.ctx.mods[d.project].id>> \in E
  /\ \A i \in DOMAIN q.stack : Entered(q, i) => \A d \in MetBy(D, q.stack[i]) :
       \/ q.ctx.mods[d.project].id \in q.stack[i].have
       \/ <<q.stack[i].mod.id, q.ctx.mods[d.project].id>> \in E

SettledAt(D, q, M, V, E) ==
  ModsInPlace(q, M) /\ VersionsInPlace(q, V) /\ EdgesInPlace(D, q, E)

Settled == Steady /\ Resolves(req) => SettledAt(catalog, req, mods, versions, edges)

-----------------------------------------------------------------------------
(* What an undisturbed request takes back                                  *)

\* What the request did not make.
OlderThan(c, V) == {v \in V : v.id \notin c.createdVersions}

Working == req.pc \notin {"idle", "returned", "sweep", "failed", "abandoned"}

\* The file that was moved into place and has no row yet.
Pending == IF req.pc = "insert" THEN {<<Top.mod.slug, Top.name>>} ELSE {}

\* Without what the request noted, and the files named in A, the versions,
\* dependencies and files are those of B.
RestKept(B, c, V, E, F, A) ==
  /\ OlderThan(c, V) = B.versions
  /\ E \ c.edges = B.edges
  /\ \A x \in F : x \in B.files \/ <<x.slug, x.name>> \in A

\* Without what the request noted, the mods are those of B, but for their types.
ModsKept(B, c, M) ==
  /\ \A m \in M : m.id \notin c.createdMods =>
       \E b \in B.mods :
         /\ b.id = m.id /\ b.slug = m.slug
         /\ \/ b.link = m.link /\ <<m.id, m.link>> \notin c.linked
            \/ b.link = None /\ <<m.id, m.link>> \in c.linked
  /\ \A b \in B.mods : /\ b.id \notin c.createdMods
                       /\ \E m \in M : m.id = b.id /\ m.slug = b.slug
  /\ \A i \in c.createdMods :
       /\ \A v \in B.versions : v.mod # i
       /\ \A e \in B.edges : e[1] # i /\ e[2] # i

\* The mod to link is still free, and the project without one.
Aimed == req.pc = "link" =>
  /\ \E m \in mods : m.id = req.target /\ m.link = None /\ m.slug = req.need
  /\ Linked(req.need) = {}

BackExcept(A) ==
  /\ Untyped(mods) = Untyped(before.mods) \/ Relinked
  /\ versions = before.versions
  /\ edges = before.edges
  /\ \A x \in files : x \in before.files \/ <<x.slug, x.name>> \in A

Kept == calm =>
  /\ Working => /\ RestKept(before, req.ctx, versions, edges, files,
                            req.ctx.artifacts \cup Pending)
                /\ ModsKept(before, req.ctx, mods)
                /\ Aimed
  /\ req.pc = "sweep" => BackExcept(req.ctx.artifacts)
  /\ req.pc = "failed" => BackExcept({})

-----------------------------------------------------------------------------
(* Requirements under every version                                        *)

FileFor(v, M, F) == \E x \in F, m \in M :
  m.id = v.mod /\ x.slug = m.slug /\ x.name = v.name /\ x.md5 = v.md5

\* The requirements of v are met by the mods M, the dependencies E and the
\* versions V.
MetWith(D, v, M, E, V) == \A d \in Needs(D, v.ext) : \E n \in M :
  /\ n.link = d.project
  /\ <<v.mod, n.id>> \in E
  /\ \E w \in V : w.mod = n.id /\ d.pin \in {None, w.ext}

Sound(D, M, E, V, F) == \A v \in V : FileFor(v, M, F) /\ MetWith(D, v, M, E, V)

\* What an older version needs will not be taken back before the version.
Lasting(D, c, M, E, V) == \A v \in OlderThan(c, V) :
  /\ MetWith(D, v, M, E \ c.edges, OlderThan(c, V))
  /\ \A m \in M : m.id = v.mod => <<m.slug, v.name>> \notin c.artifacts

Packed ==
  req.kind = "materialize" /\ req.pc = "insert" =>
    /\ \E x \in files : /\ x.slug = Top.mod.slug /\ x.name = Top.name
                        /\ x.md5 = Archive(Top.release, made)
    /\ \A v \in versions : v.mod = Top.mod.id => v.name # Top.name

Founded == whole =>
  /\ Sound(catalog, mods, edges, versions, files)
  /\ Lasting(catalog, req.ctx, mods, edges, versions)
  /\ Packed
  /\ req.pc = "sweep" => OlderThan(req.ctx, versions) = versions

-----------------------------------------------------------------------------
(* Stacks                                                                  *)

\* The stack t is s with another top.
Topped(s, t, f) == /\ t # <<>> /\ DOMAIN t = DOMAIN s /\ Len(t) = Len(s) /\ t[1] = f
                   /\ \A i \in DOMAIN s : i # 1 => t[i] = s[i]

\* The stack t is s with a call on it.
OnTop(s, t, f) == /\ t # <<>> /\ DOMAIN t = 1..(Len(s) + 1) /\ Len(t) = Len(s) + 1 /\ t[1] = f
                  /\ \A i \in DOMAIN t : i # 1 => i - 1 \in DOMAIN s /\ t[i] = s[i - 1]

\* The stack t is s without its top, and with f for the call below it.
OffTop(s, t, f) == /\ t # <<>> /\ {1, 2} \subseteq DOMAIN s
                   /\ DOMAIN t = 1..(Len(s) - 1) /\ Len(t) = Len(s) - 1 /\ t[1] = f
                   /\ \A i \in DOMAIN t : i + 1 \in DOMAIN s /\ (i # 1 => t[i] = s[i + 1])

\* The three ways to change a stack, call by call.
LEMMA TopSet ==
  ASSUME NEW S, NEW s \in Seq(S), s # <<>>, NEW f \in S, NEW t, t = <<f>> \o Tail(s)
  PROVE  /\ t \in Seq(S) /\ t # <<>>
         /\ DOMAIN t = DOMAIN s /\ Len(t) = Len(s)
         /\ 1 \in DOMAIN s /\ t[1] = f
         /\ \A i \in DOMAIN s : i # 1 => t[i] = s[i]
  OBVIOUS

LEMMA Pushed ==
  ASSUME NEW S, NEW s \in Seq(S), NEW f \in S, NEW t, t = <<f>> \o s
  PROVE  /\ t \in Seq(S) /\ t # <<>>
         /\ DOMAIN t = 1..(Len(s) + 1) /\ Len(t) = Len(s) + 1
         /\ t[1] = f
         /\ \A i \in DOMAIN t : i # 1 => i - 1 \in DOMAIN s /\ t[i] = s[i - 1]
  OBVIOUS

LEMMA Popped ==
  ASSUME NEW S, NEW s \in Seq(S), s # <<>>, Len(s) # 1, NEW f \in S,
         NEW t, t = <<f>> \o Tail(Tail(s))
  PROVE  t \in Seq(S) /\ OffTop(s, t, f) /\ Head(Tail(s)) = s[2]
<1>1. /\ Len(s) \in Nat /\ Len(s) >= 2 /\ DOMAIN s = 1..Len(s)
  OBVIOUS
<1>2. /\ Tail(s) \in Seq(S) /\ Len(Tail(s)) = Len(s) - 1
      /\ \A i \in 1..(Len(s) - 1) : Tail(s)[i] = s[i + 1]
  OBVIOUS
<1>3. PICK u \in Seq(S) : u = Tail(s)
  BY <1>2
<1>4. Len(u) = Len(s) - 1 /\ \A i \in 1..(Len(s) - 1) : u[i] = s[i + 1]
  BY <1>2, <1>3
<1>5. u # <<>>
  <2> SUFFICES ASSUME u = <<>> PROVE FALSE
    OBVIOUS
  <2>1. Len(u) = 0
    OBVIOUS
  <2> QED  BY <2>1, <1>1, <1>4
<1>6. t = <<f>> \o Tail(u)
  BY <1>3
<1>7. /\ t \in Seq(S) /\ t # <<>> /\ DOMAIN t = DOMAIN u /\ Len(t) = Len(u)
      /\ t[1] = f /\ \A i \in DOMAIN u : i # 1 => t[i] = u[i]
  BY ONLY u \in Seq(S), f \in S, <1>5, <1>6
<1>8. DOMAIN u = 1..Len(u) /\ Head(u) = u[1]
  BY <1>5
<1>9. {1, 2} \subseteq DOMAIN s /\ Head(Tail(s)) = s[2]
  BY <1>1, <1>3, <1>4, <1>8
<1>10. DOMAIN t = 1..(Len(s) - 1) /\ Len(t) = Len(s) - 1
  BY <1>4, <1>7, <1>8
<1>11. \A i \in DOMAIN t : i + 1 \in DOMAIN s /\ (i # 1 => t[i] = s[i + 1])
  BY ONLY <1>1, <1>4, <1>7, <1>10, <1>8
<1> QED  BY ONLY <1>7, <1>9, <1>10, <1>11 DEF OffTop

LEMMA Second ==
  ASSUME NEW S, NEW s \in Seq(S), s # <<>>, Len(s) # 1
  PROVE  {1, 2} \subseteq DOMAIN s /\ Head(Tail(s)) = s[2]
<1>1. PICK f \in S : f = s[1]
  OBVIOUS
<1>2. PICK t : t = <<f>> \o Tail(Tail(s))
  OBVIOUS
<1>3. OffTop(s, t, f) /\ Head(Tail(s)) = s[2]
  BY <1>2, Popped
<1> QED  BY <1>3 DEF OffTop

LEMMA OnStack ==
  ASSUME NEW S, NEW s \in Seq(S), s # <<>>
  PROVE  /\ DOMAIN s = 1..Len(s) /\ Len(s) \in Nat /\ 1 \in DOMAIN s
         /\ Head(s) = s[1] /\ s[1] \in S
         /\ \A i \in DOMAIN s : s[i] \in S
  OBVIOUS

LEMMA StackChanges ==
  ASSUME NEW S, NEW s \in Seq(S), s # <<>>, NEW f \in S, NEW t
  PROVE  /\ t = <<f>> \o Tail(s) => t \in Seq(S) /\ Topped(s, t, f)
         /\ t = <<f>> \o s => t \in Seq(S) /\ OnTop(s, t, f)
         /\ t = <<f>> \o Tail(Tail(s)) /\ Len(s) # 1 =>
              t \in Seq(S) /\ OffTop(s, t, f) /\ Head(Tail(s)) = s[2]
<1>1. t = <<f>> \o Tail(s) => t \in Seq(S) /\ Topped(s, t, f)
  BY TopSet DEF Topped
<1>2. t = <<f>> \o s => t \in Seq(S) /\ OnTop(s, t, f)
  BY Pushed DEF OnTop
<1>3. t = <<f>> \o Tail(Tail(s)) /\ Len(s) # 1 =>
        t \in Seq(S) /\ OffTop(s, t, f) /\ Head(Tail(s)) = s[2]
  BY Popped
<1> QED  BY <1>1, <1>2, <1>3

-----------------------------------------------------------------------------
(* The request keeps its shape                                             *)

RowsOf(last, next) == /\ {last.mods, last.versions, next.mods, next.versions} \subseteq Nat
                      /\ last.mods <= next.mods /\ last.versions <= next.versions

LEMMA RowsGrow ==
  ASSUME NEW q, NEW last, NEW next, RequestAt(q, last), RowsOf(last, next)
  PROVE  RequestAt(q, next)
<1>1. q \in Requests /\ Counted(q, last)
  BY DEF RequestAt
<1>2. ModIds \subseteq Nat /\ 1..MaxVersion \subseteq Nat
  BY DEF ModIds
<1>3. \A i \in DOMAIN q.stack : q.stack[i].mod.id \in Nat
  <2>1. q.stack \in Seq(Frames)
    BY <1>1 DEF Requests
  <2>2. \A i \in DOMAIN q.stack : q.stack[i] \in Frames
    BY <2>1
  <2> QED  BY <1>2, <2>2 DEF Frames, ModRows
<1>4. \A p \in Projects : q.ctx.mods[p] # None => q.ctx.mods[p].id \in Nat
  BY <1>1, <1>2 DEF Requests, Contexts, ModRows
<1>5. q.ctx.createdMods \subseteq Nat /\ q.ctx.createdVersions \subseteq Nat
  BY <1>1, <1>2 DEF Requests, Contexts
<1>6. Counted(q, next)
  <2>1. \A i \in DOMAIN q.stack : q.stack[i].mod.id <= next.mods
    BY <1>1, <1>3 DEF Counted, RowsOf
  <2>2. \A p \in Projects : q.ctx.mods[p] # None => q.ctx.mods[p].id <= next.mods
    BY <1>1, <1>4 DEF Counted, RowsOf
  <2>3. \A i \in q.ctx.createdMods : i <= next.mods
    BY <1>1, <1>5 DEF Counted, RowsOf
  <2>4. \A i \in q.ctx.createdVersions : i <= next.versions
    BY <1>1, <1>5 DEF Counted, RowsOf
  <2> QED  BY <2>1, <2>2, <2>3, <2>4 DEF Counted
<1> QED  BY <1>6 DEF RequestAt

\* Steps that only move on.
Onward(q, P) ==
  \/ P \in Taking /\ q.kind \in {"bootstrap", "materialize"}
  \/ P = "failed" /\ q.kind # "none"
  \/ P = "create" /\ q.pc = "lookup"
  \/ P = "files" /\ q.pc = "dependencies"
  \/ P = "returned" /\ q.pc = "bootstrap"

LEMMA MovesOn ==
  ASSUME NEW q, NEW last, RequestAt(q, last), NEW P, Onward(q, P),
         NEW r, r = [q EXCEPT !.pc = P]
  PROVE  RequestAt(r, last)
<1>1. q \in Requests /\ Shaped(q) /\ Stacked(q) /\ Counted(q, last)
  BY DEF RequestAt
<1>2. r \in Requests
  BY <1>1 DEF Requests, Onward, Going, Resolving, Taking
<1>3. /\ r.pc = P /\ r.kind = q.kind /\ r.stack = q.stack /\ r.ctx = q.ctx
      /\ r.need = q.need /\ r.target = q.target /\ r.stored = q.stored
  BY <1>1 DEF Requests
<1>4. Shaped(r)
  BY <1>1, <1>3 DEF Shaped, Onward, Going, Resolving, Taking
<1>5. Stacked(r)
  BY <1>1, <1>3 DEF Stacked, Onward, Shaped, Resolving, Taking, Going
<1>6. Counted(r, last)
  BY <1>1, <1>3 DEF Counted
<1> QED  BY <1>2, <1>4, <1>5, <1>6 DEF RequestAt

LEMMA RaisedAt ==
  ASSUME NEW q, NEW last, RequestAt(q, last), q.kind # "none",
         NEW P, P = IF q.kind # "import" /\ Changed(q.ctx) THEN "rollback" ELSE "failed",
         NEW r, r = [q EXCEPT !.pc = P]
  PROVE  RequestAt(r, last)
<1>1. q.kind \in {"import", "bootstrap", "materialize"}
  BY DEF RequestAt, Requests
<1>2. Onward(q, P)
  BY <1>1 DEF Onward, Taking
<1> QED  BY <1>2, MovesOn

-----------------------------------------------------------------------------
(* What each kind of step does to the fields of the request                *)

ResolvedTo(q, m, c) ==
  CASE q.kind = "import" -> [q EXCEPT !.pc = "returned"]
    [] q.kind = "bootstrap" ->
         [q EXCEPT !.pc = "bootstrap", !.ctx = c, !.todo = @ \ {q.need},
                   !.have = @ \cup {m.id}]
    [] q.kind = "materialize" ->
         [q EXCEPT !.pc = "choose", !.ctx = [c EXCEPT !.mods[q.need] = m]]

\* A context with more to take back, and all else as it was.
Extends(c, d) ==
  /\ d \in Contexts
  /\ d.mods = c.mods /\ d.externals = c.externals /\ d.processed = c.processed
  /\ d.createdVersions = c.createdVersions /\ d.artifacts = c.artifacts

LEMMA ResolvedAt ==
  ASSUME NEW q, NEW last, RequestAt(q, last), q.pc \in Resolving,
         NEW m \in ModRows, m.id <= last.mods, m.link = q.need,
         NEW c, Extends(q.ctx, c), \A i \in c.createdMods : i <= last.mods,
         NEW r, r = ResolvedTo(q, m, c)
  PROVE  /\ RequestAt(r, last)
         /\ q.kind = "materialize" =>
              /\ r.pc = "choose" /\ r.kind = q.kind /\ r.stack = q.stack
              /\ r.need = q.need /\ r.stored = q.stored
              /\ r.ctx = [c EXCEPT !.mods[q.need] = m]
         /\ q.kind = "bootstrap" => r.pc = "bootstrap" /\ r.ctx = c /\ r.kind = q.kind
         /\ q.kind = "import" => r.pc = "returned" /\ r.ctx = q.ctx /\ r.kind = q.kind
<1>1. q \in Requests /\ Shaped(q) /\ Stacked(q) /\ Counted(q, last)
  BY DEF RequestAt
<1>2. q.need \in Projects \ Configs /\ c \in Contexts /\ q.ctx \in Contexts /\ m.id \in ModIds
  BY <1>1 DEF Shaped, Requests, Resolving, Extends, ModRows
<1>3. q.kind \in {"import", "bootstrap", "materialize"}
  BY <1>1 DEF Shaped, Requests, Resolving
<1>4. CASE q.kind = "import"
  <2>1. r = [q EXCEPT !.pc = "returned"]
    BY <1>4 DEF ResolvedTo
  <2>2. r \in Requests
    BY <1>1, <2>1 DEF Requests, Going
  <2>3. /\ r.pc = "returned" /\ r.kind = q.kind /\ r.stack = q.stack /\ r.ctx = q.ctx
        /\ r.stored = q.stored /\ r.need = q.need
    BY <1>1, <2>1 DEF Requests
  <2>4. Shaped(r) /\ Stacked(r) /\ Counted(r, last)
    BY <1>1, <1>4, <2>3 DEF Shaped, Stacked, Counted, Resolving, Taking, Going
  <2> QED  BY <1>4, <2>2, <2>3, <2>4 DEF RequestAt
<1>5. CASE q.kind = "bootstrap"
  <2>1. r = [q EXCEPT !.pc = "bootstrap", !.ctx = c, !.todo = @ \ {q.need},
                      !.have = @ \cup {m.id}]
    BY <1>5 DEF ResolvedTo
  <2>2. r \in Requests
    <3>1. q.have \cup {m.id} \in SUBSET ModIds /\ q.todo \ {q.need} \in SUBSET (Projects \ Configs)
      BY <1>1, <1>2 DEF Requests
    <3> QED  BY <1>1, <1>2, <2>1, <3>1 DEF Requests
  <2>3. /\ r.pc = "bootstrap" /\ r.kind = q.kind /\ r.stack = q.stack /\ r.ctx = c
        /\ r.stored = q.stored /\ r.need = q.need
    BY <1>1, <2>1 DEF Requests
  <2>4. Shaped(r)
    BY <1>1, <1>5, <2>3 DEF Shaped, Resolving, Taking, Going
  <2>5. Stacked(r)
    BY <1>1, <1>5, <2>3 DEF Stacked, Resolving, Extends, Shaped
  <2>6. Counted(r, last)
    BY <1>1, <1>2, <2>3 DEF Counted, Extends
  <2> QED  BY <1>5, <2>2, <2>3, <2>4, <2>5, <2>6 DEF RequestAt
<1>6. CASE q.kind = "materialize"
  <2> DEFINE e == [c EXCEPT !.mods[q.need] = m]
  <2>1. r = [q EXCEPT !.pc = "choose", !.ctx = e]
    BY <1>6 DEF ResolvedTo
  <2>2. e \in Contexts
    BY <1>2 DEF Contexts
  <2>3. /\ e.createdMods = c.createdMods /\ e.createdVersions = c.createdVersions
        /\ e.mods[q.need] = m
        /\ \A p \in Projects : p # q.need => e.mods[p] = c.mods[p]
    BY <1>2 DEF Contexts
  <2> HIDE DEF e
  <2>4. r \in Requests
    BY <1>1, <2>1, <2>2 DEF Requests, Going
  <2>5. /\ r.pc = "choose" /\ r.kind = q.kind /\ r.stack = q.stack /\ r.ctx = e
        /\ r.stored = q.stored /\ r.need = q.need
    BY <1>1, <2>1 DEF Requests
  <2>6. Shaped(r)
    BY <1>1, <1>6, <2>5 DEF Shaped, Resolving, Taking, Going
  <2>7. Stacked(r)
    <3>1. m # None
      BY ImportsAssumption
    <3>2. \A p \in Projects : r.ctx.mods[p] # None => r.ctx.mods[p].link = p
      BY <1>1, <1>2, <2>3, <2>5 DEF Stacked, Extends
    <3>3. r.need \notin PathOf(r.stack) /\ r.ctx.mods[r.need] # None
      BY <1>1, <1>6, <2>3, <2>5, <3>1 DEF Stacked
    <3> QED  BY <1>1, <2>5, <3>2, <3>3 DEF Stacked
  <2>8. Counted(r, last)
    BY <1>1, <1>2, <2>3, <2>5 DEF Counted, Extends
  <2> QED  BY <1>6, <2>4, <2>5, <2>6, <2>7, <2>8 DEF RequestAt, e
<1> QED  BY <1>3, <1>4, <1>5, <1>6

\* What the stack of a request is made of.
LEMMA StackAt ==
  ASSUME NEW q, NEW last, RequestAt(q, last), q.kind = "materialize"
  PROVE  /\ q.stack \in Seq(Frames) /\ q.stack # <<>>
         /\ DOMAIN q.stack = 1..Len(q.stack) /\ Len(q.stack) \in Nat
         /\ 1 \in DOMAIN q.stack /\ Head(q.stack) = q.stack[1]
         /\ \A i \in DOMAIN q.stack : /\ q.stack[i] \in Frames
                                      /\ q.stack[i].mod.link \in Projects
                                      /\ q.stack[i].mod \in ModRows
                                      /\ q.stack[i].release \in Releases
<1>1. q \in Requests /\ Shaped(q) /\ Stacked(q)
  BY DEF RequestAt
<1>2. q.stack \in Seq(Frames) /\ q.stack # <<>>
  BY <1>1 DEF Requests, Shaped
<1>3. /\ DOMAIN q.stack = 1..Len(q.stack) /\ Len(q.stack) \in Nat
      /\ 1 \in DOMAIN q.stack /\ Head(q.stack) = q.stack[1]
      /\ \A i \in DOMAIN q.stack : q.stack[i] \in Frames
  BY <1>2, OnStack
<1>4. \A i \in DOMAIN q.stack : q.stack[i].mod \in ModRows /\ q.stack[i].release \in Releases
  BY <1>3 DEF Frames
<1>5. \A i \in DOMAIN q.stack : q.stack[i].mod.link \in Projects
  BY <1>1, <1>4, ImportsAssumption DEF Stacked
<1> QED  BY <1>2, <1>3, <1>4, <1>5

\* A step of the call on top.
LEMMA ToppedAt ==
  ASSUME NEW q, NEW last, RequestAt(q, last), q.kind = "materialize",
         NEW f \in Frames, f.mod = q.stack[1].mod, f.release = q.stack[1].release,
         NEW c \in Contexts,
         c.createdMods = q.ctx.createdMods, c.createdVersions = q.ctx.createdVersions,
         \A p \in Projects : \/ c.mods[p] = q.ctx.mods[p]
                             \/ p = f.mod.link /\ c.mods[p] = f.mod,
         NEW P \in {"dependencies", "insert"},
         NEW r \in Requests,
         r.kind = q.kind, r.pc = P, r.ctx = c, r.need = q.need, r.stored = q.stored,
         Topped(q.stack, r.stack, f)
  PROVE  RequestAt(r, last)
<1>1. q \in Requests /\ Shaped(q) /\ Stacked(q) /\ Counted(q, last)
  BY DEF RequestAt
<1>2. /\ q.stack \in Seq(Frames) /\ q.stack # <<>> /\ 1 \in DOMAIN q.stack
      /\ q.stack[1].mod.link \in Projects
  BY StackAt
<1>3. /\ r.stack # <<>> /\ DOMAIN r.stack = DOMAIN q.stack /\ Len(r.stack) = Len(q.stack)
      /\ r.stack[1] = f
      /\ \A i \in DOMAIN q.stack : i # 1 => r.stack[i] = q.stack[i]
  BY DEF Topped
<1>4. \A i \in DOMAIN r.stack : /\ i \in DOMAIN q.stack
                                /\ r.stack[i].mod = q.stack[i].mod
                                /\ r.stack[i].release = q.stack[i].release
  BY <1>3
<1>5. Shaped(r)
  BY <1>1, <1>3 DEF Shaped, Resolving, Taking, Going
<1>6. Stacked(r)
  <2>1. \A p \in Projects : c.mods[p] # None => c.mods[p].link = p
    BY <1>1 DEF Stacked
  <2>2. \A i \in DOMAIN r.stack :
          /\ r.stack[i].mod.link = ProjectOf[r.stack[i].release]
          /\ \A j \in DOMAIN r.stack :
               r.stack[i].mod.link = r.stack[j].mod.link => i = j
    BY <1>1, <1>4 DEF Stacked
  <2> QED  BY <2>1, <2>2 DEF Stacked, Resolving
<1>7. Counted(r, last)
  <2>1. f.mod.id <= last.mods
    BY <1>1, <1>2 DEF Counted
  <2> QED  BY <1>1, <1>4, <2>1 DEF Counted
<1> QED  BY <1>3, <1>5, <1>6, <1>7 DEF RequestAt

\* A call for the project that is needed.
LEMMA PushedAt ==
  ASSUME NEW q, NEW last, RequestAt(q, last), q.kind = "materialize", q.pc = "choose",
         NEW f \in Frames, f.mod = q.ctx.mods[q.need], ProjectOf[f.release] = q.need,
         NEW c \in Contexts, c.mods = q.ctx.mods,
         c.createdMods = q.ctx.createdMods, c.createdVersions = q.ctx.createdVersions,
         NEW r \in Requests,
         r.kind = q.kind, r.pc = "enter", r.ctx = c, r.stored = q.stored,
         OnTop(q.stack, r.stack, f)
  PROVE  RequestAt(r, last) /\ f.mod.link = q.need
<1>1. q \in Requests /\ Shaped(q) /\ Stacked(q) /\ Counted(q, last)
  BY DEF RequestAt
<1>2. q.stack \in Seq(Frames) /\ DOMAIN q.stack = 1..Len(q.stack) /\ Len(q.stack) \in Nat
  BY StackAt
<1>3. /\ r.stack # <<>> /\ DOMAIN r.stack = 1..(Len(q.stack) + 1)
      /\ Len(r.stack) = Len(q.stack) + 1 /\ r.stack[1] = f
      /\ \A i \in DOMAIN r.stack : i # 1 => i - 1 \in DOMAIN q.stack /\ r.stack[i] = q.stack[i - 1]
  BY DEF OnTop
<1>4. q.need \in Projects /\ q.ctx.mods[q.need] # None
  BY <1>1 DEF Stacked, Shaped, Requests
<1>5. f.mod.link = q.need /\ f.mod.id <= last.mods
  BY <1>1, <1>4 DEF Stacked, Counted
<1>6. Shaped(r)
  BY <1>1, <1>3 DEF Shaped, Resolving, Taking, Going
<1>7. Stacked(r)
  <2>1. \A i \in DOMAIN q.stack : q.stack[i].mod.link # q.need
    BY <1>1 DEF Stacked, PathOf
  <2>2. \A i \in DOMAIN r.stack : r.stack[i].mod.link = ProjectOf[r.stack[i].release]
    BY <1>1, <1>3, <1>5 DEF Stacked
  <2>3. ASSUME NEW i \in DOMAIN r.stack, NEW j \in DOMAIN r.stack,
               r.stack[i].mod.link = r.stack[j].mod.link
        PROVE  i = j
    <3>1. i \in Nat /\ j \in Nat
      BY <1>2, <1>3
    <3>2. (i = 1) <=> (j = 1)
      BY <1>3, <1>5, <2>1, <2>3
    <3>3. i # 1 => i - 1 = j - 1
      BY <1>1, <1>3, <2>3, <3>2 DEF Stacked
    <3> QED  BY <3>1, <3>2, <3>3
  <2> QED  BY <1>1, <2>2, <2>3 DEF Stacked, Resolving
<1>8. Counted(r, last)
  BY <1>1, <1>3, <1>5 DEF Counted
<1> QED  BY <1>3, <1>5, <1>6, <1>7, <1>8 DEF RequestAt

\* The call on top returns to the call below it.
LEMMA PoppedAt ==
  ASSUME NEW q, NEW last, RequestAt(q, last), q.kind = "materialize", Len(q.stack) # 1,
         q.pc \in {"dependencies", "files", "insert"},
         NEW f \in Frames, f.mod = q.stack[2].mod, f.release = q.stack[2].release,
         NEW c \in Contexts, c.mods = q.ctx.mods, c.createdMods = q.ctx.createdMods,
         \A i \in c.createdVersions : i <= last.versions,
         NEW r \in Requests,
         r.kind = q.kind, r.pc = "dependencies", r.ctx = c, r.stored = q.stored,
         OffTop(q.stack, r.stack, f)
  PROVE  RequestAt(r, last)
<1>1. q \in Requests /\ Shaped(q) /\ Stacked(q) /\ Counted(q, last)
  BY DEF RequestAt
<1>2. /\ q.stack \in Seq(Frames) /\ q.stack # <<>> /\ DOMAIN q.stack = 1..Len(q.stack)
      /\ Len(q.stack) \in Nat
  BY StackAt
<1>3. /\ r.stack # <<>> /\ {1, 2} \subseteq DOMAIN q.stack
      /\ DOMAIN r.stack = 1..(Len(q.stack) - 1)
      /\ Len(r.stack) = Len(q.stack) - 1 /\ r.stack[1] = f
      /\ \A i \in DOMAIN r.stack : i + 1 \in DOMAIN q.stack /\ (i # 1 => r.stack[i] = q.stack[i + 1])
  BY DEF OffTop
<1>4. \A i \in DOMAIN r.stack : /\ i \in Nat /\ i + 1 \in DOMAIN q.stack
                                /\ r.stack[i].mod = q.stack[i + 1].mod
                                /\ r.stack[i].release = q.stack[i + 1].release
  <2> TAKE i \in DOMAIN r.stack
  <2>1. i \in Nat /\ i + 1 \in DOMAIN q.stack
    BY <1>2, <1>3
  <2>2. CASE i = 1
    <3>1. i + 1 = 2
      BY <2>2
    <3> QED  BY <1>3, <2>1, <2>2, <3>1
  <2>3. CASE i # 1
    BY <1>3, <2>1, <2>3
  <2> QED  BY <2>2, <2>3
<1>5. Shaped(r)
  BY <1>1, <1>3 DEF Shaped, Resolving, Taking, Going
<1>6. Stacked(r)
  <2>1. \A i \in DOMAIN r.stack :
          /\ r.stack[i].mod.link = ProjectOf[r.stack[i].release]
          /\ \A j \in DOMAIN r.stack :
               r.stack[i].mod.link = r.stack[j].mod.link => i + 1 = j + 1
    BY <1>1, <1>4 DEF Stacked
  <2>2. \A i, j \in DOMAIN r.stack : i + 1 = j + 1 => i = j
    BY <1>4
  <2>3. \A p \in Projects : c.mods[p] # None => c.mods[p].link = p
    BY <1>1 DEF Stacked
  <2> QED  BY <2>1, <2>2, <2>3 DEF Stacked, Resolving
<1>7. Counted(r, last)
  BY <1>1, <1>4 DEF Counted
<1> QED  BY <1>3, <1>5, <1>6, <1>7 DEF RequestAt

\* The only call returns.
LEMMA FinishedAt ==
  ASSUME NEW q, NEW last, RequestAt(q, last), q.kind = "materialize",
         NEW c \in Contexts, c.mods = q.ctx.mods, c.createdMods = q.ctx.createdMods,
         \A i \in c.createdVersions : i <= last.versions,
         NEW r \in Requests,
         r.kind = q.kind, r.pc = "returned", r.ctx = c, r.stack = q.stack
  PROVE  RequestAt(r, last)
<1>1. q \in Requests /\ Shaped(q) /\ Stacked(q) /\ Counted(q, last)
  BY DEF RequestAt
<1>2. Shaped(r)
  BY <1>1 DEF Shaped, Resolving, Taking, Going
<1>3. Stacked(r)
  BY <1>1 DEF Stacked, Resolving
<1>4. Counted(r, last)
  BY <1>1 DEF Counted
<1> QED  BY <1>2, <1>3, <1>4 DEF RequestAt

\* The next requirement is looked at.
LEMMA NeededAt ==
  ASSUME NEW q, NEW last, RequestAt(q, last), q.kind = "materialize",
         NEW r \in Requests,
         r.kind = q.kind, r.stack = q.stack, r.ctx = q.ctx, r.stored = q.stored,
         r.pc \in {"lookup", "choose"}, r.pc = "choose" => q.ctx.mods[r.need] # None,
         r.need # None, r.need \notin PathOf(q.stack)
  PROVE  RequestAt(r, last)
<1>1. q \in Requests /\ Shaped(q) /\ Stacked(q) /\ Counted(q, last)
  BY DEF RequestAt
<1>4. Shaped(r)
  BY <1>1 DEF Shaped, Resolving, Taking, Going
<1>5. Stacked(r)
  BY <1>1 DEF Stacked, Resolving
<1>6. Counted(r, last)
  BY <1>1 DEF Counted
<1> QED  BY <1>4, <1>5, <1>6 DEF RequestAt

-----------------------------------------------------------------------------
(* The graph keeps its shape                                               *)

\* The request looks for the mod of a requirement, or has found it.
Locating(q, r) ==
  /\ q.kind = "materialize" /\ r.kind = "materialize"
  /\ q.pc \in Resolving \cup {"dependencies"} /\ r.pc \in Resolving \cup {"choose"}
  /\ r.stack = q.stack /\ r.stored = q.stored
  /\ r.ctx.externals = q.ctx.externals /\ r.ctx.processed = q.ctx.processed
  /\ \A p \in Projects : \/ r.ctx.mods[p] = q.ctx.mods[p]
                         \/ p = r.need /\ r.ctx.mods[p] # None
  /\ \E d \in q.stack[1].todo : d.project = r.need
  /\ r.need \notin PathOf(q.stack)

LEMMA LocatingGraph ==
  ASSUME NEW D, NEW q, NEW r, NEW last, NEW next,
         RequestAt(q, last), RequestAt(r, next), GraphOf(D, q), Locating(q, r)
  PROVE  GraphOf(D, r)
<1>1. q.kind = "materialize" /\ r.kind = "materialize"
  BY DEF Locating
<1>2. Waiting(D, q) /\ AtTop(D, q) /\ Known(D, q) /\ MetKnown(D, q)
  BY DEF GraphOf, Resolves, Locating, Going, Resolving
<1>3. /\ r.stack = q.stack /\ DOMAIN q.stack = 1..Len(q.stack) /\ Len(q.stack) \in Nat
      /\ 1 \in DOMAIN q.stack
      /\ \A i \in DOMAIN q.stack : q.stack[i].mod.link \in Projects \ {r.need}
  BY <1>1, StackAt DEF Locating, PathOf
<1>4. /\ q.ctx.externals[q.stack[1].mod.link] # None
      /\ q.stack[1].mod.link \notin Configs
  BY <1>2 DEF AtTop, Locating, Resolving
<1>5. Waiting(D, r)
  BY <1>2, <1>3 DEF Waiting
<1>6. AtTop(D, r)
  BY <1>2, <1>3, <1>4 DEF AtTop, Locating, Resolving, Entered
<1>7. Known(D, r)
  <2>1. \A i \in DOMAIN q.stack :
          r.ctx.mods[q.stack[i].mod.link] = q.ctx.mods[q.stack[i].mod.link]
    BY <1>3 DEF Locating
  <2>2. \A x \in q.ctx.processed : x[1] \in Projects
    BY DEF RequestAt, Requests, Contexts
  <2>3. \A x \in r.ctx.processed : r.ctx.mods[x[1]] # None
    BY <1>2, <2>2 DEF Known, Locating
  <2>4. /\ r.stack = q.stack /\ r.ctx.externals = q.ctx.externals
        /\ r.ctx.processed = q.ctx.processed
    BY DEF Locating
  <2>5. \A i \in DOMAIN r.stack :
             i > 1 \/ r.ctx.externals[r.stack[1].mod.link] # None =>
               /\ r.ctx.mods[r.stack[i].mod.link] = r.stack[i].mod
               /\ r.ctx.externals[r.stack[i].mod.link] = r.stack[i].release
    <3>1. \A i \in DOMAIN q.stack :
             i > 1 \/ q.ctx.externals[q.stack[1].mod.link] # None =>
               /\ q.ctx.mods[q.stack[i].mod.link] = q.stack[i].mod
               /\ q.ctx.externals[q.stack[i].mod.link] = q.stack[i].release
      BY <1>2 DEF Known
    <3> TAKE i \in DOMAIN r.stack
    <3>2. i \in DOMAIN q.stack
      BY <2>4
    <3>3. r.ctx.mods[q.stack[i].mod.link] = q.ctx.mods[q.stack[i].mod.link]
      BY <2>1, <3>2
    <3> QED  BY <2>4, <3>1, <3>2, <3>3
  <2>6. \A x : (Processed(x, r.ctx) <=> Processed(x, q.ctx)) /\ (Pinned(x, r.ctx) <=> Pinned(x, q.ctx))
    BY <2>4 DEF Processed, Pinned
  <2> QED  BY <1>2, <2>3, <2>4, <2>5, <2>6 DEF Known
<1>8. MetKnown(D, r)
  BY <1>2, <1>3, <1>4 DEF MetKnown, Locating, Resolving, Entered, Processed, Pinned
<1> QED  BY <1>5, <1>6, <1>7, <1>8 DEF GraphOf

\* The release on top has its requirements.
Entering(D, q, r) ==
  /\ q.kind = "materialize" /\ r.kind = "materialize"
  /\ q.pc = "enter" /\ r.pc = "dependencies" /\ r.stored = q.stored
  /\ LET f == q.stack[1]
     IN /\ ~ Conflict(Needs(D, f.release))
        /\ f.release \in Compatible
        /\ Topped(q.stack, r.stack, [f EXCEPT !.todo = Needs(D, f.release)])
        /\ r.ctx.externals = [q.ctx.externals EXCEPT ![f.mod.link] = f.release]
        /\ r.ctx.mods = [q.ctx.mods EXCEPT ![f.mod.link] = f.mod]
        /\ r.ctx.processed = q.ctx.processed

LEMMA EnteringGraph ==
  ASSUME NEW D, NEW q, NEW r, NEW last, NEW next,
         RequestAt(q, last), RequestAt(r, next), GraphOf(D, q), Entering(D, q, r),
         \A d \in D : d.project \in Projects
  PROVE  GraphOf(D, r)
<1> DEFINE f == q.stack[1]
           p == q.stack[1].mod.link
           g == [f EXCEPT !.todo = Needs(D, f.release)]
<1>1. q.kind = "materialize" /\ r.kind = "materialize"
  BY DEF Entering
<1>2. Waiting(D, q) /\ AtTop(D, q) /\ Known(D, q) /\ MetKnown(D, q)
  BY DEF GraphOf, Resolves, Entering, Going
<1>3. /\ DOMAIN q.stack = 1..Len(q.stack) /\ Len(q.stack) \in Nat
      /\ 1 \in DOMAIN q.stack /\ f \in Frames
      /\ \A i \in DOMAIN q.stack : q.stack[i].mod.link \in Projects
  BY <1>1, StackAt
<1>4. g.release = f.release /\ g.mod = f.mod /\ g.todo = Needs(D, f.release) /\ g.have = f.have
  BY <1>3 DEF Frames
<1>5. /\ DOMAIN r.stack = DOMAIN q.stack /\ Len(r.stack) = Len(q.stack) /\ r.stack[1] = g
      /\ \A i \in DOMAIN q.stack : i # 1 => r.stack[i] = q.stack[i]
  BY DEF Entering, Topped
<1> HIDE DEF g
<1>6. \A i \in DOMAIN q.stack : r.stack[i].mod = q.stack[i].mod /\ r.stack[i].release = q.stack[i].release
  BY <1>4, <1>5
<1>7. PathOf(r.stack) = PathOf(q.stack)
  BY <1>5, <1>6 DEF PathOf
<1>8. /\ p \in PathOf(q.stack) /\ ProjectOf[f.release] = p /\ f.mod # None /\ f.release # None
      /\ \A i \in DOMAIN q.stack : q.stack[i].mod.link = p => i = 1
  <2>1. f.mod # None /\ f.release # None
    BY <1>3, ImportsAssumption DEF Frames
  <2>2. ProjectOf[f.release] = p
    BY <1>3 DEF RequestAt, Stacked
  <2>3. \A i \in DOMAIN q.stack : q.stack[i].mod.link = p => i = 1
    BY <1>3 DEF RequestAt, Stacked
  <2> QED  BY <1>3, <2>1, <2>2, <2>3 DEF PathOf
<1>9. /\ r.ctx.externals[p] = f.release /\ r.ctx.mods[p] = f.mod
      /\ r.ctx.processed = q.ctx.processed
      /\ \A x \in Projects \ {p} : /\ r.ctx.externals[x] = q.ctx.externals[x]
                                   /\ r.ctx.mods[x] = q.ctx.mods[x]
  BY <1>3 DEF Entering, RequestAt, Requests, Contexts
<1>10. q.ctx.externals[p] # None => q.ctx.externals[p] = f.release /\ q.ctx.mods[p] = f.mod
  BY <1>2, <1>3 DEF Known
<1>11. \A x \in q.ctx.processed : /\ x[1] \in Projects /\ x[2] # None
                                  /\ q.ctx.externals[x[1]] = x[2] /\ q.ctx.mods[x[1]] # None
  BY <1>2, ImportsAssumption DEF Known, RequestAt, Requests, Contexts
<1>12. \A x \in Projects : Processed(x, q.ctx) => Processed(x, r.ctx) /\ r.ctx.externals[x] = q.ctx.externals[x]
  BY <1>9, <1>10, <1>11 DEF Processed
<1>13. \A d \in D : Processed(d.project, q.ctx) /\ Pinned(d, q.ctx) =>
                    Processed(d.project, r.ctx) /\ Pinned(d, r.ctx)
  BY <1>12 DEF Pinned
<1>14. p \notin Configs
  BY <1>2 DEF AtTop, Entering
<1>15. Waiting(D, r)
  <2>1. \A i \in DOMAIN r.stack : r.stack[i].todo \subseteq Needs(D, r.stack[i].release)
    BY <1>2, <1>4, <1>5 DEF Waiting
  <2>2. ASSUME NEW i \in DOMAIN r.stack, i > 1
        PROVE  /\ ~ Conflict(Needs(D, r.stack[i].release))
               /\ \E d \in r.stack[i].todo : /\ d.project = r.stack[i - 1].mod.link
                                             /\ d.pin \in {None, r.stack[i - 1].release}
    <3>1. i \in DOMAIN q.stack /\ i - 1 \in DOMAIN q.stack /\ r.stack[i] = q.stack[i]
      BY <1>3, <1>5, <2>2
    <3> QED  BY <1>2, <1>6, <2>2, <3>1 DEF Waiting
  <2> QED  BY <2>1, <2>2 DEF Waiting
<1>16. AtTop(D, r)
  <2>1. r.pc = "dependencies" /\ ~ r.stored /\ ~ Conflict(Needs(D, f.release))
    BY <1>2 DEF AtTop, Entering
  <2>2. r.stack[1].mod.link = p /\ r.stack[1].release = f.release
    BY <1>4, <1>5
  <2>3. r.ctx.externals[p] # None
    BY <1>8, <1>9
  <2> QED  BY <1>14, <2>1, <2>2, <2>3 DEF AtTop, Resolving
<1>17. Known(D, r)
  <2>1. \A i \in DOMAIN r.stack : i > 1 \/ r.ctx.externals[r.stack[1].mod.link] # None =>
          /\ r.ctx.mods[r.stack[i].mod.link] = r.stack[i].mod
          /\ r.ctx.externals[r.stack[i].mod.link] = r.stack[i].release
    <3> SUFFICES ASSUME NEW i \in DOMAIN q.stack
                 PROVE  /\ r.ctx.mods[q.stack[i].mod.link] = q.stack[i].mod
                        /\ r.ctx.externals[q.stack[i].mod.link] = q.stack[i].release
      BY <1>5, <1>6
    <3>1. CASE i = 1
      BY <1>9, <3>1
    <3>2. CASE i # 1
      <4>1. i > 1
        BY <1>3, <3>2
      <4> QED  BY <1>2, <1>3, <1>8, <1>9, <3>2, <4>1 DEF Known
    <3> QED  BY <3>1, <3>2
  <2>2. ASSUME NEW x \in Projects, r.ctx.externals[x] # None
        PROVE  /\ ProjectOf[r.ctx.externals[x]] = x
               /\ r.ctx.externals[x] \in Compatible
               /\ x \notin Configs
               /\ x \in PathOf(r.stack) \/ Processed(x, r.ctx)
    <3>1. CASE x = p
      BY <1>7, <1>8, <1>9, <1>14, <3>1 DEF Entering
    <3>2. CASE x # p
      BY <1>2, <1>7, <1>9, <1>12, <2>2, <3>2 DEF Known
    <3> QED  BY <3>1, <3>2
  <2>3. ASSUME NEW x \in r.ctx.processed
        PROVE  /\ r.ctx.externals[x[1]] = x[2]
               /\ r.ctx.mods[x[1]] # None
               /\ \A d \in Needs(D, x[2]) : Processed(d.project, r.ctx) /\ Pinned(d, r.ctx)
    <3>1. x \in q.ctx.processed
      BY <1>9
    <3>2. r.ctx.externals[x[1]] = x[2] /\ r.ctx.mods[x[1]] # None
      BY <1>8, <1>9, <1>10, <1>11, <3>1
    <3>3. \A d \in Needs(D, x[2]) : d \in D /\ Processed(d.project, q.ctx) /\ Pinned(d, q.ctx)
      BY <1>2, <3>1 DEF Known, Needs
    <3> QED  BY <1>13, <3>2, <3>3
  <2> QED  BY <2>1, <2>2, <2>3 DEF Known
<1>18. MetKnown(D, r)
  <2> SUFFICES ASSUME NEW i \in DOMAIN r.stack, NEW d \in MetBy(D, r.stack[i])
               PROVE  Processed(d.project, r.ctx) /\ Pinned(d, r.ctx)
    BY DEF MetKnown
  <2>1. CASE i = 1
    BY <1>4, <1>5, <2>1 DEF MetBy
  <2>2. CASE i # 1
    <3>1. i > 1 /\ i \in DOMAIN q.stack /\ r.stack[i] = q.stack[i]
      BY <1>3, <1>5, <2>2
    <3>2. d \in D /\ Processed(d.project, q.ctx) /\ Pinned(d, q.ctx)
      BY <1>2, <3>1 DEF MetKnown, MetBy, Needs, Entered
    <3> QED  BY <1>13, <3>2
  <2> QED  BY <2>1, <2>2
<1> QED  BY <1>15, <1>16, <1>17, <1>18 DEF GraphOf

\* The context names the same releases, and knows the same ones as processed.
SameGraph(c, e) == /\ e.mods = c.mods /\ e.externals = c.externals
                   /\ e.processed = c.processed

\* The call on top goes on, with fewer requirements.
Topping(q, r, f) ==
  /\ q.kind = "materialize" /\ r.kind = "materialize"
  /\ q.pc \in Going \ {"enter"} /\ r.pc \in Going \ {"enter"}
  /\ SameGraph(q.ctx, r.ctx)
  /\ Topped(q.stack, r.stack, f)
  /\ f.mod = q.stack[1].mod /\ f.release = q.stack[1].release
  /\ f.todo \subseteq q.stack[1].todo
  /\ \A d \in q.stack[1].todo \ f.todo : Processed(d.project, q.ctx) /\ Pinned(d, q.ctx)

LEMMA ToppingGraph ==
  ASSUME NEW D, NEW q, NEW r, NEW f, NEW last,
         RequestAt(q, last), GraphOf(D, q), Topping(q, r, f), AtTop(D, r)
  PROVE  GraphOf(D, r)
<1>1. q.kind = "materialize" /\ r.kind = "materialize"
  BY DEF Topping
<1>2. Waiting(D, q) /\ AtTop(D, q) /\ Known(D, q) /\ MetKnown(D, q)
  BY DEF GraphOf, Resolves, Topping
<1>3. /\ DOMAIN q.stack = 1..Len(q.stack) /\ Len(q.stack) \in Nat
      /\ 1 \in DOMAIN q.stack
      /\ \A i \in DOMAIN q.stack : q.stack[i].mod.link \in Projects
  BY <1>1, StackAt
<1>4. /\ f.release = q.stack[1].release /\ f.mod = q.stack[1].mod
      /\ f.todo \subseteq q.stack[1].todo
  BY DEF Topping
<1>5. /\ DOMAIN r.stack = DOMAIN q.stack /\ Len(r.stack) = Len(q.stack) /\ r.stack[1] = f
      /\ \A i \in DOMAIN q.stack : i # 1 => r.stack[i] = q.stack[i]
  BY DEF Topping, Topped
<1>6. \A i \in DOMAIN q.stack : r.stack[i].mod = q.stack[i].mod /\ r.stack[i].release = q.stack[i].release
  BY <1>4, <1>5
<1>7. PathOf(r.stack) = PathOf(q.stack)
  BY <1>5, <1>6 DEF PathOf
<1>8. \A x : (Processed(x, r.ctx) <=> Processed(x, q.ctx)) /\ (Pinned(x, r.ctx) <=> Pinned(x, q.ctx))
  BY DEF Topping, SameGraph, Processed, Pinned
<1>9. Waiting(D, r)
  <2>1. \A i \in DOMAIN r.stack : r.stack[i].todo \subseteq Needs(D, r.stack[i].release)
    BY <1>2, <1>3, <1>4, <1>5 DEF Waiting
  <2>2. ASSUME NEW i \in DOMAIN r.stack, i > 1
        PROVE  /\ ~ Conflict(Needs(D, r.stack[i].release))
               /\ \E e \in r.stack[i].todo : /\ e.project = r.stack[i - 1].mod.link
                                             /\ e.pin \in {None, r.stack[i - 1].release}
    <3>1. i \in DOMAIN q.stack /\ i - 1 \in DOMAIN q.stack /\ r.stack[i] = q.stack[i]
      BY <1>3, <1>5, <2>2
    <3> QED  BY <1>2, <1>6, <2>2, <3>1 DEF Waiting
  <2> QED  BY <2>1, <2>2 DEF Waiting
<1>10. Known(D, r)
  <2>1. \A i \in DOMAIN r.stack : i > 1 \/ r.ctx.externals[r.stack[1].mod.link] # None =>
          /\ r.ctx.mods[r.stack[i].mod.link] = r.stack[i].mod
          /\ r.ctx.externals[r.stack[i].mod.link] = r.stack[i].release
    <3>1. r.ctx.externals = q.ctx.externals /\ r.ctx.mods = q.ctx.mods
      BY DEF Topping, SameGraph
    <3>2. r.stack[1].mod = q.stack[1].mod
      BY <1>3, <1>6
    <3> TAKE i \in DOMAIN r.stack
    <3>3. /\ i \in DOMAIN q.stack
          /\ r.stack[i].mod = q.stack[i].mod /\ r.stack[i].release = q.stack[i].release
      BY <1>5, <1>6
    <3> QED  BY <1>2, <3>1, <3>2, <3>3 DEF Known
  <2> QED  BY <1>2, <1>7, <1>8, <2>1 DEF Known, Topping, SameGraph
<1>11. MetKnown(D, r)
  <2> SUFFICES ASSUME NEW i \in DOMAIN r.stack, Entered(r, i), NEW e \in MetBy(D, r.stack[i])
               PROVE  Processed(e.project, q.ctx) /\ Pinned(e, q.ctx)
    BY <1>8 DEF MetKnown
  <2>1. Entered(q, i)
    BY <1>3, <1>6 DEF Entered, Topping, SameGraph
  <2>2. CASE i = 1 /\ e \in q.stack[1].todo
    BY <1>5, <2>2 DEF Topping, MetBy
  <2>3. CASE i # 1 \/ e \notin q.stack[1].todo
    <3>1. e \in MetBy(D, q.stack[i])
      BY <1>4, <1>5, <2>3 DEF MetBy
    <3> QED  BY <1>2, <1>5, <2>1, <3>1 DEF MetKnown
  <2> QED  BY <2>2, <2>3
<1> QED  BY <1>9, <1>10, <1>11 DEF GraphOf

\* A requirement is met by a release that is in the library already.
Meeting(q, r) ==
  /\ q.kind = "materialize" /\ r.kind = "materialize"
  /\ q.pc = "choose" /\ r.pc = "dependencies" /\ r.stored = q.stored
  /\ SameGraph(q.ctx, r.ctx)
  /\ \E d \in q.stack[1].todo :
       /\ d.project = q.need
       /\ Processed(q.need, q.ctx) /\ Pinned(d, q.ctx)
       /\ Topped(q.stack, r.stack, Met(q.stack[1], d, q.ctx))

LEMMA MeetingGraph ==
  ASSUME NEW D, NEW q, NEW r, NEW last,
         RequestAt(q, last), GraphOf(D, q), Meeting(q, r)
  PROVE  GraphOf(D, r)
<1>1. PICK d \in q.stack[1].todo :
        /\ d.project = q.need
        /\ Processed(q.need, q.ctx) /\ Pinned(d, q.ctx)
        /\ Topped(q.stack, r.stack, Met(q.stack[1], d, q.ctx))
  BY DEF Meeting
<1>2. PICK f : f = Met(q.stack[1], d, q.ctx)
  OBVIOUS
<1>3. q.stack[1] \in Frames
  BY StackAt DEF Meeting
<1>4. f.release = q.stack[1].release /\ f.mod = q.stack[1].mod /\ f.todo = q.stack[1].todo \ {d}
  BY <1>2, <1>3 DEF Met, Frames
<1>5. Topping(q, r, f)
  BY <1>1, <1>2, <1>4 DEF Topping, Meeting, Going, Resolving
<1>6. AtTop(D, q)
  BY DEF GraphOf, Resolves, Meeting, Going
<1>7. AtTop(D, r)
  BY <1>4, <1>5, <1>6 DEF AtTop, Meeting, Topping, Topped, SameGraph, Resolving, Entered
<1> QED  BY <1>5, <1>7, ToppingGraph

\* A dependency is declared, or found declared.
Declaring(q, r) ==
  /\ q.kind = "materialize" /\ r.kind = "materialize"
  /\ q.pc = "dependencies" /\ r.pc = "dependencies" /\ r.stored = q.stored
  /\ SameGraph(q.ctx, r.ctx)
  /\ q.stack[1].todo = {}
  /\ \E j \in q.stack[1].have :
       Topped(q.stack, r.stack, [q.stack[1] EXCEPT !.have = @ \ {j}])

LEMMA DeclaringGraph ==
  ASSUME NEW D, NEW q, NEW r, NEW last,
         RequestAt(q, last), GraphOf(D, q), Declaring(q, r)
  PROVE  GraphOf(D, r)
<1>1. PICK j \in q.stack[1].have :
        Topped(q.stack, r.stack, [q.stack[1] EXCEPT !.have = @ \ {j}])
  BY DEF Declaring
<1>2. PICK f : f = [q.stack[1] EXCEPT !.have = @ \ {j}]
  OBVIOUS
<1>3. q.stack[1] \in Frames
  BY StackAt DEF Declaring
<1>4. f.release = q.stack[1].release /\ f.mod = q.stack[1].mod /\ f.todo = q.stack[1].todo
  BY <1>2, <1>3 DEF Frames
<1>5. Topping(q, r, f)
  BY <1>1, <1>2, <1>4 DEF Topping, Declaring, Going, Resolving
<1>6. AtTop(D, q)
  BY DEF GraphOf, Resolves, Declaring, Going
<1>7. AtTop(D, r)
  BY <1>4, <1>5, <1>6 DEF AtTop, Declaring, Topping, Topped, SameGraph, Resolving, Entered
<1> QED  BY <1>5, <1>7, ToppingGraph

\* All dependencies are declared, and the release is not stored.
Filing(q, r) ==
  /\ q.kind = "materialize" /\ r.kind = "materialize"
  /\ q.pc = "dependencies" /\ r.pc = "files" /\ r.stored = q.stored
  /\ r.ctx = q.ctx /\ r.stack = q.stack
  /\ q.stack[1].todo = {} /\ q.stack[1].have = {} /\ ~ q.stack[1].existing

LEMMA FilingGraph ==
  ASSUME NEW D, NEW q, NEW r, NEW last,
         RequestAt(q, last), GraphOf(D, q), Filing(q, r)
  PROVE  GraphOf(D, r)
<1>1. Topping(q, r, q.stack[1])
  <2>1. q.stack # <<>>
    BY StackAt DEF Filing
  <2> QED  BY <2>1 DEF Topping, Topped, Filing, Going, Resolving, SameGraph
<1>2. AtTop(D, q)
  BY DEF GraphOf, Resolves, Filing, Going
<1>3. AtTop(D, r)
  BY <1>2 DEF AtTop, Filing, Resolving, Entered
<1> QED  BY <1>1, <1>3, ToppingGraph

\* The file of the release is in place.
Placing(q, r) ==
  /\ q.kind = "materialize" /\ r.kind = "materialize"
  /\ q.pc = "files" /\ r.pc = "insert" /\ r.stored = q.stored
  /\ r.ctx = q.ctx
  /\ Verified(q.stack[1])
  /\ \E n \in NamesOf(q.stack[1].release) :
       Topped(q.stack, r.stack, [q.stack[1] EXCEPT !.name = n])

LEMMA PlacingGraph ==
  ASSUME NEW D, NEW q, NEW r, NEW last,
         RequestAt(q, last), GraphOf(D, q), Placing(q, r)
  PROVE  GraphOf(D, r)
<1>1. PICK n \in NamesOf(q.stack[1].release) :
        Topped(q.stack, r.stack, [q.stack[1] EXCEPT !.name = n])
  BY DEF Placing
<1>2. PICK f : f = [q.stack[1] EXCEPT !.name = n]
  OBVIOUS
<1>3. q.stack[1] \in Frames
  BY StackAt DEF Placing
<1>4. /\ f.release = q.stack[1].release /\ f.mod = q.stack[1].mod /\ f.todo = q.stack[1].todo
      /\ f.have = q.stack[1].have /\ f.existing = q.stack[1].existing /\ f.name = n
  BY <1>2, <1>3 DEF Frames
<1>5. Topping(q, r, f)
  BY <1>1, <1>2, <1>4 DEF Topping, Placing, Going, Resolving, SameGraph
<1>6. AtTop(D, q)
  BY DEF GraphOf, Resolves, Placing, Going
<1>7. r.stack[1] = f /\ Len(r.stack) = Len(q.stack) /\ Verified(f)
  BY <1>1, <1>2, <1>4 DEF Topped, Placing, Verified
<1>8. AtTop(D, r)
  BY <1>4, <1>6, <1>7 DEF AtTop, Placing, Resolving, Entered
<1> QED  BY <1>5, <1>8, ToppingGraph

\* The call for a release that meets a requirement.
Calling(q, r) ==
  /\ q.kind = "materialize" /\ r.kind = "materialize"
  /\ q.pc = "choose" /\ r.pc = "enter" /\ r.stored = q.stored
  /\ r.ctx.mods = q.ctx.mods /\ r.ctx.processed = q.ctx.processed
  /\ LET f == r.stack[1]
     IN /\ OnTop(q.stack, r.stack, f)
        /\ f.mod = q.ctx.mods[q.need] /\ f.todo = {} /\ f.have = {}
        /\ ProjectOf[f.release] = q.need /\ f.release \in Compatible
        /\ \E d \in q.stack[1].todo : d.project = q.need /\ d.pin \in {None, f.release}
        /\ q.ctx.externals[q.need] \in {None, f.release}
        /\ <<q.need, f.release>> \notin q.ctx.processed
        /\ r.ctx.externals = [q.ctx.externals EXCEPT ![q.need] = f.release]

LEMMA CallingGraph ==
  ASSUME NEW D, NEW q, NEW r, NEW last, NEW next,
         RequestAt(q, last), RequestAt(r, next), GraphOf(D, q), Calling(q, r),
         \A d \in D : d.project \in Projects
  PROVE  GraphOf(D, r)
<1> DEFINE f == r.stack[1]
<1>1. q.kind = "materialize" /\ r.kind = "materialize"
  BY DEF Calling
<1>2. Waiting(D, q) /\ AtTop(D, q) /\ Known(D, q) /\ MetKnown(D, q)
  BY DEF GraphOf, Resolves, Calling, Going
<1>3. /\ DOMAIN q.stack = 1..Len(q.stack) /\ Len(q.stack) \in Nat
      /\ 1 \in DOMAIN q.stack
      /\ \A i \in DOMAIN q.stack : q.stack[i].mod.link \in Projects
  BY <1>1, StackAt
<1>4. /\ DOMAIN r.stack = 1..(Len(q.stack) + 1) /\ Len(r.stack) = Len(q.stack) + 1
      /\ \A i \in DOMAIN r.stack : i # 1 => i - 1 \in DOMAIN q.stack /\ r.stack[i] = q.stack[i - 1]
  BY DEF Calling, OnTop
<1>5. q.need \in Projects \ Configs /\ q.ctx.mods[q.need] # None /\ q.need \notin PathOf(q.stack)
  BY <1>1 DEF Calling, RequestAt, Stacked, Shaped, Requests
<1>6. f.mod.link = q.need /\ f.release \in Releases /\ f.release # None
  <2>1. f.release \in Releases
    BY <1>1, StackAt
  <2>2. f.release # None
    BY <2>1, ImportsAssumption
  <2>3. f.mod = q.ctx.mods[q.need]
    BY DEF Calling
  <2>4. Stacked(q)
    BY DEF RequestAt
  <2> QED  BY <1>5, <2>1, <2>2, <2>3, <2>4 DEF Stacked
<1>7. /\ r.ctx.externals[q.need] = f.release
      /\ \A x \in Projects : x # q.need => r.ctx.externals[x] = q.ctx.externals[x]
  BY <1>5 DEF Calling, RequestAt, Requests, Contexts
<1>8. \A x \in q.ctx.processed : x[1] \in Projects /\ x[2] \in Releases /\ x = <<x[1], x[2]>>
  BY DEF RequestAt, Requests, Contexts
<1>9. q.ctx.externals[q.need] = None
  BY <1>2, <1>5 DEF Known, Calling, Processed
<1>10. ~ Processed(q.need, q.ctx)
  BY <1>8, <1>9, ImportsAssumption DEF Processed
<1>11. \A x \in Projects : Processed(x, q.ctx) => Processed(x, r.ctx) /\ r.ctx.externals[x] = q.ctx.externals[x]
  BY <1>7, <1>10 DEF Processed, Calling
<1>12. \A d \in D : Processed(d.project, q.ctx) /\ Pinned(d, q.ctx) =>
                    Processed(d.project, r.ctx) /\ Pinned(d, r.ctx)
  BY <1>11 DEF Pinned
<1>13. \A i \in DOMAIN r.stack : i # 1 => i > 1 /\ i - 1 >= 1
  BY <1>3, <1>4
<1>14. PathOf(r.stack) = PathOf(q.stack) \cup {q.need}
  <2>1. \A i \in DOMAIN q.stack : i + 1 \in DOMAIN r.stack /\ r.stack[i + 1] = q.stack[i]
    <3> TAKE i \in DOMAIN q.stack
    <3>1. i + 1 \in DOMAIN r.stack /\ i + 1 # 1 /\ (i + 1) - 1 = i
      BY <1>3, <1>4
    <3> QED  BY <1>4, <3>1
  <2>2. 1 \in DOMAIN r.stack /\ r.stack[1].mod.link = q.need
    BY <1>3, <1>4, <1>6
  <2>3. \A i \in DOMAIN r.stack : \/ r.stack[i].mod.link = q.need
                                 \/ \E j \in DOMAIN q.stack : r.stack[i] = q.stack[j]
    BY <1>4, <2>2
  <2> HIDE DEF f
  <2> QED  BY ONLY <2>1, <2>2, <2>3 DEF PathOf
<1>15. /\ q.ctx.externals[q.stack[1].mod.link] # None
       /\ ~ Conflict(Needs(D, q.stack[1].release))
  BY <1>2 DEF AtTop, Calling, Entered
<1>16. Waiting(D, r)
  <2>1. \A i \in DOMAIN r.stack : r.stack[i].todo \subseteq Needs(D, r.stack[i].release)
    BY <1>2, <1>4 DEF Waiting, Calling
  <2>2. ASSUME NEW i \in DOMAIN r.stack, i > 1
        PROVE  /\ ~ Conflict(Needs(D, r.stack[i].release))
               /\ \E d \in r.stack[i].todo : /\ d.project = r.stack[i - 1].mod.link
                                             /\ d.pin \in {None, r.stack[i - 1].release}
    <3>1. i - 1 \in DOMAIN q.stack /\ r.stack[i] = q.stack[i - 1] /\ i # 1
      BY <1>4, <2>2
    <3>2. CASE i = 2
      <4>1. i - 1 = 1
        BY <3>2
      <4>2. r.stack[i] = q.stack[1] /\ r.stack[i - 1] = f
        BY <3>1, <4>1
      <4> QED  BY <1>6, <1>15, <4>2 DEF Calling
    <3>3. CASE i # 2
      <4>1. i - 1 > 1 /\ i - 1 # 1 /\ i - 1 \in DOMAIN r.stack /\ (i - 1) - 1 \in DOMAIN q.stack
        BY <1>3, <1>4, <2>2, <3>3
      <4>2. r.stack[i - 1] = q.stack[(i - 1) - 1]
        BY <1>4, <4>1
      <4> QED  BY <1>2, <3>1, <4>1, <4>2 DEF Waiting
    <3> QED  BY <3>2, <3>3
  <2> QED  BY <2>1, <2>2 DEF Waiting
<1>17. AtTop(D, r)
  <2>1. ~ r.stored
    BY <1>2 DEF AtTop, Calling
  <2>2. ~ Entered(r, 1) /\ r.pc = "enter" /\ f.todo = {} /\ f.have = {} /\ f.mod.link \notin Configs
    BY <1>5, <1>6 DEF Entered, Calling
  <2> QED  BY <2>1, <2>2 DEF AtTop, Resolving
<1>18. Known(D, r)
  <2>1. ASSUME NEW i \in DOMAIN r.stack
        PROVE  /\ r.ctx.mods[r.stack[i].mod.link] = r.stack[i].mod
               /\ r.ctx.externals[r.stack[i].mod.link] = r.stack[i].release
    <3>1. CASE i = 1
      BY <1>6, <1>7, <3>1 DEF Calling
    <3>2. CASE i # 1
      <4>1. i - 1 \in DOMAIN q.stack /\ r.stack[i] = q.stack[i - 1]
        BY <1>4, <3>2
      <4>2. r.stack[i].mod.link \in Projects /\ r.stack[i].mod.link # q.need
        BY <1>3, <1>5, <4>1 DEF PathOf
      <4>3. /\ q.ctx.mods[q.stack[i - 1].mod.link] = q.stack[i - 1].mod
            /\ q.ctx.externals[q.stack[i - 1].mod.link] = q.stack[i - 1].release
        BY <1>2, <1>15, <4>1 DEF Known
      <4> QED  BY <1>7, <4>1, <4>2, <4>3 DEF Calling
    <3> QED  BY <3>1, <3>2
  <2>2. ASSUME NEW x \in Projects, r.ctx.externals[x] # None
        PROVE  /\ ProjectOf[r.ctx.externals[x]] = x
               /\ r.ctx.externals[x] \in Compatible
               /\ x \notin Configs
               /\ x \in PathOf(r.stack) \/ Processed(x, r.ctx)
    <3>1. CASE x = q.need
      BY <1>5, <1>7, <1>14, <3>1 DEF Calling
    <3>2. CASE x # q.need
      BY <1>2, <1>7, <1>11, <1>14, <2>2, <3>2 DEF Known
    <3> QED  BY <3>1, <3>2
  <2>3. ASSUME NEW x \in r.ctx.processed
        PROVE  /\ r.ctx.externals[x[1]] = x[2]
               /\ r.ctx.mods[x[1]] # None
               /\ \A d \in Needs(D, x[2]) : Processed(d.project, r.ctx) /\ Pinned(d, r.ctx)
    <3>1. x \in q.ctx.processed
      BY DEF Calling
    <3>2. q.ctx.externals[x[1]] = x[2] /\ q.ctx.mods[x[1]] # None
      BY <1>2, <3>1 DEF Known
    <3>3. x[1] \in Projects /\ x[1] # q.need
      BY <1>8, <1>9, <3>1, <3>2, ImportsAssumption
    <3>4. \A d \in Needs(D, x[2]) : d \in D /\ Processed(d.project, q.ctx) /\ Pinned(d, q.ctx)
      BY <1>2, <3>1 DEF Known, Needs
    <3> QED  BY <1>7, <1>12, <3>2, <3>3, <3>4 DEF Calling
  <2> QED  BY <2>1, <2>2, <2>3 DEF Known
<1>19. MetKnown(D, r)
  <2> SUFFICES ASSUME NEW i \in DOMAIN r.stack, Entered(r, i), NEW d \in MetBy(D, r.stack[i])
               PROVE  Processed(d.project, r.ctx) /\ Pinned(d, r.ctx)
    BY DEF MetKnown
  <2>1. i # 1 /\ i - 1 \in DOMAIN q.stack /\ r.stack[i] = q.stack[i - 1]
    BY <1>4 DEF Entered, Calling
  <2>2. Entered(q, i - 1)
    BY <1>15 DEF Entered, Calling
  <2>3. d \in D /\ Processed(d.project, q.ctx) /\ Pinned(d, q.ctx)
    BY <1>2, <2>1, <2>2 DEF MetKnown, MetBy, Needs
  <2> QED  BY <1>12, <2>3
<1> QED  BY <1>16, <1>17, <1>18, <1>19 DEF GraphOf

\* A release is done, for the call that required it.
Returning(q, r) ==
  /\ q.kind = "materialize" /\ r.kind = "materialize"
  /\ q.pc \in {"dependencies", "files", "insert"} /\ r.pc = "dependencies"
  /\ r.stored = q.stored
  /\ Len(q.stack) # 1
  /\ q.stack[1].todo = {} /\ q.stack[1].have = {}
  /\ r.ctx.mods = q.ctx.mods /\ r.ctx.externals = q.ctx.externals
  /\ r.ctx.processed = q.ctx.processed \cup {<<q.stack[1].mod.link, q.stack[1].release>>}
  /\ \E d \in q.stack[2].todo :
       /\ d.project = q.stack[1].mod.link
       /\ OffTop(q.stack, r.stack, Met(q.stack[2], d, q.ctx))

LEMMA ReturningGraph ==
  ASSUME NEW D, NEW q, NEW r, NEW last,
         RequestAt(q, last), GraphOf(D, q), Returning(q, r)
  PROVE  GraphOf(D, r)
<1> DEFINE p == q.stack[1].mod.link
           x == q.stack[1].release
<1>1. q.kind = "materialize" /\ r.kind = "materialize"
  BY DEF Returning
<1>2. Waiting(D, q) /\ AtTop(D, q) /\ Known(D, q) /\ MetKnown(D, q)
  BY DEF GraphOf, Resolves, Returning, Going
<1>3. /\ DOMAIN q.stack = 1..Len(q.stack) /\ Len(q.stack) \in Nat
      /\ 1 \in DOMAIN q.stack
      /\ \A i \in DOMAIN q.stack : q.stack[i] \in Frames /\ q.stack[i].mod.link \in Projects
  BY <1>1, StackAt
<1>4. PICK d \in q.stack[2].todo :
        /\ d.project = p
        /\ OffTop(q.stack, r.stack, Met(q.stack[2], d, q.ctx))
  BY DEF Returning
<1>5. PICK f : f = Met(q.stack[2], d, q.ctx)
  OBVIOUS
<1>6. /\ {1, 2} \subseteq DOMAIN q.stack
      /\ DOMAIN r.stack = 1..(Len(q.stack) - 1) /\ Len(r.stack) = Len(q.stack) - 1
      /\ r.stack[1] = f
      /\ \A i \in DOMAIN r.stack : i + 1 \in DOMAIN q.stack /\ (i # 1 => r.stack[i] = q.stack[i + 1])
  BY <1>4, <1>5 DEF OffTop
<1>7. /\ f.release = q.stack[2].release /\ f.mod = q.stack[2].mod
      /\ f.todo = q.stack[2].todo \ {d} /\ f.have = q.stack[2].have \cup {q.ctx.mods[p].id}
  BY <1>3, <1>4, <1>5, <1>6 DEF Met, Frames
<1>8. \A i \in DOMAIN r.stack : /\ i + 1 \in DOMAIN q.stack /\ i \in Nat /\ i >= 1 /\ i + 1 > 1
                                /\ r.stack[i].mod = q.stack[i + 1].mod
                                /\ r.stack[i].release = q.stack[i + 1].release
                                /\ r.stack[i].todo \subseteq q.stack[i + 1].todo
  <2> TAKE i \in DOMAIN r.stack
  <2>1. i + 1 \in DOMAIN q.stack /\ i \in Nat /\ i >= 1 /\ i + 1 > 1
    BY <1>3, <1>6
  <2>2. CASE i = 1
    <3>1. i + 1 = 2
      BY <2>2
    <3> QED  BY <1>6, <1>7, <2>1, <2>2, <3>1
  <2>3. CASE i # 1
    BY <1>6, <2>1, <2>3
  <2> QED  BY <2>2, <2>3
<1>9. p \notin Configs /\ q.ctx.externals[p] # None
  BY <1>2 DEF AtTop, Returning
<1>10. q.ctx.mods[p] = q.stack[1].mod /\ q.ctx.externals[p] = x
  BY <1>2, <1>3, <1>9 DEF Known
<1>11. q.ctx.mods[p] # None
  BY <1>3, <1>10, ImportsAssumption DEF Frames
<1>12. d.pin \in {None, x}
  <2>1. PICK e \in q.stack[2].todo : e.project = p /\ e.pin \in {None, x}
    <3>1. 2 \in DOMAIN q.stack /\ 2 > 1 /\ 2 - 1 = 1
      BY <1>6
    <3> QED  BY <1>2, <3>1 DEF Waiting
  <2>2. ~ Conflict(Needs(D, q.stack[2].release)) /\ q.stack[2].todo \subseteq Needs(D, q.stack[2].release)
    <3>1. 2 \in DOMAIN q.stack /\ 2 > 1
      BY <1>6
    <3> QED  BY <1>2, <3>1 DEF Waiting
  <2>3. d.pin = e.pin
    BY <1>4, <2>1, <2>2 DEF Conflict
  <2> QED  BY <2>1, <2>3
<1>13. Processed(p, r.ctx) /\ Pinned(d, r.ctx)
  BY <1>4, <1>10, <1>12 DEF Processed, Pinned, Returning
<1>14. \A y : /\ Processed(y, q.ctx) => Processed(y, r.ctx)
              /\ Pinned(y, q.ctx) => Pinned(y, r.ctx)
  BY DEF Returning, Processed, Pinned
<1>15. Waiting(D, r)
  <2>1. \A i \in DOMAIN r.stack : r.stack[i].todo \subseteq Needs(D, r.stack[i].release)
    BY <1>2, <1>8 DEF Waiting
  <2>2. ASSUME NEW i \in DOMAIN r.stack, i > 1
        PROVE  /\ ~ Conflict(Needs(D, r.stack[i].release))
               /\ \E e \in r.stack[i].todo : /\ e.project = r.stack[i - 1].mod.link
                                             /\ e.pin \in {None, r.stack[i - 1].release}
    <3>1. i + 1 \in DOMAIN q.stack /\ r.stack[i] = q.stack[i + 1] /\ i + 1 > 1
      BY <1>6, <1>8, <2>2
    <3>2. i - 1 \in DOMAIN r.stack /\ (i - 1) + 1 = i /\ (i + 1) - 1 = i
      BY <1>3, <1>6, <1>8, <2>2
    <3>3. r.stack[i - 1].mod = q.stack[i].mod /\ r.stack[i - 1].release = q.stack[i].release
      BY <1>8, <3>2
    <3> QED  BY <1>2, <3>1, <3>2, <3>3 DEF Waiting
  <2> QED  BY <2>1, <2>2 DEF Waiting
<1>16. /\ q.ctx.externals[q.stack[2].mod.link] # None
       /\ q.stack[2].mod.link \notin Configs
       /\ ~ Conflict(Needs(D, q.stack[2].release))
  <2>1. 2 \in DOMAIN q.stack /\ 2 > 1
    BY <1>6
  <2>2. /\ q.ctx.externals[q.stack[2].mod.link] = q.stack[2].release
        /\ ~ Conflict(Needs(D, q.stack[2].release))
    BY <1>2, <2>1 DEF Known, Waiting
  <2>3. q.ctx.externals[q.stack[2].mod.link] # None
    BY <1>3, <2>1, <2>2, ImportsAssumption DEF Frames
  <2> QED  BY <1>2, <1>3, <2>1, <2>2, <2>3 DEF Known
<1>17. AtTop(D, r)
  <2>1. ~ r.stored
    BY <1>2 DEF AtTop, Returning
  <2> QED  BY <1>6, <1>7, <1>16, <2>1 DEF AtTop, Returning, Resolving
<1>18. PathOf(q.stack) \subseteq PathOf(r.stack) \cup {p}
  <2> SUFFICES ASSUME NEW i \in DOMAIN q.stack, i # 1
               PROVE  q.stack[i].mod.link \in PathOf(r.stack)
    BY DEF PathOf
  <2>1. i - 1 \in DOMAIN r.stack /\ (i - 1) + 1 = i
    BY <1>3, <1>6
  <2> QED  BY <1>8, <2>1 DEF PathOf
<1>19. Known(D, r)
  <2>1. ASSUME NEW i \in DOMAIN r.stack
        PROVE  /\ r.ctx.mods[r.stack[i].mod.link] = r.stack[i].mod
               /\ r.ctx.externals[r.stack[i].mod.link] = r.stack[i].release
    BY <1>2, <1>8 DEF Known, Returning
  <2>2. ASSUME NEW y \in Projects, r.ctx.externals[y] # None
        PROVE  /\ ProjectOf[r.ctx.externals[y]] = y
               /\ r.ctx.externals[y] \in Compatible
               /\ y \notin Configs
               /\ y \in PathOf(r.stack) \/ Processed(y, r.ctx)
    <3>1. q.ctx.externals[y] # None /\ r.ctx.externals[y] = q.ctx.externals[y]
      BY <2>2 DEF Returning
    <3>2. y \in PathOf(q.stack) \/ Processed(y, q.ctx)
      BY <1>2, <3>1 DEF Known
    <3>3. y \in PathOf(r.stack) \/ Processed(y, r.ctx)
      BY <1>13, <1>14, <1>18, <3>2
    <3> QED  BY <1>2, <3>1, <3>3 DEF Known
  <2>3. ASSUME NEW y \in r.ctx.processed
        PROVE  /\ r.ctx.externals[y[1]] = y[2]
               /\ r.ctx.mods[y[1]] # None
               /\ \A e \in Needs(D, y[2]) : Processed(e.project, r.ctx) /\ Pinned(e, r.ctx)
    <3>1. CASE y \in q.ctx.processed
      BY <1>2, <1>14, <3>1 DEF Known, Returning
    <3>2. CASE y = <<p, x>>
      <4>1. y[1] = p /\ y[2] = x
        BY <3>2
      <4>2. Entered(q, 1)
        BY <1>9 DEF Entered, Returning
      <4>3. \A e \in Needs(D, x) : Processed(e.project, q.ctx) /\ Pinned(e, q.ctx)
        BY <1>2, <1>3, <4>2 DEF MetKnown, MetBy, Returning
      <4> QED  BY <1>10, <1>11, <1>14, <4>1, <4>3 DEF Returning
    <3> QED  BY <3>1, <3>2 DEF Returning
  <2> QED  BY <2>1, <2>2, <2>3 DEF Known
<1>20. MetKnown(D, r)
  <2> SUFFICES ASSUME NEW i \in DOMAIN r.stack, NEW e \in MetBy(D, r.stack[i])
               PROVE  Processed(e.project, r.ctx) /\ Pinned(e, r.ctx)
    BY DEF MetKnown
  <2>1. i + 1 \in DOMAIN q.stack /\ Entered(q, i + 1)
    BY <1>8 DEF Entered
  <2>2. CASE e = d
    BY <1>4, <1>13, <2>2
  <2>3. CASE e # d
    <3>1. e \in MetBy(D, q.stack[i + 1])
      <4>1. CASE i = 1
        <5>1. i + 1 = 2
          BY <4>1
        <5> QED  BY <1>6, <1>7, <2>3, <4>1, <5>1 DEF MetBy
      <4>2. CASE i # 1
        BY <1>6, <4>2
      <4> QED  BY <4>1, <4>2
    <3> QED  BY <1>2, <1>14, <2>1, <3>1 DEF MetKnown
  <2> QED  BY <2>2, <2>3
<1> QED  BY <1>15, <1>17, <1>19, <1>20 DEF GraphOf

\* The release that was asked for is done.
Finishing(q, r) ==
  /\ q.kind = "materialize" /\ r.kind = "materialize"
  /\ q.pc \in {"dependencies", "files", "insert"} /\ r.pc = "returned"
  /\ Len(q.stack) = 1
  /\ q.stack[1].todo = {} /\ q.stack[1].have = {}
  /\ SameGraph(q.ctx, r.ctx) /\ r.stack = q.stack
  /\ q.stack[1].mod.link \in Configs => r.ctx = q.ctx

LEMMA FinishingGraph ==
  ASSUME NEW D, NEW q, NEW r, NEW last,
         RequestAt(q, last), GraphOf(D, q), Finishing(q, r)
  PROVE  GraphOf(D, r)
<1>1. Topping(q, r, q.stack[1])
  <2>1. q.stack # <<>>
    BY StackAt DEF Finishing
  <2> QED  BY <2>1 DEF Topping, Topped, Finishing, Going, Resolving, SameGraph
<1>2. AtTop(D, q)
  BY DEF GraphOf, Resolves, Finishing, Going
<1>3. AtTop(D, r)
  BY <1>2 DEF AtTop, Finishing, SameGraph, Resolving, Entered
<1> QED  BY <1>1, <1>3, ToppingGraph

\* A request begins with the release that was asked for.
Beginning(r, m, x, e, P) ==
  /\ r = Request("materialize", P, <<[release |-> x, mod |-> m, name |-> None, todo |-> {},
                                      have |-> {}, existing |-> e]>>, {})
  /\ m \in ModRows /\ x \in Releases /\ m.link = ProjectOf[x] /\ e \in BOOLEAN
  /\ P = IF e THEN "returned" ELSE IF m.link \in Configs THEN "files" ELSE "enter"

LEMMA NoContextTyped ==
  /\ NoContext \in Contexts
  /\ \A p \in Projects : NoContext.mods[p] = None /\ NoContext.externals[p] = None
  /\ NoContext.processed = {} /\ NoContext.createdMods = {}
  /\ NoContext.createdVersions = {} /\ NoContext.linked = {}
  /\ NoContext.edges = {} /\ NoContext.artifacts = {}
BY DEF NoContext, Contexts, MaybeReleases

LEMMA BeginningAt ==
  ASSUME NEW D, NEW r, NEW m, NEW x, NEW e, NEW P, NEW last, Beginning(r, m, x, e, P),
         m.id <= last.mods
  PROVE  /\ RequestAt(r, last) /\ GraphOf(D, r)
         /\ r.kind = "materialize" /\ r.pc = P /\ r.ctx = NoContext /\ ~ r.stored
         /\ DOMAIN r.stack = {1} /\ Len(r.stack) = 1
         /\ r.stack[1].mod = m /\ r.stack[1].release = x /\ r.stack[1].existing = e
         /\ r.stack[1].todo = {} /\ r.stack[1].have = {}
<1> DEFINE f == [release |-> x, mod |-> m, name |-> None, todo |-> {}, have |-> {}, existing |-> e]
<1>1. f \in Frames
  BY DEF Beginning, Frames
<1>2. <<f>> \in Seq(Frames) /\ <<f>> # <<>> /\ Len(<<f>>) = 1 /\ DOMAIN <<f>> = {1} /\ <<f>>[1] = f
  BY <1>1
<1>3. PICK s : s = <<f>>
  OBVIOUS
<1>4. /\ s \in Seq(Frames) /\ s # <<>> /\ Len(s) = 1 /\ DOMAIN s = {1} /\ s[1] = f
      /\ r = Request("materialize", P, s, {})
  BY <1>2, <1>3 DEF Beginning
<1>5. /\ f.mod = m /\ f.release = x /\ f.existing = e /\ f.todo = {} /\ f.have = {}
  OBVIOUS
<1> HIDE DEF f
<1>6. P \in {"returned", "files", "enter"}
  BY DEF Beginning
<1>7. r = [todo |-> {}, have |-> {}, kind |-> "materialize", pc |-> P, stack |-> s,
           ctx |-> NoContext, need |-> None, target |-> 0, stored |-> FALSE]
  BY <1>4 DEF Request
<1>8. r \in Requests
  <2>1. P \in {"idle", "bootstrap"} \cup Going \cup Taking
    BY <1>6 DEF Going
  <2>2. s \in Seq(Frames) /\ NoContext \in Contexts
    BY <1>4, NoContextTyped
  <2> QED  BY ONLY <1>7, <2>1, <2>2 DEF Requests
<1>9. /\ r.kind = "materialize" /\ r.pc = P /\ r.ctx = NoContext /\ ~ r.stored /\ r.stack = s
  BY <1>7
<1>10. Shaped(r)
  BY <1>4, <1>6, <1>9 DEF Shaped, Going, Resolving, Taking
<1>11. Stacked(r)
  BY <1>4, <1>5, <1>6, <1>9, NoContextTyped DEF Stacked, Beginning, Resolving
<1>12. Counted(r, last)
  BY <1>4, <1>5, <1>9, NoContextTyped DEF Counted
<1>13. m.link \in Projects
  BY ImportsAssumption DEF Beginning
<1>14. Waiting(D, r)
  BY <1>4, <1>5, <1>9 DEF Waiting
<1>15. AtTop(D, r)
  <2>1. /\ P = "files" => ~ e /\ m.link \in Configs
        /\ m.link \in Configs => P \in {"files", "returned"}
    BY DEF Beginning
  <2>2. r.ctx.externals[r.stack[1].mod.link] = None
    BY <1>4, <1>5, <1>9, <1>13, NoContextTyped
  <2>3. /\ Len(r.stack) = 1 /\ r.stack[1].mod.link = m.link
        /\ r.stack[1].todo = {} /\ r.stack[1].have = {} /\ r.stack[1].existing = e
    BY <1>4, <1>5, <1>9
  <2>4. ~ Entered(r, 1)
    BY <2>2 DEF Entered
  <2>5. r.pc \in {"returned", "files", "enter"} /\ r.pc # "insert" /\ ~ r.stored
    BY <1>6, <1>9
  <2> QED  BY <1>9, <2>1, <2>3, <2>4, <2>5 DEF AtTop, Resolving
<1>16. Known(D, r)
  BY <1>4, <1>5, <1>9, <1>13, NoContextTyped DEF Known
<1>17. MetKnown(D, r)
  BY <1>4, <1>5, <1>9, <1>13, NoContextTyped DEF MetKnown, Entered
<1> QED  BY <1>4, <1>5, <1>8, <1>9, <1>10, <1>11, <1>12, <1>14, <1>15, <1>16, <1>17
         DEF RequestAt, GraphOf

-----------------------------------------------------------------------------
(* The steps of a request, as changes of the request                       *)

LEMMA OnlyIn ==
  ASSUME NEW S, S # {}
  PROVE  Only(S) \in S
BY DEF Only

LEMMA RaisesStep ==
  ASSUME RequestOK, req.kind # "none", Raises
  PROVE  /\ RequestAt(req', lastIds) /\ ~ Resolves(req')
         /\ req'.ctx = req.ctx /\ req'.kind = req.kind
         /\ \/ req'.pc = "rollback" /\ req.kind # "import"
            \/ req'.pc = "failed" /\ (req.kind = "import" \/ ~ Changed(req.ctx))
<1>1. PICK P : /\ P = IF req.kind # "import" /\ Changed(req.ctx) THEN "rollback" ELSE "failed"
               /\ req' = [req EXCEPT !.pc = P]
  BY DEF Raises, Goes
<1>2. RequestAt(req', lastIds)
  BY <1>1, RaisedAt DEF RequestOK
<1>3. req'.ctx = req.ctx /\ req'.kind = req.kind /\ req'.pc = P
  BY <1>1 DEF RequestOK, RequestAt, Requests
<1> QED  BY <1>1, <1>2, <1>3 DEF Resolves, Going, Resolving

LEMMA OnwardStep ==
  ASSUME RequestOK, NEW P, Onward(req, P), Goes(P)
  PROVE  /\ RequestAt(req', lastIds)
         /\ req'.pc = P /\ req'.kind = req.kind /\ req'.ctx = req.ctx
         /\ req'.stack = req.stack /\ req'.stored = req.stored /\ req'.need = req.need
         /\ req'.target = req.target
<1>1. req' = [req EXCEPT !.pc = P]
  BY DEF Goes
<1>2. RequestAt(req', lastIds)
  BY <1>1, MovesOn DEF RequestOK
<1> QED  BY <1>1, <1>2 DEF RequestOK, RequestAt, Requests

LEMMA ResolvedStep ==
  ASSUME RequestOK, Graph, req.pc \in Resolving,
         NEW last, RowsOf(lastIds, last),
         NEW m \in ModRows, m.id <= last.mods, m.link = req.need,
         NEW c, Extends(req.ctx, c), \A i \in c.createdMods : i <= last.mods,
         Resolved(m, c)
  PROVE  /\ RequestAt(req', last)
         /\ ~ Resolves(req') \/ Locating(req, req')
         /\ req.kind = "materialize" =>
              /\ req'.pc = "choose" /\ req'.kind = req.kind /\ req'.stack = req.stack
              /\ req'.need = req.need /\ req'.stored = req.stored
              /\ req'.ctx = [c EXCEPT !.mods[req.need] = m]
         /\ req.kind = "bootstrap" => req'.pc = "bootstrap" /\ req'.ctx = c /\ req'.kind = req.kind
         /\ req.kind = "import" => req'.pc = "returned" /\ req'.ctx = req.ctx /\ req'.kind = req.kind
<1>1. req' = ResolvedTo(req, m, c)
  BY DEF Resolved, ResolvedTo
<1>2. RequestAt(req, last)
  BY RowsGrow DEF RequestOK
<1>3. /\ RequestAt(req', last)
      /\ req.kind = "materialize" =>
           /\ req'.pc = "choose" /\ req'.kind = req.kind /\ req'.stack = req.stack
           /\ req'.need = req.need /\ req'.stored = req.stored
           /\ req'.ctx = [c EXCEPT !.mods[req.need] = m]
      /\ req.kind = "bootstrap" => req'.pc = "bootstrap" /\ req'.ctx = c /\ req'.kind = req.kind
      /\ req.kind = "import" => req'.pc = "returned" /\ req'.ctx = req.ctx /\ req'.kind = req.kind
  BY <1>1, <1>2, ResolvedAt
<1>4. req.kind \in {"import", "bootstrap", "materialize"}
  BY DEF RequestOK, RequestAt, Shaped, Requests, Resolving
<1>5. ~ Resolves(req') \/ Locating(req, req')
  <2>1. CASE req.kind # "materialize"
    BY <1>3, <1>4, <2>1 DEF Resolves
  <2>2. CASE req.kind = "materialize"
    <3>1. req.need \in Projects /\ c \in Contexts /\ m # None
      BY ImportsAssumption DEF RequestOK, RequestAt, Shaped, Requests, Resolving, Extends
    <3>2. /\ req'.ctx.externals = c.externals /\ req'.ctx.processed = c.processed
          /\ req'.ctx.mods[req.need] = m
          /\ \A p \in Projects : p # req.need => req'.ctx.mods[p] = c.mods[p]
      BY <1>3, <2>2, <3>1 DEF Contexts
    <3>3. AtTop(catalog, req)
      BY <2>2 DEF Graph, GraphOf, Resolves, Going
    <3>4. \E d \in req.stack[1].todo : d.project = req.need
      BY <3>3 DEF AtTop
    <3>5. req.need \notin PathOf(req.stack)
      BY <2>2 DEF RequestOK, RequestAt, Stacked
    <3> QED  BY <1>3, <2>2, <3>1, <3>2, <3>4, <3>5 DEF Locating, Extends
  <2> QED  BY <2>1, <2>2
<1> QED  BY <1>3, <1>5

LEMMA CatalogTyped ==
  ASSUME Rows
  PROVE  catalog \subseteq Requirements /\ \A d \in catalog : d.project \in Projects \ Configs
BY ImportsAssumption DEF Rows, TablesTyped, Requirements

LEMMA KindOfStep ==
  ASSUME Rows, req.pc # "idle"
  PROVE  req.kind \in {"import", "bootstrap", "materialize"}
BY DEF Rows, RequestOK, RequestAt, Shaped, Requests

LEMMA SameRows ==
  ASSUME Rows
  PROVE  RowsOf(lastIds, lastIds)
BY ImportsAssumption DEF Rows, TablesTyped, RowsOf

LEMMA LookupStep ==
  ASSUME Rows, Graph, Lookup
  PROVE  RequestAt(req', lastIds) /\ (~ Resolves(req') \/ Locating(req, req'))
<1> DEFINE p == req.need
<1>1. req.pc = "lookup" /\ RequestOK /\ req \in Requests /\ req.kind # "none"
  BY KindOfStep DEF Lookup, Rows, RequestOK, RequestAt
<1>2. CASE Raises
  BY <1>1, <1>2, RaisesStep
<1>3. CASE Linked(p) # {} /\ Resolved(Only(Linked(p)), req.ctx)
  <2>1. PICK m : m = Only(Linked(p))
    OBVIOUS
  <2>2. m \in mods /\ m.link = p
    BY <1>3, <2>1, OnlyIn DEF Linked
  <2>3. m \in ModRows /\ m.id <= lastIds.mods
    BY <2>2 DEF Rows, TablesTyped, RowsCounted
  <2>4. Extends(req.ctx, req.ctx) /\ \A i \in req.ctx.createdMods : i <= lastIds.mods
    BY <1>1 DEF RequestOK, RequestAt, Counted, Requests, Extends
  <2>5. Resolved(m, req.ctx) /\ req.pc \in Resolving
    BY <1>1, <1>3, <2>1 DEF Resolving
  <2> QED  BY <1>1, <2>2, <2>3, <2>4, <2>5, SameRows, ResolvedStep
<1>4. CASE Goes("create")
  <2>1. Onward(req, "create")
    BY <1>1 DEF Onward
  <2>2. /\ RequestAt(req', lastIds)
        /\ req'.pc = "create" /\ req'.kind = req.kind /\ req'.ctx = req.ctx
        /\ req'.stack = req.stack /\ req'.stored = req.stored /\ req'.need = req.need
    BY <1>1, <1>4, <2>1, OnwardStep
  <2>3. CASE req.kind = "materialize"
    <3>1. AtTop(catalog, req) /\ p \notin PathOf(req.stack)
      BY <1>1, <2>3 DEF Graph, GraphOf, Resolves, Going, Resolving, RequestOK, RequestAt, Stacked
    <3> QED  BY <1>1, <2>2, <2>3, <3>1 DEF Locating, Resolving, AtTop
  <2>4. CASE req.kind # "materialize"
    BY <2>2, <2>4 DEF Resolves
  <2> QED  BY <2>2, <2>3, <2>4
<1>5. CASE /\ Named(p) # {}
           /\ req' = [req EXCEPT !.pc = "link", !.target = Only(Named(p)).id]
  <2>1. Only(Named(p)) \in mods
    BY <1>5, OnlyIn DEF Named
  <2>2. PICK i : i = Only(Named(p)).id
    OBVIOUS
  <2>3. i \in ModIds /\ i # 0
    BY <2>1, <2>2 DEF Rows, TablesTyped, ModRows, ModIds
  <2>4. req' = [req EXCEPT !.pc = "link", !.target = i]
    BY <1>5, <2>2
  <2>5. req' \in Requests
    BY <1>1, <2>3, <2>4 DEF Requests, Going, Resolving
  <2>6. /\ req'.pc = "link" /\ req'.kind = req.kind /\ req'.ctx = req.ctx /\ req'.target = i
        /\ req'.stack = req.stack /\ req'.stored = req.stored /\ req'.need = req.need
    BY <1>1, <2>4 DEF Requests
  <2>7. Shaped(req) /\ Stacked(req) /\ Counted(req, lastIds)
    BY <1>1 DEF RequestOK, RequestAt
  <2>8. Shaped(req')
    BY <1>1, <2>3, <2>6, <2>7 DEF Shaped, Resolving, Taking, Going
  <2>9. Stacked(req') /\ Counted(req', lastIds)
    BY <1>1, <2>6, <2>7 DEF Stacked, Resolving, Counted
  <2>10. CASE req.kind = "materialize"
    <3>1. AtTop(catalog, req) /\ p \notin PathOf(req.stack)
      BY <1>1, <2>10 DEF Graph, GraphOf, Resolves, Going, Resolving, RequestOK, RequestAt, Stacked
    <3> QED  BY <1>1, <2>5, <2>6, <2>8, <2>9, <2>10, <3>1 DEF Locating, Resolving, AtTop, RequestAt
  <2>11. CASE req.kind # "materialize"
    BY <2>5, <2>6, <2>8, <2>9, <2>11 DEF Resolves, RequestAt
  <2> QED  BY <2>10, <2>11
<1> QED  BY <1>2, <1>3, <1>4, <1>5 DEF Lookup

LEMMA ExtendsLinked ==
  ASSUME Rows, NEW i \in ModIds, NEW p \in Projects,
         NEW c, c = [req.ctx EXCEPT !.linked = @ \cup {<<i, p>>}]
  PROVE  /\ Extends(req.ctx, c) /\ \A j \in c.createdMods : j <= lastIds.mods
         /\ c.linked = req.ctx.linked \cup {<<i, p>>}
         /\ c.edges = req.ctx.edges /\ c.createdMods = req.ctx.createdMods
<1>1. req.ctx \in Contexts /\ Counted(req, lastIds)
  BY DEF Rows, RequestOK, RequestAt, Requests
<1> QED  BY <1>1 DEF Contexts, Extends, Counted

LEMMA LinkStep ==
  ASSUME Rows, Graph, Link
  PROVE  /\ RequestAt(req', lastIds) /\ (~ Resolves(req') \/ Locating(req, req'))
         /\ lastIds' = lastIds
<1> DEFINE p == req.need
           free == {m \in mods : m.id = req.target /\ m.link = None}
           done == {m \in Named(p) : m.link = p}
           context(m) == [req.ctx EXCEPT !.linked = @ \cup {<<m.id, p>>}]
<1>1. /\ req.pc = "link" /\ RequestOK /\ req \in Requests /\ req.kind # "none"
      /\ req.pc \in Resolving
  BY KindOfStep DEF Link, Rows, RequestOK, RequestAt, Resolving
<1>2. p \in Projects
  BY <1>1 DEF RequestOK, RequestAt, Shaped, Requests
<1>3. lastIds' = lastIds
  BY DEF Link, Fails, library
<1>4. Extends(req.ctx, req.ctx) /\ \A i \in req.ctx.createdMods : i <= lastIds.mods
  BY <1>1 DEF RequestOK, RequestAt, Counted, Requests, Extends
<1>5. CASE Raises
  BY <1>1, <1>3, <1>5, RaisesStep
<1>6. ASSUME NEW m \in ModRows, m.id <= lastIds.mods, m.link = p,
             Resolved(m, req.ctx) \/ Resolved(m, context(m))
      PROVE  RequestAt(req', lastIds) /\ (~ Resolves(req') \/ Locating(req, req'))
  <2>1. PICK c : c = req.ctx \/ c = context(m)
    OBVIOUS
  <2>2. PICK d : d = context(m)
    OBVIOUS
  <2>3. Extends(req.ctx, d) /\ \A i \in d.createdMods : i <= lastIds.mods
    BY <1>2, <2>2, ExtendsLinked DEF ModRows
  <2>4. CASE Resolved(m, req.ctx)
    BY <1>1, <1>4, <1>6, <2>4, SameRows, ResolvedStep
  <2>5. CASE Resolved(m, context(m))
    <3>1. Resolved(m, d)
      BY <2>2, <2>5
    <3> QED  BY <1>1, <1>6, <2>3, <3>1, SameRows, ResolvedStep
  <2> QED  BY <1>6, <2>4, <2>5
<1>7. CASE free # {} /\ Linked(p) # {} /\ Resolved(Only(Linked(p)), req.ctx)
  <2>1. PICK m : m = Only(Linked(p))
    OBVIOUS
  <2>2. m \in ModRows /\ m.id <= lastIds.mods /\ m.link = p
    BY <1>7, <2>1, OnlyIn DEF Linked, Rows, TablesTyped, RowsCounted
  <2> QED  BY <1>3, <1>6, <1>7, <2>1, <2>2
<1>8. CASE free = {} /\ done # {} /\ Resolved(Only(done), context(Only(done)))
  <2>1. PICK m : m = Only(done)
    OBVIOUS
  <2>2. m \in done
    BY <1>8, <2>1, OnlyIn
  <2>3. m \in ModRows /\ m.id <= lastIds.mods /\ m.link = p
    BY <2>2 DEF Named, Rows, TablesTyped, RowsCounted
  <2> QED  BY <1>3, <1>6, <1>8, <2>1, <2>3
<1>9. CASE /\ free # {} /\ Linked(p) = {}
           /\ LET m == [Only(free) EXCEPT !.link = p]
              IN Resolved(m, context(m))
  <2>1. PICK n : n = Only(free)
    OBVIOUS
  <2>2. n \in free
    BY <1>9, <2>1, OnlyIn
  <2>3. PICK m : m = [n EXCEPT !.link = p]
    OBVIOUS
  <2>4. n \in ModRows /\ n.id <= lastIds.mods
    BY <2>2 DEF Rows, TablesTyped, RowsCounted
  <2>5. m \in ModRows /\ m.id = n.id /\ m.link = p
    BY <1>2, <2>3, <2>4 DEF ModRows
  <2> QED  BY <1>3, <1>6, <1>9, <2>1, <2>3, <2>4, <2>5
<1> QED  BY <1>3, <1>5, <1>7, <1>8, <1>9 DEF Link, Fails

LEMMA CreateStep ==
  ASSUME Rows, Graph, Create
  PROVE  /\ RequestAt(req', lastIds') /\ (~ Resolves(req') \/ Locating(req, req'))
         /\ RowsOf(lastIds, lastIds')
<1> DEFINE p == req.need
           m == [id |-> lastIds.mods + 1, slug |-> p, link |-> p, type |-> "MOD"]
<1>1. /\ req.pc = "create" /\ RequestOK /\ req \in Requests /\ req.kind # "none"
      /\ req.pc \in Resolving
  BY KindOfStep DEF Create, Rows, RequestOK, RequestAt, Resolving
<1>2. p \in Projects
  BY <1>1 DEF RequestOK, RequestAt, Shaped, Requests, Resolving
<1>3. Extends(req.ctx, req.ctx) /\ \A i \in req.ctx.createdMods : i <= lastIds.mods
  BY <1>1 DEF RequestOK, RequestAt, Counted, Requests, Extends
<1>4. CASE Fails
  <2>1. lastIds' = lastIds
    BY <1>4 DEF Fails, library
  <2> QED  BY <1>1, <1>4, <2>1, RaisesStep, SameRows DEF Fails
<1>5. CASE Linked(p) # {} /\ Resolved(Only(Linked(p)), req.ctx) /\ UNCHANGED library
  <2>1. PICK n : n = Only(Linked(p))
    OBVIOUS
  <2>2. n \in ModRows /\ n.id <= lastIds.mods /\ n.link = p
    BY <1>5, <2>1, OnlyIn DEF Linked, Rows, TablesTyped, RowsCounted
  <2>3. lastIds' = lastIds
    BY <1>5 DEF library
  <2>4. Resolved(n, req.ctx)
    BY <1>5, <2>1
  <2> QED  BY <1>1, <1>3, <2>2, <2>3, <2>4, SameRows, ResolvedStep
<1>6. CASE /\ lastIds.mods < MaxMod
           /\ lastIds' = [lastIds EXCEPT !.mods = @ + 1]
           /\ Resolved(m, [req.ctx EXCEPT !.createdMods = @ \cup {m.id}])
  <2>1. PICK n : n = m
    OBVIOUS
  <2>2. PICK c : c = [req.ctx EXCEPT !.createdMods = @ \cup {n.id}]
    OBVIOUS
  <2>3. lastIds \in [mods : 0..MaxMod, versions : 0..MaxVersion] /\ MaxMod \in Nat /\ MaxVersion \in Nat
    BY ImportsAssumption DEF Rows, TablesTyped
  <2>4. lastIds'.mods = lastIds.mods + 1 /\ lastIds'.versions = lastIds.versions
    BY <1>6, <2>3
  <2>5. n.id = lastIds.mods + 1 /\ n.link = p /\ n.slug = p /\ n.type = "MOD"
    BY <2>1
  <2>6. n.id \in ModIds /\ n \in ModRows /\ n.id <= lastIds'.mods
    BY <1>2, <1>6, <2>1, <2>3, <2>4, <2>5 DEF ModIds, ModRows, Types
  <2>7. RowsOf(lastIds, lastIds')
    BY <2>3, <2>4 DEF RowsOf
  <2>8. req.ctx \in Contexts
    BY <1>1 DEF Requests
  <2>9. Extends(req.ctx, c)
    BY <2>2, <2>6, <2>8 DEF Extends, Contexts
  <2>10. \A i \in c.createdMods : i <= lastIds'.mods
    <3>1. c.createdMods = req.ctx.createdMods \cup {n.id}
      BY <2>2, <2>8 DEF Contexts
    <3>2. req.ctx.createdMods \subseteq Nat
      BY <2>8 DEF Contexts, ModIds
    <3> QED  BY <1>3, <2>3, <2>4, <2>6, <3>1, <3>2
  <2>11. Resolved(n, c)
    BY <1>6, <2>1, <2>2
  <2> QED  BY <1>1, <2>5, <2>6, <2>7, <2>9, <2>10, <2>11, ResolvedStep
<1> QED  BY <1>4, <1>5, <1>6 DEF Create

LEMMA NextBootstrapStep ==
  ASSUME Rows, NextBootstrap
  PROVE  RequestAt(req', lastIds) /\ ~ Resolves(req') /\ req'.ctx = req.ctx
         /\ req'.pc \in {"bootstrap", "lookup"} /\ req'.kind = "bootstrap"
<1>1. /\ req.pc = "bootstrap" /\ req \in Requests /\ req.kind = "bootstrap"
      /\ Shaped(req) /\ Stacked(req) /\ Counted(req, lastIds)
  BY KindOfStep DEF NextBootstrap, Rows, RequestOK, RequestAt, Shaped, Going, Taking, Resolving
<1>2. PICK p \in req.todo :
        req' = IF Linked(p) = {} THEN [req EXCEPT !.pc = "lookup", !.need = p]
               ELSE [req EXCEPT !.todo = @ \ {p},
                                !.have = @ \cup {Only(Linked(p)).id}]
  BY DEF NextBootstrap
<1>3. p \in Projects \ Configs /\ p # None
  BY <1>1, ImportsAssumption DEF Requests
<1>4. CASE req' = [req EXCEPT !.pc = "lookup", !.need = p]
  <2>1. req' \in Requests
    BY <1>1, <1>3, <1>4 DEF Requests, Going, Resolving
  <2>2. /\ req'.pc = "lookup" /\ req'.kind = req.kind /\ req'.ctx = req.ctx
        /\ req'.stack = req.stack /\ req'.stored = req.stored /\ req'.need = p
    BY <1>1, <1>4 DEF Requests
  <2>3. Shaped(req') /\ Stacked(req') /\ Counted(req', lastIds)
    BY <1>1, <1>3, <2>2 DEF Shaped, Stacked, Counted, Resolving, Taking, Going
  <2> QED  BY <1>1, <2>1, <2>2, <2>3 DEF RequestAt, Resolves
<1>5. CASE /\ Linked(p) # {}
           /\ req' = [req EXCEPT !.todo = @ \ {p}, !.have = @ \cup {Only(Linked(p)).id}]
  <2>1. Only(Linked(p)) \in mods
    BY <1>5, OnlyIn DEF Linked
  <2>2. PICK i : i = Only(Linked(p)).id
    OBVIOUS
  <2>3. i \in ModIds
    BY <2>1, <2>2 DEF Rows, TablesTyped, ModRows
  <2>4. req' = [req EXCEPT !.todo = @ \ {p}, !.have = @ \cup {i}]
    BY <1>5, <2>2
  <2>5. req' \in Requests
    <3>1. req.have \cup {i} \in SUBSET ModIds /\ req.todo \ {p} \in SUBSET (Projects \ Configs)
      BY <1>1, <2>3 DEF Requests
    <3> QED  BY <1>1, <2>4, <3>1 DEF Requests
  <2>6. /\ req'.pc = req.pc /\ req'.kind = req.kind /\ req'.ctx = req.ctx
        /\ req'.stack = req.stack /\ req'.stored = req.stored /\ req'.need = req.need
    BY <1>1, <2>4 DEF Requests
  <2>7. Shaped(req') /\ Stacked(req') /\ Counted(req', lastIds)
    BY <1>1, <2>6 DEF Shaped, Stacked, Counted, Resolving, Taking, Going
  <2> QED  BY <1>1, <2>5, <2>6, <2>7 DEF RequestAt, Resolves
<1> QED  BY <1>2, <1>4, <1>5

LEMMA SetRolesStep ==
  ASSUME Rows, SetRoles
  PROVE  RequestAt(req', lastIds) /\ ~ Resolves(req') /\ lastIds' = lastIds
         /\ req.kind = "bootstrap" /\ req'.kind = req.kind
<1>1. req.pc = "bootstrap" /\ RequestOK /\ req.kind = "bootstrap"
  BY KindOfStep DEF SetRoles, Rows, RequestOK, RequestAt, Shaped, Going, Taking, Resolving
<1>2. lastIds' = lastIds
  BY DEF SetRoles, Fails, library
<1>3. CASE Fails
  BY <1>1, <1>2, <1>3, RaisesStep DEF Fails
<1>4. CASE Goes("returned")
  <2>1. Onward(req, "returned")
    BY <1>1 DEF Onward
  <2> QED  BY <1>1, <1>2, <1>4, <2>1, OnwardStep DEF Resolves
<1> QED  BY <1>3, <1>4 DEF SetRoles

LEMMA OnStackNow ==
  ASSUME Rows, req.kind = "materialize"
  PROVE  /\ req.stack \in Seq(Frames) /\ req.stack # <<>>
         /\ DOMAIN req.stack = 1..Len(req.stack) /\ Len(req.stack) \in Nat
         /\ 1 \in DOMAIN req.stack /\ Top = req.stack[1]
         /\ \A i \in DOMAIN req.stack : /\ req.stack[i] \in Frames
                                        /\ req.stack[i].mod.link \in Projects
                                        /\ req.stack[i].mod \in ModRows
                                        /\ req.stack[i].release \in Releases
BY StackAt DEF Rows, RequestOK, Top

LEMMA MaterializesAt ==
  ASSUME Rows, req.pc \in {"enter", "dependencies", "choose", "files", "insert"}
  PROVE  req.kind = "materialize" /\ Resolves(req)
BY DEF Rows, RequestOK, RequestAt, Shaped, Requests, Resolves, Going, Taking, Resolving

LEMMA EnterStep ==
  ASSUME Rows, Graph, Enter
  PROVE  RequestAt(req', lastIds) /\ (~ Resolves(req') \/ Entering(catalog, req, req'))
<1>1. req.pc = "enter" /\ RequestOK /\ req \in Requests /\ req.kind = "materialize"
  BY MaterializesAt DEF Enter, Rows, RequestOK, RequestAt
<1>2. CASE Raises
  BY <1>1, <1>2, RaisesStep
<1>3. CASE LET p == Top.mod.link
               D == Required(Top.release)
           IN /\ Top.release \in Listed(p)
              /\ ~ Conflict(D)
              /\ req' = [req EXCEPT
                           !.pc = "dependencies",
                           !.stack = SetTop([Top EXCEPT !.todo = D]),
                           !.ctx.externals[p] = Top.release,
                           !.ctx.mods[p] = Top.mod]
  <2>1. /\ req.stack \in Seq(Frames) /\ req.stack # <<>> /\ Top = req.stack[1]
        /\ Top \in Frames /\ Top.mod.link \in Projects /\ Top.mod \in ModRows /\ Top.release \in Releases
    BY <1>1, OnStackNow
  <2>2. PICK p, D, f, t : /\ p = Top.mod.link /\ D = Required(Top.release)
                          /\ f = [Top EXCEPT !.todo = D] /\ t = SetTop(f)
    OBVIOUS
  <2>3. D = Needs(catalog, Top.release) /\ D \subseteq Requirements
    BY <2>2, CatalogTyped DEF Required, Needs
  <2>4. f \in Frames /\ f.mod = Top.mod /\ f.release = Top.release
    BY <2>1, <2>2, <2>3 DEF Frames
  <2>5. t \in Seq(Frames) /\ Topped(req.stack, t, f)
    <3>1. t = <<f>> \o Tail(req.stack)
      BY <2>2 DEF SetTop
    <3> QED  BY ONLY <2>1, <2>4, <3>1, StackChanges
  <2>6. PICK c : c = [[req.ctx EXCEPT !.externals[p] = Top.release] EXCEPT !.mods[p] = Top.mod]
    OBVIOUS
  <2>7. req' = [req EXCEPT !.pc = "dependencies", !.stack = t, !.ctx = c]
    <3>1. req' = [req EXCEPT !.pc = "dependencies", !.stack = t,
                             !.ctx.externals[p] = Top.release, !.ctx.mods[p] = Top.mod]
      BY <1>3, <2>2
    <3>2. req.ctx \in Contexts
      BY <1>1 DEF Requests
    <3> QED  BY ONLY <1>1, <2>6, <3>1, <3>2 DEF Requests, Contexts
  <2>8. req.ctx \in Contexts
    BY <1>1 DEF Requests
  <2>9. /\ c \in Contexts
        /\ c.externals = [req.ctx.externals EXCEPT ![p] = Top.release]
        /\ c.mods = [req.ctx.mods EXCEPT ![p] = Top.mod]
        /\ c.processed = req.ctx.processed /\ c.createdMods = req.ctx.createdMods
        /\ c.createdVersions = req.ctx.createdVersions
    BY <2>1, <2>2, <2>6, <2>8 DEF Contexts, MaybeReleases
  <2>10. req' \in Requests
    BY <1>1, <2>5, <2>7, <2>9 DEF Requests, Going
  <2>11. /\ req'.kind = req.kind /\ req'.pc = "dependencies" /\ req'.ctx = c
         /\ req'.need = req.need /\ req'.stored = req.stored /\ req'.stack = t
    BY <1>1, <2>7 DEF Requests
  <2>12. \A x \in Projects : \/ c.mods[x] = req.ctx.mods[x]
                             \/ x = f.mod.link /\ c.mods[x] = f.mod
    BY <2>1, <2>2, <2>4, <2>8, <2>9 DEF Contexts
  <2>13. RequestAt(req', lastIds)
    BY <1>1, <2>1, <2>4, <2>5, <2>9, <2>10, <2>11, <2>12, ToppedAt DEF RequestOK
  <2>14. ~ Conflict(Needs(catalog, Top.release)) /\ Top.release \in Compatible
    BY <1>3, <2>2, <2>3 DEF Listed
  <2>15. Entering(catalog, req, req')
    BY <1>1, <2>1, <2>2, <2>3, <2>5, <2>9, <2>11, <2>14 DEF Entering
  <2> QED  BY <2>13, <2>15
<1> QED  BY <1>2, <1>3 DEF Enter

LEMMA NextDependencyStep ==
  ASSUME Rows, Graph, NextDependency
  PROVE  RequestAt(req', lastIds) /\ (~ Resolves(req') \/ Locating(req, req'))
<1>1. req.pc = "dependencies" /\ RequestOK /\ req \in Requests /\ req.kind = "materialize"
  BY MaterializesAt DEF NextDependency, Rows, RequestOK, RequestAt
<1>2. CASE Raises
  BY <1>1, <1>2, RaisesStep
<1>3. ASSUME NEW d \in Top.todo, d.project \notin Path,
             req' = [req EXCEPT
                       !.pc = IF req.ctx.mods[d.project] = None
                                THEN "lookup" ELSE "choose",
                       !.need = d.project]
      PROVE  RequestAt(req', lastIds) /\ Locating(req, req')
  <2>1. Top = req.stack[1] /\ Top \in Frames
    BY <1>1, OnStackNow
  <2>2. d.project \in Projects \ Configs
    BY <1>3, <2>1 DEF Frames, Requirements
  <2>3. d.project \notin PathOf(req.stack)
    BY <1>3 DEF Path, PathOf
  <2>4. PICK p : p = d.project
    OBVIOUS
  <2>5. PICK P \in {"lookup", "choose"} :
          /\ P = "choose" => req.ctx.mods[p] # None
          /\ req' = [req EXCEPT !.pc = P, !.need = p]
    BY <1>3, <2>4
  <2>6. p \in Projects \ Configs /\ p \notin PathOf(req.stack) /\ p # None
    BY <2>2, <2>3, <2>4, ImportsAssumption
  <2>7. /\ req' \in Requests
        /\ req'.kind = req.kind /\ req'.stack = req.stack /\ req'.ctx = req.ctx
        /\ req'.need = p /\ req'.stored = req.stored /\ req'.pc = P
    BY <1>1, <2>5, <2>6 DEF Requests, Going, Resolving
  <2>8. RequestAt(req', lastIds)
    BY <1>1, <2>5, <2>6, <2>7, NeededAt DEF RequestOK
  <2> QED  BY <1>1, <1>3, <2>1, <2>4, <2>5, <2>6, <2>7, <2>8 DEF Locating, Resolving
<1> QED  BY <1>2, <1>3 DEF NextDependency

LEMMA MetTyped ==
  ASSUME NEW f \in Frames, NEW d, NEW c \in Contexts, d.project \in Projects,
         c.mods[d.project] # None
  PROVE  /\ Met(f, d, c) \in Frames
         /\ Met(f, d, c).mod = f.mod /\ Met(f, d, c).release = f.release
<1>1. c.mods[d.project].id \in ModIds
  BY DEF Contexts, ModRows
<1>2. PICK i \in ModIds : i = c.mods[d.project].id
  BY <1>1
<1>3. Met(f, d, c) = [f EXCEPT !.todo = @ \ {d}, !.have = @ \cup {i}]
  BY <1>2 DEF Met
<1>4. f.todo \ {d} \in SUBSET Requirements /\ f.have \cup {i} \in SUBSET ModIds
  BY DEF Frames
<1> QED  BY <1>3, <1>4 DEF Frames

LEMMA ReturnsStep ==
  ASSUME Rows, Graph, req.pc \in {"dependencies", "files", "insert"},
         req.stack[1].todo = {}, req.stack[1].have = {},
         NEW last, RowsOf(lastIds, last),
         NEW stored \in BOOLEAN,
         NEW c \in Contexts, SameGraph(req.ctx, c), c.createdMods = req.ctx.createdMods,
         \A i \in c.createdVersions : i <= last.versions,
         req.stack[1].mod.link \in Configs => c = req.ctx,
         Returns(stored, c)
  PROVE  /\ RequestAt(req', last)
         /\ \/ Finishing(req, req') /\ req'.stored = stored /\ req'.ctx = c
            \/ /\ Returning(req, req')
               /\ req'.ctx = [c EXCEPT !.processed =
                    @ \cup {<<req.stack[1].mod.link, req.stack[1].release>>}]
<1>1. /\ RequestOK /\ req \in Requests /\ req.kind = "materialize"
      /\ Resolves(req) /\ req.ctx \in Contexts
  BY MaterializesAt DEF Rows, RequestOK, RequestAt, Requests
<1>2. /\ req.stack \in Seq(Frames) /\ req.stack # <<>> /\ Top = req.stack[1]
      /\ DOMAIN req.stack = 1..Len(req.stack) /\ Len(req.stack) \in Nat /\ 1 \in DOMAIN req.stack
      /\ \A i \in DOMAIN req.stack : req.stack[i] \in Frames /\ req.stack[i].mod.link \in Projects
  BY <1>1, OnStackNow
<1>3. RequestAt(req, last)
  BY <1>1, RowsGrow DEF RequestOK
<1>4. CASE Len(req.stack) = 1
  <2>1. req' = [req EXCEPT !.pc = "returned", !.ctx = c, !.stored = stored]
    BY <1>4 DEF Returns
  <2>2. /\ req' \in Requests
        /\ req'.kind = req.kind /\ req'.pc = "returned" /\ req'.ctx = c
        /\ req'.stored = stored /\ req'.stack = req.stack
    BY <1>1, <2>1 DEF Requests, Going
  <2>3. RequestAt(req', last)
    BY <1>1, <1>3, <2>2, FinishedAt DEF SameGraph
  <2>4. Finishing(req, req')
    BY <1>1, <1>4, <2>2 DEF Finishing
  <2> QED  BY <2>2, <2>3, <2>4
<1>5. CASE Len(req.stack) # 1
  <2>1. PICK p, f : p = Top.mod.link /\ f = Head(Tail(req.stack))
    OBVIOUS
  <2>2. PICK d : d = Only({e \in f.todo : e.project = p})
    OBVIOUS
  <2>3. PICK g : g = Met(f, d, c)
    OBVIOUS
  <2>4. PICK t, x : /\ t = <<g>> \o Tail(Tail(req.stack))
                    /\ x = [c EXCEPT !.processed = @ \cup {<<p, Top.release>>}]
    OBVIOUS
  <2>5. req' = [req EXCEPT !.pc = "dependencies", !.ctx = x, !.stack = t]
    BY <1>5, <2>1, <2>2, <2>3, <2>4 DEF Returns
  <2>6. {1, 2} \subseteq DOMAIN req.stack /\ f = req.stack[2]
    BY ONLY <1>2, <1>5, <2>1, Second
  <2>7. d \in f.todo /\ d.project = p /\ p \in Projects
    <3>1. Waiting(catalog, req)
      BY <1>1 DEF Graph, GraphOf
    <3>2. 2 \in DOMAIN req.stack /\ 2 > 1 /\ 2 - 1 = 1
      BY <2>6
    <3>3. \E e \in req.stack[2].todo : e.project = req.stack[1].mod.link
      BY <3>1, <3>2 DEF Waiting
    <3>4. {e \in f.todo : e.project = p} # {}
      BY <1>2, <2>1, <2>6, <3>3
    <3>5. d \in {e \in f.todo : e.project = p}
      BY <2>2, <3>4, OnlyIn
    <3> QED  BY <1>2, <2>1, <3>5
  <2>8. c.mods[p] # None
    <3>1. Known(catalog, req) /\ AtTop(catalog, req)
      BY <1>1 DEF Graph, GraphOf
    <3>2. req.ctx.externals[req.stack[1].mod.link] # None
      BY <1>5, <3>1 DEF AtTop
    <3>3. req.ctx.mods[req.stack[1].mod.link] = req.stack[1].mod
      BY <1>2, <3>1, <3>2 DEF Known
    <3> QED  BY <1>2, <2>1, <3>3, ImportsAssumption DEF SameGraph, Frames
  <2>9. g \in Frames /\ g.mod = req.stack[2].mod /\ g.release = req.stack[2].release
    BY <1>2, <2>3, <2>6, <2>7, <2>8, MetTyped
  <2>10. t \in Seq(Frames) /\ OffTop(req.stack, t, g)
    BY ONLY <1>2, <1>5, <2>4, <2>9, StackChanges
  <2>11. /\ x \in Contexts /\ x.mods = c.mods /\ x.externals = c.externals
         /\ x.processed = c.processed \cup {<<p, Top.release>>}
         /\ x.createdMods = c.createdMods /\ x.createdVersions = c.createdVersions
    <3>1. Top.release \in Releases
      BY <1>2 DEF Frames
    <3>2. c.processed \cup {<<p, Top.release>>} \in SUBSET (Projects \X Releases)
      BY <2>7, <3>1 DEF Contexts
    <3> QED  BY ONLY c \in Contexts, <2>4, <3>2 DEF Contexts
  <2>12. /\ req' \in Requests
         /\ req'.kind = req.kind /\ req'.pc = "dependencies" /\ req'.ctx = x
         /\ req'.stored = req.stored /\ req'.stack = t
    BY <1>1, <2>5, <2>10, <2>11 DEF Requests, Going
  <2>13. RequestAt(req', last)
    BY <1>1, <1>3, <1>5, <2>9, <2>10, <2>11, <2>12, PoppedAt DEF SameGraph
  <2>14. g = Met(req.stack[2], d, req.ctx)
    BY <2>3, <2>6 DEF Met, SameGraph
  <2>15. Returning(req, req')
    BY <1>1, <1>2, <1>5, <2>1, <2>6, <2>7, <2>10, <2>11, <2>12, <2>14 DEF Returning, SameGraph
  <2> QED  BY <1>2, <2>1, <2>4, <2>12, <2>13, <2>15
<1> QED  BY <1>4, <1>5

LEMMA ChooseStep ==
  ASSUME Rows, Graph, Choose
  PROVE  /\ RequestAt(req', lastIds)
         /\ \/ ~ Resolves(req')
            \/ Meeting(req, req')
            \/ /\ Calling(req, req')
               /\ req'.stack[1].existing <=>
                    Has(versions, req'.stack[1].mod.id, req'.stack[1].release)
<1>1. /\ req.pc = "choose" /\ RequestOK /\ req \in Requests /\ req.kind = "materialize"
      /\ Resolves(req) /\ req.ctx \in Contexts /\ Stacked(req)
  BY MaterializesAt DEF Choose, Rows, RequestOK, RequestAt, Requests
<1>2. /\ req.stack \in Seq(Frames) /\ req.stack # <<>> /\ Top = req.stack[1]
      /\ Top \in Frames
  BY <1>1, OnStackNow
<1>3. AtTop(catalog, req) /\ Known(catalog, req)
  BY <1>1 DEF Graph, GraphOf
<1>4. PICK d, p, known, r, m :
        /\ d = Needed /\ p = d.project /\ known = req.ctx.externals[p]
        /\ r = Wanted(d, known) /\ m = req.ctx.mods[p]
  OBVIOUS
<1>5. d \in req.stack[1].todo /\ p = req.need
  <2>1. {e \in Top.todo : e.project = req.need} # {}
    BY <1>1, <1>2, <1>3 DEF AtTop
  <2>2. d \in {e \in Top.todo : e.project = req.need}
    BY <1>4, <2>1, OnlyIn DEF Needed
  <2> QED  BY <1>2, <1>4, <2>2
<1>6. p \in Projects /\ m \in ModRows /\ req.ctx.mods[p] # None
  BY <1>1, <1>4, <1>5, ImportsAssumption DEF RequestOK, RequestAt, Shaped, Stacked, Requests, Contexts
<1>7. PICK c : c = [req.ctx EXCEPT !.externals[p] = r]
  OBVIOUS
<1>8. CASE Raises
  BY <1>1, <1>8, RaisesStep
<1>9. CASE /\ ~ Clashes(d, known) /\ r \in Listed(p)
           /\ <<p, r>> \in c.processed
           /\ req' = [req EXCEPT !.pc = "dependencies", !.ctx = c,
                                 !.stack = SetTop(Met(Top, d, c))]
  <2>1. /\ c.processed = req.ctx.processed /\ c.mods = req.ctx.mods
        /\ c.externals = [req.ctx.externals EXCEPT ![p] = r]
        /\ c.createdMods = req.ctx.createdMods /\ c.createdVersions = req.ctx.createdVersions
    BY <1>1, <1>7 DEF Contexts
  <2>2. r \in Releases
    BY <1>9, ImportsAssumption DEF Listed
  <2>3. c \in Contexts
    BY <1>1, <1>6, <1>7, <2>2 DEF Contexts, MaybeReleases
  <2>4. PICK x : x = <<p, r>>
    OBVIOUS
  <2>5. x[1] = p /\ x[2] = r /\ x \in req.ctx.processed
    BY <1>9, <2>1, <2>4
  <2>6. req.ctx.externals[p] = r
    BY <1>3, <2>5 DEF Known
  <2>7. SameGraph(req.ctx, c)
    BY <1>1, <1>6, <2>1, <2>6 DEF SameGraph, Contexts
  <2>8. Processed(req.need, req.ctx)
    BY <1>5, <2>4, <2>5, <2>6 DEF Processed
  <2>9. Pinned(d, req.ctx)
    BY <1>4, <1>9, <2>2, <2>6, ImportsAssumption DEF Pinned, Clashes
  <2>10. PICK f, t : f = Met(Top, d, c) /\ t = SetTop(f)
    OBVIOUS
  <2>11. f \in Frames /\ f.mod = Top.mod /\ f.release = Top.release
    BY <1>2, <1>4, <1>6, <2>1, <2>3, <2>10, MetTyped
  <2>12. t \in Seq(Frames) /\ Topped(req.stack, t, f)
    BY <1>2, <2>10, <2>11, StackChanges DEF SetTop
  <2>13. /\ req' \in Requests
         /\ req'.kind = req.kind /\ req'.pc = "dependencies" /\ req'.ctx = c
         /\ req'.need = req.need /\ req'.stored = req.stored /\ req'.stack = t
    BY <1>1, <1>9, <2>3, <2>10, <2>12 DEF Requests, Going
  <2>14. RequestAt(req', lastIds)
    BY <1>1, <1>2, <2>1, <2>3, <2>11, <2>12, <2>13, ToppedAt DEF RequestOK
  <2>15. f = Met(req.stack[1], d, req.ctx)
    BY <1>2, <2>1, <2>10 DEF Met
  <2>16. Meeting(req, req')
    BY <1>1, <1>4, <1>5, <2>7, <2>8, <2>9, <2>12, <2>13, <2>15 DEF Meeting
  <2> QED  BY <2>14, <2>16
<1>10. CASE /\ ~ Clashes(d, known) /\ r \in Listed(p)
            /\ <<p, r>> \notin c.processed
            /\ req' = [req EXCEPT !.pc = "enter", !.ctx = c,
                                  !.stack = <<Frame(m, r)>> \o @]
  <2>1. /\ c.processed = req.ctx.processed /\ c.mods = req.ctx.mods
        /\ c.externals = [req.ctx.externals EXCEPT ![p] = r]
        /\ c.createdMods = req.ctx.createdMods /\ c.createdVersions = req.ctx.createdVersions
    BY <1>1, <1>7 DEF Contexts
  <2>2. r \in Releases /\ r \in Compatible /\ ProjectOf[r] = p
    BY <1>10, ImportsAssumption DEF Listed
  <2>3. c \in Contexts
    BY <1>1, <1>6, <1>7, <2>2 DEF Contexts, MaybeReleases
  <2>4. PICK f, t : f = Frame(m, r) /\ t = <<f>> \o req.stack
    OBVIOUS
  <2>5. /\ f \in Frames /\ f.mod = m /\ f.release = r /\ f.todo = {} /\ f.have = {}
        /\ f.existing <=> Has(versions, m.id, r)
    BY <1>6, <2>2, <2>4 DEF Frames, Frame, Has, Stored
  <2>6. t \in Seq(Frames) /\ OnTop(req.stack, t, f)
    <3>1. f \in Frames /\ t = <<f>> \o req.stack
      BY <2>4, <2>5
    <3> QED  BY ONLY <1>2, <3>1, StackChanges
  <2>7. req' = [req EXCEPT !.pc = "enter", !.ctx = c, !.stack = t]
    BY <1>10, <2>4
  <2>8. /\ req' \in Requests
        /\ req'.kind = req.kind /\ req'.pc = "enter" /\ req'.ctx = c
        /\ req'.need = req.need /\ req'.stored = req.stored /\ req'.stack = t
    BY <1>1, <2>3, <2>6, <2>7 DEF Requests, Going
  <2>9. RequestAt(req', lastIds)
    BY <1>1, <1>4, <1>5, <2>1, <2>2, <2>3, <2>5, <2>6, <2>8, PushedAt DEF RequestOK
  <2>10. d.pin \in {None, r} /\ known \in {None, r}
    BY <1>4, <1>10, <2>2 DEF Wanted, Clashes
  <2>11. t[1] = f
    BY <2>6 DEF OnTop
  <2>12. Calling(req, req')
    BY <1>1, <1>4, <1>5, <1>10, <2>1, <2>2, <2>5, <2>6, <2>8, <2>10, <2>11 DEF Calling
  <2> QED  BY <2>5, <2>8, <2>9, <2>11, <2>12
<1> QED  BY <1>4, <1>7, <1>8, <1>9, <1>10 DEF Choose

LEMMA DeclareStep ==
  ASSUME Rows, Graph, Declare
  PROVE  /\ RequestAt(req', lastIds) /\ lastIds' = lastIds
         /\ \/ ~ Resolves(req') /\ UNCHANGED library
            \/ Filing(req, req') /\ UNCHANGED library
            \/ /\ UNCHANGED library /\ Top.existing
               /\ \/ Finishing(req, req') /\ ~ req'.stored
                  \/ Returning(req, req')
            \/ /\ Declaring(req, req')
               /\ UNCHANGED <<mods, versions, files>>
               /\ \E j \in req.stack[1].have :
                    /\ req'.stack[1].have = req.stack[1].have \ {j}
                    /\ edges' = edges \cup {<<req.stack[1].mod.id, j>>}
                    /\ \A k \in {req.stack[1].mod.id, j} : \E m \in mods : m.id = k
<1>1. /\ req.pc = "dependencies" /\ RequestOK /\ req \in Requests /\ req.kind = "materialize"
      /\ Resolves(req) /\ req.ctx \in Contexts /\ Counted(req, lastIds)
  BY MaterializesAt DEF Declare, Rows, RequestOK, RequestAt, Requests
<1>2. /\ req.stack \in Seq(Frames) /\ req.stack # <<>> /\ Top = req.stack[1]
      /\ Top \in Frames /\ Top.todo = {}
  BY <1>1, OnStackNow DEF Declare
<1>3. CASE Fails
  <2>1. lastIds' = lastIds
    BY <1>3 DEF Fails, library
  <2> QED  BY <1>1, <1>3, <2>1, RaisesStep DEF Fails
<1>4. CASE Top.have = {} /\ UNCHANGED library /\ Top.existing /\ Returns(FALSE, req.ctx)
  <2>1. lastIds' = lastIds
    BY <1>4 DEF library
  <2>2. \A i \in req.ctx.createdVersions : i <= lastIds.versions
    BY <1>1 DEF Counted
  <2>3. FALSE \in BOOLEAN /\ SameGraph(req.ctx, req.ctx)
    BY DEF SameGraph
  <2>4. /\ RequestAt(req', lastIds)
        /\ \/ Finishing(req, req') /\ req'.stored = FALSE
           \/ Returning(req, req')
    BY <1>1, <1>2, <1>4, <2>2, <2>3, SameRows, ReturnsStep
  <2> QED  BY <1>2, <1>4, <2>1, <2>4
<1>5. CASE Top.have = {} /\ UNCHANGED library /\ ~ Top.existing /\ Goes("files")
  <2>1. Onward(req, "files")
    BY <1>1 DEF Onward
  <2>2. /\ RequestAt(req', lastIds)
        /\ req'.pc = "files" /\ req'.kind = req.kind /\ req'.ctx = req.ctx
        /\ req'.stack = req.stack /\ req'.stored = req.stored
    BY <1>1, <1>5, <2>1, OnwardStep
  <2>3. Filing(req, req')
    BY <1>1, <1>2, <1>5, <2>2 DEF Filing
  <2> QED  BY <1>5, <2>2, <2>3 DEF library
<1>6. ASSUME NEW j \in Top.have, NEW es,
             \A k \in {Top.mod.id, j} : \E m \in mods : m.id = k,
             UNCHANGED <<mods, versions, files, lastIds>>,
             edges' = edges \cup {<<Top.mod.id, j>>},
             \/ req' = [req EXCEPT !.stack = SetTop([Top EXCEPT !.have = @ \ {j}])]
             \/ /\ req' = [req EXCEPT !.stack = SetTop([Top EXCEPT !.have = @ \ {j}]),
                                      !.ctx.edges = @ \cup es]
                /\ es \subseteq ModIds \X ModIds
      PROVE  /\ RequestAt(req', lastIds)
             /\ Declaring(req, req')
             /\ req'.stack[1].have = req.stack[1].have \ {j}
  <2>1. PICK f, t : f = [Top EXCEPT !.have = @ \ {j}] /\ t = SetTop(f)
    OBVIOUS
  <2>2. f \in Frames /\ f.mod = Top.mod /\ f.release = Top.release /\ f.have = Top.have \ {j}
    BY <1>2, <2>1 DEF Frames
  <2>3. t \in Seq(Frames) /\ Topped(req.stack, t, f) /\ t[1] = f
    <3>1. f \in Frames /\ t = <<f>> \o Tail(req.stack)
      BY <2>1, <2>2 DEF SetTop
    <3>2. t \in Seq(Frames) /\ Topped(req.stack, t, f)
      BY ONLY <1>2, <3>1, StackChanges
    <3> QED  BY <3>2 DEF Topped
  <2>4. PICK c : /\ \/ c = req.ctx
                    \/ c = [req.ctx EXCEPT !.edges = @ \cup es] /\ es \subseteq ModIds \X ModIds
                 /\ req' = [req EXCEPT !.stack = t, !.ctx = c]
    <3>1. CASE req' = [req EXCEPT !.stack = t]
      <4>1. req' = [req EXCEPT !.stack = t, !.ctx = req.ctx]
        BY <1>1, <3>1 DEF Requests
      <4> QED  BY <4>1
    <3>2. CASE es \subseteq ModIds \X ModIds /\ req' = [req EXCEPT !.stack = t, !.ctx.edges = @ \cup es]
      <4>1. PICK d : d = [req.ctx EXCEPT !.edges = @ \cup es]
        OBVIOUS
      <4>2. req' = [req EXCEPT !.stack = t, !.ctx = d]
        BY <1>1, <3>2, <4>1 DEF Requests, Contexts
      <4> QED  BY <3>2, <4>1, <4>2
    <3> QED  BY <1>6, <2>1, <3>1, <3>2
  <2>5. c \in Contexts /\ SameGraph(req.ctx, c) /\ c.createdMods = req.ctx.createdMods
        /\ c.createdVersions = req.ctx.createdVersions
    <3>1. CASE c = req.ctx
      BY <1>1, <3>1 DEF SameGraph
    <3>2. CASE c = [req.ctx EXCEPT !.edges = @ \cup es] /\ es \subseteq ModIds \X ModIds
      BY <1>1, <3>2 DEF SameGraph, Contexts
    <3> QED  BY <2>4, <3>1, <3>2
  <2>6. /\ req' \in Requests
        /\ req'.kind = req.kind /\ req'.pc = "dependencies" /\ req'.ctx = c
        /\ req'.need = req.need /\ req'.stored = req.stored /\ req'.stack = t
    BY <1>1, <2>3, <2>4, <2>5 DEF Requests
  <2>7. RequestAt(req', lastIds)
    BY <1>1, <1>2, <2>2, <2>3, <2>5, <2>6, ToppedAt DEF RequestOK, SameGraph
  <2>8. Declaring(req, req')
    BY <1>1, <1>2, <2>1, <2>3, <2>5, <2>6 DEF Declaring
  <2> QED  BY <1>2, <2>2, <2>3, <2>6, <2>7, <2>8
<1>7. ASSUME NEW j \in Top.have,
             \A k \in {Top.mod.id, j} : \E m \in mods : m.id = k,
             <<Top.mod.id, j>> \in edges,
             req' = [req EXCEPT !.stack = SetTop([Top EXCEPT !.have = @ \ {j}])],
             UNCHANGED library
      PROVE  /\ RequestAt(req', lastIds)
             /\ Declaring(req, req')
             /\ req'.stack[1].have = req.stack[1].have \ {j}
             /\ edges' = edges \cup {<<Top.mod.id, j>>}
             /\ UNCHANGED <<mods, versions, files, lastIds>>
  <2>1. edges' = edges \cup {<<Top.mod.id, j>>} /\ UNCHANGED <<mods, versions, files, lastIds>>
    BY <1>7 DEF library
  <2> QED  BY <1>6, <1>7, <2>1
<1>8. ASSUME NEW j \in Top.have,
             \A k \in {Top.mod.id, j} : \E m \in mods : m.id = k,
             edges' = edges \cup {<<Top.mod.id, j>>},
             req' = [req EXCEPT !.stack = SetTop([Top EXCEPT !.have = @ \ {j}]),
                                !.ctx.edges = @ \cup {<<Top.mod.id, j>>}],
             UNCHANGED <<mods, versions, files, lastIds>>
      PROVE  /\ RequestAt(req', lastIds)
             /\ Declaring(req, req')
             /\ req'.stack[1].have = req.stack[1].have \ {j}
  <2>1. PICK es : es = {<<Top.mod.id, j>>}
    OBVIOUS
  <2>2. es \subseteq ModIds \X ModIds
    BY <1>2, <2>1 DEF Frames, ModRows
  <2>3. req' = [req EXCEPT !.stack = SetTop([Top EXCEPT !.have = @ \ {j}]), !.ctx.edges = @ \cup es]
    BY <1>8, <2>1
  <2> QED  BY <1>6, <1>8, <2>2, <2>3
<1> QED
  <2>1. CASE Top.have = {}
    BY <1>4, <1>5, <2>1 DEF Declare
  <2>2. ASSUME NEW j \in Top.have,
               LET i == Top.mod.id
                   f == SetTop([Top EXCEPT !.have = @ \ {j}])
                   known == \A k \in {i, j} : \E m \in mods : m.id = k
               IN \/ /\ known /\ <<i, j>> \in edges
                     /\ req' = [req EXCEPT !.stack = f]
                     /\ UNCHANGED library
                  \/ /\ known /\ <<i, j>> \notin edges /\ i \notin Reach(edges, j)
                     /\ edges' = edges \cup {<<i, j>>}
                     /\ req' = [req EXCEPT !.stack = f, !.ctx.edges = @ \cup {<<i, j>>}]
                     /\ UNCHANGED <<mods, versions, files, lastIds>>
        PROVE  /\ RequestAt(req', lastIds) /\ lastIds' = lastIds
               /\ Declaring(req, req')
               /\ UNCHANGED <<mods, versions, files>>
               /\ req'.stack[1].have = req.stack[1].have \ {j}
               /\ edges' = edges \cup {<<Top.mod.id, j>>}
               /\ \A k \in {Top.mod.id, j} : \E m \in mods : m.id = k
    BY <1>7, <1>8, <2>2
  <2> QED  BY <1>2, <1>3, <2>1, <2>2 DEF Declare

LEMMA TopToFile ==
  ASSUME Rows, Graph, req.pc \in {"files", "insert"}
  PROVE  /\ RequestOK /\ req \in Requests /\ req.kind = "materialize" /\ Resolves(req)
         /\ req.ctx \in Contexts /\ Counted(req, lastIds)
         /\ req.stack \in Seq(Frames) /\ req.stack # <<>> /\ Top = req.stack[1]
         /\ Top \in Frames /\ Top.mod \in ModRows /\ Top.release \in Releases
         /\ Top.mod.link = ProjectOf[Top.release] /\ Top.mod.id <= lastIds.mods
         /\ Top.todo = {} /\ Top.have = {} /\ ~ Top.existing
<1>1. /\ RequestOK /\ req \in Requests /\ req.kind = "materialize" /\ Resolves(req)
      /\ req.ctx \in Contexts /\ Counted(req, lastIds) /\ Stacked(req)
  BY MaterializesAt DEF Rows, RequestOK, RequestAt, Requests
<1>2. /\ req.stack \in Seq(Frames) /\ req.stack # <<>> /\ Top = req.stack[1]
      /\ 1 \in DOMAIN req.stack
      /\ Top \in Frames /\ Top.mod \in ModRows /\ Top.release \in Releases
  BY <1>1, OnStackNow
<1>3. AtTop(catalog, req)
  BY <1>1 DEF Graph, GraphOf
<1> QED  BY <1>1, <1>2, <1>3 DEF AtTop, Stacked, Counted

LEMMA LocalNameIn ==
  ASSUME NEW i, NEW r \in Releases
  PROVE  LocalName(i, r) \in NamesOf(r) /\ LocalName(i, r) \in Names
<1>1. r \in Pins /\ None \in Pins
  BY DEF Pins
<1> QED  BY <1>1 DEF LocalName, NamesOf, Names

LEMMA MoveFilesStep ==
  ASSUME Rows, Graph, MoveFiles
  PROVE  /\ RequestAt(req', lastIds) /\ UNCHANGED <<mods, versions, edges, lastIds>>
         /\ \/ ~ Resolves(req') /\ req'.ctx = req.ctx
            \/ /\ Stored(Top.mod.id, Top.release) # {} /\ files' = files
               /\ \/ Finishing(req, req') /\ ~ req'.stored /\ req'.ctx = req.ctx
                  \/ Returning(req, req')
            \/ /\ Placing(req, req')
               /\ req'.stack[1].name = LocalName(Top.mod.id, Top.release)
               /\ req'.stack[1].mod = Top.mod /\ req'.stack[1].release = Top.release
<1>1. /\ RequestOK /\ req \in Requests /\ req.kind = "materialize" /\ Resolves(req)
      /\ req.ctx \in Contexts /\ Counted(req, lastIds) /\ req.pc = "files"
      /\ req.stack \in Seq(Frames) /\ req.stack # <<>> /\ Top = req.stack[1]
      /\ Top \in Frames /\ Top.release \in Releases
      /\ Top.todo = {} /\ Top.have = {}
  BY TopToFile DEF MoveFiles
<1>2. UNCHANGED <<mods, versions, edges, lastIds>>
  BY DEF MoveFiles
<1>3. PICK n, f : n = LocalName(Top.mod.id, Top.release) /\ f = [Top EXCEPT !.name = n]
  OBVIOUS
<1>4. n \in NamesOf(Top.release) /\ n \in Names
  BY <1>1, <1>3, LocalNameIn
<1>5. f \in Frames /\ f.mod = Top.mod /\ f.release = Top.release /\ f.name = n
  BY <1>1, <1>3, <1>4 DEF Frames
<1>6. CASE Raises
  BY <1>1, <1>2, <1>6, RaisesStep
<1>7. CASE Stored(f.mod.id, f.release) # {} /\ Returns(FALSE, req.ctx) /\ UNCHANGED files
  <2>1. \A i \in req.ctx.createdVersions : i <= lastIds.versions
    BY <1>1 DEF Counted
  <2>2. FALSE \in BOOLEAN /\ SameGraph(req.ctx, req.ctx)
    BY DEF SameGraph
  <2>3. /\ RequestAt(req', lastIds)
        /\ \/ Finishing(req, req') /\ req'.stored = FALSE /\ req'.ctx = req.ctx
           \/ Returning(req, req')
    BY <1>1, <1>7, <2>1, <2>2, SameRows, ReturnsStep
  <2> QED  BY <1>2, <1>5, <1>7, <2>3
<1>8. CASE Verified(f) /\ req' = [req EXCEPT !.pc = "insert", !.stack = SetTop(f)]
  <2>1. PICK t : t = SetTop(f)
    OBVIOUS
  <2>2. t \in Seq(Frames) /\ Topped(req.stack, t, f)
    <3>1. f \in Frames /\ t = <<f>> \o Tail(req.stack)
      BY <1>5, <2>1 DEF SetTop
    <3> QED  BY ONLY <1>1, <3>1, StackChanges
  <2>3. /\ req' \in Requests
        /\ req'.kind = req.kind /\ req'.pc = "insert" /\ req'.ctx = req.ctx
        /\ req'.need = req.need /\ req'.stored = req.stored /\ req'.stack = t
    BY <1>1, <1>8, <2>1, <2>2 DEF Requests, Going
  <2>4. RequestAt(req', lastIds)
    BY <1>1, <1>5, <2>2, <2>3, ToppedAt DEF RequestOK
  <2>5. Verified(Top)
    BY <1>5, <1>8 DEF Verified
  <2>6. Placing(req, req')
    BY <1>1, <1>3, <1>4, <2>2, <2>3, <2>5 DEF Placing
  <2>7. req'.stack[1] = f
    BY <2>2, <2>3 DEF Topped
  <2> QED  BY <1>2, <1>3, <1>5, <2>4, <2>6, <2>7
<1> QED  BY <1>3, <1>6, <1>7, <1>8 DEF MoveFiles

LEMMA InsertStep ==
  ASSUME Rows, Graph, Insert
  PROVE  /\ RequestAt(req', lastIds') /\ RowsOf(lastIds, lastIds')
         /\ \/ ~ Resolves(req') /\ req'.ctx = req.ctx /\ UNCHANGED <<mods, versions, edges, lastIds>>
            \/ /\ Stored(Top.mod.id, Top.release) # {} /\ UNCHANGED library
               /\ \/ Finishing(req, req') /\ ~ req'.stored /\ req'.ctx = req.ctx
                  \/ Returning(req, req')
            \/ /\ Stored(Top.mod.id, Top.release) = {}
               /\ lastIds.versions < MaxVersion
               /\ lastIds' = [lastIds EXCEPT !.versions = @ + 1]
               /\ versions' = versions \cup
                    {[id |-> lastIds.versions + 1, mod |-> Top.mod.id, ext |-> Top.release,
                      name |-> Top.name, md5 |-> Archive(Top.release, made)]}
               /\ mods' = {IF m.id = Top.mod.id /\ Top.mod.link \notin Configs
                             THEN Promoted(m) ELSE m : m \in mods}
               /\ UNCHANGED <<edges, files>>
               /\ Finishing(req, req') \/ Returning(req, req')
<1>1. /\ RequestOK /\ req \in Requests /\ req.kind = "materialize" /\ Resolves(req)
      /\ req.ctx \in Contexts /\ Counted(req, lastIds) /\ req.pc = "insert"
      /\ Top = req.stack[1] /\ Top \in Frames /\ Top.mod \in ModRows
      /\ Top.mod.link = ProjectOf[Top.release] /\ Top.release \in Releases
      /\ Top.todo = {} /\ Top.have = {}
  BY TopToFile DEF Insert
<1>2. FALSE \in BOOLEAN /\ TRUE \in BOOLEAN /\ SameGraph(req.ctx, req.ctx)
  BY DEF SameGraph
<1>3. CASE Raises /\ UNCHANGED <<mods, versions, edges, lastIds>>
  BY <1>1, <1>3, RaisesStep, SameRows
<1>4. CASE Stored(Top.mod.id, Top.release) # {} /\ Returns(FALSE, req.ctx) /\ UNCHANGED library
  <2>1. \A i \in req.ctx.createdVersions : i <= lastIds.versions
    BY <1>1 DEF Counted
  <2>2. /\ RequestAt(req', lastIds)
        /\ \/ Finishing(req, req') /\ req'.stored = FALSE /\ req'.ctx = req.ctx
           \/ Returning(req, req')
    BY <1>1, <1>2, <1>4, <2>1, SameRows, ReturnsStep
  <2>3. lastIds' = lastIds
    BY <1>4 DEF library
  <2> QED  BY <1>4, <2>2, <2>3, SameRows
<1>5. PICK id : id = lastIds.versions + 1
  OBVIOUS
<1>6. CASE /\ Stored(Top.mod.id, Top.release) = {}
           /\ lastIds.versions < MaxVersion
           /\ versions' = versions \cup
                {[id |-> id, mod |-> Top.mod.id, ext |-> Top.release,
                  name |-> Top.name, md5 |-> Archive(Top.release, made)]}
           /\ lastIds' = [lastIds EXCEPT !.versions = id]
           /\ mods' = {IF m.id = Top.mod.id /\ Top.mod.link \notin Configs THEN Promoted(m) ELSE m
                       : m \in mods}
           /\ Returns(TRUE, IF Top.mod.link \in Configs THEN req.ctx
                            ELSE [req.ctx EXCEPT
                                    !.createdVersions = @ \cup {id},
                                    !.artifacts = @ \cup {<<Top.mod.slug, Top.name>>}])
           /\ UNCHANGED <<edges, files>>
  <2>1. PICK c : c = IF Top.mod.link \in Configs THEN req.ctx
                     ELSE [req.ctx EXCEPT
                             !.createdVersions = @ \cup {id},
                             !.artifacts = @ \cup {<<Top.mod.slug, Top.name>>}]
    OBVIOUS
  <2>2. lastIds \in [mods : 0..MaxMod, versions : 0..MaxVersion] /\ MaxMod \in Nat /\ MaxVersion \in Nat
    BY ImportsAssumption DEF Rows, TablesTyped
  <2>3. /\ lastIds'.mods = lastIds.mods /\ lastIds'.versions = id
        /\ lastIds' = [lastIds EXCEPT !.versions = @ + 1]
    BY <1>5, <1>6, <2>2
  <2>4. id \in 1..MaxVersion /\ RowsOf(lastIds, lastIds')
    BY <1>5, <1>6, <2>2, <2>3 DEF RowsOf
  <2>5. Top.name \in Names /\ Top.mod.slug \in Projects
    <3>1. AtTop(catalog, req)
      BY <1>1 DEF Graph, GraphOf
    <3>2. Top.name \in NamesOf(Top.release)
      BY <1>1, <3>1 DEF AtTop
    <3>3. Top.release \in Pins /\ None \in Pins
      BY <1>1 DEF Pins
    <3> QED  BY <1>1, <3>2, <3>3 DEF NamesOf, Names, ModRows
  <2>6. /\ c \in Contexts /\ SameGraph(req.ctx, c) /\ c.createdMods = req.ctx.createdMods
        /\ c.createdVersions \subseteq req.ctx.createdVersions \cup {id}
    <3>1. CASE Top.mod.link \in Configs
      BY <1>1, <1>2, <2>1, <3>1
    <3>2. CASE Top.mod.link \notin Configs
      <4>1. c = [req.ctx EXCEPT !.createdVersions = @ \cup {id},
                                !.artifacts = @ \cup {<<Top.mod.slug, Top.name>>}]
        BY <2>1, <3>2
      <4>2. PICK a : a = <<Top.mod.slug, Top.name>>
        OBVIOUS
      <4>3. a \in Projects \X Names
        BY <2>5, <4>2
      <4>4. c = [req.ctx EXCEPT !.createdVersions = @ \cup {id}, !.artifacts = @ \cup {a}]
        BY <4>1, <4>2
      <4>5. PICK k \in Contexts : k = req.ctx
        BY <1>1
      <4>6. c = [k EXCEPT !.createdVersions = @ \cup {id}, !.artifacts = @ \cup {a}]
        BY <4>4, <4>5
      <4>7. id \in 1..MaxVersion
        BY <2>4
      <4>8. /\ c \in Contexts /\ c.createdVersions = k.createdVersions \cup {id}
            /\ c.mods = k.mods /\ c.externals = k.externals
            /\ c.processed = k.processed /\ c.createdMods = k.createdMods
        <5>1. /\ k.createdVersions \cup {id} \in SUBSET (1..MaxVersion)
              /\ k.artifacts \cup {a} \in SUBSET (Projects \X Names)
          BY <4>3, <4>7 DEF Contexts
        <5> QED  BY ONLY k \in Contexts, <4>6, <5>1 DEF Contexts
      <4> QED  BY <4>5, <4>8 DEF SameGraph
    <3> QED  BY <3>1, <3>2
  <2>7. \A i \in c.createdVersions : i <= lastIds'.versions
    <3>1. \A i \in req.ctx.createdVersions : i <= lastIds.versions /\ i \in Nat
      BY <1>1 DEF Counted, Contexts
    <3> QED  BY <1>5, <2>2, <2>3, <2>6, <3>1
  <2>8. Returns(TRUE, c) /\ (req.stack[1].mod.link \in Configs => c = req.ctx)
    BY <1>1, <1>6, <2>1
  <2>9. RequestAt(req', lastIds') /\ (Finishing(req, req') \/ Returning(req, req'))
    BY <1>1, <1>2, <2>4, <2>6, <2>7, <2>8, ReturnsStep
  <2> QED  BY <1>5, <1>6, <2>3, <2>4, <2>9
<1> QED  BY <1>3, <1>4, <1>5, <1>6 DEF Insert

LEMMA TakingStep ==
  ASSUME Rows, Rollback \/ Sweep
  PROVE  RequestAt(req', lastIds) /\ ~ Resolves(req') /\ lastIds' = lastIds /\ req'.ctx = req.ctx
<1>1. RequestOK /\ req.kind \in {"bootstrap", "materialize"}
  BY KindOfStep DEF Rollback, Sweep, Rows, RequestOK, RequestAt, Shaped, Resolving
<1>2. lastIds' = lastIds
  BY DEF Rollback, Sweep, library
<1>3. PICK P \in Taking : Goes(P)
  BY DEF Rollback, Sweep, Taking
<1>4. Onward(req, P)
  BY <1>1 DEF Onward
<1>5. RequestAt(req', lastIds) /\ req'.pc = P /\ req'.ctx = req.ctx
  BY <1>1, <1>3, <1>4, OnwardStep
<1> QED  BY <1>2, <1>5 DEF Resolves, Taking, Going, Resolving

-----------------------------------------------------------------------------
(* The tables keep their form                                              *)

LastAt(last) == last \in [mods : 0..MaxMod, versions : 0..MaxVersion]

ModsAt(M, last) ==
  /\ M \subseteq ModRows
  /\ \A m, n \in M : m.id = n.id \/ m.slug = n.slug => m = n
  /\ \A m \in M : m.id <= last.mods

VersionsAt(V, last) ==
  /\ V \subseteq VersionRows
  /\ \A v \in V : /\ v.id <= last.versions /\ v.mod <= last.mods
                  /\ v.name \in NamesOf(v.ext) /\ Trusted(v.ext)

EdgesAt(E, last) == /\ E \subseteq ModIds \X ModIds
                    /\ \A e \in E : e[1] <= last.mods /\ e[2] <= last.mods

FilesAt(F) == /\ F \subseteq FileRows
              /\ \A x, y \in F : x.slug = y.slug /\ x.name = y.name => x = y

LibraryAt == /\ catalog \in Catalogs /\ made \in 0..MaxRequests
             /\ LastAt(lastIds) /\ ModsAt(mods, lastIds) /\ VersionsAt(versions, lastIds)
             /\ EdgesAt(edges, lastIds) /\ FilesAt(files)

LEMMA RowsAt ==
  Rows <=> LibraryAt /\ BeforeOK /\ RequestOK
BY DEF Rows, TablesTyped, RowsUnique, RowsCounted, LibraryAt, LastAt, ModsAt, VersionsAt,
       EdgesAt, FilesAt

LEMMA TypesAreNat ==
  /\ ModIds \subseteq Nat /\ 1..MaxVersion \subseteq Nat
  /\ MaxMod \in Nat /\ MaxVersion \in Nat /\ MaxRequests \in Nat
  /\ \A last : LastAt(last) => last.mods \in 0..MaxMod /\ last.versions \in 0..MaxVersion
  /\ \A m \in ModRows : m.id \in ModIds /\ m.slug \in Projects /\ m.link \in MaybeProjects
  /\ \A v \in VersionRows : v.id \in 1..MaxVersion /\ v.mod \in ModIds /\ v.ext \in Releases
BY ImportsAssumption DEF ModIds, LastAt, ModRows, VersionRows, MaybeProjects

LEMMA TablesGrow ==
  ASSUME NEW last, NEW next, RowsOf(last, next), NEW M, NEW V, NEW E
  PROVE  /\ ModsAt(M, last) => ModsAt(M, next)
         /\ VersionsAt(V, last) => VersionsAt(V, next)
         /\ EdgesAt(E, last) => EdgesAt(E, next)
<1>1. ModsAt(M, last) => ModsAt(M, next)
  <2> SUFFICES ASSUME ModsAt(M, last), NEW m \in M
               PROVE  m.id <= next.mods
    BY DEF ModsAt
  <2>1. m.id \in Nat /\ m.id <= last.mods
    BY TypesAreNat DEF ModsAt
  <2> QED  BY <2>1 DEF RowsOf
<1>2. VersionsAt(V, last) => VersionsAt(V, next)
  <2> SUFFICES ASSUME VersionsAt(V, last), NEW v \in V
               PROVE  v.id <= next.versions /\ v.mod <= next.mods
    BY DEF VersionsAt
  <2>1. v.id \in Nat /\ v.id <= last.versions /\ v.mod \in Nat /\ v.mod <= last.mods
    BY TypesAreNat DEF VersionsAt
  <2> QED  BY <2>1 DEF RowsOf
<1>3. EdgesAt(E, last) => EdgesAt(E, next)
  <2> SUFFICES ASSUME EdgesAt(E, last), NEW e \in E
               PROVE  e[1] <= next.mods /\ e[2] <= next.mods
    BY DEF EdgesAt
  <2>1. e[1] \in Nat /\ e[2] \in Nat /\ e[1] <= last.mods /\ e[2] <= last.mods
    BY TypesAreNat DEF EdgesAt
  <2> QED  BY <2>1 DEF RowsOf
<1> QED  BY <1>1, <1>2, <1>3

LEMMA BeforeGrows ==
  ASSUME BeforeOK, RowsOf(lastIds, lastIds'), before' = before
  PROVE  BeforeOK'
<1>1. ASSUME NEW m \in before.mods
      PROVE  m.id <= lastIds'.mods
  <2>1. m.id \in Nat /\ m.id <= lastIds.mods
    BY TypesAreNat DEF BeforeOK
  <2> QED  BY <2>1 DEF RowsOf
<1>2. ASSUME NEW v \in before.versions
      PROVE  v.mod <= lastIds'.mods
  <2>1. v.mod \in Nat /\ v.mod <= lastIds.mods
    BY TypesAreNat DEF BeforeOK
  <2> QED  BY <2>1 DEF RowsOf
<1>3. ASSUME NEW e \in before.edges
      PROVE  e[1] <= lastIds'.mods /\ e[2] <= lastIds'.mods
  <2>1. e[1] \in Nat /\ e[2] \in Nat /\ e[1] <= lastIds.mods /\ e[2] <= lastIds.mods
    BY TypesAreNat DEF BeforeOK
  <2> QED  BY <2>1 DEF RowsOf
<1> QED  BY <1>1, <1>2, <1>3 DEF BeforeOK

\* A new mod.
LEMMA ModAdded ==
  ASSUME NEW M, NEW last, LastAt(last), ModsAt(M, last), last.mods < MaxMod,
         NEW m \in [id : {last.mods + 1}, slug : Projects, link : MaybeProjects, type : Types],
         \A n \in M : n.slug # m.slug,
         NEW next, next = [last EXCEPT !.mods = @ + 1]
  PROVE  /\ LastAt(next) /\ RowsOf(last, next) /\ ModsAt(M \cup {m}, next)
         /\ m \in ModRows /\ m.id = next.mods /\ \A n \in M : n.id < m.id
<1>1. /\ last.mods \in Nat /\ last.versions \in Nat /\ MaxMod \in Nat
      /\ next.mods = last.mods + 1 /\ next.versions = last.versions /\ LastAt(next)
  BY ImportsAssumption DEF LastAt
<1>2. RowsOf(last, next)
  BY <1>1 DEF RowsOf
<1>3. m.id = last.mods + 1 /\ m.id \in ModIds /\ m \in ModRows
  BY <1>1 DEF ModIds, ModRows, MaybeProjects
<1>4. \A n \in M : n.id \in Nat /\ n.id < m.id
  BY <1>1, <1>3, TypesAreNat DEF ModsAt
<1>5. ModsAt(M, next)
  BY <1>2, TablesGrow
<1> QED  BY <1>1, <1>2, <1>3, <1>4, <1>5 DEF ModsAt

\* A mod with another link or type.
LEMMA ModChanged ==
  ASSUME NEW M, NEW last, ModsAt(M, last), NEW S, S \subseteq M, NEW m \in S,
         NEW n \in ModRows, n.id = m.id, n.slug = m.slug
  PROVE  ModsAt((M \ S) \cup {n}, last)
BY DEF ModsAt

\* Each mod with another link or type.
LEMMA ModsMapped ==
  ASSUME NEW M, NEW last, ModsAt(M, last), NEW f,
         \A m \in M : f[m] \in ModRows /\ f[m].id = m.id /\ f[m].slug = m.slug
  PROVE  ModsAt({f[m] : m \in M}, last)
BY DEF ModsAt

LEMMA TablesShrink ==
  ASSUME NEW M, NEW V, NEW E, NEW F, NEW last
  PROVE  /\ ModsAt(M, last) => \A S : S \subseteq M => ModsAt(S, last)
         /\ VersionsAt(V, last) => \A S : S \subseteq V => VersionsAt(S, last)
         /\ EdgesAt(E, last) => \A S : S \subseteq E => EdgesAt(S, last)
         /\ FilesAt(F) => \A S : S \subseteq F => FilesAt(S)
BY DEF ModsAt, VersionsAt, EdgesAt, FilesAt

\* A new version, and its file.
NewVersionRows(last, i, r, n) ==
  [id : {last.versions + 1}, mod : {i}, ext : {r}, name : {n}, md5 : Archives]

LEMMA NewVersionTyped ==
  ASSUME NEW last, NEW i, NEW r \in Releases, NEW n, NEW b \in 0..MaxRequests
  PROVE  [id |-> last.versions + 1, mod |-> i, ext |-> r, name |-> n, md5 |-> Archive(r, b)]
           \in NewVersionRows(last, i, r, n)
<1>1. Archive(r, b) \in Archives
  BY DEF Archive, Archives
<1> QED  BY <1>1 DEF NewVersionRows

\* v is a row for release r of mod i, to be added to V.
Joining(v, V, last, next, i, r, n) ==
  /\ LastAt(last) /\ VersionsAt(V, last) /\ last.versions < MaxVersion
  /\ i \in ModIds /\ i <= last.mods /\ r \in Releases /\ Trusted(r)
  /\ n \in NamesOf(r) /\ v \in NewVersionRows(last, i, r, n)
  /\ next = [last EXCEPT !.versions = @ + 1]

LEMMA VersionAdded ==
  ASSUME NEW V, NEW last, NEW next, NEW i, NEW r, NEW n, NEW v,
         Joining(v, V, last, next, i, r, n)
  PROVE  /\ LastAt(next) /\ RowsOf(last, next) /\ VersionsAt(V \cup {v}, next)
         /\ v \in VersionRows /\ \A w \in V : w.id < v.id
         /\ next.mods = last.mods
<1>0. /\ LastAt(last) /\ VersionsAt(V, last) /\ last.versions < MaxVersion
      /\ i \in ModIds /\ i <= last.mods /\ r \in Releases /\ Trusted(r)
      /\ n \in NamesOf(r) /\ v \in NewVersionRows(last, i, r, n)
      /\ next = [last EXCEPT !.versions = @ + 1]
  BY DEF Joining
<1>1. /\ last.mods \in Nat /\ last.versions \in Nat /\ MaxVersion \in Nat
      /\ next.versions = last.versions + 1 /\ next.mods = last.mods /\ LastAt(next)
  BY <1>0, ImportsAssumption DEF LastAt
<1>2. RowsOf(last, next)
  BY <1>1 DEF RowsOf
<1>3. v.id = last.versions + 1 /\ v.id \in 1..MaxVersion /\ v.mod = i /\ v.ext = r /\ v.name = n
  BY <1>0, <1>1 DEF NewVersionRows
<1>4. n \in Names
  <2>1. r \in Pins /\ None \in Pins
    BY <1>0 DEF Pins
  <2> QED  BY <1>0, <2>1 DEF NamesOf, Names
<1>5. v \in VersionRows
  BY <1>0, <1>3, <1>4 DEF VersionRows, NewVersionRows
<1>6. \A w \in V : w.id \in Nat /\ w.id < v.id
  BY <1>0, <1>1, <1>3, TypesAreNat DEF VersionsAt
<1>7. VersionsAt(V, next)
  BY <1>0, <1>2, TablesGrow
<1> QED  BY <1>0, <1>1, <1>2, <1>3, <1>5, <1>6, <1>7 DEF VersionsAt

LEMMA FileAdded ==
  ASSUME NEW F, FilesAt(F), NEW s \in Projects, NEW r \in Releases, NEW n \in NamesOf(r),
         NEW b \in 0..MaxRequests, NEW S, S = {x \in F : x.slug = s /\ x.name = n}
  PROVE  FilesAt((F \ S) \cup {[slug |-> s, name |-> n, md5 |-> Archive(r, b)]})
<1>1. n \in Names
  <2>1. r \in Pins /\ None \in Pins
    BY DEF Pins
  <2> QED  BY <2>1 DEF NamesOf, Names
<1>2. Archive(r, b) \in Archives
  BY DEF Archive, Archives
<1>3. PICK y : y = [slug |-> s, name |-> n, md5 |-> Archive(r, b)]
  OBVIOUS
<1>4. y \in FileRows /\ y.slug = s /\ y.name = n
  BY <1>1, <1>2, <1>3 DEF FileRows
<1> QED  BY <1>3, <1>4 DEF FilesAt

LEMMA SameTables ==
  ASSUME Rows, UNCHANGED library, catalog' = catalog, made' \in 0..MaxRequests
  PROVE  LibraryAt' /\ RowsOf(lastIds, lastIds')
BY RowsAt, SameRows DEF LibraryAt, library

LEMMA LinkTables ==
  ASSUME Rows, Link
  PROVE  LibraryAt' /\ RowsOf(lastIds, lastIds')
<1> DEFINE p == req.need
           free == {m \in mods : m.id = req.target /\ m.link = None}
<1>1. catalog' = catalog /\ made' = made /\ made \in 0..MaxRequests
  BY RowsAt DEF Link, Step, LibraryAt
<1>2. CASE UNCHANGED library
  BY <1>1, <1>2, SameTables
<1>3. CASE /\ free # {}
           /\ mods' = (mods \ free) \cup {[Only(free) EXCEPT !.link = p]}
           /\ UNCHANGED <<versions, edges, files, lastIds>>
  <2>1. PICK m : m = Only(free)
    OBVIOUS
  <2>2. m \in free /\ free \subseteq mods
    BY <1>3, <2>1, OnlyIn
  <2>3. p \in Projects
    BY DEF Rows, RequestOK, RequestAt, Shaped, Requests, Link, Resolving
  <2>4. PICK n : n = [m EXCEPT !.link = p]
    OBVIOUS
  <2>5. ModsAt(mods, lastIds) /\ m \in ModRows
    BY <2>2, RowsAt DEF LibraryAt, ModsAt
  <2>6. n \in ModRows /\ n.id = m.id /\ n.slug = m.slug
    BY <2>3, <2>4, <2>5 DEF ModRows
  <2>7. ModsAt((mods \ free) \cup {n}, lastIds)
    BY <2>2, <2>5, <2>6, ModChanged
  <2>8. ModsAt(mods', lastIds')
    BY <1>3, <2>1, <2>4, <2>7
  <2> QED  BY <1>1, <1>3, <2>8, RowsAt, SameRows DEF LibraryAt
<1> QED  BY <1>2, <1>3 DEF Link, Fails

\* Another mod, for whoever adds it.
LEMMA NewModTables ==
  ASSUME Rows, catalog' = catalog, made' = made, lastIds.mods < MaxMod,
         NEW m \in [id : {lastIds.mods + 1}, slug : Projects, link : MaybeProjects, type : Types],
         Named(m.slug) = {}, mods' = mods \cup {m},
         lastIds' = [lastIds EXCEPT !.mods = @ + 1],
         UNCHANGED <<versions, edges, files>>
  PROVE  LibraryAt' /\ RowsOf(lastIds, lastIds')
<1>1. LibraryAt
  BY RowsAt
<1>2. \A n \in mods : n.slug # m.slug
  BY DEF Named
<1>3. LastAt(lastIds') /\ RowsOf(lastIds, lastIds') /\ ModsAt(mods \cup {m}, lastIds')
  BY <1>1, <1>2, ModAdded DEF LibraryAt
<1>4. VersionsAt(versions, lastIds') /\ EdgesAt(edges, lastIds')
  BY <1>1, <1>3, TablesGrow DEF LibraryAt
<1> QED  BY <1>1, <1>3, <1>4 DEF LibraryAt

LEMMA CreateTables ==
  ASSUME Rows, Create
  PROVE  LibraryAt' /\ RowsOf(lastIds, lastIds')
<1> DEFINE p == req.need
           m == [id |-> lastIds.mods + 1, slug |-> p, link |-> p, type |-> "MOD"]
<1>1. catalog' = catalog /\ made' = made /\ made \in 0..MaxRequests
  BY RowsAt DEF Create, Step, LibraryAt
<1>2. CASE UNCHANGED library
  BY <1>1, <1>2, SameTables
<1>3. CASE /\ Named(p) = {} /\ lastIds.mods < MaxMod
           /\ mods' = mods \cup {m}
           /\ lastIds' = [lastIds EXCEPT !.mods = @ + 1]
           /\ UNCHANGED <<versions, edges, files>>
  <2>1. p \in Projects
    BY DEF Rows, RequestOK, RequestAt, Shaped, Requests, Create, Resolving
  <2>2. m \in [id : {lastIds.mods + 1}, slug : Projects, link : MaybeProjects, type : Types]
    BY <2>1 DEF MaybeProjects, Types
  <2>3. m.slug = p
    OBVIOUS
  <2> HIDE DEF m
  <2> QED  BY <1>1, <1>3, <2>2, <2>3, NewModTables
<1> QED  BY <1>2, <1>3 DEF Create, Fails

LEMMA SetRolesTables ==
  ASSUME Rows, SetRoles
  PROVE  LibraryAt' /\ RowsOf(lastIds, lastIds')
<1>1. catalog' = catalog /\ made' = made /\ made \in 0..MaxRequests
  BY RowsAt DEF SetRoles, Step, LibraryAt
<1>2. CASE UNCHANGED library
  BY <1>1, <1>2, SameTables
<1>3. CASE /\ mods' = {[m EXCEPT !.type = IF m.id \in req.have THEN "BOOTSTRAP" ELSE @]
                        : m \in mods}
           /\ UNCHANGED <<versions, edges, files, lastIds>>
  <2>1. PICK f : f = [m \in mods |-> [m EXCEPT !.type = IF m.id \in req.have THEN "BOOTSTRAP" ELSE @]]
    OBVIOUS
  <2>2. ModsAt(mods, lastIds)
    BY RowsAt DEF LibraryAt
  <2>3. \A m \in mods : f[m] \in ModRows /\ f[m].id = m.id /\ f[m].slug = m.slug
    BY <2>1, <2>2 DEF ModsAt, ModRows, Types
  <2>4. ModsAt({f[m] : m \in mods}, lastIds)
    BY <2>2, <2>3, ModsMapped
  <2>5. mods' = {f[m] : m \in mods}
    BY <1>3, <2>1
  <2>6. ModsAt(mods', lastIds')
    BY <1>3, <2>4, <2>5
  <2> QED  BY <1>1, <1>3, <2>6, RowsAt, SameRows DEF LibraryAt
<1> QED  BY <1>2, <1>3 DEF SetRoles, Fails

LEMMA DeclareTables ==
  ASSUME Rows, Graph, Declare
  PROVE  LibraryAt' /\ RowsOf(lastIds, lastIds')
<1>1. catalog' = catalog /\ made' = made /\ made \in 0..MaxRequests
  BY RowsAt DEF Declare, Step, LibraryAt
<1>2. CASE UNCHANGED library
  BY <1>1, <1>2, SameTables
<1>3. ASSUME UNCHANGED <<mods, versions, files, lastIds>>, NEW i, NEW j,
             edges' = edges \cup {<<i, j>>},
             \A k \in {i, j} : \E m \in mods : m.id = k
      PROVE  LibraryAt' /\ RowsOf(lastIds, lastIds')
  <2>1. LibraryAt
    BY RowsAt
  <2>2. i \in ModIds /\ j \in ModIds /\ i <= lastIds.mods /\ j <= lastIds.mods
    BY <1>3, <2>1 DEF LibraryAt, ModsAt, ModRows
  <2>3. EdgesAt(edges \cup {<<i, j>>}, lastIds)
    BY <2>1, <2>2 DEF LibraryAt, EdgesAt
  <2> QED  BY <1>1, <1>3, <2>1, <2>3, SameRows DEF LibraryAt
<1>4. \/ UNCHANGED library
      \/ /\ UNCHANGED <<mods, versions, files>>
         /\ \E j \in req.stack[1].have :
              /\ edges' = edges \cup {<<req.stack[1].mod.id, j>>}
              /\ \A k \in {req.stack[1].mod.id, j} : \E m \in mods : m.id = k
  BY DeclareStep DEF Declare, Fails
<1>5. lastIds' = lastIds
  BY DeclareStep
<1> QED  BY <1>2, <1>3, <1>4, <1>5

LEMMA MoveFilesTables ==
  ASSUME Rows, Graph, MoveFiles
  PROVE  LibraryAt' /\ RowsOf(lastIds, lastIds')
<1> DEFINE f == [Top EXCEPT !.name = LocalName(Top.mod.id, Top.release)]
<1>1. catalog' = catalog /\ made' = made /\ UNCHANGED <<mods, versions, edges, lastIds>>
  BY DEF MoveFiles, Step
<1>2. LibraryAt
  BY RowsAt
<1>3. Top \in Frames /\ Top.mod \in ModRows /\ Top.release \in Releases
  BY TopToFile DEF MoveFiles
<1>4. PICK n \in NamesOf(Top.release) : n = LocalName(Top.mod.id, Top.release)
  BY <1>3, LocalNameIn
<1>5. f.mod = Top.mod /\ f.release = Top.release /\ f.name = n
  BY <1>3, <1>4 DEF Frames
<1> HIDE DEF f
<1>6. FileOf(f) = {x \in files : x.slug = Top.mod.slug /\ x.name = n}
  BY <1>5 DEF FileOf
<1>7. \/ files' \subseteq files
      \/ files' = (files \ FileOf(f)) \cup
           {[slug |-> Top.mod.slug, name |-> n, md5 |-> Archive(Top.release, made)]}
  BY <1>5 DEF MoveFiles, f
<1>8. FilesAt(files')
  <2>1. CASE files' \subseteq files
    BY <1>2, <2>1, TablesShrink DEF LibraryAt
  <2>2. CASE files' = (files \ FileOf(f)) \cup
               {[slug |-> Top.mod.slug, name |-> n, md5 |-> Archive(Top.release, made)]}
    <3>1. Top.mod.slug \in Projects /\ made \in 0..MaxRequests /\ FilesAt(files)
      BY <1>2, <1>3 DEF LibraryAt, ModRows
    <3> QED  BY <1>3, <1>6, <2>2, <3>1, FileAdded
  <2> QED  BY <1>7, <2>1, <2>2
<1> QED  BY <1>1, <1>2, <1>8, SameRows DEF LibraryAt

LEMMA InsertTables ==
  ASSUME Rows, Graph, Insert
  PROVE  LibraryAt' /\ RowsOf(lastIds, lastIds')
<1>1. catalog' = catalog /\ made' = made /\ made \in 0..MaxRequests
  BY RowsAt DEF Insert, Step, LibraryAt
<1>2. LibraryAt
  BY RowsAt
<1>3. CASE UNCHANGED library
  BY <1>1, <1>3, SameTables
<1>4. CASE UNCHANGED <<mods, versions, edges, lastIds>> /\ files' \subseteq files
  BY <1>1, <1>2, <1>4, TablesShrink, SameRows DEF LibraryAt
<1>5. PICK row : row = [id |-> lastIds.versions + 1, mod |-> Top.mod.id, ext |-> Top.release,
                        name |-> Top.name, md5 |-> Archive(Top.release, made)]
  OBVIOUS
<1>6. CASE /\ lastIds.versions < MaxVersion
           /\ lastIds' = [lastIds EXCEPT !.versions = @ + 1]
           /\ versions' = versions \cup {row}
           /\ mods' = {IF m.id = Top.mod.id /\ Top.mod.link \notin Configs
                         THEN Promoted(m) ELSE m : m \in mods}
           /\ UNCHANGED <<edges, files>>
  <2>1. /\ Top \in Frames /\ Top.mod \in ModRows /\ Top.release \in Releases
        /\ Top.mod.link = ProjectOf[Top.release] /\ Top.mod.id <= lastIds.mods
        /\ Resolves(req) /\ Top = req.stack[1] /\ req.pc = "insert"
    BY TopToFile DEF Insert
  <2>2. Top.name \in NamesOf(Top.release) /\ Verified(Top)
    BY <2>1 DEF Graph, GraphOf, AtTop
  <2>3. Trusted(Top.release) /\ Top.mod.id \in ModIds
    BY <2>1, <2>2 DEF Trusted, Verified, ModRows
  <2>4. LastAt(lastIds') /\ RowsOf(lastIds, lastIds') /\ VersionsAt(versions \cup {row}, lastIds')
    <3>1. PICK i, r, n : i = Top.mod.id /\ r = Top.release /\ n = Top.name
      OBVIOUS
    <3>2. /\ i \in ModIds /\ i <= lastIds.mods /\ r \in Releases /\ Trusted(r) /\ n \in NamesOf(r)
          /\ row \in NewVersionRows(lastIds, i, r, n)
          /\ LastAt(lastIds) /\ VersionsAt(versions, lastIds)
          /\ lastIds.versions < MaxVersion /\ lastIds' = [lastIds EXCEPT !.versions = @ + 1]
      BY <1>1, <1>2, <1>5, <1>6, <2>1, <2>2, <2>3, <3>1, NewVersionTyped DEF LibraryAt
    <3>3. Joining(row, versions, lastIds, lastIds', i, r, n)
      BY ONLY <3>2 DEF Joining
    <3> QED  BY ONLY <3>3, VersionAdded
  <2>5. PICK f : f = [m \in mods |-> IF m.id = Top.mod.id /\ Top.mod.link \notin Configs
                                       THEN Promoted(m) ELSE m]
    OBVIOUS
  <2>6. \A m \in mods : f[m] \in ModRows /\ f[m].id = m.id /\ f[m].slug = m.slug
    BY <1>2, <2>5 DEF LibraryAt, ModsAt, ModRows, Types, Promoted
  <2>7. ModsAt({f[m] : m \in mods}, lastIds)
    BY <1>2, <2>6, ModsMapped DEF LibraryAt
  <2>8. mods' = {f[m] : m \in mods}
    BY <1>6, <2>5
  <2>9. ModsAt(mods', lastIds') /\ EdgesAt(edges', lastIds')
    BY <1>2, <1>6, <2>4, <2>7, <2>8, TablesGrow DEF LibraryAt
  <2> QED  BY <1>1, <1>2, <1>6, <2>4, <2>9 DEF LibraryAt
<1>7. \/ UNCHANGED library
      \/ UNCHANGED <<mods, versions, edges, lastIds>> /\ files' \subseteq files
      \/ /\ lastIds.versions < MaxVersion
         /\ lastIds' = [lastIds EXCEPT !.versions = @ + 1]
         /\ versions' = versions \cup {row}
         /\ mods' = {IF m.id = Top.mod.id /\ Top.mod.link \notin Configs
                       THEN Promoted(m) ELSE m : m \in mods}
         /\ UNCHANGED <<edges, files>>
  <2>1. CASE Stored(Top.mod.id, Top.release) # {}
    BY <2>1 DEF Insert
  <2>2. CASE files' = files \ FileOf(Top) /\ UNCHANGED <<mods, versions, edges, lastIds>>
    BY <2>2
  <2>3. CASE Stored(Top.mod.id, Top.release) = {} /\ ~ UNCHANGED <<mods, versions, edges, lastIds>>
    BY <1>5, <2>3, InsertStep
  <2> QED  BY <2>1, <2>2, <2>3 DEF Insert
<1> QED  BY <1>3, <1>4, <1>6, <1>7

LEMMA TakingTables ==
  ASSUME Rows, Rollback \/ Sweep
  PROVE  LibraryAt' /\ RowsOf(lastIds, lastIds')
<1>1. catalog' = catalog /\ made' = made /\ made \in 0..MaxRequests
  BY RowsAt DEF Rollback, Sweep, Step, LibraryAt
<1>2. LibraryAt
  BY RowsAt
<1>3. CASE UNCHANGED library
  BY <1>1, <1>3, SameTables
<1>4. CASE UNCHANGED <<mods, versions, edges, lastIds>> /\ files' \subseteq files
  BY <1>1, <1>2, <1>4, TablesShrink, SameRows DEF LibraryAt
<1>5. CASE Sweep
  BY <1>4, <1>5 DEF Sweep
<1>6. CASE Rollback
  <2> DEFINE done == req.ctx
             es == edges \ done.edges
             vs == {v \in versions : v.id \notin done.createdVersions}
             kept == {m \in mods : m.id \in done.createdMods => ~ Emptied(m.id, vs, es)}
             unlink(m) == /\ <<m.id, m.link>> \in done.linked
                          /\ ~ \E v \in vs : v.mod = m.id
  <2>1. CASE UNCHANGED library
    BY <1>3, <2>1
  <2>2. CASE /\ edges' = es /\ versions' = vs
             /\ mods' = {[m EXCEPT !.link = IF unlink(m) THEN None ELSE @] : m \in kept}
             /\ UNCHANGED <<files, lastIds>>
    <3>1. PICK K, U, f : /\ K = kept /\ U = {m \in kept : unlink(m)}
                         /\ f = [m \in K |-> [m EXCEPT !.link = IF m \in U THEN None ELSE @]]
      OBVIOUS
    <3>2. mods' = {f[m] : m \in K} /\ K \subseteq mods
      BY <2>2, <3>1
    <3>3. ModsAt(K, lastIds)
      BY <1>2, <3>2, TablesShrink DEF LibraryAt
    <3>4. \A m \in K : f[m] \in ModRows /\ f[m].id = m.id /\ f[m].slug = m.slug
      <4>1. K \subseteq ModRows
        BY <3>3 DEF ModsAt
      <4> SUFFICES ASSUME NEW m \in K
                   PROVE  f[m] \in ModRows /\ f[m].id = m.id /\ f[m].slug = m.slug
        OBVIOUS
      <4>2. PICK l : f[m] = [m EXCEPT !.link = l] /\ l \in {None, m.link}
        BY ONLY <3>1
      <4>3. m \in ModRows
        BY <4>1
      <4> QED  BY ONLY <4>2, <4>3 DEF ModRows
    <3>5. ModsAt({f[m] : m \in K}, lastIds)
      BY ONLY <3>3, <3>4, ModsMapped
    <3>6. edges' \subseteq edges /\ versions' \subseteq versions
      BY <2>2
    <3>7. ModsAt(mods', lastIds') /\ VersionsAt(versions', lastIds') /\ EdgesAt(edges', lastIds')
      BY <1>2, <2>2, <3>2, <3>5, <3>6, TablesShrink DEF LibraryAt
    <3> QED  BY <1>1, <1>2, <2>2, <3>7, SameRows DEF LibraryAt
  <2> QED  BY <1>6, <2>1, <2>2 DEF Rollback
<1> QED  BY <1>5, <1>6

LEMMA NewManualTables ==
  ASSUME Rows, NewManual \/ OtherProject
  PROVE  LibraryAt' /\ RowsOf(lastIds, lastIds')
<1>1. PICK p \in Projects, l \in MaybeProjects, t \in {"MOD", "CONFIG"} :
        /\ Named(p) = {} /\ lastIds.mods < MaxMod
        /\ mods' = mods \cup {[id |-> lastIds.mods + 1, slug |-> p, link |-> l, type |-> t]}
        /\ lastIds' = [lastIds EXCEPT !.mods = @ + 1]
        /\ UNCHANGED <<versions, edges, files>>
  BY DEF NewManual, OtherProject, MaybeProjects
<1>2. PICK m : m = [id |-> lastIds.mods + 1, slug |-> p, link |-> l, type |-> t]
  OBVIOUS
<1>3. /\ m \in [id : {lastIds.mods + 1}, slug : Projects, link : MaybeProjects, type : Types]
      /\ m.slug = p
  BY <1>2 DEF MaybeProjects, Types
<1>4. mods' = mods \cup {m}
  BY <1>1, <1>2
<1>5. catalog' = catalog /\ made' = made
  BY DEF NewManual, OtherProject, Edits
<1> QED  BY <1>1, <1>3, <1>4, <1>5, NewModTables

LEMMA LinkingTables ==
  ASSUME Rows, LinkExisting \/ Unlink
  PROVE  LibraryAt' /\ RowsOf(lastIds, lastIds')
<1>1. PICK m \in mods, p \in MaybeProjects :
        /\ mods' = (mods \ {m}) \cup {[m EXCEPT !.link = p]}
        /\ UNCHANGED <<versions, edges, files, lastIds>>
  BY DEF LinkExisting, Unlink, MaybeProjects
<1>2. PICK n : n = [m EXCEPT !.link = p]
  OBVIOUS
<1>3. ModsAt(mods, lastIds) /\ m \in ModRows
  BY RowsAt DEF LibraryAt, ModsAt
<1>4. n \in ModRows /\ n.id = m.id /\ n.slug = m.slug
  BY <1>2, <1>3 DEF ModRows, MaybeProjects
<1>5. PICK S : S = {m}
  OBVIOUS
<1>6. ModsAt((mods \ S) \cup {n}, lastIds)
  BY <1>3, <1>4, <1>5, ModChanged
<1>7. ModsAt(mods', lastIds')
  BY <1>1, <1>2, <1>5, <1>6
<1>8. catalog' = catalog /\ made' = made
  BY DEF LinkExisting, Unlink, Edits
<1> QED  BY <1>1, <1>7, <1>8, RowsAt, SameRows DEF LibraryAt

LEMMA EdgeTables ==
  ASSUME Rows, AddDependency \/ DeleteDependency
  PROVE  LibraryAt' /\ RowsOf(lastIds, lastIds')
<1>1. catalog' = catalog /\ made' = made /\ UNCHANGED <<mods, versions, files, lastIds>>
  BY DEF AddDependency, DeleteDependency, Edits
<1>2. LibraryAt
  BY RowsAt
<1>3. CASE edges' \subseteq edges
  BY <1>1, <1>2, <1>3, TablesShrink, SameRows DEF LibraryAt
<1>4. ASSUME NEW m \in mods, NEW n \in mods, edges' = edges \cup {<<m.id, n.id>>}
      PROVE  LibraryAt' /\ RowsOf(lastIds, lastIds')
  <2>1. /\ m.id \in ModIds /\ n.id \in ModIds /\ m.id <= lastIds.mods /\ n.id <= lastIds.mods
    BY <1>2 DEF LibraryAt, ModsAt, ModRows
  <2>2. EdgesAt(edges', lastIds)
    BY <1>2, <1>4, <2>1 DEF LibraryAt, EdgesAt
  <2> QED  BY <1>1, <1>2, <2>2, SameRows DEF LibraryAt
<1> QED  BY <1>3, <1>4 DEF AddDependency, DeleteDependency

LEMMA DeletingTables ==
  ASSUME Rows, DeleteVersion \/ DeleteMod
  PROVE  LibraryAt' /\ RowsOf(lastIds, lastIds')
<1>1. /\ catalog' = catalog /\ made' = made /\ UNCHANGED <<files, lastIds>>
      /\ mods' \subseteq mods /\ versions' \subseteq versions /\ edges' \subseteq edges
  BY DEF DeleteVersion, DeleteMod, Edits
<1> QED  BY <1>1, RowsAt, TablesShrink, SameRows DEF LibraryAt

LEMMA OtherImportTables ==
  ASSUME Rows, OtherImport
  PROVE  LibraryAt' /\ RowsOf(lastIds, lastIds')
<1>1. PICK m \in mods, r \in Releases, n \in Names :
        /\ n = LocalName(m.id, r)
        /\ m.link = ProjectOf[r]
        /\ Verified([mod |-> m, release |-> r])
        /\ lastIds.versions < MaxVersion
        /\ files' = (files \ FileOf([mod |-> m, name |-> n])) \cup
             {[slug |-> m.slug, name |-> n, md5 |-> Archive(r, 0)]}
        /\ versions' = versions \cup
             {[id |-> lastIds.versions + 1, mod |-> m.id, ext |-> r, name |-> n,
               md5 |-> Archive(r, 0)]}
        /\ lastIds' = [lastIds EXCEPT !.versions = @ + 1]
        /\ UNCHANGED <<mods, edges>>
  BY LocalNameIn DEF OtherImport
<1>2. LibraryAt /\ catalog' = catalog /\ made' = made
  BY RowsAt DEF OtherImport, Edits
<1>3. /\ m.id \in ModIds /\ m.slug \in Projects /\ m.id <= lastIds.mods
      /\ n \in NamesOf(r) /\ Trusted(r) /\ 0 \in 0..MaxRequests
  BY <1>1, <1>2, LocalNameIn, TypesAreNat DEF LibraryAt, ModsAt, ModRows, Verified, Trusted
<1>4. PICK v : v = [id |-> lastIds.versions + 1, mod |-> m.id, ext |-> r, name |-> n,
                    md5 |-> Archive(r, 0)]
  OBVIOUS
<1>5. LastAt(lastIds') /\ RowsOf(lastIds, lastIds') /\ VersionsAt(versions \cup {v}, lastIds')
  <2>1. PICK i : i = m.id
    OBVIOUS
  <2>2. /\ i \in ModIds /\ i <= lastIds.mods /\ r \in Releases /\ Trusted(r) /\ n \in NamesOf(r)
        /\ v \in NewVersionRows(lastIds, i, r, n)
        /\ LastAt(lastIds) /\ VersionsAt(versions, lastIds)
        /\ lastIds.versions < MaxVersion /\ lastIds' = [lastIds EXCEPT !.versions = @ + 1]
    BY <1>1, <1>2, <1>3, <1>4, <2>1, NewVersionTyped DEF LibraryAt
  <2>3. Joining(v, versions, lastIds, lastIds', i, r, n)
    BY ONLY <2>2 DEF Joining
  <2> QED  BY ONLY <2>3, VersionAdded
<1>6. FileOf([mod |-> m, name |-> n]) = {x \in files : x.slug = m.slug /\ x.name = n}
  BY DEF FileOf
<1>7. FilesAt(files')
  BY <1>1, <1>2, <1>3, <1>6, FileAdded DEF LibraryAt
<1>8. ModsAt(mods', lastIds') /\ EdgesAt(edges', lastIds')
  BY <1>1, <1>2, <1>5, TablesGrow DEF LibraryAt
<1> QED  BY <1>1, <1>2, <1>4, <1>5, <1>7, <1>8 DEF LibraryAt

\* The steps of administrators and of other requests.
Editing == \/ NewManual \/ LinkExisting \/ Unlink \/ AddDependency \/ DeleteDependency
           \/ DeleteVersion \/ DeleteMod \/ OtherProject \/ OtherImport

LEMMA EditingRows ==
  ASSUME Rows, Graph, Editing
  PROVE  /\ Rows' /\ Graph' /\ RowsOf(lastIds, lastIds')
         /\ req' = req /\ before' = before /\ catalog' = catalog /\ made' = made /\ ~ calm'
<1>1. req' = req /\ before' = before /\ catalog' = catalog /\ made' = made /\ ~ calm'
  BY DEF Editing, NewManual, LinkExisting, Unlink, AddDependency, DeleteDependency, DeleteVersion,
         DeleteMod, OtherProject, OtherImport, Edits
<1>2. LibraryAt' /\ RowsOf(lastIds, lastIds')
  BY NewManualTables, LinkingTables, EdgeTables, DeletingTables, OtherImportTables DEF Editing
<1>3. BeforeOK'
  BY <1>1, <1>2, RowsAt, BeforeGrows
<1>4. RequestOK'
  <2>1. RequestAt(req, lastIds')
    BY <1>2, RowsGrow DEF Rows, RequestOK
  <2> QED  BY <1>1, <2>1 DEF RequestOK
<1>5. Rows'
  <2>1. Rows <=> LibraryAt /\ BeforeOK /\ RequestOK
    BY RowsAt
  <2>2. Rows' <=> LibraryAt' /\ BeforeOK' /\ RequestOK'
    BY <2>1, RowsAt, PTL
  <2> QED  BY <1>2, <1>3, <1>4, <2>2
<1>6. Graph'
  BY <1>1 DEF Graph
<1> QED  BY <1>1, <1>2, <1>5, <1>6

-----------------------------------------------------------------------------
(* Rows and Graph in every step                                            *)

\* A request without calls: the idle one, an import, the bootstraps.
LEMMA EmptyAt ==
  ASSUME NEW q, NEW last, NEW K, NEW P, NEW T \in SUBSET (Projects \ Configs),
         NEW p \in (Projects \ Configs) \cup {None},
         q = [todo |-> T, have |-> {}, kind |-> K, pc |-> P, stack |-> <<>>,
              ctx |-> NoContext, need |-> p, target |-> 0, stored |-> FALSE],
         \/ K = "none" /\ P = "idle"
         \/ K = "import" /\ P = "lookup" /\ p # None
         \/ K = "bootstrap" /\ P = "bootstrap"
  PROVE  RequestAt(q, last) /\ ~ Resolves(q) /\ q.ctx = NoContext /\ q.kind = K /\ q.pc = P
<1>1. /\ K \in {"none", "import", "bootstrap", "materialize"}
      /\ P \in {"idle", "bootstrap"} \cup Going \cup Taking
  BY DEF Going, Resolving
<1>2. PICK s : s = <<>>
  OBVIOUS
<1>3. s \in Seq(Frames) /\ DOMAIN s = {} /\ s = <<>>
  BY <1>2
<1>4. q = [todo |-> T, have |-> {}, kind |-> K, pc |-> P, stack |-> s,
           ctx |-> NoContext, need |-> p, target |-> 0, stored |-> FALSE]
  BY <1>2
<1>5. q \in Requests
  BY ONLY <1>1, <1>3, <1>4, NoContextTyped, T \in SUBSET (Projects \ Configs),
          p \in (Projects \ Configs) \cup {None} DEF Requests
<1>6. /\ q.kind = K /\ q.pc = P /\ q.stack = s /\ q.ctx = NoContext
      /\ q.need = p /\ ~ q.stored
  BY <1>4
<1>7. Shaped(q)
  BY <1>3, <1>6 DEF Shaped, Resolving, Taking, Going
<1>8. Stacked(q) /\ Counted(q, last)
  BY <1>3, <1>6, NoContextTyped DEF Stacked, Counted, Resolving
<1> QED  BY <1>5, <1>6, <1>7, <1>8 DEF RequestAt, Resolves, Going, Resolving

LEMMA IdleAt ==
  ASSUME NEW last
  PROVE  RequestAt(Idle, last) /\ ~ Resolves(Idle) /\ Idle.ctx = NoContext /\ Idle.pc = "idle"
         /\ Idle.kind = "none"
BY EmptyAt DEF Idle, Request

Starting == BeginImport \/ BeginBootstrap \/ BeginMaterialize

LEMMA StartingStep ==
  ASSUME Rows, Starting
  PROVE  /\ RequestAt(req', lastIds) /\ GraphOf(catalog, req')
         /\ UNCHANGED <<catalog, library>> /\ made' \in 0..MaxRequests /\ calm'
         /\ before' = [mods |-> mods, versions |-> versions, edges |-> edges, files |-> files]
         /\ req'.ctx = NoContext /\ whole' = whole
         /\ req'.pc \in {"lookup", "bootstrap", "returned", "files", "enter"}
         /\ req'.kind = "materialize" =>
              \E m \in mods, r \in Releases : \E P :
                Beginning(req', m, r, Stored(m.id, r) # {}, P)
<1>1. /\ UNCHANGED <<catalog, library, whole>> /\ made < MaxRequests /\ made' = made + 1
      /\ before' = [mods |-> mods, versions |-> versions, edges |-> edges, files |-> files]
      /\ calm'
  BY DEF Starting, BeginImport, BeginBootstrap, BeginMaterialize, Begins
<1>2. made' \in 0..MaxRequests
  <2>1. made \in 0..MaxRequests /\ MaxRequests \in Nat
    BY RowsAt, TypesAreNat DEF LibraryAt
  <2> QED  BY <1>1, <2>1
<1>3. CASE BeginImport
  <2>1. PICK p \in Projects \ Configs :
          req' = [Request("import", "lookup", <<>>, {}) EXCEPT !.need = p]
    BY <1>3 DEF BeginImport, Begins
  <2>2. p # None
    BY ImportsAssumption
  <2>3. req' = [todo |-> {}, have |-> {}, kind |-> "import", pc |-> "lookup", stack |-> <<>>,
                ctx |-> NoContext, need |-> p, target |-> 0, stored |-> FALSE]
    BY <2>1 DEF Request
  <2>4. RequestAt(req', lastIds) /\ ~ Resolves(req') /\ req'.ctx = NoContext
        /\ req'.kind = "import" /\ req'.pc = "lookup"
    BY <2>2, <2>3, EmptyAt
  <2> QED  BY <1>1, <1>2, <2>4 DEF GraphOf
<1>4. CASE BeginBootstrap
  <2>1. PICK T \in Downloaders : req' = Request("bootstrap", "bootstrap", <<>>, T)
    BY <1>4 DEF BeginBootstrap, Begins
  <2>2. T \in SUBSET (Projects \ Configs)
    BY ImportsAssumption
  <2>3. req' = [todo |-> T, have |-> {}, kind |-> "bootstrap", pc |-> "bootstrap", stack |-> <<>>,
                ctx |-> NoContext, need |-> None, target |-> 0, stored |-> FALSE]
    BY <2>1 DEF Request
  <2>4. RequestAt(req', lastIds) /\ ~ Resolves(req') /\ req'.ctx = NoContext
        /\ req'.kind = "bootstrap" /\ req'.pc = "bootstrap"
    BY <2>2, <2>3, EmptyAt
  <2> QED  BY <1>1, <1>2, <2>4 DEF GraphOf
<1>5. CASE BeginMaterialize
  <2>1. PICK m \in mods, r \in Releases :
          /\ m.link # None /\ ProjectOf[r] = m.link
          /\ req' = Request("materialize",
                       IF Stored(m.id, r) # {} THEN "returned"
                       ELSE IF m.link \in Configs THEN "files" ELSE "enter", <<Frame(m, r)>>, {})
    BY <1>5 DEF BeginMaterialize, Begins
  <2>2. PICK e \in BOOLEAN : e = (Stored(m.id, r) # {})
    OBVIOUS
  <2>3. PICK P : P = IF e THEN "returned" ELSE IF m.link \in Configs THEN "files" ELSE "enter"
    OBVIOUS
  <2>4. m \in ModRows /\ m.id <= lastIds.mods
    BY RowsAt DEF LibraryAt, ModsAt
  <2>5. Beginning(req', m, r, e, P)
    BY <2>1, <2>2, <2>3, <2>4 DEF Beginning, Frame
  <2>6. /\ RequestAt(req', lastIds) /\ GraphOf(catalog, req')
        /\ req'.kind = "materialize" /\ req'.pc = P /\ req'.ctx = NoContext
    BY <2>4, <2>5, BeginningAt
  <2>7. P \in {"returned", "files", "enter"}
    BY <2>3
  <2> QED  BY <1>1, <1>2, <2>2, <2>5, <2>6, <2>7
<1> QED  BY <1>3, <1>4, <1>5 DEF Starting

Stepping == \/ Lookup \/ Link \/ Create \/ NextBootstrap \/ SetRoles
            \/ Enter \/ NextDependency \/ Choose \/ Declare \/ MoveFiles \/ Insert
            \/ Rollback \/ Sweep

LEMMA NextIs ==
  Next <=> Starting \/ Stepping \/ Answer \/ Crash \/ Editing
BY DEF Next, Starting, Stepping, Editing

LEMMA SteppingTables ==
  ASSUME Rows, Graph, Stepping
  PROVE  /\ LibraryAt' /\ RowsOf(lastIds, lastIds')
         /\ UNCHANGED <<catalog, made, before, calm, whole>>
<1>1. UNCHANGED <<catalog, made, before, calm, whole>>
  BY DEF Stepping, Lookup, Link, Create, NextBootstrap, SetRoles, Enter, NextDependency, Choose,
         Declare, MoveFiles, Insert, Rollback, Sweep, Step, history
<1>2. made \in 0..MaxRequests
  BY RowsAt DEF LibraryAt
<1>3. CASE Lookup \/ NextBootstrap \/ Enter \/ NextDependency \/ Choose
  <2>1. UNCHANGED library
    BY <1>3 DEF Lookup, NextBootstrap, Enter, NextDependency, Choose
  <2> QED  BY <1>1, <1>2, <2>1, SameTables
<1> QED  BY <1>1, <1>3, LinkTables, CreateTables, SetRolesTables, DeclareTables, MoveFilesTables,
            InsertTables, TakingTables DEF Stepping

LEMMA SteppingRequest ==
  ASSUME Rows, Graph, Stepping
  PROVE  RequestAt(req', lastIds') /\ GraphOf(catalog, req')
<1>1. RequestAt(req, lastIds) /\ GraphOf(catalog, req)
  BY DEF Rows, RequestOK, Graph
<1>2. \A d \in catalog : d.project \in Projects
  BY CatalogTyped
<1>3. ASSUME RequestAt(req', lastIds'), ~ Resolves(req') \/ Locating(req, req')
      PROVE  GraphOf(catalog, req')
  <2>1. CASE ~ Resolves(req')
    BY <2>1 DEF GraphOf
  <2>2. CASE Locating(req, req')
    BY <1>1, <1>3, <2>2, LocatingGraph
  <2> QED  BY <1>3, <2>1, <2>2
<1>4. CASE Lookup
  <2>1. lastIds' = lastIds
    BY <1>4 DEF Lookup, library
  <2> QED  BY <1>3, <1>4, <2>1, LookupStep
<1>5. CASE Link
  BY <1>3, <1>5, LinkStep
<1>6. CASE Create
  BY <1>3, <1>6, CreateStep
<1>7. CASE NextBootstrap
  <2>1. lastIds' = lastIds
    BY <1>7 DEF NextBootstrap, library
  <2> QED  BY <1>7, <2>1, NextBootstrapStep DEF GraphOf
<1>8. CASE SetRoles
  BY <1>8, SetRolesStep DEF GraphOf
<1>9. CASE Enter
  <2>1. lastIds' = lastIds
    BY <1>9 DEF Enter, library
  <2>2. RequestAt(req', lastIds) /\ (~ Resolves(req') \/ Entering(catalog, req, req'))
    BY <1>9, EnterStep
  <2>3. Entering(catalog, req, req') => GraphOf(catalog, req')
    BY <1>1, <1>2, <2>2, EnteringGraph
  <2> QED  BY <2>1, <2>2, <2>3 DEF GraphOf
<1>10. CASE NextDependency
  <2>1. lastIds' = lastIds
    BY <1>10 DEF NextDependency, library
  <2> QED  BY <1>3, <1>10, <2>1, NextDependencyStep
<1>11. CASE Choose
  <2>1. lastIds' = lastIds
    BY <1>11 DEF Choose, library
  <2>2. RequestAt(req', lastIds) /\ (~ Resolves(req') \/ Meeting(req, req') \/ Calling(req, req'))
    BY <1>11, ChooseStep
  <2>3. Meeting(req, req') => GraphOf(catalog, req')
    BY <1>1, MeetingGraph
  <2>4. Calling(req, req') => GraphOf(catalog, req')
    BY <1>1, <1>2, <2>2, CallingGraph
  <2> QED  BY <2>1, <2>2, <2>3, <2>4 DEF GraphOf
<1>12. Finishing(req, req') => GraphOf(catalog, req')
  BY <1>1, FinishingGraph
<1>13. Returning(req, req') => GraphOf(catalog, req')
  BY <1>1, ReturningGraph
<1>14. CASE Declare
  <2>1. /\ RequestAt(req', lastIds) /\ lastIds' = lastIds
        /\ \/ ~ Resolves(req') \/ Filing(req, req') \/ Finishing(req, req')
           \/ Returning(req, req') \/ Declaring(req, req')
    BY <1>14, DeclareStep
  <2>2. Filing(req, req') => GraphOf(catalog, req')
    BY <1>1, FilingGraph
  <2>3. Declaring(req, req') => GraphOf(catalog, req')
    BY <1>1, DeclaringGraph
  <2> QED  BY <1>12, <1>13, <2>1, <2>2, <2>3 DEF GraphOf
<1>15. CASE MoveFiles
  <2>1. /\ RequestAt(req', lastIds) /\ lastIds' = lastIds
        /\ \/ ~ Resolves(req') \/ Placing(req, req') \/ Finishing(req, req') \/ Returning(req, req')
    BY <1>15, MoveFilesStep
  <2>2. Placing(req, req') => GraphOf(catalog, req')
    BY <1>1, PlacingGraph
  <2> QED  BY <1>12, <1>13, <2>1, <2>2 DEF GraphOf
<1>16. CASE Insert
  <2>1. /\ RequestAt(req', lastIds')
        /\ ~ Resolves(req') \/ Finishing(req, req') \/ Returning(req, req')
    BY <1>16, InsertStep
  <2> QED  BY <1>12, <1>13, <2>1 DEF GraphOf
<1>17. CASE Rollback \/ Sweep
  BY <1>17, TakingStep DEF GraphOf
<1> QED  BY <1>4, <1>5, <1>6, <1>7, <1>8, <1>9, <1>10, <1>11, <1>14, <1>15, <1>16, <1>17
         DEF Stepping

LEMMA RowsNow ==
  ASSUME LibraryAt', BeforeOK', RequestAt(req', lastIds')
  PROVE  Rows'
<1>1. Rows <=> LibraryAt /\ BeforeOK /\ RequestOK
  BY RowsAt
<1>2. Rows' <=> LibraryAt' /\ BeforeOK' /\ RequestOK'
  BY <1>1, RowsAt, PTL
<1> QED  BY <1>2 DEF RequestOK

LEMMA EndingStep ==
  ASSUME Rows, Answer \/ Crash
  PROVE  /\ Rows' /\ Graph' /\ req' = Idle /\ before' = Nothing
         /\ UNCHANGED <<catalog, library, made, calm, whole>>
<1>1. req' = Idle /\ before' = Nothing /\ UNCHANGED <<catalog, library, made, calm, whole>>
  BY DEF Answer, Crash, Ends
<1>2. LibraryAt'
  BY <1>1, RowsAt, SameTables DEF LibraryAt
<1>3. BeforeOK'
  BY <1>1 DEF BeforeOK, Nothing
<1>4. RequestAt(req', lastIds') /\ ~ Resolves(req')
  BY <1>1, IdleAt
<1>5. Rows'
  BY <1>2, <1>3, <1>4, RowsNow
<1> QED  BY <1>1, <1>4, <1>5 DEF Graph, GraphOf

\* Rows and Graph together are inductive.
LEMMA RowsGraphStep ==
  ASSUME Rows, Graph, [Next]_vars
  PROVE  Rows' /\ Graph'
<1>1. CASE Starting
  <2>1. /\ RequestAt(req', lastIds) /\ GraphOf(catalog, req')
        /\ UNCHANGED <<catalog, library>> /\ made' \in 0..MaxRequests
        /\ before' = [mods |-> mods, versions |-> versions, edges |-> edges, files |-> files]
    BY <1>1, StartingStep
  <2>2. LibraryAt' /\ lastIds' = lastIds
    BY <2>1, SameTables DEF library
  <2>3. BeforeOK'
    BY <2>1, <2>2, RowsAt DEF BeforeOK, LibraryAt, ModsAt, VersionsAt, EdgesAt
  <2>4. Rows'
    BY <2>1, <2>2, <2>3, RowsNow
  <2> QED  BY <2>1, <2>4 DEF Graph
<1>2. CASE Stepping
  <2>1. LibraryAt' /\ RowsOf(lastIds, lastIds') /\ UNCHANGED <<catalog, before>>
    BY <1>2, SteppingTables
  <2>2. BeforeOK'
    BY <2>1, RowsAt, BeforeGrows
  <2>3. RequestAt(req', lastIds') /\ GraphOf(catalog, req')
    BY <1>2, SteppingRequest
  <2>4. Rows'
    BY <2>1, <2>2, <2>3, RowsNow
  <2> QED  BY <2>1, <2>3, <2>4 DEF Graph
<1>3. CASE UNCHANGED vars
  <2>1. /\ UNCHANGED <<catalog, mods, versions, edges, files, lastIds, req, made, before>>
    BY <1>3 DEF vars, library, history
  <2>2. UNCHANGED library /\ LibraryAt /\ BeforeOK /\ RequestOK
    BY <2>1, RowsAt DEF library
  <2>3. LibraryAt' /\ BeforeOK' /\ RequestAt(req', lastIds')
    BY <2>1, <2>2, SameTables DEF BeforeOK, RequestOK, LibraryAt
  <2>4. Rows'
    BY <2>3, RowsNow
  <2> QED  BY <2>1, <2>4 DEF Graph
<1> QED  BY <1>1, <1>2, <1>3, NextIs, EditingRows, EndingStep

LEMMA RowsInitial ==
  ASSUME Init
  PROVE  Rows /\ Graph
<1>1. mods \in Libraries /\ mods \subseteq ModRows /\ {m.id : m \in mods} = 1..Cardinality(mods)
      /\ \A m, n \in mods : m.id = n.id \/ m.slug = n.slug => m = n
  BY ImportsAssumption DEF Init
<1>2. Cardinality(mods) \in 0..MaxMod
  <2>1. IsFiniteSet(ModIds) /\ Cardinality(ModIds) = MaxMod
    BY TypesAreNat, FS_Interval DEF ModIds
  <2>2. {m.id : m \in mods} \in SUBSET ModIds
    BY <1>1 DEF ModRows
  <2>3. IsFiniteSet(mods)
    <3>1. IsFiniteSet({m.id : m \in mods})
      BY <2>1, <2>2, FS_Subset
    <3>2. PICK f : f = [m \in mods |-> m.id]
      OBVIOUS
    <3>3. PICK T : T = {m.id : m \in mods}
      OBVIOUS
    <3>4. f \in Injection(mods, T)
      BY <1>1, <3>2, <3>3, Fun_IsInj
    <3> QED  BY <3>1, <3>3, <3>4, FS_Injection
  <2>4. Cardinality(mods) \in Nat
    BY <2>3, FS_CardinalityType
  <2>5. Cardinality(mods) = 0 \/ Cardinality(mods) \in ModIds
    BY <1>1, <2>2, <2>4
  <2> QED  BY <2>4, <2>5, TypesAreNat DEF ModIds
<1>3. LastAt(lastIds) /\ lastIds.mods = Cardinality(mods)
  BY <1>2, TypesAreNat DEF Init, LastAt
<1>4. ModsAt(mods, lastIds)
  <2>1. \A m \in mods : m.id \in 1..Cardinality(mods)
    BY <1>1
  <2> QED  BY <1>1, <1>2, <1>3, <2>1 DEF ModsAt
<1>5. LibraryAt
  BY <1>3, <1>4, TypesAreNat DEF Init, LibraryAt, VersionsAt, EdgesAt, FilesAt
<1>6. BeforeOK
  BY DEF Init, BeforeOK, Nothing
<1>7. RequestOK /\ ~ Resolves(req)
  BY IdleAt DEF Init, RequestOK
<1> QED  BY <1>5, <1>6, <1>7, RowsAt DEF Graph, GraphOf

LEMMA RowsAndGraph ==
  Spec => [](Rows /\ Graph)
<1>1. Init => Rows /\ Graph
  BY RowsInitial
<1>2. Rows /\ Graph /\ [Next]_vars => (Rows /\ Graph)'
  BY RowsGraphStep
<1> QED  BY <1>1, <1>2, PTL DEF Spec

LEMMA StackBounded ==
  ASSUME Rows
  PROVE  Len(req.stack) <= Cardinality(Projects)
<1>1. IsFiniteSet(Projects) /\ Cardinality(Projects) \in Nat
  BY ImportsAssumption, FS_CardinalityType
<1>2. CASE req.kind = "materialize"
  <2>1. /\ DOMAIN req.stack = 1..Len(req.stack) /\ Len(req.stack) \in Nat
        /\ \A i \in DOMAIN req.stack : req.stack[i].mod.link \in Projects
    BY <1>2, OnStackNow
  <2>2. \A i, j \in DOMAIN req.stack : req.stack[i].mod.link = req.stack[j].mod.link => i = j
    BY DEF Rows, RequestOK, RequestAt, Stacked
  <2>3. PICK S, f : S = 1..Len(req.stack) /\ f = [i \in S |-> req.stack[i].mod.link]
    OBVIOUS
  <2>4. f \in [S -> Projects] /\ \A i, j \in S : f[i] = f[j] => i = j
    BY <2>1, <2>2, <2>3
  <2>5. f \in Injection(S, Projects)
    BY <2>4, Fun_IsInj
  <2>6. Cardinality(S) <= Cardinality(Projects)
    BY <1>1, <2>5, FS_Injection
  <2>7. Cardinality(S) = Len(req.stack)
    <3>1. PICK k \in Nat : k = Len(req.stack)
      BY <2>1
    <3>2. Cardinality(1..k) = k
      BY FS_Interval
    <3> QED  BY <2>3, <3>1, <3>2
  <2> QED  BY <2>6, <2>7
<1>3. CASE req.kind # "materialize"
  <2>1. req.stack = <<>>
    BY <1>3 DEF Rows, RequestOK, RequestAt, Shaped
  <2>2. Len(req.stack) = 0
    BY <2>1
  <2> QED  BY <1>1, <2>2
<1> QED  BY <1>2, <1>3

\* Every row and every file is well formed, ids and slugs are unique, and a
\* request never has more calls in progress than there are projects: a
\* release whose project is on the way already is refused.
THEOREM ImportTypes == Spec => []TypeOK
<1>1. Rows /\ Graph => TypeOK
  <2> SUFFICES ASSUME Rows PROVE TypeOK
    OBVIOUS
  <2>1. Len(req.stack) <= Cardinality(Projects)
    BY StackBounded
  <2> QED  BY <2>1 DEF TypeOK, Rows, TablesTyped, RowsUnique, VersionRows, FileRows
<1> QED  BY <1>1, RowsAndGraph, PTL

-----------------------------------------------------------------------------
(* The graph stays in the library                                          *)

\* No mod loses its link, or goes.
Preserves(M, N) == \A m \in ModRows : m.link # None /\ InPlace(M, m) => InPlace(N, m)

LEMMA ModsTyped ==
  ASSUME NEW q, NEW last, RequestAt(q, last), q.kind = "materialize"
  PROVE  /\ q.ctx \in Contexts
         /\ \A p \in Projects : q.ctx.mods[p] # None => /\ q.ctx.mods[p] \in ModRows
                                                        /\ q.ctx.mods[p].link = p /\ p # None
         /\ \A x \in q.ctx.processed : x = <<x[1], x[2]>> /\ x[1] \in Projects /\ x[2] \in Releases
         /\ \A i \in DOMAIN q.stack : /\ q.stack[i].mod \in ModRows /\ q.stack[i].mod.link # None
                                      /\ q.stack[i].mod.link \in Projects
                                      /\ q.stack[i].release \in Releases /\ q.stack[i] \in Frames
<1>1. q.ctx \in Contexts /\ Stacked(q)
  BY DEF RequestAt, Requests
<1>2. \A p \in Projects : q.ctx.mods[p] # None => /\ q.ctx.mods[p] \in ModRows
                                                  /\ q.ctx.mods[p].link = p /\ p # None
  BY <1>1, ImportsAssumption DEF Contexts, Stacked
<1>3. \A x \in q.ctx.processed : x = <<x[1], x[2]>> /\ x[1] \in Projects /\ x[2] \in Releases
  BY <1>1 DEF Contexts
<1> QED  BY <1>1, <1>2, <1>3, StackAt, ImportsAssumption

LEMMA SettledGrows ==
  ASSUME NEW D, NEW q, NEW last, NEW M, NEW N, NEW V, NEW E, NEW F,
         RequestAt(q, last), q.kind = "materialize", SettledAt(D, q, M, V, E),
         Preserves(M, N), E \subseteq F
  PROVE  SettledAt(D, q, N, V, F)
<1>1. ModsInPlace(q, N)
  BY ModsTyped DEF SettledAt, ModsInPlace, Preserves
<1>2. EdgesInPlace(D, q, F)
  BY DEF SettledAt, EdgesInPlace
<1> QED  BY <1>1, <1>2 DEF SettledAt

\* The mod that was found is one of the library.
Finding(q, r, M) ==
  /\ \A p \in Projects : \/ r.ctx.mods[p] = q.ctx.mods[p]
                         \/ q.ctx.mods[p] = None /\ InPlace(M, r.ctx.mods[p])
  /\ r.pc \in Resolving => r.ctx.mods[r.need] = None

LEMMA LocatingSettled ==
  ASSUME NEW D, NEW q, NEW r, NEW last, NEW M, NEW V, NEW E,
         RequestAt(q, last), GraphOf(D, q), SettledAt(D, q, M, V, E), Locating(q, r),
         Finding(q, r, M), \A d \in D : d.project \in Projects
  PROVE  SettledAt(D, r, M, V, E)
<1>1. q.kind = "materialize" /\ r.kind = "materialize" /\ r.stack = q.stack
  BY DEF Locating
<1>2. AtTop(D, q) /\ Known(D, q) /\ MetKnown(D, q)
  BY DEF GraphOf, Resolves, Locating, Going, Resolving
<1>3. ModsInPlace(q, M) /\ VersionsInPlace(q, V) /\ EdgesInPlace(D, q, E)
  BY DEF SettledAt
<1>4. \A p \in Projects : q.ctx.mods[p] # None => r.ctx.mods[p] = q.ctx.mods[p]
  BY DEF Finding
<1>5. \A x \in q.ctx.processed : x[1] \in Projects /\ r.ctx.mods[x[1]] = q.ctx.mods[x[1]]
  BY <1>1, <1>2, <1>4, ModsTyped DEF Known
<1>6. \A p \in Projects : Processed(p, q.ctx) => r.ctx.mods[p] = q.ctx.mods[p]
  <2> SUFFICES ASSUME NEW p \in Projects, Processed(p, q.ctx)
               PROVE  r.ctx.mods[p] = q.ctx.mods[p]
    OBVIOUS
  <2>1. PICK x : x = <<p, q.ctx.externals[p]>>
    OBVIOUS
  <2>2. x \in q.ctx.processed /\ x[1] = p
    BY <2>1 DEF Processed
  <2> QED  BY <1>5, <2>2
<1>7. q.ctx.externals[q.stack[1].mod.link] # None /\ r.ctx.externals = q.ctx.externals
  BY <1>2 DEF AtTop, Locating, Resolving
<1>8. \A i : Entered(r, i) => Entered(q, i)
  BY <1>7 DEF Entered, Locating, Resolving
<1>9. ModsInPlace(r, M)
  BY <1>1, <1>3 DEF ModsInPlace, Finding
<1>10. VersionsInPlace(r, V)
  BY <1>1, <1>3, <1>5 DEF VersionsInPlace, Locating, Resolving
<1>11. EdgesInPlace(D, r, E)
  <2>1. ASSUME NEW x \in q.ctx.processed, NEW d \in Needs(D, x[2])
        PROVE  <<r.ctx.mods[x[1]].id, r.ctx.mods[d.project].id>> \in E
    <3>1. Processed(d.project, q.ctx) /\ d.project \in Projects
      BY <1>2 DEF Known, Needs
    <3> QED  BY <1>3, <1>5, <1>6, <3>1 DEF EdgesInPlace
  <2>2. ASSUME NEW i \in DOMAIN q.stack, Entered(r, i), NEW d \in MetBy(D, q.stack[i])
        PROVE  \/ r.ctx.mods[d.project].id \in q.stack[i].have
               \/ <<q.stack[i].mod.id, r.ctx.mods[d.project].id>> \in E
    <3>1. Entered(q, i) /\ d \in D
      BY <1>8, <2>2 DEF MetBy, Needs
    <3>2. Processed(d.project, q.ctx) /\ d.project \in Projects
      BY <1>2, <2>2, <3>1 DEF MetKnown
    <3> QED  BY <1>3, <1>6, <3>1, <3>2, <2>2 DEF EdgesInPlace
  <2> QED  BY <1>1, <2>1, <2>2 DEF EdgesInPlace, Locating
<1> QED  BY <1>9, <1>10, <1>11 DEF SettledAt

LEMMA EnteringSettled ==
  ASSUME NEW D, NEW q, NEW r, NEW last, NEW M, NEW V, NEW E,
         RequestAt(q, last), GraphOf(D, q), SettledAt(D, q, M, V, E), Entering(D, q, r),
         \A d \in D : d.project \in Projects
  PROVE  SettledAt(D, r, M, V, E)
<1> DEFINE f == q.stack[1]
           p == q.stack[1].mod.link
           g == [f EXCEPT !.todo = Needs(D, f.release)]
<1>1. q.kind = "materialize" /\ r.kind = "materialize"
  BY DEF Entering
<1>2. AtTop(D, q) /\ Known(D, q) /\ MetKnown(D, q)
  BY DEF GraphOf, Resolves, Entering, Going
<1>3. ModsInPlace(q, M) /\ VersionsInPlace(q, V) /\ EdgesInPlace(D, q, E)
  BY DEF SettledAt
<1>4. 1 \in DOMAIN q.stack /\ f \in Frames /\ p \in Projects
      /\ DOMAIN q.stack = 1..Len(q.stack) /\ Len(q.stack) \in Nat
  BY <1>1, StackAt
<1>5. /\ g.release = f.release /\ g.mod = f.mod /\ g.todo = Needs(D, f.release)
      /\ g.existing = f.existing
  BY <1>4 DEF Frames
<1>6. /\ DOMAIN r.stack = DOMAIN q.stack /\ r.stack[1] = g
      /\ \A i \in DOMAIN q.stack : i # 1 => r.stack[i] = q.stack[i]
  BY DEF Entering, Topped
<1> HIDE DEF g
<1>7. \A i \in DOMAIN q.stack : /\ r.stack[i].mod = q.stack[i].mod
                                /\ r.stack[i].release = q.stack[i].release
                                /\ r.stack[i].existing = q.stack[i].existing
  BY <1>5, <1>6
<1>8. /\ r.ctx.mods[p] = f.mod /\ r.ctx.processed = q.ctx.processed
      /\ \A x \in Projects \ {p} : r.ctx.mods[x] = q.ctx.mods[x]
      /\ r.pc = "dependencies" /\ q.pc = "enter" /\ r.stored = q.stored
  BY <1>4 DEF Entering, RequestAt, Requests, Contexts
<1>9. \A x \in Projects : Processed(x, q.ctx) => r.ctx.mods[x] = q.ctx.mods[x]
  <2> SUFFICES ASSUME Processed(p, q.ctx)
               PROVE  q.ctx.mods[p] = f.mod
    BY <1>8
  <2>1. PICK x : x = <<p, q.ctx.externals[p]>>
    OBVIOUS
  <2>2. x \in q.ctx.processed /\ x[2] = q.ctx.externals[p]
    BY <2>1 DEF Processed
  <2>3. q.ctx.externals[p] # None
    <3>1. x[2] \in Releases
      BY <1>1, <2>2, ModsTyped
    <3> QED  BY <2>2, <3>1, ImportsAssumption
  <2> QED  BY <1>2, <1>4, <2>3 DEF Known
<1>10. \A x \in q.ctx.processed : Processed(x[1], q.ctx) /\ x[1] \in Projects
  BY <1>1, <1>2, ModsTyped DEF Known, Processed
<1>11. ModsInPlace(r, M)
  BY <1>3, <1>4, <1>6, <1>7, <1>8 DEF ModsInPlace, Resolving
<1>12. VersionsInPlace(r, V)
  BY <1>3, <1>6, <1>7, <1>8, <1>9, <1>10, <1>2 DEF VersionsInPlace, AtTop
<1>13. EdgesInPlace(D, r, E)
  <2>1. ASSUME NEW x \in q.ctx.processed, NEW d \in Needs(D, x[2])
        PROVE  <<r.ctx.mods[x[1]].id, r.ctx.mods[d.project].id>> \in E
    <3>1. Processed(d.project, q.ctx) /\ d.project \in Projects
      BY <1>2 DEF Known, Needs
    <3> QED  BY <1>3, <1>9, <1>10, <3>1 DEF EdgesInPlace
  <2>2. ASSUME NEW i \in DOMAIN r.stack, Entered(r, i), NEW d \in MetBy(D, r.stack[i])
        PROVE  \/ r.ctx.mods[d.project].id \in r.stack[i].have
               \/ <<r.stack[i].mod.id, r.ctx.mods[d.project].id>> \in E
    <3>1. i # 1
      BY <1>5, <1>6 DEF MetBy
    <3>2. i > 1 /\ i \in DOMAIN q.stack /\ r.stack[i] = q.stack[i]
      BY <1>4, <1>6, <3>1
    <3>3. Entered(q, i) /\ d \in MetBy(D, q.stack[i]) /\ d \in D
      BY <3>2 DEF MetBy, Needs, Entered
    <3>4. Processed(d.project, q.ctx) /\ d.project \in Projects
      BY <1>2, <3>2, <3>3 DEF MetKnown
    <3> QED  BY <1>3, <1>9, <3>2, <3>3, <3>4 DEF EdgesInPlace
  <2> QED  BY <1>8, <2>1, <2>2 DEF EdgesInPlace
<1> QED  BY <1>11, <1>12, <1>13 DEF SettledAt

\* Versions are only added, or stay while the request resolves its graph.
LEMMA ToppingSettled ==
  ASSUME NEW D, NEW q, NEW r, NEW f, NEW last, NEW M, NEW V, NEW W, NEW E, NEW F,
         RequestAt(q, last), GraphOf(D, q), SettledAt(D, q, M, V, E), Topping(q, r, f),
         f.existing = q.stack[1].existing,
         V \subseteq W, r.pc # "returned" => W = V /\ q.pc # "returned",
         r.pc \notin Resolving, r.stored => Has(W, f.mod.id, f.release),
         E \subseteq F,
         Entered(q, 1) =>
           \A d \in MetBy(D, f) : \/ q.ctx.mods[d.project].id \in f.have
                                  \/ <<f.mod.id, q.ctx.mods[d.project].id>> \in F
  PROVE  SettledAt(D, r, M, W, F)
<1>1. q.kind = "materialize" /\ r.kind = "materialize"
  BY DEF Topping
<1>2. ModsInPlace(q, M) /\ VersionsInPlace(q, V) /\ EdgesInPlace(D, q, E)
  BY DEF SettledAt
<1>3. /\ DOMAIN q.stack = 1..Len(q.stack) /\ Len(q.stack) \in Nat /\ 1 \in DOMAIN q.stack
  BY <1>1, StackAt
<1>4. /\ DOMAIN r.stack = DOMAIN q.stack /\ r.stack[1] = f
      /\ \A i \in DOMAIN q.stack : i # 1 => r.stack[i] = q.stack[i]
      /\ f.mod = q.stack[1].mod /\ f.release = q.stack[1].release
  BY DEF Topping, Topped
<1>5. \A i \in DOMAIN q.stack : /\ r.stack[i].mod = q.stack[i].mod
                                /\ r.stack[i].release = q.stack[i].release
                                /\ r.stack[i].existing = q.stack[i].existing
  BY <1>4
<1>6. r.ctx.mods = q.ctx.mods /\ r.ctx.processed = q.ctx.processed /\ r.ctx.externals = q.ctx.externals
  BY DEF Topping, SameGraph
<1>7. \A i, x : Has(V, i, x) => Has(W, i, x)
  BY DEF Has
<1>8. ModsInPlace(r, M)
  BY <1>2, <1>4, <1>5, <1>6 DEF ModsInPlace
<1>9. VersionsInPlace(r, W)
  BY <1>2, <1>4, <1>5, <1>6, <1>7 DEF VersionsInPlace
<1>10. EdgesInPlace(D, r, F)
  <2>1. ASSUME NEW i \in DOMAIN r.stack, Entered(r, i), NEW d \in MetBy(D, r.stack[i])
        PROVE  \/ r.ctx.mods[d.project].id \in r.stack[i].have
               \/ <<r.stack[i].mod.id, r.ctx.mods[d.project].id>> \in F
    <3>1. CASE i = 1
      <4>1. Entered(q, 1)
        BY <1>4, <1>6, <2>1, <3>1 DEF Entered, Topping
      <4> QED  BY <1>4, <1>6, <2>1, <3>1, <4>1
    <3>2. CASE i # 1
      <4>1. i > 1 /\ r.stack[i] = q.stack[i] /\ i \in DOMAIN q.stack
        BY <1>3, <1>4, <3>2
      <4> QED  BY <1>2, <1>6, <2>1, <4>1 DEF EdgesInPlace, Entered
    <3> QED  BY <3>1, <3>2
  <2> QED  BY <1>2, <1>6, <2>1 DEF EdgesInPlace
<1> QED  BY <1>8, <1>9, <1>10 DEF SettledAt

\* What the requirements of the call on top are met with.
LEMMA TopMet ==
  ASSUME NEW D, NEW q, NEW last, NEW M, NEW V, NEW E,
         RequestAt(q, last), q.kind = "materialize", SettledAt(D, q, M, V, E), Entered(q, 1)
  PROVE  \A d \in MetBy(D, q.stack[1]) :
           \/ q.ctx.mods[d.project].id \in q.stack[1].have
           \/ <<q.stack[1].mod.id, q.ctx.mods[d.project].id>> \in E
<1>1. 1 \in DOMAIN q.stack
  BY StackAt
<1> QED  BY <1>1 DEF SettledAt, EdgesInPlace

LEMMA MeetingSettled ==
  ASSUME NEW D, NEW q, NEW r, NEW last, NEW M, NEW V, NEW E,
         RequestAt(q, last), GraphOf(D, q), SettledAt(D, q, M, V, E), Meeting(q, r)
  PROVE  SettledAt(D, r, M, V, E)
<1>1. PICK d \in q.stack[1].todo :
        /\ d.project = q.need
        /\ Processed(q.need, q.ctx) /\ Pinned(d, q.ctx)
        /\ Topped(q.stack, r.stack, Met(q.stack[1], d, q.ctx))
  BY DEF Meeting
<1>2. PICK f : f = Met(q.stack[1], d, q.ctx)
  OBVIOUS
<1>3. q.stack[1] \in Frames
  BY StackAt DEF Meeting
<1>4. /\ f.release = q.stack[1].release /\ f.mod = q.stack[1].mod
      /\ f.todo = q.stack[1].todo \ {d} /\ f.existing = q.stack[1].existing
      /\ f.have = q.stack[1].have \cup {q.ctx.mods[d.project].id}
  BY <1>2, <1>3 DEF Met, Frames
<1>5. Topping(q, r, f)
  BY <1>1, <1>2, <1>4 DEF Topping, Meeting, Going, Resolving
<1>6. AtTop(D, q)
  BY DEF GraphOf, Resolves, Meeting, Going
<1>7. Entered(q, 1)
  BY <1>6 DEF AtTop, Entered, Meeting
<1>8. ~ r.stored
  BY <1>6 DEF AtTop, Meeting
<1>9. \A e \in MetBy(D, f) : \/ q.ctx.mods[e.project].id \in f.have
                             \/ <<f.mod.id, q.ctx.mods[e.project].id>> \in E
  BY <1>4, <1>7, TopMet DEF MetBy, Meeting
<1>10. r.pc = "dependencies" /\ q.pc = "choose"
  BY DEF Meeting
<1> QED  BY <1>4, <1>5, <1>8, <1>9, <1>10, ToppingSettled DEF Resolving

\* A dependency is declared in the rows F.
LEMMA DeclaringSettled ==
  ASSUME NEW D, NEW q, NEW r, NEW last, NEW M, NEW V, NEW E, NEW F, NEW j \in q.stack[1].have,
         RequestAt(q, last), GraphOf(D, q), SettledAt(D, q, M, V, E), Declaring(q, r),
         r.stack[1].have = q.stack[1].have \ {j},
         E \subseteq F, <<q.stack[1].mod.id, j>> \in F
  PROVE  SettledAt(D, r, M, V, F)
<1>1. PICK k \in q.stack[1].have :
        Topped(q.stack, r.stack, [q.stack[1] EXCEPT !.have = @ \ {k}])
  BY DEF Declaring
<1>2. PICK f : f = [q.stack[1] EXCEPT !.have = @ \ {k}]
  OBVIOUS
<1>3. q.stack[1] \in Frames
  BY StackAt DEF Declaring
<1>4. /\ f.release = q.stack[1].release /\ f.mod = q.stack[1].mod
      /\ f.todo = q.stack[1].todo /\ f.existing = q.stack[1].existing
      /\ f = r.stack[1]
  BY <1>1, <1>2, <1>3 DEF Frames, Topped
<1>5. Topping(q, r, f)
  BY <1>1, <1>2, <1>4 DEF Topping, Declaring, Going, Resolving
<1>6. AtTop(D, q)
  BY DEF GraphOf, Resolves, Declaring, Going
<1>7. Entered(q, 1)
  BY <1>6 DEF AtTop, Entered, Declaring
<1>8. ~ r.stored
  BY <1>6 DEF AtTop, Declaring
<1>9. \A e \in MetBy(D, f) : \/ q.ctx.mods[e.project].id \in f.have
                             \/ <<f.mod.id, q.ctx.mods[e.project].id>> \in F
  BY <1>4, <1>7, TopMet DEF MetBy, Declaring
<1>10. r.pc = "dependencies" /\ q.pc = "dependencies"
  BY DEF Declaring
<1> QED  BY <1>4, <1>5, <1>8, <1>9, <1>10, ToppingSettled DEF Resolving

LEMMA FilingSettled ==
  ASSUME NEW D, NEW q, NEW r, NEW last, NEW M, NEW V, NEW E,
         RequestAt(q, last), GraphOf(D, q), SettledAt(D, q, M, V, E), Filing(q, r)
  PROVE  SettledAt(D, r, M, V, E)
<1>1. Topping(q, r, q.stack[1])
  <2>1. q.stack # <<>>
    BY StackAt DEF Filing
  <2> QED  BY <2>1 DEF Topping, Topped, Filing, Going, Resolving, SameGraph
<1>2. AtTop(D, q)
  BY DEF GraphOf, Resolves, Filing, Going
<1>3. Entered(q, 1) /\ ~ r.stored
  BY <1>2 DEF AtTop, Entered, Filing
<1>4. r.pc = "files" /\ q.pc = "dependencies" /\ q.kind = "materialize"
  BY DEF Filing
<1>5. \A e \in MetBy(D, q.stack[1]) : \/ q.ctx.mods[e.project].id \in q.stack[1].have
                                      \/ <<q.stack[1].mod.id, q.ctx.mods[e.project].id>> \in E
  BY <1>3, <1>4, TopMet
<1> QED  BY <1>1, <1>3, <1>4, <1>5, ToppingSettled DEF Resolving

LEMMA PlacingSettled ==
  ASSUME NEW D, NEW q, NEW r, NEW last, NEW M, NEW V, NEW E,
         RequestAt(q, last), GraphOf(D, q), SettledAt(D, q, M, V, E), Placing(q, r)
  PROVE  SettledAt(D, r, M, V, E)
<1>1. PICK n \in NamesOf(q.stack[1].release) :
        Topped(q.stack, r.stack, [q.stack[1] EXCEPT !.name = n])
  BY DEF Placing
<1>2. PICK f : f = [q.stack[1] EXCEPT !.name = n]
  OBVIOUS
<1>3. q.stack[1] \in Frames
  BY StackAt DEF Placing
<1>4. /\ f.release = q.stack[1].release /\ f.mod = q.stack[1].mod /\ f.todo = q.stack[1].todo
      /\ f.have = q.stack[1].have /\ f.existing = q.stack[1].existing
  BY <1>2, <1>3 DEF Frames
<1>5. Topping(q, r, f)
  BY <1>1, <1>2, <1>4 DEF Topping, Placing, Going, Resolving, SameGraph
<1>6. AtTop(D, q)
  BY DEF GraphOf, Resolves, Placing, Going
<1>7. ~ r.stored
  BY <1>6 DEF AtTop, Placing
<1>8. r.pc = "insert" /\ q.pc = "files" /\ q.kind = "materialize"
  BY DEF Placing
<1>9. Entered(q, 1) => \A e \in MetBy(D, f) : \/ q.ctx.mods[e.project].id \in f.have
                                              \/ <<f.mod.id, q.ctx.mods[e.project].id>> \in E
  BY <1>4, <1>8, TopMet DEF MetBy
<1> QED  BY <1>4, <1>5, <1>7, <1>8, <1>9, ToppingSettled DEF Resolving

\* The release that was asked for is among the rows W.
LEMMA FinishingSettled ==
  ASSUME NEW D, NEW q, NEW r, NEW last, NEW M, NEW V, NEW W, NEW E,
         RequestAt(q, last), GraphOf(D, q), SettledAt(D, q, M, V, E), Finishing(q, r),
         V \subseteq W, r.stored => Has(W, q.stack[1].mod.id, q.stack[1].release)
  PROVE  SettledAt(D, r, M, W, E)
<1>1. Topping(q, r, q.stack[1])
  <2>1. q.stack # <<>>
    BY StackAt DEF Finishing
  <2> QED  BY <2>1 DEF Topping, Topped, Finishing, Going, Resolving, SameGraph
<1>2. r.pc = "returned" /\ q.kind = "materialize"
  BY DEF Finishing
<1>3. Entered(q, 1) =>
        \A e \in MetBy(D, q.stack[1]) : \/ q.ctx.mods[e.project].id \in q.stack[1].have
                                        \/ <<q.stack[1].mod.id, q.ctx.mods[e.project].id>> \in E
  BY <1>2, TopMet
<1> QED  BY <1>1, <1>2, <1>3, ToppingSettled DEF Resolving

\* The mod and the new call are as the library has them.
LEMMA CallingSettled ==
  ASSUME NEW D, NEW q, NEW r, NEW last, NEW M, NEW V, NEW E,
         RequestAt(q, last), GraphOf(D, q), SettledAt(D, q, M, V, E), Calling(q, r),
         r.stack[1].existing <=> Has(V, r.stack[1].mod.id, r.stack[1].release)
  PROVE  SettledAt(D, r, M, V, E)
<1>1. q.kind = "materialize" /\ r.kind = "materialize" /\ r.pc = "enter" /\ q.pc = "choose"
  BY DEF Calling
<1>2. AtTop(D, q) /\ Known(D, q) /\ MetKnown(D, q)
  BY <1>1 DEF GraphOf, Resolves, Going
<1>3. ModsInPlace(q, M) /\ VersionsInPlace(q, V) /\ EdgesInPlace(D, q, E)
  BY DEF SettledAt
<1>4. /\ DOMAIN q.stack = 1..Len(q.stack) /\ Len(q.stack) \in Nat /\ 1 \in DOMAIN q.stack
  BY <1>1, StackAt
<1>5. /\ DOMAIN r.stack = 1..(Len(q.stack) + 1)
      /\ \A i \in DOMAIN r.stack : i # 1 => i - 1 \in DOMAIN q.stack /\ r.stack[i] = q.stack[i - 1]
  BY DEF Calling, OnTop
<1>6. /\ q.need \in Projects /\ q.ctx.mods[q.need] # None /\ r.stack[1].mod = q.ctx.mods[q.need]
      /\ r.ctx.mods = q.ctx.mods /\ r.ctx.processed = q.ctx.processed /\ r.stored = q.stored
  BY <1>1 DEF Calling, RequestAt, Stacked, Shaped, Requests
<1>7. ~ r.stored
  BY <1>1, <1>2, <1>6 DEF AtTop
<1>8. ModsInPlace(r, M)
  <2>1. InPlace(M, r.stack[1].mod)
    BY <1>3, <1>6 DEF ModsInPlace
  <2>2. \A i \in DOMAIN r.stack : InPlace(M, r.stack[i].mod)
    BY <1>3, <1>5, <2>1 DEF ModsInPlace
  <2> QED  BY <1>1, <1>3, <1>6, <2>2 DEF ModsInPlace, Resolving
<1>9. VersionsInPlace(r, V)
  <2>1. \A i \in DOMAIN r.stack :
          r.stack[i].existing <=> Has(V, r.stack[i].mod.id, r.stack[i].release)
    BY <1>1, <1>3, <1>5 DEF VersionsInPlace
  <2> QED  BY <1>3, <1>6, <1>7, <2>1 DEF VersionsInPlace
<1>10. EdgesInPlace(D, r, E)
  <2>1. ASSUME NEW i \in DOMAIN r.stack, Entered(r, i), NEW d \in MetBy(D, r.stack[i])
        PROVE  \/ r.ctx.mods[d.project].id \in r.stack[i].have
               \/ <<r.stack[i].mod.id, r.ctx.mods[d.project].id>> \in E
    <3>1. i # 1
      BY <1>1, <2>1 DEF Entered
    <3>2. i - 1 \in DOMAIN q.stack /\ r.stack[i] = q.stack[i - 1]
      BY <1>5, <3>1
    <3>3. Entered(q, i - 1)
      BY <1>1, <1>2, <1>4, <3>2 DEF Entered, AtTop
    <3> QED  BY <1>3, <1>6, <2>1, <3>2, <3>3 DEF EdgesInPlace
  <2> QED  BY <1>3, <1>6, <2>1 DEF EdgesInPlace
<1> QED  BY <1>8, <1>9, <1>10 DEF SettledAt

\* The rows W have the release that the call on top was for, and no other new one.
Storing(q, V, W) ==
  /\ V \subseteq W
  /\ \A v \in W \ V : v.mod = q.stack[1].mod.id /\ v.ext = q.stack[1].release
  /\ Has(W, q.stack[1].mod.id, q.stack[1].release)

LEMMA ReturningSettled ==
  ASSUME NEW D, NEW q, NEW r, NEW last, NEW M, NEW V, NEW W, NEW E,
         RequestAt(q, last), GraphOf(D, q), SettledAt(D, q, M, V, E), Returning(q, r),
         Storing(q, V, W)
  PROVE  SettledAt(D, r, M, W, E)
<1> DEFINE p == q.stack[1].mod.link
           x == q.stack[1].release
<1>1. q.kind = "materialize" /\ r.kind = "materialize" /\ r.pc = "dependencies"
  BY DEF Returning
<1>2. AtTop(D, q) /\ Known(D, q) /\ MetKnown(D, q)
  BY DEF GraphOf, Resolves, Returning, Going
<1>3. /\ DOMAIN q.stack = 1..Len(q.stack) /\ Len(q.stack) \in Nat
      /\ 1 \in DOMAIN q.stack
      /\ \A i \in DOMAIN q.stack : q.stack[i] \in Frames /\ q.stack[i].mod.link \in Projects
  BY <1>1, StackAt
<1>4. PICK d \in q.stack[2].todo :
        /\ d.project = p
        /\ OffTop(q.stack, r.stack, Met(q.stack[2], d, q.ctx))
  BY DEF Returning
<1>5. PICK f : f = Met(q.stack[2], d, q.ctx)
  OBVIOUS
<1>6. /\ {1, 2} \subseteq DOMAIN q.stack
      /\ DOMAIN r.stack = 1..(Len(q.stack) - 1)
      /\ r.stack[1] = f
      /\ \A i \in DOMAIN r.stack : i + 1 \in DOMAIN q.stack /\ (i # 1 => r.stack[i] = q.stack[i + 1])
  BY <1>4, <1>5 DEF OffTop
<1>7. /\ f.release = q.stack[2].release /\ f.mod = q.stack[2].mod
      /\ f.existing = q.stack[2].existing
      /\ f.todo = q.stack[2].todo \ {d} /\ f.have = q.stack[2].have \cup {q.ctx.mods[p].id}
  BY <1>3, <1>4, <1>5, <1>6 DEF Met, Frames
<1>8. \A i \in DOMAIN r.stack : /\ i + 1 \in DOMAIN q.stack /\ i + 1 > 1 /\ i + 1 # 1
                                /\ r.stack[i].mod = q.stack[i + 1].mod
                                /\ r.stack[i].release = q.stack[i + 1].release
                                /\ r.stack[i].existing = q.stack[i + 1].existing
  <2> TAKE i \in DOMAIN r.stack
  <2>1. i + 1 \in DOMAIN q.stack /\ i + 1 > 1 /\ i + 1 # 1
    BY <1>3, <1>6
  <2>2. CASE i = 1
    <3>1. i + 1 = 2
      BY <2>2
    <3> QED  BY <1>6, <1>7, <2>1, <2>2, <3>1
  <2>3. CASE i # 1
    BY <1>6, <2>1, <2>3
  <2> QED  BY <2>2, <2>3
<1>9. p \notin Configs /\ q.ctx.externals[p] # None /\ Entered(q, 1)
  BY <1>2 DEF AtTop, Returning, Entered
<1>10. q.ctx.mods[p] = q.stack[1].mod
  BY <1>2, <1>3, <1>9 DEF Known
<1>11. ModsInPlace(q, M) /\ VersionsInPlace(q, V) /\ EdgesInPlace(D, q, E)
  BY DEF SettledAt
<1>12. /\ r.ctx.mods = q.ctx.mods /\ r.ctx.externals = q.ctx.externals
       /\ r.ctx.processed = q.ctx.processed \cup {<<p, x>>} /\ ~ r.stored
  BY <1>2 DEF Returning, AtTop
<1>13. ModsInPlace(r, M)
  BY <1>1, <1>8, <1>11, <1>12 DEF ModsInPlace, Resolving
<1>14. VersionsInPlace(r, W)
  <2>1. ASSUME NEW i \in DOMAIN r.stack
        PROVE  r.stack[i].existing <=> Has(W, r.stack[i].mod.id, r.stack[i].release)
    <3>1. r.stack[i].existing <=> Has(V, r.stack[i].mod.id, r.stack[i].release)
      BY <1>8, <1>11 DEF VersionsInPlace, Returning
    <3>2. r.stack[i].release # x
      BY <1>3, <1>8 DEF RequestAt, Stacked
    <3> QED  BY <3>1, <3>2 DEF Has, Storing
  <2>2. ASSUME NEW y \in r.ctx.processed
        PROVE  Has(W, r.ctx.mods[y[1]].id, y[2])
    <3>1. CASE y \in q.ctx.processed
      BY <1>11, <1>12, <3>1 DEF VersionsInPlace, Has, Storing
    <3>2. CASE y = <<p, x>>
      BY <1>10, <1>12, <3>2 DEF Storing
    <3> QED  BY <1>12, <3>1, <3>2
  <2> QED  BY <1>12, <2>1, <2>2 DEF VersionsInPlace
<1>15. EdgesInPlace(D, r, E)
  <2>1. ASSUME NEW y \in r.ctx.processed, NEW e \in Needs(D, y[2])
        PROVE  <<r.ctx.mods[y[1]].id, r.ctx.mods[e.project].id>> \in E
    <3>1. CASE y \in q.ctx.processed
      BY <1>11, <1>12, <3>1 DEF EdgesInPlace
    <3>2. CASE y = <<p, x>>
      <4>1. y[1] = p /\ y[2] = x
        BY <3>2
      <4>2. e \in MetBy(D, q.stack[1]) /\ q.stack[1].have = {}
        BY <4>1 DEF MetBy, Returning
      <4> QED  BY <1>3, <1>9, <1>10, <1>11, <1>12, <4>1, <4>2 DEF EdgesInPlace
    <3> QED  BY <1>12, <3>1, <3>2
  <2>2. ASSUME NEW i \in DOMAIN r.stack, NEW e \in MetBy(D, r.stack[i])
        PROVE  \/ r.ctx.mods[e.project].id \in r.stack[i].have
               \/ <<r.stack[i].mod.id, r.ctx.mods[e.project].id>> \in E
    <3>1. i + 1 \in DOMAIN q.stack /\ Entered(q, i + 1)
      BY <1>8 DEF Entered
    <3>2. CASE i = 1
      <4>1. i + 1 = 2 /\ r.stack[i] = f
        BY <1>6, <3>2
      <4>2. CASE e = d
        BY <1>4, <1>7, <1>12, <4>1, <4>2
      <4>3. CASE e # d
        <5>1. e \in MetBy(D, q.stack[2])
          BY <1>7, <2>2, <4>1, <4>3 DEF MetBy
        <5> QED  BY <1>7, <1>11, <1>12, <3>1, <4>1, <5>1 DEF EdgesInPlace
      <4> QED  BY <4>2, <4>3
    <3>3. CASE i # 1
      <4>1. r.stack[i] = q.stack[i + 1]
        BY <1>6, <3>3
      <4> QED  BY <1>11, <1>12, <2>2, <3>1, <4>1 DEF EdgesInPlace
    <3> QED  BY <3>2, <3>3
  <2> QED  BY <2>1, <2>2 DEF EdgesInPlace
<1> QED  BY <1>13, <1>14, <1>15 DEF SettledAt

LEMMA BeginningSettled ==
  ASSUME NEW D, NEW r, NEW m, NEW x, NEW e, NEW P, NEW last, NEW M, NEW V, NEW E,
         Beginning(r, m, x, e, P), m.id <= last.mods, InPlace(M, m), e <=> Has(V, m.id, x)
  PROVE  SettledAt(D, r, M, V, E)
<1>1. /\ RequestAt(r, last) /\ GraphOf(D, r)
      /\ r.kind = "materialize" /\ r.pc = P /\ r.ctx = NoContext /\ ~ r.stored
      /\ DOMAIN r.stack = {1} /\ Len(r.stack) = 1
      /\ r.stack[1].mod = m /\ r.stack[1].release = x /\ r.stack[1].existing = e
      /\ r.stack[1].todo = {} /\ r.stack[1].have = {}
  BY ONLY Beginning(r, m, x, e, P), m.id <= last.mods, BeginningAt
<1>2. m.link \in Projects /\ P \notin Resolving
  BY ImportsAssumption DEF Beginning, Resolving
<1>3. ModsInPlace(r, M)
  BY <1>1, <1>2, NoContextTyped DEF ModsInPlace
<1>4. VersionsInPlace(r, V)
  BY <1>1, NoContextTyped DEF VersionsInPlace
<1>5. EdgesInPlace(D, r, E)
  <2>1. ~ Entered(r, 1)
    BY <1>1, <1>2, NoContextTyped DEF Entered
  <2> QED  BY <1>1, <2>1, NoContextTyped DEF EdgesInPlace
<1> QED  BY <1>3, <1>4, <1>5 DEF SettledAt

-----------------------------------------------------------------------------
(* The steps keep the graph in the library                                 *)

LEMMA FoundNow ==
  ASSUME Rows, Graph, req.pc \in Resolving, req.kind = "materialize",
         ModsInPlace(req, mods),
         NEW N, NEW m \in N, NEW c, c.mods = req.ctx.mods,
         req'.pc = "choose", req'.ctx = [c EXCEPT !.mods[req.need] = m],
         c \in Contexts
  PROVE  Finding(req, req', N)
<1>1. req.need \in Projects /\ req.ctx.mods[req.need] = None
  BY DEF Rows, RequestOK, RequestAt, Shaped, Requests, ModsInPlace
<1>2. /\ req'.ctx.mods[req.need] = m
      /\ \A p \in Projects : p # req.need => req'.ctx.mods[p] = req.ctx.mods[p]
  BY <1>1 DEF Contexts
<1>3. InPlace(N, m)
  BY DEF InPlace
<1> QED  BY <1>1, <1>2, <1>3 DEF Finding, Resolving

LEMMA PreservesLinks ==
  ASSUME NEW M, NEW N, \A n \in M : n.link # None => InPlace(N, n)
  PROVE  Preserves(M, N)
<1> SUFFICES ASSUME NEW m \in ModRows, m.link # None, InPlace(M, m)
             PROVE  InPlace(N, m)
  BY DEF Preserves
<1>1. PICK n \in M : n.id = m.id /\ n.link = m.link /\ n.slug = m.slug
  BY DEF InPlace
<1>2. InPlace(N, n)
  BY <1>1
<1> QED  BY <1>1, <1>2 DEF InPlace

LEMMA PreservesMore ==
  ASSUME NEW M, NEW N, \A n \in M : n.link # None => n \in N
  PROVE  Preserves(M, N)
BY PreservesLinks DEF InPlace

LEMMA LookupFinds ==
  ASSUME Rows, Graph, Lookup, Resolves(req'), ModsInPlace(req, mods), req.kind = "materialize"
  PROVE  Finding(req, req', mods)
<1> DEFINE p == req.need
<1>1. req.pc = "lookup" /\ RequestOK /\ req \in Requests /\ req.kind # "none" /\ req.ctx \in Contexts
  BY KindOfStep DEF Lookup, Rows, RequestOK, RequestAt, Requests
<1>2. ~ Raises
  BY <1>1, RaisesStep
<1>3. CASE Linked(p) # {} /\ Resolved(Only(Linked(p)), req.ctx)
  <2>1. PICK m : m = Only(Linked(p))
    OBVIOUS
  <2>2. m \in mods
    BY <1>3, <2>1, OnlyIn DEF Linked
  <2>3. req' = [req EXCEPT !.pc = "choose", !.ctx = [req.ctx EXCEPT !.mods[req.need] = m]]
    BY <1>3, <2>1 DEF Resolved
  <2>4. req'.pc = "choose" /\ req'.ctx = [req.ctx EXCEPT !.mods[req.need] = m]
    BY <1>1, <2>3 DEF Requests
  <2> QED  BY <1>1, <2>2, <2>4, FoundNow DEF Resolving
<1>4. CASE Goes("create") \/ req' = [req EXCEPT !.pc = "link", !.target = Only(Named(p)).id]
  <2>1. req'.ctx = req.ctx /\ req'.need = req.need
    BY <1>1, <1>4 DEF Goes, Requests
  <2> QED  BY <1>1, <2>1 DEF Finding, ModsInPlace, Resolving
<1> QED  BY <1>2, <1>3, <1>4 DEF Lookup

LEMMA LinkFinds ==
  ASSUME Rows, Graph, Link, Resolves(req'), ModsInPlace(req, mods), req.kind = "materialize"
  PROVE  /\ Finding(req, req', mods') /\ Preserves(mods, mods')
         /\ UNCHANGED <<versions, edges>>
<1> DEFINE p == req.need
           free == {m \in mods : m.id = req.target /\ m.link = None}
           done == {m \in Named(p) : m.link = p}
           context(m) == [req.ctx EXCEPT !.linked = @ \cup {<<m.id, p>>}]
<1>1. /\ req.pc = "link" /\ RequestOK /\ req \in Requests /\ req.kind # "none"
      /\ req.ctx \in Contexts /\ p \in Projects
  BY KindOfStep DEF Link, Rows, RequestOK, RequestAt, Requests, Shaped, Resolving
<1>2. ~ Raises
  BY <1>1, RaisesStep
<1>3. UNCHANGED <<versions, edges>>
  BY DEF Link, Fails, library
<1>4. ASSUME NEW m \in ModRows, m \in mods', Resolved(m, req.ctx) \/ Resolved(m, context(m))
      PROVE  Finding(req, req', mods')
  <2>1. PICK c : c \in {req.ctx, context(m)} /\ Resolved(m, c)
    BY <1>4
  <2>2. PICK d : d = context(m)
    OBVIOUS
  <2>3. Extends(req.ctx, d)
    BY <1>1, <2>2, ExtendsLinked DEF ModRows
  <2>4. c \in Contexts /\ c.mods = req.ctx.mods
    BY <1>1, <2>1, <2>2, <2>3 DEF Extends
  <2>5. req' = [req EXCEPT !.pc = "choose", !.ctx = [c EXCEPT !.mods[req.need] = m]]
    BY <2>1 DEF Resolved
  <2>6. req'.pc = "choose" /\ req'.ctx = [c EXCEPT !.mods[req.need] = m]
    BY <1>1, <2>5 DEF Requests
  <2> HIDE DEF context
  <2> QED  BY <1>1, <1>4, <2>4, <2>6, FoundNow DEF Resolving
<1>5. CASE free # {} /\ Linked(p) # {} /\ Resolved(Only(Linked(p)), req.ctx) /\ UNCHANGED library
  <2>1. PICK m : m = Only(Linked(p))
    OBVIOUS
  <2>2. m \in mods /\ m \in ModRows /\ mods' = mods
    BY <1>5, <2>1, OnlyIn DEF Linked, library, Rows, TablesTyped
  <2>3. Preserves(mods, mods')
    BY <2>2, PreservesMore
  <2> QED  BY <1>3, <1>4, <1>5, <2>1, <2>2, <2>3
<1>6. CASE free = {} /\ done # {} /\ Resolved(Only(done), context(Only(done))) /\ UNCHANGED library
  <2>1. PICK m : m = Only(done)
    OBVIOUS
  <2>2. m \in done
    BY <1>6, <2>1, OnlyIn
  <2>3. m \in mods /\ m \in ModRows /\ mods' = mods
    BY <1>6, <2>2 DEF Named, library, Rows, TablesTyped
  <2>4. Preserves(mods, mods')
    BY <2>3, PreservesMore
  <2> QED  BY <1>3, <1>4, <1>6, <2>1, <2>3, <2>4
<1>7. CASE /\ free # {} /\ Linked(p) = {}
           /\ LET m == [Only(free) EXCEPT !.link = p]
              IN /\ mods' = (mods \ free) \cup {m}
                 /\ Resolved(m, context(m))
  <2>1. PICK n : n = Only(free)
    OBVIOUS
  <2>2. n \in free
    BY <1>7, <2>1, OnlyIn
  <2>3. PICK m : m = [n EXCEPT !.link = p]
    OBVIOUS
  <2>4. n \in ModRows
    BY <2>2 DEF Rows, TablesTyped
  <2>5. m \in ModRows
    BY <1>1, <2>3, <2>4 DEF ModRows
  <2>6. mods' = (mods \ free) \cup {m} /\ Resolved(m, context(m))
    BY <1>7, <2>1, <2>3
  <2>7. Preserves(mods, mods')
    BY <2>6, PreservesMore
  <2> QED  BY <1>3, <1>4, <2>5, <2>6, <2>7
<1> QED  BY <1>2, <1>5, <1>6, <1>7 DEF Link, Fails

LEMMA CreateFinds ==
  ASSUME Rows, Graph, Create, Resolves(req'), ModsInPlace(req, mods), req.kind = "materialize"
  PROVE  /\ Finding(req, req', mods') /\ Preserves(mods, mods')
         /\ UNCHANGED <<versions, edges>>
<1> DEFINE p == req.need
           m == [id |-> lastIds.mods + 1, slug |-> p, link |-> p, type |-> "MOD"]
<1>1. /\ req.pc = "create" /\ RequestOK /\ req \in Requests /\ req.kind # "none"
      /\ req.ctx \in Contexts
  BY KindOfStep DEF Create, Rows, RequestOK, RequestAt, Requests
<1>2. ~ Raises
  BY <1>1, RaisesStep
<1>3. UNCHANGED <<versions, edges>>
  BY DEF Create, Fails, library
<1>4. CASE Linked(p) # {} /\ Resolved(Only(Linked(p)), req.ctx) /\ UNCHANGED library
  <2>1. PICK n : n = Only(Linked(p))
    OBVIOUS
  <2>2. n \in mods /\ mods' = mods
    BY <1>4, <2>1, OnlyIn DEF Linked, library
  <2>3. req' = [req EXCEPT !.pc = "choose", !.ctx = [req.ctx EXCEPT !.mods[req.need] = n]]
    BY <1>4, <2>1 DEF Resolved
  <2>4. req'.pc = "choose" /\ req'.ctx = [req.ctx EXCEPT !.mods[req.need] = n]
    BY <1>1, <2>3 DEF Requests
  <2> QED  BY <1>1, <1>3, <2>2, <2>4, FoundNow, PreservesMore DEF Resolving
<1>5. CASE /\ lastIds.mods < MaxMod
           /\ mods' = mods \cup {m}
           /\ Resolved(m, [req.ctx EXCEPT !.createdMods = @ \cup {m.id}])
  <2>1. PICK n : n = m
    OBVIOUS
  <2>2. PICK c : c = [req.ctx EXCEPT !.createdMods = @ \cup {n.id}]
    OBVIOUS
  <2>3. n.id \in ModIds
    BY <1>5, <2>1, ImportsAssumption DEF Rows, TablesTyped, ModIds
  <2>4. c \in Contexts /\ c.mods = req.ctx.mods
    BY <1>1, <2>2, <2>3 DEF Contexts
  <2>5. req' = [req EXCEPT !.pc = "choose", !.ctx = [c EXCEPT !.mods[req.need] = n]]
    BY <1>5, <2>1, <2>2 DEF Resolved
  <2>6. req'.pc = "choose" /\ req'.ctx = [c EXCEPT !.mods[req.need] = n]
    BY <1>1, <2>5 DEF Requests
  <2>7. n \in mods' /\ Preserves(mods, mods')
    BY <1>5, <2>1, PreservesMore
  <2> HIDE DEF m
  <2> QED  BY <1>1, <1>3, <2>4, <2>6, <2>7, FoundNow DEF Resolving
<1> QED  BY <1>2, <1>4, <1>5 DEF Create, Fails

LEMMA LocatingStepSettled ==
  ASSUME Rows, Graph, Lookup \/ Link \/ Create \/ NextDependency, Resolves(req'),
         Resolves(req) => SettledAt(catalog, req, mods, versions, edges)
  PROVE  SettledAt(catalog, req', mods', versions', edges')
<1>1. /\ Locating(req, req') /\ RequestAt(req, lastIds)
  BY LookupStep, LinkStep, CreateStep, NextDependencyStep DEF Rows, RequestOK
<1>2. Resolves(req) /\ req.kind = "materialize"
  BY <1>1 DEF Locating, Resolves, Going, Resolving
<1>3. SettledAt(catalog, req, mods, versions, edges) /\ ModsInPlace(req, mods)
  BY <1>2 DEF SettledAt
<1>4. /\ Finding(req, req', mods') /\ Preserves(mods, mods')
      /\ UNCHANGED <<versions, edges>>
  <2>1. CASE Lookup
    <3>1. UNCHANGED library
      BY <2>1 DEF Lookup
    <3> QED  BY <1>2, <1>3, <2>1, <3>1, LookupFinds, PreservesMore DEF library
  <2>2. CASE Link
    BY <1>2, <1>3, <2>2, LinkFinds
  <2>3. CASE Create
    BY <1>2, <1>3, <2>3, CreateFinds
  <2>4. CASE NextDependency
    <3>1. UNCHANGED library /\ req \in Requests /\ req.kind # "none"
      BY <1>2, <2>4 DEF NextDependency, Rows, RequestOK, RequestAt
    <3>2. ~ Raises
      BY <3>1, RaisesStep DEF Rows
    <3>3. PICK d \in Top.todo :
            req' = [req EXCEPT !.pc = IF req.ctx.mods[d.project] = None
                                        THEN "lookup" ELSE "choose",
                               !.need = d.project]
      BY <2>4, <3>2 DEF NextDependency
    <3>4. /\ req'.ctx = req.ctx /\ req'.need = d.project
          /\ req'.pc = IF req.ctx.mods[d.project] = None THEN "lookup" ELSE "choose"
      BY <3>1, <3>3 DEF Requests
    <3>5. Finding(req, req', mods)
      BY <3>4 DEF Finding, Resolving
    <3> QED  BY <3>1, <3>5, PreservesMore DEF library
  <2> QED  BY <2>1, <2>2, <2>3, <2>4
<1>5. GraphOf(catalog, req) /\ \A d \in catalog : d.project \in Projects
  BY CatalogTyped DEF Graph
<1>6. SettledAt(catalog, req, mods', versions, edges)
  BY <1>1, <1>2, <1>3, <1>4, SettledGrows
<1>7. SettledAt(catalog, req', mods', versions, edges)
  BY <1>1, <1>4, <1>5, <1>6, LocatingSettled
<1> QED  BY <1>4, <1>7

LEMMA DeclareSettled ==
  ASSUME Rows, Graph, Declare, Resolves(req'),
         Resolves(req) => SettledAt(catalog, req, mods, versions, edges)
  PROVE  SettledAt(catalog, req', mods', versions', edges')
<1>1. /\ req.pc = "dependencies" /\ req.kind = "materialize" /\ Resolves(req)
      /\ RequestAt(req, lastIds) /\ GraphOf(catalog, req)
  BY MaterializesAt DEF Declare, Rows, RequestOK, Graph
<1>2. SettledAt(catalog, req, mods, versions, edges) /\ VersionsInPlace(req, versions)
  BY <1>1 DEF SettledAt
<1>3. CASE Filing(req, req') /\ UNCHANGED library
  BY <1>1, <1>2, <1>3, FilingSettled DEF library
<1>4. CASE /\ UNCHANGED library /\ Top.existing
           /\ \/ Finishing(req, req') /\ ~ req'.stored
              \/ Returning(req, req')
  <2>1. Has(versions, req.stack[1].mod.id, req.stack[1].release)
    BY <1>1, <1>2, <1>4, OnStackNow DEF VersionsInPlace
  <2>2. Storing(req, versions, versions)
    BY <2>1 DEF Storing
  <2>3. CASE Finishing(req, req')
    <3>1. SettledAt(catalog, req', mods, versions, edges)
      BY <1>1, <1>2, <2>1, <2>3, FinishingSettled
    <3> QED  BY <1>4, <3>1 DEF library
  <2>4. CASE Returning(req, req')
    <3>1. SettledAt(catalog, req', mods, versions, edges)
      BY <1>1, <1>2, <2>2, <2>4, ReturningSettled
    <3> QED  BY <1>4, <3>1 DEF library
  <2> QED  BY <1>4, <2>3, <2>4
<1>5. CASE /\ Declaring(req, req')
           /\ UNCHANGED <<mods, versions, files>>
           /\ \E j \in req.stack[1].have :
                /\ req'.stack[1].have = req.stack[1].have \ {j}
                /\ edges' = edges \cup {<<req.stack[1].mod.id, j>>}
  <2>1. PICK j \in req.stack[1].have :
          /\ req'.stack[1].have = req.stack[1].have \ {j}
          /\ edges' = edges \cup {<<req.stack[1].mod.id, j>>}
    BY <1>5
  <2>2. edges \subseteq edges' /\ <<req.stack[1].mod.id, j>> \in edges'
    BY <2>1
  <2>3. SettledAt(catalog, req', mods, versions, edges')
    BY <1>1, <1>2, <1>5, <2>1, <2>2, DeclaringSettled
  <2> QED  BY <1>5, <2>3
<1> QED  BY <1>3, <1>4, <1>5, DeclareStep

LEMMA FilesSettled ==
  ASSUME Rows, Graph, MoveFiles \/ Insert, Resolves(req'),
         Resolves(req) => SettledAt(catalog, req, mods, versions, edges)
  PROVE  SettledAt(catalog, req', mods', versions', edges')
<1>1. /\ req.pc \in {"files", "insert"} /\ req.kind = "materialize" /\ Resolves(req)
      /\ RequestAt(req, lastIds) /\ GraphOf(catalog, req) /\ Top = req.stack[1]
  BY MaterializesAt, OnStackNow DEF MoveFiles, Insert, Rows, RequestOK, Graph
<1>2. SettledAt(catalog, req, mods, versions, edges)
  BY <1>1
<1>3. CASE /\ Stored(Top.mod.id, Top.release) # {}
           /\ UNCHANGED <<mods, versions, edges>>
           /\ \/ Finishing(req, req') /\ ~ req'.stored
              \/ Returning(req, req')
  <2>1. Has(versions, req.stack[1].mod.id, req.stack[1].release)
    BY <1>1, <1>3 DEF Has, Stored
  <2>2. Storing(req, versions, versions)
    BY <2>1 DEF Storing
  <2>3. SettledAt(catalog, req', mods, versions, edges)
    BY <1>1, <1>2, <1>3, <2>1, <2>2, FinishingSettled, ReturningSettled
  <2> QED  BY <1>3, <2>3
<1>4. CASE Placing(req, req') /\ UNCHANGED <<mods, versions, edges>>
  BY <1>1, <1>2, <1>4, PlacingSettled
<1>5. CASE /\ versions' = versions \cup
                {[id |-> lastIds.versions + 1, mod |-> Top.mod.id, ext |-> Top.release,
                  name |-> Top.name, md5 |-> Archive(Top.release, made)]}
           /\ mods' = {IF m.id = Top.mod.id /\ Top.mod.link \notin Configs
                         THEN Promoted(m) ELSE m : m \in mods}
           /\ UNCHANGED <<edges, files>>
           /\ Finishing(req, req') \/ Returning(req, req')
  <2>1. PICK v : v = [id |-> lastIds.versions + 1, mod |-> Top.mod.id, ext |-> Top.release,
                      name |-> Top.name, md5 |-> Archive(Top.release, made)]
    OBVIOUS
  <2>2. versions' = versions \cup {v} /\ v.mod = req.stack[1].mod.id /\ v.ext = req.stack[1].release
    BY <1>1, <1>5, <2>1
  <2>3. Storing(req, versions, versions')
    BY <2>2 DEF Storing, Has
  <2>4. Preserves(mods, mods')
    <3>1. ASSUME NEW n \in mods
          PROVE  InPlace(mods', n)
      <4>1. PICK k : k = IF n.id = Top.mod.id /\ Top.mod.link \notin Configs THEN Promoted(n) ELSE n
        OBVIOUS
      <4>2. k \in mods'
        BY <1>5, <4>1
      <4>3. n \in ModRows
        BY DEF Rows, TablesTyped
      <4>4. k.id = n.id /\ k.link = n.link /\ k.slug = n.slug
        BY <4>1, <4>3 DEF Promoted, ModRows
      <4> QED  BY <4>2, <4>4 DEF InPlace
    <3> QED  BY <3>1, PreservesLinks
  <2>5. SettledAt(catalog, req, mods', versions, edges)
    BY <1>1, <1>2, <2>4, SettledGrows
  <2>6. versions \subseteq versions' /\ Has(versions', req.stack[1].mod.id, req.stack[1].release)
    BY <2>3 DEF Storing
  <2>7. SettledAt(catalog, req', mods', versions', edges)
    BY <1>1, <1>5, <2>3, <2>5, <2>6, FinishingSettled, ReturningSettled
  <2> QED  BY <1>5, <2>7
<1>6. CASE MoveFiles
  BY <1>3, <1>4, <1>6, MoveFilesStep
<1>7. CASE Insert
  BY <1>3, <1>5, <1>7, InsertStep DEF library
<1> QED  BY <1>6, <1>7

LEMMA SteppingSettled ==
  ASSUME Rows, Graph, Stepping, Resolves(req'),
         Resolves(req) => SettledAt(catalog, req, mods, versions, edges)
  PROVE  SettledAt(catalog, req', mods', versions', edges')
<1>1. RequestAt(req, lastIds) /\ GraphOf(catalog, req) /\ \A d \in catalog : d.project \in Projects
  BY CatalogTyped DEF Rows, RequestOK, Graph
<1>2. CASE Enter
  <2>1. Entering(catalog, req, req') /\ UNCHANGED library
    BY <1>2, EnterStep DEF Enter
  <2>2. SettledAt(catalog, req, mods, versions, edges)
    BY <2>1 DEF Entering, Resolves, Going
  <2>3. SettledAt(catalog, req', mods, versions, edges)
    BY <1>1, <2>1, <2>2, EnteringSettled
  <2> QED  BY <2>1, <2>3 DEF library
<1>3. CASE Choose
  <2>1. UNCHANGED library /\ Resolves(req)
    BY <1>3, MaterializesAt DEF Choose
  <2>2. SettledAt(catalog, req', mods, versions, edges)
    BY <1>1, <1>3, <2>1, ChooseStep, MeetingSettled, CallingSettled
  <2> QED  BY <2>1, <2>2 DEF library
<1>4. CASE NextBootstrap \/ SetRoles \/ Rollback \/ Sweep
  BY <1>4, NextBootstrapStep, SetRolesStep, TakingStep
<1> QED  BY <1>2, <1>3, <1>4, LocatingStepSettled, DeclareSettled, FilesSettled DEF Stepping

LEMMA EditingSettled ==
  ASSUME Rows, Graph, Settled, Editing, Steady', Resolves(req')
  PROVE  SettledAt(catalog', req', mods', versions', edges')
<1>1. /\ req' = req /\ catalog' = catalog /\ ~ calm'
  BY EditingRows
<1>2. whole' /\ ~ calm' /\ Resolves(req) /\ RequestAt(req, lastIds) /\ req.kind = "materialize"
  BY <1>1 DEF Steady, Rows, RequestOK, Resolves
<1>3. /\ whole /\ versions' = versions /\ edges \subseteq edges' /\ Preserves(mods, mods')
  <2>1. CASE Unlink \/ DeleteDependency \/ DeleteVersion \/ DeleteMod \/ OtherImport
    BY <1>2, <2>1 DEF Unlink, DeleteDependency, DeleteVersion, DeleteMod, OtherImport, Edits
  <2>2. CASE NewManual
    BY <1>2, <2>2, PreservesMore DEF NewManual, Edits
  <2>3. CASE OtherProject
    BY <1>2, <2>3, PreservesMore DEF OtherProject, Edits
  <2>4. CASE LinkExisting
    BY <1>2, <2>4, PreservesMore DEF LinkExisting, Edits
  <2>5. CASE AddDependency
    BY <1>2, <2>5, PreservesMore DEF AddDependency, Edits
  <2> QED  BY <2>1, <2>2, <2>3, <2>4, <2>5 DEF Editing
<1>4. SettledAt(catalog, req, mods, versions, edges)
  BY <1>2, <1>3 DEF Settled, Steady
<1>5. SettledAt(catalog, req, mods', versions, edges')
  BY <1>2, <1>3, <1>4, SettledGrows
<1> QED  BY <1>1, <1>3, <1>5

LEMMA StartingSettled ==
  ASSUME Rows, Starting, Resolves(req')
  PROVE  SettledAt(catalog', req', mods', versions', edges')
<1>1. UNCHANGED <<catalog, library>> /\ req'.kind = "materialize"
  BY StartingStep DEF Resolves
<1>2. PICK m \in mods, r \in Releases : \E P :
        Beginning(req', m, r, Stored(m.id, r) # {}, P)
  BY <1>1, StartingStep
<1>3. PICK P, e : /\ Beginning(req', m, r, e, P)
                  /\ e = (Stored(m.id, r) # {})
  BY <1>2
<1>4. e <=> Has(versions, m.id, r)
  BY <1>3 DEF Stored, Has
<1>5. m.id <= lastIds.mods /\ InPlace(mods, m)
  BY DEF Rows, RowsCounted, InPlace
<1>6. SettledAt(catalog, req', mods, versions, edges)
  BY <1>3, <1>4, <1>5, BeginningSettled
<1> QED  BY <1>1, <1>6 DEF library

LEMMA SettledStep ==
  ASSUME Rows, Graph, Settled, [Next]_vars
  PROVE  Settled'
<1>1. CASE UNCHANGED vars
  <2>1. /\ catalog' = catalog /\ req' = req /\ mods' = mods /\ versions' = versions
        /\ edges' = edges /\ calm' = calm /\ whole' = whole
    BY <1>1 DEF vars, library, history
  <2> QED  BY <2>1 DEF Settled, Steady
<1>2. CASE Next
  <2> SUFFICES ASSUME Steady', Resolves(req')
               PROVE  SettledAt(catalog', req', mods', versions', edges')
    BY DEF Settled
  <2>1. CASE Starting
    BY <2>1, StartingSettled
  <2>2. CASE Editing
    BY <2>2, EditingSettled
  <2>3. CASE Stepping
    <3>1. UNCHANGED <<catalog, calm, whole>>
      BY <2>3, SteppingTables
    <3>2. Resolves(req) => SettledAt(catalog, req, mods, versions, edges)
      BY <3>1 DEF Settled, Steady
    <3>3. SettledAt(catalog, req', mods', versions', edges')
      BY <2>3, <3>2, SteppingSettled
    <3> QED  BY <3>1, <3>3
  <2>4. CASE Answer \/ Crash
    BY <2>4, EndingStep, IdleAt
  <2> QED  BY <1>2, <2>1, <2>2, <2>3, <2>4, NextIs
<1> QED  BY <1>1, <1>2

LEMMA RowsGraphSettled ==
  Spec => [](Rows /\ Graph /\ Settled)
<1> DEFINE Inv == Rows /\ Graph /\ Settled
<1>1. Init => Inv
  <2>1. Init => Rows /\ Graph
    BY RowsInitial
  <2>2. Init => ~ Resolves(req)
    BY IdleAt DEF Init
  <2> QED  BY <2>1, <2>2 DEF Settled
<1>2. Inv /\ [Next]_vars => Inv'
  BY RowsGraphStep, SettledStep
<1> QED  BY <1>1, <1>2, PTL DEF Spec

\* What a processed project has in the library.
LEMMA ProcessedInPlace ==
  ASSUME Rows, NEW p \in Projects, Resolves(req), Known(catalog, req), ModsInPlace(req, mods),
         Processed(p, req.ctx)
  PROVE  /\ req.ctx.externals[p] # None
         /\ \E m \in Linked(p) : m.id = req.ctx.mods[p].id
<1>1. PICK x : x = <<p, req.ctx.externals[p]>>
  OBVIOUS
<1>2. x \in req.ctx.processed /\ x[1] = p /\ x[2] = req.ctx.externals[p]
  BY <1>1 DEF Processed
<1>3. RequestAt(req, lastIds) /\ req.kind = "materialize"
  BY DEF Rows, RequestOK, Resolves
<1>4. x[2] \in Releases /\ req.ctx.mods[p] # None /\ req.ctx.mods[p].link = p
  BY <1>2, <1>3, ModsTyped DEF Known
<1>5. InPlace(mods, req.ctx.mods[p])
  BY <1>4 DEF ModsInPlace
<1> QED  BY <1>2, <1>4, <1>5, ImportsAssumption DEF InPlace, Linked

\* An undisturbed import that stored its release has stored the whole graph, with
\* verified releases for the build, their pins and their dependencies
\* (_materialize_modrinth_dependencies).
THEOREM ImportsWhole == Spec => []ImportedWhole
<1>1. Rows /\ Graph /\ Settled => ImportedWhole
  <2> SUFFICES ASSUME Rows, Graph, Settled, req.pc = "returned", req.stored, calm,
                      NEW p \in Projects, req.ctx.externals[p] # None
               PROVE  LET r == req.ctx.externals[p]
                      IN \E m \in Linked(p) :
                           /\ Stored(m.id, r) # {}
                           /\ r \in Hashed \cap Compatible
                           /\ \A d \in Required(r) :
                                /\ req.ctx.externals[d.project] # None
                                /\ d.pin \in {None, req.ctx.externals[d.project]}
                                /\ \E n \in Linked(d.project) : <<m.id, n.id>> \in edges
    BY DEF ImportedWhole
  <2> DEFINE r == req.ctx.externals[p]
  <2>1. RequestAt(req, lastIds) /\ req.kind = "materialize" /\ Resolves(req)
    BY DEF Rows, RequestOK, RequestAt, Shaped, Resolves, Going
  <2>2. /\ AtTop(catalog, req) /\ Known(catalog, req) /\ MetKnown(catalog, req)
        /\ ModsInPlace(req, mods) /\ VersionsInPlace(req, versions)
        /\ EdgesInPlace(catalog, req, edges)
    BY <2>1 DEF Graph, GraphOf, Settled, SettledAt, Steady
  <2>3. /\ Len(req.stack) = 1 /\ req.stack[1].todo = {} /\ req.stack[1].have = {}
    BY <2>2 DEF AtTop
  <2>4. DOMAIN req.stack = {1}
    BY <2>1, <2>3, StackAt
  <2>5. r \in Compatible /\ ProjectOf[r] = p /\ p \notin Configs
        /\ (p \in PathOf(req.stack) \/ Processed(p, req.ctx))
    BY <2>2 DEF Known
  \* The mod of the project, its version, and what it is linked to.
  <2>6. /\ \E m \in Linked(p) : m.id = req.ctx.mods[p].id
        /\ Has(versions, req.ctx.mods[p].id, r)
        /\ \A d \in Needs(catalog, r) :
             /\ Processed(d.project, req.ctx) /\ Pinned(d, req.ctx)
             /\ <<req.ctx.mods[p].id, req.ctx.mods[d.project].id>> \in edges
    <3>1. CASE Processed(p, req.ctx)
      <4>1. PICK x : x = <<p, r>>
        OBVIOUS
      <4>2. x \in req.ctx.processed /\ x[1] = p /\ x[2] = r
        BY <3>1, <4>1 DEF Processed
      <4>3. \E m \in Linked(p) : m.id = req.ctx.mods[p].id
        BY <2>1, <2>2, <3>1, ProcessedInPlace
      <4> QED  BY <2>2, <4>2, <4>3 DEF Known, VersionsInPlace, EdgesInPlace
    <3>2. CASE p \in PathOf(req.stack)
      <4>1. p = req.stack[1].mod.link /\ 1 \in DOMAIN req.stack
        BY <2>4, <3>2 DEF PathOf
      <4>2. req.ctx.mods[p] = req.stack[1].mod /\ r = req.stack[1].release
        BY <2>2, <4>1 DEF Known
      <4>3. Entered(req, 1)
        BY <4>1 DEF Entered
      <4>4. MetBy(catalog, req.stack[1]) = Needs(catalog, r)
        BY <2>3, <4>2 DEF MetBy
      <4>5. \E m \in Linked(p) : m.id = req.ctx.mods[p].id
        <5>1. InPlace(mods, req.stack[1].mod)
          BY <2>2, <4>1 DEF ModsInPlace
        <5> QED  BY <4>1, <4>2, <5>1 DEF InPlace, Linked
      <4>6. Has(versions, req.ctx.mods[p].id, r)
        BY <2>2, <4>2 DEF VersionsInPlace
      <4>7. \A d \in Needs(catalog, r) :
              <<req.ctx.mods[p].id, req.ctx.mods[d.project].id>> \in edges
        BY <2>2, <2>3, <4>1, <4>2, <4>3, <4>4 DEF EdgesInPlace
      <4>8. \A d \in Needs(catalog, r) : Processed(d.project, req.ctx) /\ Pinned(d, req.ctx)
        BY <2>2, <4>1, <4>3, <4>4 DEF MetKnown
      <4> QED  BY <4>5, <4>6, <4>7, <4>8
    <3> QED  BY <2>5, <3>1, <3>2
  <2>7. PICK m \in Linked(p) : m.id = req.ctx.mods[p].id
    BY <2>6
  <2>8. PICK v \in versions : v.mod = m.id /\ v.ext = r
    BY <2>6, <2>7 DEF Has
  <2>9. r \in Hashed
    BY <2>5, <2>8 DEF Rows, RowsCounted, Trusted
  <2>10. Stored(m.id, r) # {}
    BY <2>8 DEF Stored
  <2>11. ASSUME NEW d \in Required(r)
         PROVE  /\ req.ctx.externals[d.project] # None
                /\ d.pin \in {None, req.ctx.externals[d.project]}
                /\ \E n \in Linked(d.project) : <<m.id, n.id>> \in edges
    <3>1. d \in Needs(catalog, r) /\ d.project \in Projects
      BY CatalogTyped DEF Required, Needs
    <3>2. /\ Processed(d.project, req.ctx) /\ Pinned(d, req.ctx)
          /\ <<m.id, req.ctx.mods[d.project].id>> \in edges
      BY <2>6, <2>7, <3>1
    <3>3. /\ req.ctx.externals[d.project] # None
          /\ \E n \in Linked(d.project) : n.id = req.ctx.mods[d.project].id
      BY <2>1, <2>2, <3>1, <3>2, ProcessedInPlace
    <3> QED  BY <3>2, <3>3 DEF Pinned
  <2> QED  BY <2>5, <2>9, <2>10, <2>11
<1> QED  BY <1>1, RowsGraphSettled, PTL

-----------------------------------------------------------------------------
(* What the steps note for a rollback                                      *)

\* Nothing more to take back.
SameNotes(c, e) ==
  /\ e.edges = c.edges /\ e.createdMods = c.createdMods /\ e.linked = c.linked
  /\ e.createdVersions = c.createdVersions /\ e.artifacts = c.artifacts

LEMMA ContextNow ==
  ASSUME Rows
  PROVE  req \in Requests /\ req.ctx \in Contexts
BY DEF Rows, RequestOK, RequestAt, Requests

LEMMA RaisesNotes ==
  ASSUME Rows, Raises
  PROVE  /\ req'.ctx = req.ctx /\ req'.kind = req.kind
         /\ \/ req'.pc = "rollback" /\ req.kind # "import"
            \/ req'.pc = "failed" /\ (req.kind = "import" \/ ~ Changed(req.ctx))
<1>1. PICK P : /\ P = IF req.kind # "import" /\ Changed(req.ctx) THEN "rollback" ELSE "failed"
               /\ req' = [req EXCEPT !.pc = P]
  BY DEF Raises, Goes
<1>2. req'.ctx = req.ctx /\ req'.kind = req.kind /\ req'.pc = P
  BY <1>1, ContextNow DEF Requests
<1> QED  BY <1>1, <1>2

LEMMA GoesNotes ==
  ASSUME Rows, NEW P, Goes(P)
  PROVE  req'.ctx = req.ctx /\ req'.pc = P /\ req'.kind = req.kind /\ req'.need = req.need
         /\ req'.stack = req.stack /\ req'.target = req.target
BY ContextNow DEF Goes, Requests

LEMMA ResolvedNotes ==
  ASSUME Rows, req.kind \in {"import", "bootstrap", "materialize"},
         NEW m, NEW c \in Contexts, Resolved(m, c)
  PROVE  /\ \/ req.kind = "import" /\ req'.ctx = req.ctx /\ req'.pc = "returned"
            \/ /\ req.kind # "import" /\ SameNotes(c, req'.ctx)
               /\ req'.pc \in {"bootstrap", "choose"}
<1>1. req \in Requests /\ req.ctx \in Contexts
  BY ContextNow
<1>2. CASE req.kind = "import"
  <2>1. req' = [req EXCEPT !.pc = "returned"]
    BY <1>2 DEF Resolved
  <2> QED  BY <1>1, <1>2, <2>1 DEF Requests
<1>3. CASE req.kind = "bootstrap"
  <2>1. req' = [req EXCEPT !.pc = "bootstrap", !.ctx = c, !.todo = @ \ {req.need},
                           !.have = @ \cup {m.id}]
    BY <1>3 DEF Resolved
  <2> QED  BY <1>1, <1>3, <2>1 DEF Requests, SameNotes
<1>4. CASE req.kind = "materialize"
  <2>1. PICK e : e = [c EXCEPT !.mods[req.need] = m]
    OBVIOUS
  <2>2. req' = [req EXCEPT !.pc = "choose", !.ctx = e]
    BY <1>4, <2>1 DEF Resolved
  <2>3. SameNotes(c, e)
    BY <2>1 DEF Contexts, SameNotes
  <2> QED  BY <1>1, <1>4, <2>2, <2>3 DEF Requests
<1> QED  BY <1>2, <1>3, <1>4

LEMMA ReturnsNotes ==
  ASSUME Rows, NEW stored, NEW c \in Contexts, Returns(stored, c)
  PROVE  SameNotes(c, req'.ctx) /\ req'.pc \in {"returned", "dependencies"}
<1>1. req \in Requests
  BY ContextNow
<1>2. CASE req' = [req EXCEPT !.pc = "returned", !.ctx = c, !.stored = stored]
  BY <1>1, <1>2 DEF Requests, SameNotes
<1>3. CASE \E x, t : req' = [req EXCEPT !.pc = "dependencies",
                                        !.ctx = [c EXCEPT !.processed = @ \cup {x}],
                                        !.stack = t]
  <2>1. PICK x, t, e : /\ e = [c EXCEPT !.processed = @ \cup {x}]
                       /\ req' = [req EXCEPT !.pc = "dependencies", !.ctx = e, !.stack = t]
    BY <1>3
  <2>2. SameNotes(c, e)
    BY <2>1 DEF Contexts, SameNotes
  <2> QED  BY <1>1, <2>1, <2>2 DEF Requests
<1> QED  BY <1>2, <1>3 DEF Returns

\* The steps that note nothing.
LEMMA QuietNotes ==
  ASSUME Rows, Graph,
         Lookup \/ NextBootstrap \/ Enter \/ NextDependency \/ Choose \/ SetRoles
  PROVE  /\ SameNotes(req.ctx, req'.ctx)
         /\ req'.pc \notin {"insert", "sweep"}
         /\ req'.pc = "failed" => Raises
         /\ Lookup \/ req'.pc # "link"
<1>1. req \in Requests /\ req.ctx \in Contexts
  BY ContextNow
<1>2. CASE NextBootstrap
  BY <1>2, NextBootstrapStep DEF SameNotes
<1>3. CASE Raises
  BY <1>3, RaisesNotes DEF SameNotes
<1>4. CASE SetRoles /\ Goes("returned")
  BY <1>4, GoesNotes DEF SameNotes
<1>5. CASE Enter /\ ~ Raises
  <2>1. PICK p, D, t, c : /\ p = Top.mod.link /\ t = SetTop([Top EXCEPT !.todo = D])
                          /\ c = [[req.ctx EXCEPT !.externals[p] = Top.release]
                                    EXCEPT !.mods[p] = Top.mod]
                          /\ D = Required(Top.release)
    OBVIOUS
  <2>2. req' = [req EXCEPT !.pc = "dependencies", !.stack = t,
                           !.ctx.externals[p] = Top.release, !.ctx.mods[p] = Top.mod]
    BY <1>5, <2>1 DEF Enter
  <2>3. req' = [req EXCEPT !.pc = "dependencies", !.stack = t, !.ctx = c]
    BY ONLY <1>1, <2>1, <2>2 DEF Requests, Contexts
  <2>4. SameNotes(req.ctx, c)
    BY <1>1, <2>1 DEF Contexts, SameNotes
  <2> QED  BY <1>1, <2>3, <2>4 DEF Requests
<1>6. CASE NextDependency /\ ~ Raises
  <2>1. PICK d \in Top.todo :
          req' = [req EXCEPT !.pc = IF req.ctx.mods[d.project] = None
                                      THEN "lookup" ELSE "choose",
                             !.need = d.project]
    BY <1>6 DEF NextDependency
  <2> QED  BY <1>1, <2>1 DEF SameNotes, Requests
<1>7. CASE Choose /\ ~ Raises
  <2>1. PICK d, p, r, c : /\ d = Needed /\ p = d.project
                          /\ r = Wanted(d, req.ctx.externals[p])
                          /\ c = [req.ctx EXCEPT !.externals[p] = r]
    OBVIOUS
  <2>5. PICK t, P : P \in {"dependencies", "enter"} /\ req' = [req EXCEPT !.pc = P, !.ctx = c, !.stack = t]
    <3>1. \/ req' = [req EXCEPT !.pc = "dependencies", !.ctx = c,
                                !.stack = SetTop(Met(Top, d, c))]
          \/ req' = [req EXCEPT !.pc = "enter", !.ctx = c,
                                !.stack = <<Frame(req.ctx.mods[p], r)>> \o @]
      BY <1>7, <2>1 DEF Choose
    <3> QED  BY <3>1
  <2>2. SameNotes(req.ctx, c)
    BY <1>1, <2>1 DEF SameNotes, Contexts
  <2> QED  BY <1>1, <2>2, <2>5 DEF Requests
<1>8. CASE Lookup /\ ~ Raises
  <2>1. CASE Goes("create")
    BY <2>1, <1>8, GoesNotes DEF SameNotes
  <2>2. CASE \E i : req' = [req EXCEPT !.pc = "link", !.target = i]
    BY <1>1, <1>8, <2>2 DEF SameNotes, Requests
  <2>3. CASE \E m : Resolved(m, req.ctx)
    <3>1. req.kind \in {"import", "bootstrap", "materialize"}
      BY <1>8, KindOfStep DEF Lookup
    <3> QED  BY <1>1, <1>8, <2>3, <3>1, ResolvedNotes DEF SameNotes
  <2> QED  BY <1>8, <2>1, <2>2, <2>3 DEF Lookup
<1> QED  BY <1>2, <1>3, <1>4, <1>5, <1>6, <1>7, <1>8 DEF SetRoles, Fails

\* Nothing more to take back, the fields apart.
NotesBut(c, e, fields) ==
  /\ "edges" \in fields \/ e.edges = c.edges
  /\ "createdMods" \in fields \/ e.createdMods = c.createdMods
  /\ "linked" \in fields \/ e.linked = c.linked
  /\ "versions" \in fields \/ e.createdVersions = c.createdVersions
  /\ "versions" \in fields \/ e.artifacts = c.artifacts

\* The request goes on with the mod that it has found.
Located == req'.pc \in {"returned", "bootstrap", "choose"}

LEMMA LinkNotes ==
  ASSUME Rows, Link
  PROVE  /\ NotesBut(req.ctx, req'.ctx, {"linked"})
         /\ UNCHANGED <<versions, edges, files, lastIds>>
         /\ \/ UNCHANGED mods /\ Raises
            \/ UNCHANGED mods /\ Located /\ Linked(req.need) # {}
            \/ /\ UNCHANGED mods /\ Located
               /\ \A m \in mods : m.id = req.target => m.link # None
            \/ /\ Linked(req.need) = {} /\ Located
               /\ \E n \in mods :
                    /\ n.id = req.target /\ n.link = None
                    /\ mods' = (mods \ {n}) \cup {[n EXCEPT !.link = req.need]}
                    /\ \/ req'.pc = "returned"
                       \/ req'.ctx.linked = req.ctx.linked \cup {<<n.id, req.need>>}
<1> DEFINE p == req.need
           free == {m \in mods : m.id = req.target /\ m.link = None}
           done == {m \in Named(p) : m.link = p}
           context(m) == [req.ctx EXCEPT !.linked = @ \cup {<<m.id, p>>}]
<1>1. /\ req \in Requests /\ req.ctx \in Contexts /\ p \in Projects
      /\ req.kind \in {"import", "bootstrap", "materialize"}
  BY KindOfStep, ContextNow DEF Link, Rows, RequestOK, RequestAt, Requests, Shaped, Resolving
<1>2. CASE Fails
  BY <1>2, RaisesNotes DEF Fails, library, NotesBut
<1>3. ASSUME NEW m \in ModRows, NEW c, c = req.ctx \/ c = context(m), Resolved(m, c)
      PROVE  /\ NotesBut(req.ctx, req'.ctx, {"linked"}) /\ Located
             /\ \/ req'.pc = "returned"
                \/ req'.ctx.linked = c.linked
  <2>1. PICK d : d = context(m)
    OBVIOUS
  <2>2. Extends(req.ctx, d) /\ d.edges = req.ctx.edges /\ d.createdMods = req.ctx.createdMods
    BY <1>1, <2>1, ExtendsLinked DEF ModRows
  <2>3. c \in Contexts /\ NotesBut(req.ctx, c, {"linked"})
    BY <1>1, <1>3, <2>1, <2>2 DEF Extends, NotesBut
  <2> HIDE DEF context
  <2>4. \/ req.kind = "import" /\ req'.ctx = req.ctx /\ req'.pc = "returned"
        \/ SameNotes(c, req'.ctx) /\ req'.pc \in {"bootstrap", "choose"}
    BY <1>1, <1>3, <2>3, ResolvedNotes
  <2> QED  BY <2>3, <2>4 DEF NotesBut, SameNotes, Located
<1>4. CASE free # {} /\ Linked(p) # {} /\ Resolved(Only(Linked(p)), req.ctx) /\ UNCHANGED library
  <2>1. PICK m : m = Only(Linked(p))
    OBVIOUS
  <2>2. m \in ModRows
    BY <1>4, <2>1, OnlyIn DEF Linked, Rows, TablesTyped
  <2>3. NotesBut(req.ctx, req'.ctx, {"linked"}) /\ Located
    BY <1>3, <1>4, <2>1, <2>2
  <2> QED  BY <1>4, <2>3 DEF library
<1>5. CASE free = {} /\ done # {} /\ Resolved(Only(done), context(Only(done))) /\ UNCHANGED library
  <2>1. PICK m : m = Only(done)
    OBVIOUS
  <2>2. m \in done
    BY <1>5, <2>1, OnlyIn
  <2>3. m \in ModRows
    BY <2>2 DEF Named, Rows, TablesTyped
  <2>4. NotesBut(req.ctx, req'.ctx, {"linked"}) /\ Located
    BY <1>3, <1>5, <2>1, <2>3
  <2> QED  BY <1>5, <2>4 DEF library
<1>6. CASE /\ free # {} /\ Linked(p) = {}
           /\ LET m == [Only(free) EXCEPT !.link = p]
              IN /\ mods' = (mods \ free) \cup {m}
                 /\ Resolved(m, context(m))
           /\ UNCHANGED <<versions, edges, files, lastIds>>
  <2>1. PICK n : n = Only(free)
    OBVIOUS
  <2>2. n \in free
    BY <1>6, <2>1, OnlyIn
  <2>3. PICK m : m = [n EXCEPT !.link = p]
    OBVIOUS
  <2>4. n \in ModRows /\ free = {n}
    BY <2>2 DEF Rows, TablesTyped, RowsUnique
  <2>5. m \in ModRows /\ m.id = n.id
    BY <1>1, <2>3, <2>4 DEF ModRows
  <2>6. mods' = (mods \ {n}) \cup {m} /\ Resolved(m, context(m))
    BY <1>6, <2>1, <2>3, <2>4
  <2>7. /\ NotesBut(req.ctx, req'.ctx, {"linked"}) /\ Located
        /\ \/ req'.pc = "returned"
           \/ req'.ctx.linked = context(m).linked
    BY <1>3, <2>5, <2>6
  <2>8. context(m).linked = req.ctx.linked \cup {<<n.id, p>>}
    BY <1>1, <2>5 DEF Contexts
  <2> QED  BY <1>6, <2>2, <2>3, <2>6, <2>7, <2>8
<1> QED  BY <1>2, <1>4, <1>5, <1>6 DEF Link

LEMMA CreateNotes ==
  ASSUME Rows, Create
  PROVE  /\ NotesBut(req.ctx, req'.ctx, {"createdMods"})
         /\ UNCHANGED <<versions, edges, files>>
         /\ \/ UNCHANGED mods /\ Raises
            \/ UNCHANGED mods /\ Located /\ req'.ctx.createdMods = req.ctx.createdMods
            \/ /\ Located
               /\ mods' = mods \cup {[id |-> lastIds.mods + 1, slug |-> req.need,
                                      link |-> req.need, type |-> "MOD"]}
               /\ \/ req'.pc = "returned"
                  \/ req'.ctx.createdMods = req.ctx.createdMods \cup {lastIds.mods + 1}
<1> DEFINE p == req.need
           m == [id |-> lastIds.mods + 1, slug |-> p, link |-> p, type |-> "MOD"]
<1>1. /\ req \in Requests /\ req.ctx \in Contexts
      /\ req.kind \in {"import", "bootstrap", "materialize"}
  BY KindOfStep, ContextNow DEF Create
<1>2. CASE Fails
  BY <1>2, RaisesNotes DEF Fails, library, NotesBut
<1>3. CASE Resolved(Only(Linked(p)), req.ctx) /\ UNCHANGED library
  <2>1. PICK n : n = Only(Linked(p))
    OBVIOUS
  <2>2. \/ req.kind = "import" /\ req'.ctx = req.ctx /\ req'.pc = "returned"
        \/ SameNotes(req.ctx, req'.ctx) /\ req'.pc \in {"bootstrap", "choose"}
    BY <1>1, <1>3, <2>1, ResolvedNotes
  <2> QED  BY <1>3, <2>2 DEF library, NotesBut, SameNotes, Located
<1>4. CASE /\ lastIds.mods < MaxMod
           /\ mods' = mods \cup {m}
           /\ Resolved(m, [req.ctx EXCEPT !.createdMods = @ \cup {m.id}])
           /\ UNCHANGED <<versions, edges, files>>
  <2>1. PICK i : i = lastIds.mods + 1
    OBVIOUS
  <2>2. PICK c : c = [req.ctx EXCEPT !.createdMods = @ \cup {i}]
    OBVIOUS
  <2>3. i \in ModIds
    BY <1>4, <2>1, ImportsAssumption DEF Rows, TablesTyped, ModIds
  <2>4. /\ c \in Contexts /\ c.createdMods = req.ctx.createdMods \cup {i}
        /\ NotesBut(req.ctx, c, {"createdMods"})
    BY <1>1, <2>2, <2>3 DEF Contexts, NotesBut
  <2>5. PICK n : n = m
    OBVIOUS
  <2>6. Resolved(n, c)
    BY <1>4, <2>1, <2>2, <2>5
  <2>7. \/ req.kind = "import" /\ req'.ctx = req.ctx /\ req'.pc = "returned"
        \/ SameNotes(c, req'.ctx) /\ req'.pc \in {"bootstrap", "choose"}
    BY <1>1, <2>4, <2>6, ResolvedNotes
  <2>8. /\ NotesBut(req.ctx, req'.ctx, {"createdMods"}) /\ Located
        /\ \/ req'.pc = "returned"
           \/ req'.ctx.createdMods = req.ctx.createdMods \cup {i}
    BY <2>4, <2>7 DEF NotesBut, SameNotes, Located
  <2> QED  BY <1>4, <2>1, <2>8
<1> QED  BY <1>2, <1>3, <1>4 DEF Create

LEMMA DeclareNotes ==
  ASSUME Rows, Declare
  PROVE  /\ NotesBut(req.ctx, req'.ctx, {"edges"})
         /\ UNCHANGED <<mods, versions, files>>
         /\ req'.pc \in {"returned", "dependencies", "files"} \/ Raises
         /\ \/ edges' = edges /\ req'.ctx.edges = req.ctx.edges
            \/ /\ req'.pc = "dependencies"
               /\ \E e : /\ e \notin edges /\ edges' = edges \cup {e}
                         /\ req'.ctx.edges = req.ctx.edges \cup {e}
<1>1. req \in Requests /\ req.ctx \in Contexts /\ req.pc = "dependencies"
  BY ContextNow DEF Declare
<1>2. CASE UNCHANGED library /\ (Returns(FALSE, req.ctx) \/ Goes("files") \/ Raises)
  <2>1. SameNotes(req.ctx, req'.ctx) /\ (req'.pc \in {"returned", "dependencies", "files"} \/ Raises)
    BY <1>1, <1>2, ReturnsNotes, GoesNotes, RaisesNotes DEF SameNotes
  <2> QED  BY <1>2, <2>1 DEF library, SameNotes, NotesBut
<1>3. CASE UNCHANGED library /\ \E t : req' = [req EXCEPT !.stack = t]
  BY <1>1, <1>3 DEF library, NotesBut, Requests
<1>4. ASSUME NEW t, NEW i, NEW j, <<i, j>> \notin edges, edges' = edges \cup {<<i, j>>},
             req' = [req EXCEPT !.stack = t, !.ctx.edges = @ \cup {<<i, j>>}],
             UNCHANGED <<mods, versions, files, lastIds>>
      PROVE  /\ NotesBut(req.ctx, req'.ctx, {"edges"})
             /\ UNCHANGED <<mods, versions, files>>
             /\ req'.pc = "dependencies"
             /\ \E e : /\ e \notin edges /\ edges' = edges \cup {e}
                       /\ req'.ctx.edges = req.ctx.edges \cup {e}
  <2>1. PICK e : e = <<i, j>>
    OBVIOUS
  <2>2. e \notin edges /\ edges' = edges \cup {e}
        /\ req' = [req EXCEPT !.stack = t, !.ctx.edges = @ \cup {e}]
    BY <1>4, <2>1
  <2>3. req'.pc = "dependencies" /\ req'.ctx = [req.ctx EXCEPT !.edges = @ \cup {e}]
    BY <1>1, <2>2 DEF Requests, Contexts
  <2>4. NotesBut(req.ctx, req'.ctx, {"edges"}) /\ req'.ctx.edges = req.ctx.edges \cup {e}
    BY <1>1, <2>3 DEF Contexts, NotesBut
  <2> QED  BY <1>4, <2>2, <2>3, <2>4
<1> QED  BY <1>2, <1>3, <1>4 DEF Declare, Fails

LEMMA MoveFilesNotes ==
  ASSUME Rows, MoveFiles
  PROVE  /\ SameNotes(req.ctx, req'.ctx) /\ UNCHANGED <<mods, versions, edges, lastIds>>
         /\ LET f == [Top EXCEPT !.name = LocalName(Top.mod.id, Top.release)]
            IN \/ /\ Stored(f.mod.id, f.release) # {} /\ UNCHANGED files
                  /\ req'.pc \in {"returned", "dependencies"}
               \/ Stored(f.mod.id, f.release) = {} /\ Raises /\ files' = files \ FileOf(f)
               \/ /\ req'.pc = "insert" /\ req'.stack = SetTop(f)
                  /\ files' = (files \ FileOf(f)) \cup
                       {[slug |-> f.mod.slug, name |-> f.name, md5 |-> Archive(f.release, made)]}
<1>1. req \in Requests /\ req.ctx \in Contexts
  BY ContextNow
<1>2. PICK f : f = [Top EXCEPT !.name = LocalName(Top.mod.id, Top.release)]
  OBVIOUS
<1>3. CASE Stored(f.mod.id, f.release) # {} /\ Returns(FALSE, req.ctx) /\ UNCHANGED files
  BY <1>1, <1>2, <1>3, ReturnsNotes DEF MoveFiles
<1>4. CASE Stored(f.mod.id, f.release) = {} /\ Raises /\ files' = files \ FileOf(f)
  BY <1>2, <1>4, RaisesNotes DEF MoveFiles, SameNotes
<1>5. CASE /\ req' = [req EXCEPT !.pc = "insert", !.stack = SetTop(f)]
           /\ files' = (files \ FileOf(f)) \cup
                {[slug |-> f.mod.slug, name |-> f.name, md5 |-> Archive(f.release, made)]}
  <2>1. PICK t : t = SetTop(f)
    OBVIOUS
  <2>2. req'.pc = "insert" /\ req'.stack = t /\ req'.ctx = req.ctx
    BY <1>1, <1>5, <2>1 DEF Requests
  <2> QED  BY <1>2, <1>5, <2>1, <2>2 DEF MoveFiles, SameNotes
<1> QED  BY <1>2, <1>3, <1>4, <1>5 DEF MoveFiles

LEMMA InsertNotes ==
  ASSUME Rows, Graph, Insert
  PROVE  \/ /\ Stored(Top.mod.id, Top.release) # {} /\ UNCHANGED library
            /\ SameNotes(req.ctx, req'.ctx) /\ req'.pc \in {"returned", "dependencies"}
         \/ /\ Stored(Top.mod.id, Top.release) = {}
            /\ Raises /\ files' = files \ FileOf(Top)
            /\ SameNotes(req.ctx, req'.ctx) /\ UNCHANGED <<mods, versions, edges, lastIds>>
         \/ /\ Stored(Top.mod.id, Top.release) = {}
            /\ req'.pc \in {"returned", "dependencies"}
            /\ versions' = versions \cup
                 {[id |-> lastIds.versions + 1, mod |-> Top.mod.id, ext |-> Top.release,
                   name |-> Top.name, md5 |-> Archive(Top.release, made)]}
            /\ mods' = {IF m.id = Top.mod.id /\ Top.mod.link \notin Configs
                          THEN Promoted(m) ELSE m : m \in mods}
            /\ UNCHANGED <<edges, files>>
            /\ NotesBut(req.ctx, req'.ctx, {"versions"})
            /\ IF Top.mod.link \in Configs THEN SameNotes(req.ctx, req'.ctx)
               ELSE /\ req'.ctx.createdVersions = req.ctx.createdVersions \cup {lastIds.versions + 1}
                    /\ req'.ctx.artifacts = req.ctx.artifacts \cup {<<Top.mod.slug, Top.name>>}
<1>1. /\ req \in Requests /\ req.ctx \in Contexts
      /\ Top = req.stack[1] /\ Top \in Frames /\ Top.mod \in ModRows /\ Top.release \in Releases
  BY TopToFile DEF Insert
<1>2. CASE Stored(Top.mod.id, Top.release) # {} /\ Returns(FALSE, req.ctx) /\ UNCHANGED library
  BY <1>1, <1>2, ReturnsNotes
<1>3. CASE /\ Stored(Top.mod.id, Top.release) = {} /\ Raises /\ files' = files \ FileOf(Top)
           /\ UNCHANGED <<mods, versions, edges, lastIds>>
  BY <1>3, RaisesNotes DEF SameNotes
<1>4. PICK id, a : id = lastIds.versions + 1 /\ a = <<Top.mod.slug, Top.name>>
  OBVIOUS
<1>5. CASE /\ Stored(Top.mod.id, Top.release) = {}
           /\ lastIds.versions < MaxVersion
           /\ versions' = versions \cup
                {[id |-> id, mod |-> Top.mod.id, ext |-> Top.release,
                  name |-> Top.name, md5 |-> Archive(Top.release, made)]}
           /\ mods' = {IF m.id = Top.mod.id /\ Top.mod.link \notin Configs THEN Promoted(m) ELSE m
                       : m \in mods}
           /\ Returns(TRUE, IF Top.mod.link \in Configs THEN req.ctx
                            ELSE [req.ctx EXCEPT
                                    !.createdVersions = @ \cup {id},
                                    !.artifacts = @ \cup {a}])
           /\ UNCHANGED <<edges, files>>
  <2>1. id \in 1..MaxVersion
    BY <1>4, <1>5, ImportsAssumption DEF Rows, TablesTyped
  <2>2. a \in Projects \X Names
    <3>1. AtTop(catalog, req) /\ req.pc = "insert"
      BY MaterializesAt DEF Graph, GraphOf, Insert
    <3>2. Top.name \in NamesOf(Top.release) /\ Top.release \in Pins /\ None \in Pins
      BY <1>1, <3>1 DEF AtTop, Pins
    <3>3. Top.name \in Names
      BY <1>1, <3>2 DEF NamesOf, Names
    <3> QED  BY <1>1, <1>4, <3>3 DEF ModRows
  <2>3. PICK e : e = [req.ctx EXCEPT !.createdVersions = @ \cup {id}, !.artifacts = @ \cup {a}]
    OBVIOUS
  <2>4. /\ req.ctx.createdVersions \cup {id} \in SUBSET (1..MaxVersion)
        /\ req.ctx.artifacts \cup {a} \in SUBSET (Projects \X Names)
    BY <1>1, <2>1, <2>2 DEF Contexts
  <2>5. /\ e \in Contexts /\ NotesBut(req.ctx, e, {"versions"})
        /\ e.createdVersions = req.ctx.createdVersions \cup {id}
        /\ e.artifacts = req.ctx.artifacts \cup {a}
    BY ONLY <1>1, <2>3, <2>4 DEF Contexts, NotesBut
  <2>6. PICK c : c = IF Top.mod.link \in Configs THEN req.ctx ELSE e
    OBVIOUS
  <2>7. c \in Contexts /\ Returns(TRUE, c)
    BY <1>1, <1>5, <2>3, <2>5, <2>6
  <2>8. SameNotes(c, req'.ctx) /\ req'.pc \in {"returned", "dependencies"}
    BY <2>7, ReturnsNotes
  <2>9. /\ NotesBut(req.ctx, req'.ctx, {"versions"})
        /\ IF Top.mod.link \in Configs THEN SameNotes(req.ctx, req'.ctx)
           ELSE /\ req'.ctx.createdVersions = req.ctx.createdVersions \cup {id}
                /\ req'.ctx.artifacts = req.ctx.artifacts \cup {a}
    BY <2>5, <2>6, <2>8 DEF SameNotes, NotesBut
  <2> QED  BY <1>4, <1>5, <2>8, <2>9
<1> QED  BY <1>2, <1>3, <1>4, <1>5 DEF Insert

-----------------------------------------------------------------------------
(* The steps keep requirements under every version                         *)

\* Rows may come, and get a link, but none goes.
Succeeds(M, N) == \A m \in M : \E n \in N :
  n.id = m.id /\ n.slug = m.slug /\ (m.link # None => n.link = m.link)

\* The row of a version, if there is one, is an old one.
Inherits(M, N, V) == \A n \in N, v \in V :
  n.id = v.mod => \E m \in M : m.id = n.id /\ m.slug = n.slug

LEMMA MetGrows ==
  ASSUME NEW D, \A d \in D : d.project # None,
         NEW v, NEW M, NEW N, Succeeds(M, N), NEW E, NEW F, E \subseteq F,
         NEW V, NEW W, V \subseteq W, MetWith(D, v, M, E, V)
  PROVE  MetWith(D, v, N, F, W)
<1> SUFFICES ASSUME NEW d \in Needs(D, v.ext)
             PROVE  \E n \in N : /\ n.link = d.project
                                 /\ <<v.mod, n.id>> \in F
                                 /\ \E w \in W : w.mod = n.id /\ d.pin \in {None, w.ext}
  BY DEF MetWith
<1>1. PICK m \in M : /\ m.link = d.project
                     /\ <<v.mod, m.id>> \in E
                     /\ \E w \in V : w.mod = m.id /\ d.pin \in {None, w.ext}
  BY DEF MetWith
<1>2. d.project # None
  BY DEF Needs
<1>3. PICK n \in N : n.id = m.id /\ n.link = m.link
  BY <1>1, <1>2 DEF Succeeds
<1> QED  BY <1>1, <1>3

LEMMA SoundGrows ==
  ASSUME NEW D, \A d \in D : d.project # None,
         NEW M, NEW N, Succeeds(M, N), NEW E, NEW F, E \subseteq F,
         NEW V, NEW X, Sound(D, M, E, V, X)
  PROVE  Sound(D, N, F, V, X)
<1> SUFFICES ASSUME NEW v \in V
             PROVE  FileFor(v, N, X) /\ MetWith(D, v, N, F, V)
  BY DEF Sound
<1>1. FileFor(v, M, X) /\ MetWith(D, v, M, E, V)
  BY DEF Sound
<1>2. FileFor(v, N, X)
  BY <1>1 DEF FileFor, Succeeds
<1> QED  BY <1>1, <1>2, MetGrows

LEMMA LastingGrows ==
  ASSUME NEW D, \A d \in D : d.project # None,
         NEW M, NEW N, NEW V, Succeeds(M, N), Inherits(M, N, V),
         NEW c, NEW e, NEW E, NEW F, E \ c.edges \subseteq F \ e.edges,
         e.createdVersions = c.createdVersions, e.artifacts = c.artifacts,
         Lasting(D, c, M, E, V)
  PROVE  Lasting(D, e, N, F, V)
<1>1. OlderThan(e, V) = OlderThan(c, V)
  BY DEF OlderThan
<1> SUFFICES ASSUME NEW v \in OlderThan(c, V)
             PROVE  /\ MetWith(D, v, N, F \ e.edges, OlderThan(c, V))
                    /\ \A n \in N : n.id = v.mod => <<n.slug, v.name>> \notin e.artifacts
  BY <1>1 DEF Lasting
<1>2. /\ MetWith(D, v, M, E \ c.edges, OlderThan(c, V))
      /\ \A m \in M : m.id = v.mod => <<m.slug, v.name>> \notin c.artifacts
  BY DEF Lasting
<1>3. MetWith(D, v, N, F \ e.edges, OlderThan(c, V))
  BY <1>2, MetGrows
<1>4. v \in V
  BY DEF OlderThan
<1> QED  BY <1>2, <1>3, <1>4 DEF Inherits

\* A step that adds mods, links and dependencies at most.
Adding ==
  /\ Succeeds(mods, mods') /\ Inherits(mods, mods', versions)
  /\ edges \subseteq edges'
  /\ edges \ req.ctx.edges \subseteq edges' \ req'.ctx.edges
  /\ req'.ctx.createdVersions = req.ctx.createdVersions
  /\ req'.ctx.artifacts = req.ctx.artifacts
  /\ UNCHANGED <<catalog, versions, files>>
  /\ whole' => whole
  /\ \/ req'.pc \notin {"insert", "sweep"}
     \/ UNCHANGED <<req, made>>

LEMMA ProjectsNamed ==
  ASSUME Rows
  PROVE  \A d \in catalog : d.project # None /\ ProjectOf[d.release] \notin Configs
BY CatalogTyped, ImportsAssumption DEF Requirements

LEMMA AddingFounded ==
  ASSUME Rows, Founded, Adding
  PROVE  Founded'
<1> SUFFICES ASSUME whole'
             PROVE  /\ Sound(catalog', mods', edges', versions', files')
                    /\ Lasting(catalog', req'.ctx, mods', edges', versions')
                    /\ Packed'
                    /\ req'.pc = "sweep" => OlderThan(req'.ctx, versions') = versions'
  BY DEF Founded
<1>1. /\ whole /\ UNCHANGED <<catalog, versions, files>>
      /\ \A d \in catalog : d.project # None
  BY ProjectsNamed DEF Adding
<1>2. /\ Sound(catalog, mods, edges, versions, files)
      /\ Lasting(catalog, req.ctx, mods, edges, versions)
      /\ Packed
      /\ req.pc = "sweep" => OlderThan(req.ctx, versions) = versions
  BY <1>1 DEF Founded
<1>3. Sound(catalog, mods', edges', versions, files)
  BY <1>1, <1>2, SoundGrows DEF Adding
<1>4. Lasting(catalog, req'.ctx, mods', edges', versions)
  <2>1. PICK c, e : c = req.ctx /\ e = req'.ctx
    OBVIOUS
  <2>2. Lasting(catalog, c, mods, edges, versions)
    BY <1>2, <2>1
  <2>3. /\ edges \ c.edges \subseteq edges' \ e.edges
        /\ e.createdVersions = c.createdVersions /\ e.artifacts = c.artifacts
        /\ Succeeds(mods, mods') /\ Inherits(mods, mods', versions)
    BY <2>1 DEF Adding
  <2>4. Lasting(catalog, e, mods', edges', versions)
    BY ONLY <1>1, <2>2, <2>3, LastingGrows
  <2> QED  BY <2>1, <2>4
<1>5. CASE req'.pc \notin {"insert", "sweep"}
  BY <1>1, <1>3, <1>4, <1>5 DEF Packed
<1>6. CASE UNCHANGED <<req, made>>
  BY <1>1, <1>2, <1>3, <1>4, <1>6 DEF Packed, Top
<1> QED  BY <1>5, <1>6 DEF Adding

LEMMA SameMods ==
  ASSUME NEW M, NEW V
  PROVE  Succeeds(M, M) /\ Inherits(M, M, V)
BY DEF Succeeds, Inherits

\* A row with the next id is no version's.
LEMMA NewModInherits ==
  ASSUME Rows, lastIds.mods < MaxMod, NEW m, m.id = lastIds.mods + 1, mods' = mods \cup {m}
  PROVE  Succeeds(mods, mods') /\ Inherits(mods, mods', versions)
<1>1. \A v \in versions : v.mod # m.id
  <2> SUFFICES ASSUME NEW v \in versions, v.mod = m.id
               PROVE  FALSE
    OBVIOUS
  <2>1. v.mod \in Nat /\ lastIds.mods \in Nat /\ v.mod <= lastIds.mods
    BY TypesAreNat DEF Rows, TablesTyped, RowsCounted, VersionRows, ModIds
  <2> QED  BY <2>1
<1> QED  BY <1>1 DEF Succeeds, Inherits

\* A row may get a link, and keeps the rest.
LEMMA NewLinkInherits ==
  ASSUME Rows, NEW n \in mods, n.link = None, NEW p,
         mods' = (mods \ {n}) \cup {[n EXCEPT !.link = p]}
  PROVE  Succeeds(mods, mods') /\ Inherits(mods, mods', versions)
<1>1. PICK m : m = [n EXCEPT !.link = p]
  OBVIOUS
<1>2. n \in ModRows
  BY DEF Rows, TablesTyped
<1>3. m.id = n.id /\ m.slug = n.slug /\ mods' = (mods \ {n}) \cup {m}
  BY <1>1, <1>2 DEF ModRows
<1> QED  BY <1>3 DEF Succeeds, Inherits

LEMMA MappedInherits ==
  ASSUME NEW f, mods' = {f[m] : m \in mods},
         \A m \in mods : f[m].id = m.id /\ f[m].slug = m.slug /\ f[m].link = m.link
  PROVE  Succeeds(mods, mods') /\ Inherits(mods, mods', versions)
BY DEF Succeeds, Inherits

LEMMA QuietAdds ==
  ASSUME Rows, Graph, Lookup \/ NextBootstrap \/ Enter \/ NextDependency \/ Choose \/ SetRoles
  PROVE  Adding
<1>1. UNCHANGED <<catalog, versions, edges, files, whole>>
  BY DEF Lookup, NextBootstrap, Enter, NextDependency, Choose, SetRoles, Step, history,
         library, Fails
<1>2. SameNotes(req.ctx, req'.ctx) /\ req'.pc \notin {"insert", "sweep"}
  BY QuietNotes
<1>3. Succeeds(mods, mods') /\ Inherits(mods, mods', versions)
  <2>1. CASE UNCHANGED mods
    BY <2>1, SameMods
  <2>2. CASE mods' = {[m EXCEPT !.type = IF m.id \in req.have THEN "BOOTSTRAP" ELSE @] : m \in mods}
    <3>1. PICK f : f = [m \in mods |-> [m EXCEPT !.type = IF m.id \in req.have THEN "BOOTSTRAP" ELSE @]]
      OBVIOUS
    <3>2. mods' = {f[m] : m \in mods}
      BY <2>2, <3>1
    <3>3. \A m \in mods : f[m].id = m.id /\ f[m].slug = m.slug /\ f[m].link = m.link
      BY <3>1 DEF Rows, TablesTyped, ModRows
    <3> QED  BY <3>2, <3>3, MappedInherits
  <2> QED
    BY <2>1, <2>2 DEF Lookup, NextBootstrap, Enter, NextDependency, Choose, SetRoles,
                      library, Fails
<1> QED  BY <1>1, <1>2, <1>3 DEF Adding, SameNotes

LEMMA OthersAdd ==
  ASSUME Rows, Graph, Link \/ Create \/ Declare
  PROVE  Adding
<1>1. UNCHANGED <<catalog, whole>>
  BY DEF Link, Create, Declare, Step, history
<1>2. CASE Link
  <2>1. UNCHANGED <<versions, edges, files>> /\ NotesBut(req.ctx, req'.ctx, {"linked"})
    BY <1>2, LinkNotes
  <2>2. req'.pc \notin {"insert", "sweep"}
    BY <1>2, LinkNotes, RaisesNotes DEF Located
  <2>3. Succeeds(mods, mods') /\ Inherits(mods, mods', versions)
    BY <1>2, LinkNotes, SameMods, NewLinkInherits
  <2> QED  BY <1>1, <2>1, <2>2, <2>3 DEF Adding, NotesBut
<1>3. CASE Create
  <2>1. UNCHANGED <<versions, edges, files>> /\ NotesBut(req.ctx, req'.ctx, {"createdMods"})
    BY <1>3, CreateNotes
  <2>2. req'.pc \notin {"insert", "sweep"}
    BY <1>3, CreateNotes, RaisesNotes DEF Located
  <2>3. Succeeds(mods, mods') /\ Inherits(mods, mods', versions)
    <3>1. CASE UNCHANGED mods
      BY <3>1, SameMods
    <3>2. CASE lastIds.mods < MaxMod /\ mods' = mods \cup {[id |-> lastIds.mods + 1, slug |-> req.need,
                                      link |-> req.need, type |-> "MOD"]}
      <4>1. PICK m : m = [id |-> lastIds.mods + 1, slug |-> req.need,
                          link |-> req.need, type |-> "MOD"]
        OBVIOUS
      <4> QED  BY <3>2, <4>1, NewModInherits
    <3> QED  BY <1>3, <3>1, <3>2 DEF Create, Fails, library
  <2> QED  BY <1>1, <2>1, <2>2, <2>3 DEF Adding, NotesBut
<1>4. CASE Declare
  <2>1. UNCHANGED <<mods, versions, files>> /\ NotesBut(req.ctx, req'.ctx, {"edges"})
    BY <1>4, DeclareNotes
  <2>2. req'.pc \notin {"insert", "sweep"}
    BY <1>4, DeclareNotes, RaisesNotes
  <2>3. edges \subseteq edges' /\ edges \ req.ctx.edges \subseteq edges' \ req'.ctx.edges
    BY <1>4, DeclareNotes
  <2> QED  BY <1>1, <2>1, <2>2, <2>3, SameMods DEF Adding, NotesBut
<1> QED  BY <1>2, <1>3, <1>4

LEMMA EditsAdd ==
  ASSUME Rows, Graph, Editing, whole'
  PROVE  Adding
<1>1. UNCHANGED <<req, catalog, made>>
  BY EditingRows
<1>2. CASE Unlink \/ DeleteDependency \/ DeleteVersion \/ DeleteMod \/ OtherImport
  BY <1>2 DEF Unlink, DeleteDependency, DeleteVersion, DeleteMod, OtherImport, Edits
<1>3. CASE NewManual \/ OtherProject
  <2>1. /\ whole /\ UNCHANGED <<versions, edges, files>> /\ lastIds.mods < MaxMod
        /\ \E m : m.id = lastIds.mods + 1 /\ mods' = mods \cup {m}
    BY <1>3 DEF NewManual, OtherProject, Edits
  <2> QED  BY <1>1, <2>1, NewModInherits DEF Adding
<1>4. CASE LinkExisting
  <2>1. /\ whole /\ UNCHANGED <<versions, edges, files>>
        /\ \E n \in mods, p \in Projects :
             n.link = None /\ mods' = (mods \ {n}) \cup {[n EXCEPT !.link = p]}
    BY <1>4 DEF LinkExisting, Edits
  <2> QED  BY <1>1, <2>1, NewLinkInherits DEF Adding
<1>5. CASE AddDependency
  <2>1. whole /\ UNCHANGED <<mods, versions, files>> /\ edges \subseteq edges'
    BY <1>5 DEF AddDependency, Edits
  <2> QED  BY <1>1, <2>1, SameMods DEF Adding
<1> QED  BY <1>2, <1>3, <1>4, <1>5 DEF Editing

\* In a library that lost nothing, or that nobody else touched, the release
\* whose files come is not stored.
LEMMA NotStored ==
  ASSUME Rows, Graph, Settled, Steady, req.pc \in {"files", "insert"}
  PROVE  /\ Stored(Top.mod.id, Top.release) = {}
         /\ InPlace(mods, Top.mod)
<1>1. /\ Resolves(req) /\ req.kind = "materialize" /\ Top = req.stack[1] /\ ~ Top.existing
  BY TopToFile
<1>2. 1 \in DOMAIN req.stack
  BY <1>1, OnStackNow
<1>3. ModsInPlace(req, mods) /\ VersionsInPlace(req, versions)
  BY <1>1 DEF Settled, SettledAt
<1>4. ~ Has(versions, Top.mod.id, Top.release)
  BY <1>1, <1>2, <1>3 DEF VersionsInPlace
<1> QED  BY <1>1, <1>2, <1>3, <1>4 DEF Stored, Has, ModsInPlace

\* No version of the mod has the name that a release gets which is not stored.
LEMMA NameFree ==
  ASSUME Rows, NEW i, NEW r \in Releases, Stored(i, r) = {}
  PROVE  \A v \in versions : v.mod = i => v.name # LocalName(i, r)
<1> SUFFICES ASSUME NEW v \in versions, v.mod = i, v.name = LocalName(i, r)
             PROVE  FALSE
  OBVIOUS
<1>1. v.name \in NamesOf(v.ext) /\ v.ext # r /\ r # None
  BY ImportsAssumption DEF Rows, RowsCounted, Stored
<1>2. CASE \E w \in versions : w.mod = i /\ w.name = <<NumberOf[r], None>>
  <2>1. v.name = <<NumberOf[r], r>>
    BY <1>2 DEF LocalName
  <2> QED  BY <1>1, <2>1 DEF NamesOf
<1>3. CASE ~ \E w \in versions : w.mod = i /\ w.name = <<NumberOf[r], None>>
  <2>1. v.name = <<NumberOf[r], None>>
    BY <1>3 DEF LocalName
  <2> QED  BY <1>3, <2>1
<1> QED  BY <1>2, <1>3

\* The files of a name that no version has may go.
LEMMA OtherFilesStay ==
  ASSUME Rows, NEW f, InPlace(mods, f.mod),
         \A v \in versions : v.mod = f.mod.id => v.name # f.name,
         NEW F, files \ FileOf(f) \subseteq F,
         NEW v \in versions, FileFor(v, mods, files)
  PROVE  FileFor(v, mods, F)
<1>1. PICK x \in files, m \in mods :
        m.id = v.mod /\ x.slug = m.slug /\ x.name = v.name /\ x.md5 = v.md5
  BY DEF FileFor
<1>2. PICK n \in mods : n.id = f.mod.id /\ n.slug = f.mod.slug
  BY DEF InPlace
<1>3. x \notin FileOf(f)
  <2> SUFFICES ASSUME x.slug = f.mod.slug, x.name = f.name
               PROVE  FALSE
    BY DEF FileOf
  <2>1. m = n
    BY <1>1, <1>2 DEF Rows, RowsUnique
  <2> QED  BY <1>1, <1>2, <2>1
<1> QED  BY <1>1, <1>3 DEF FileFor

LEMMA MoveFilesFounded ==
  ASSUME Rows, Graph, Settled, Founded, MoveFiles
  PROVE  Founded'
<1> SUFFICES ASSUME whole'
             PROVE  /\ Sound(catalog', mods', edges', versions', files')
                    /\ Lasting(catalog', req'.ctx, mods', edges', versions')
                    /\ Packed'
                    /\ req'.pc = "sweep" => OlderThan(req'.ctx, versions') = versions'
  BY DEF Founded
<1>1. whole /\ UNCHANGED <<catalog, made>> /\ req.pc = "files"
  BY DEF MoveFiles, Step, history
<1>2. /\ Sound(catalog, mods, edges, versions, files)
      /\ Lasting(catalog, req.ctx, mods, edges, versions)
  BY <1>1 DEF Founded
<1>3. SameNotes(req.ctx, req'.ctx) /\ UNCHANGED <<mods, versions, edges, lastIds>>
  BY MoveFilesNotes
<1>4. Lasting(catalog', req'.ctx, mods', edges', versions')
  <2>1. PICK c, e : c = req.ctx /\ e = req'.ctx
    OBVIOUS
  <2>2. Lasting(catalog, e, mods, edges, versions)
    BY <1>2, <1>3, <2>1 DEF Lasting, SameNotes, OlderThan
  <2> QED  BY <1>1, <1>3, <2>1, <2>2
<1>5. PICK f : f = [Top EXCEPT !.name = LocalName(Top.mod.id, Top.release)]
  OBVIOUS
<1>6. Top \in Frames /\ Top.release \in Releases /\ Stored(Top.mod.id, Top.release) = {}
      /\ InPlace(mods, Top.mod)
  BY <1>1, TopToFile, NotStored DEF Steady
<1>7. /\ f.mod = Top.mod /\ f.release = Top.release
      /\ f.name = LocalName(Top.mod.id, Top.release)
  BY <1>5, <1>6 DEF Frames
<1>8. \A v \in versions : v.mod = f.mod.id => v.name # f.name
  BY <1>6, <1>7, NameFree
<1>9. /\ files \ FileOf(f) \subseteq files'
      /\ \/ req'.pc \notin {"insert", "sweep"}
         \/ /\ req'.pc = "insert" /\ req'.stack = SetTop(f)
            /\ [slug |-> f.mod.slug, name |-> f.name, md5 |-> Archive(f.release, made)] \in files'
  <2>1. \/ Stored(f.mod.id, f.release) # {}
        \/ Raises /\ files' = files \ FileOf(f)
        \/ /\ req'.pc = "insert" /\ req'.stack = SetTop(f)
           /\ files' = (files \ FileOf(f)) \cup
                {[slug |-> f.mod.slug, name |-> f.name, md5 |-> Archive(f.release, made)]}
    BY <1>5, MoveFilesNotes
  <2>2. Raises => req'.pc \notin {"insert", "sweep"}
    BY RaisesNotes
  <2> QED  BY <1>6, <1>7, <2>1, <2>2
<1>10. Sound(catalog', mods', edges', versions', files')
  <2>1. \A v \in versions : FileFor(v, mods, files')
    BY <1>2, <1>6, <1>7, <1>8, <1>9, OtherFilesStay DEF Sound
  <2> QED  BY <1>1, <1>2, <1>3, <2>1 DEF Sound
<1>11. Packed'
  <2>1. CASE req'.pc \notin {"insert", "sweep"}
    BY <2>1 DEF Packed
  <2>2. CASE /\ req'.pc = "insert" /\ req'.stack = SetTop(f)
             /\ [slug |-> f.mod.slug, name |-> f.name, md5 |-> Archive(f.release, made)] \in files'
    <3>1. Top' = f
      BY <2>2 DEF Top, SetTop
    <3>2. \E x \in files' : x.slug = f.mod.slug /\ x.name = f.name /\ x.md5 = Archive(f.release, made)
      BY <2>2
    <3> QED  BY <1>1, <1>3, <1>8, <3>1, <3>2 DEF Packed, Archive
  <2> QED  BY <1>9, <2>1, <2>2
<1> QED  BY <1>4, <1>9, <1>10, <1>11

\* When a release is stored, its requirements are.
LEMMA TopRequirements ==
  ASSUME Rows, Graph, Settled, Steady, req.pc = "insert",
         NEW v, v.mod = Top.mod.id, v.ext = Top.release
  PROVE  MetWith(catalog, v, mods, edges, versions)
<1> SUFFICES ASSUME NEW d \in Needs(catalog, v.ext)
             PROVE  \E n \in mods :
                      /\ n.link = d.project
                      /\ <<v.mod, n.id>> \in edges
                      /\ \E w \in versions : w.mod = n.id /\ d.pin \in {None, w.ext}
  BY DEF MetWith
<1>1. /\ Resolves(req) /\ req.kind = "materialize" /\ Top = req.stack[1]
      /\ Top.todo = {} /\ Top.have = {} /\ Top.mod.link = ProjectOf[Top.release]
  BY TopToFile
<1>2. 1 \in DOMAIN req.stack
  BY <1>1, OnStackNow
<1>3. /\ AtTop(catalog, req) /\ Known(catalog, req) /\ MetKnown(catalog, req)
      /\ ModsInPlace(req, mods) /\ VersionsInPlace(req, versions)
      /\ EdgesInPlace(catalog, req, edges)
  BY <1>1 DEF Graph, GraphOf, Settled, SettledAt
<1>4. d \in catalog /\ d.release = Top.release /\ d.project \in Projects
  BY CatalogTyped DEF Needs
<1>5. Top.mod.link \notin Configs
  BY <1>1, <1>4, ProjectsNamed
<1>6. Entered(req, 1) /\ d \in MetBy(catalog, req.stack[1])
  BY <1>1, <1>3, <1>4, <1>5 DEF AtTop, Entered, MetBy, Needs
<1>7. /\ Processed(d.project, req.ctx) /\ Pinned(d, req.ctx)
      /\ <<Top.mod.id, req.ctx.mods[d.project].id>> \in edges
  BY <1>1, <1>2, <1>3, <1>6 DEF MetKnown, EdgesInPlace
<1>8. PICK n \in Linked(d.project) : n.id = req.ctx.mods[d.project].id
  BY <1>1, <1>3, <1>4, <1>7, ProcessedInPlace
<1>9. PICK x : x = <<d.project, req.ctx.externals[d.project]>>
  OBVIOUS
<1>10. x \in req.ctx.processed /\ x[1] = d.project /\ x[2] = req.ctx.externals[d.project]
  BY <1>7, <1>9 DEF Processed
<1>11. PICK w \in versions : w.mod = n.id /\ w.ext = req.ctx.externals[d.project]
  BY <1>3, <1>8, <1>10 DEF VersionsInPlace, Has
<1> QED  BY <1>7, <1>8, <1>11 DEF Linked, Pinned

\* A version that the request stores and notes.
LEMMA LastingNoted ==
  ASSUME NEW M,
         NEW c, NEW e, NEW row, NEW V, V = versions \cup {row},
         \A v \in versions : v.id # row.id,
         e.edges = c.edges, e.createdVersions = c.createdVersions \cup {row.id},
         NEW a, e.artifacts = c.artifacts \cup {a},
         \A v \in versions, m \in M : m.id = v.mod => <<m.slug, v.name>> # a,
         Lasting(catalog, c, M, edges, versions)
  PROVE  Lasting(catalog, e, M, edges, V)
<1>1. OlderThan(e, V) = OlderThan(c, versions)
  BY DEF OlderThan
<1>2. OlderThan(c, versions) \subseteq versions
  BY DEF OlderThan
<1> QED  BY <1>1, <1>2 DEF Lasting

\* A version that the request stores and does not note: that of a repository.
LEMMA LastingUnnoted ==
  ASSUME NEW M, NEW c, NEW e, NEW row, NEW V, V = versions \cup {row},
         SameNotes(c, e), c.artifacts = {}, c.createdVersions = {}, Needs(catalog, row.ext) = {},
         Lasting(catalog, c, M, edges, versions)
  PROVE  Lasting(catalog, e, M, edges, V)
<1>1. OlderThan(e, V) = V /\ OlderThan(c, versions) = versions /\ e.edges = c.edges
      /\ e.artifacts = {}
  BY DEF OlderThan, SameNotes
<1>2. MetWith(catalog, row, M, edges \ e.edges, V)
  BY DEF MetWith
<1>3. \A v \in versions : MetWith(catalog, v, M, edges \ e.edges, V)
  <2> SUFFICES ASSUME NEW v \in versions
               PROVE  MetWith(catalog, v, M, edges \ e.edges, V)
    OBVIOUS
  <2>1. MetWith(catalog, v, M, edges \ e.edges, versions)
    BY <1>1 DEF Lasting
  <2> QED  BY <2>1 DEF MetWith
<1> QED  BY <1>1, <1>2, <1>3 DEF Lasting

LEMMA InsertFounded ==
  ASSUME Rows, Graph, Settled, Founded, Insert
  PROVE  Founded'
<1> SUFFICES ASSUME whole'
             PROVE  /\ Sound(catalog', mods', edges', versions', files')
                    /\ Lasting(catalog', req'.ctx, mods', edges', versions')
                    /\ Packed'
                    /\ req'.pc = "sweep" => OlderThan(req'.ctx, versions') = versions'
  BY DEF Founded
<1>1. whole /\ UNCHANGED <<catalog, made>> /\ req.pc = "insert"
  BY DEF Insert, Step, history
<1>2. /\ req.kind = "materialize" /\ Top \in Frames /\ Top.mod \in ModRows /\ Top.release \in Releases
      /\ Top.mod.link = ProjectOf[Top.release] /\ Top = req.stack[1] /\ Resolves(req)
      /\ Stored(Top.mod.id, Top.release) = {} /\ InPlace(mods, Top.mod)
  BY <1>1, TopToFile, NotStored DEF Steady
<1>3. /\ Sound(catalog, mods, edges, versions, files)
      /\ Lasting(catalog, req.ctx, mods, edges, versions)
      /\ \E x \in files : /\ x.slug = Top.mod.slug /\ x.name = Top.name
                          /\ x.md5 = Archive(Top.release, made)
      /\ \A v \in versions : v.mod = Top.mod.id => v.name # Top.name
  BY <1>1, <1>2 DEF Founded, Packed
<1>4. CASE /\ Raises /\ files' = files \ FileOf(Top)
           /\ SameNotes(req.ctx, req'.ctx) /\ UNCHANGED <<mods, versions, edges, lastIds>>
  <2>1. req'.pc \notin {"insert", "sweep"}
    BY <1>4, RaisesNotes
  <2>2. \A v \in versions : FileFor(v, mods, files')
    BY <1>2, <1>3, <1>4, OtherFilesStay DEF Sound
  <2>3. Sound(catalog', mods', edges', versions', files')
    BY <1>1, <1>3, <1>4, <2>2 DEF Sound
  <2>4. PICK c, e : c = req.ctx /\ e = req'.ctx
    OBVIOUS
  <2>5. Lasting(catalog, e, mods, edges, versions)
    BY <1>3, <1>4, <2>4 DEF Lasting, SameNotes, OlderThan
  <2> QED  BY <1>1, <1>4, <2>1, <2>3, <2>4, <2>5 DEF Packed
<1>5. PICK row : row = [id |-> lastIds.versions + 1, mod |-> Top.mod.id, ext |-> Top.release,
                        name |-> Top.name, md5 |-> Archive(Top.release, made)]
  OBVIOUS
<1>6. /\ row.id = lastIds.versions + 1 /\ row.mod = Top.mod.id /\ row.ext = Top.release
      /\ row.name = Top.name /\ row.md5 = Archive(Top.release, made)
  BY ONLY <1>5
<1>7. CASE /\ req'.pc \in {"returned", "dependencies"}
           /\ versions' = versions \cup {row}
           /\ mods' = {IF m.id = Top.mod.id /\ Top.mod.link \notin Configs
                         THEN Promoted(m) ELSE m : m \in mods}
           /\ UNCHANGED <<edges, files>>
           /\ NotesBut(req.ctx, req'.ctx, {"versions"})
           /\ IF Top.mod.link \in Configs THEN SameNotes(req.ctx, req'.ctx)
              ELSE /\ req'.ctx.createdVersions = req.ctx.createdVersions \cup {row.id}
                   /\ req'.ctx.artifacts = req.ctx.artifacts \cup {<<Top.mod.slug, Top.name>>}
  <2>1. /\ Succeeds(mods, mods') /\ Inherits(mods, mods', versions)
        /\ \A m \in mods' : \E n \in mods : m.id = n.id /\ m.slug = n.slug
    <3>1. PICK f : f = [m \in mods |-> IF m.id = Top.mod.id /\ Top.mod.link \notin Configs
                                         THEN Promoted(m) ELSE m]
      OBVIOUS
    <3>2. mods' = {f[m] : m \in mods}
      BY <1>7, <3>1
    <3>3. \A m \in mods : f[m].id = m.id /\ f[m].slug = m.slug /\ f[m].link = m.link
      BY <3>1 DEF Rows, TablesTyped, ModRows, Promoted
    <3> QED  BY <3>2, <3>3, MappedInherits
  <2>2. \A d \in catalog : d.project # None
    BY ProjectsNamed
  <2>3. Sound(catalog, mods', edges, versions, files)
    BY <1>3, <2>1, <2>2, SoundGrows
  <2>4. MetWith(catalog, row, mods', edges, versions')
    <3>1. MetWith(catalog, row, mods, edges, versions)
      BY <1>1, <1>6, TopRequirements DEF Steady
    <3> QED  BY <1>7, <2>1, <2>2, <3>1, MetGrows
  <2>5. FileFor(row, mods', files)
    <3>1. PICK n \in mods : n.id = Top.mod.id /\ n.slug = Top.mod.slug
      BY <1>2 DEF InPlace
    <3>2. PICK m \in mods' : m.id = n.id /\ m.slug = n.slug
      BY <2>1 DEF Succeeds
    <3> QED  BY <1>3, <1>6, <3>1, <3>2 DEF FileFor
  <2>6. Sound(catalog', mods', edges', versions', files')
    <3>1. ASSUME NEW v \in versions'
          PROVE  FileFor(v, mods', files) /\ MetWith(catalog, v, mods', edges, versions')
      <4>1. CASE v = row
        BY <2>4, <2>5, <4>1
      <4>2. CASE v \in versions
        <5>1. FileFor(v, mods', files) /\ MetWith(catalog, v, mods', edges, versions)
          BY <2>3, <4>2 DEF Sound
        <5> QED  BY <1>7, <5>1 DEF MetWith
      <4> QED  BY <1>7, <4>1, <4>2
    <3> QED  BY <1>1, <1>7, <3>1 DEF Sound
  <2>7. PICK c, e : c = req.ctx /\ e = req'.ctx
    OBVIOUS
  <2>8. Lasting(catalog, c, mods', edges, versions)
    BY <1>3, <2>1, <2>2, <2>7, LastingGrows
  <2>9. CASE Top.mod.link \in Configs
    <3>1. AtTop(catalog, req)
      BY <1>2 DEF Graph, GraphOf
    <3>2. c = NoContext
      BY <1>2, <2>7, <2>9, <3>1 DEF AtTop
    <3>3. c.artifacts = {} /\ c.createdVersions = {}
      BY <3>2 DEF NoContext
    <3>4. Needs(catalog, row.ext) = {}
      BY <1>2, <1>6, <2>9, ProjectsNamed DEF Needs
    <3>5. SameNotes(c, e)
      BY <1>7, <2>7, <2>9
    <3>6. Lasting(catalog, e, mods', edges, versions')
      BY ONLY <1>7, <2>8, <3>3, <3>4, <3>5, LastingUnnoted
    <3> QED  BY <1>1, <1>7, <2>6, <2>7, <3>6 DEF Packed
  <2>10. CASE Top.mod.link \notin Configs
    <3>1. PICK a : a = <<Top.mod.slug, Top.name>>
      OBVIOUS
    <3>2. /\ e.createdVersions = c.createdVersions \cup {row.id}
          /\ e.artifacts = c.artifacts \cup {a} /\ e.edges = c.edges
      BY <1>7, <2>7, <2>10, <3>1 DEF NotesBut
    <3>3. \A v \in versions : v.id # row.id
      <4> SUFFICES ASSUME NEW v \in versions, v.id = row.id
                   PROVE  FALSE
        OBVIOUS
      <4>1. v.id \in Nat /\ lastIds.versions \in Nat /\ v.id <= lastIds.versions
        BY TypesAreNat DEF Rows, TablesTyped, RowsCounted, VersionRows
      <4> QED  BY <1>6, <4>1
    <3>4. \A v \in versions, m \in mods' : m.id = v.mod => <<m.slug, v.name>> # a
      <4> SUFFICES ASSUME NEW v \in versions, NEW m \in mods', m.id = v.mod, <<m.slug, v.name>> = a
                   PROVE  FALSE
        OBVIOUS
      <4>1. m.slug = Top.mod.slug /\ v.name = Top.name
        BY <3>1
      <4>2. PICK k \in mods : m.id = k.id /\ m.slug = k.slug
        BY <2>1
      <4>3. PICK n \in mods : n.id = Top.mod.id /\ n.slug = Top.mod.slug
        BY <1>2 DEF InPlace
      <4>4. k = n
        BY <4>1, <4>2, <4>3 DEF Rows, RowsUnique
      <4> QED  BY <1>3, <4>1, <4>2, <4>3, <4>4
    <3>5. Lasting(catalog, e, mods', edges, versions')
      BY ONLY <1>7, <2>8, <3>2, <3>3, <3>4, LastingNoted
    <3> QED  BY <1>1, <1>7, <2>6, <2>7, <3>5 DEF Packed
  <2> QED  BY <2>9, <2>10
<1> QED  BY <1>2, <1>4, <1>5, <1>6, <1>7, InsertNotes

\* The mods that a rollback keeps, and their links.
Remain(kept, f) ==
  /\ kept = {m \in mods : m.id \in req.ctx.createdMods => ~ Emptied(m.id, versions', edges')}
  /\ mods' = {f[m] : m \in kept}
  /\ \A m \in kept :
       /\ f[m].id = m.id /\ f[m].slug = m.slug
       /\ f[m].link = IF /\ <<m.id, m.link>> \in req.ctx.linked
                         /\ ~ \E v \in versions' : v.mod = m.id
                      THEN None ELSE m.link

LEMMA RollbackDoes ==
  ASSUME Rows, Rollback, ~ (Goes("abandoned") /\ UNCHANGED library)
  PROVE  /\ edges' = edges \ req.ctx.edges /\ versions' = OlderThan(req.ctx, versions)
         /\ Goes("sweep") /\ UNCHANGED <<files, lastIds>>
         /\ \E kept, f : Remain(kept, f)
<1>1. /\ edges' = edges \ req.ctx.edges
      /\ versions' = {v \in versions : v.id \notin req.ctx.createdVersions}
      /\ Goes("sweep") /\ UNCHANGED <<files, lastIds>>
  BY DEF Rollback
<1>2. mods' = {[m EXCEPT !.link = IF /\ <<m.id, m.link>> \in req.ctx.linked
                                     /\ ~ \E v \in versions' : v.mod = m.id
                                  THEN None ELSE @]
               : m \in {n \in mods : n.id \in req.ctx.createdMods =>
                                     ~ Emptied(n.id, versions', edges')}}
  BY ONLY ~ (Goes("abandoned") /\ UNCHANGED library), Rollback DEF Rollback
<1>3. PICK kept : kept = {m \in mods : m.id \in req.ctx.createdMods =>
                                      ~ Emptied(m.id, versions', edges')}
  OBVIOUS
<1>4. PICK f : f = [m \in kept |->
                      [m EXCEPT !.link = IF /\ <<m.id, m.link>> \in req.ctx.linked
                                            /\ ~ \E v \in versions' : v.mod = m.id
                                         THEN None ELSE @]]
  OBVIOUS
<1>5. mods' = {f[m] : m \in kept}
  BY ONLY <1>2, <1>3, <1>4
<1>6. ASSUME NEW m \in kept
      PROVE  /\ f[m].id = m.id /\ f[m].slug = m.slug
             /\ f[m].link = IF /\ <<m.id, m.link>> \in req.ctx.linked
                               /\ ~ \E v \in versions' : v.mod = m.id
                            THEN None ELSE m.link
  <2>1. m \in ModRows
    BY <1>3 DEF Rows, TablesTyped
  <2> QED  BY <1>4, <2>1 DEF ModRows
<1>7. versions' = OlderThan(req.ctx, versions)
  BY <1>1 DEF OlderThan
<1>8. Remain(kept, f)
  BY ONLY <1>3, <1>5, <1>6 DEF Remain
<1> QED  BY <1>1, <1>7, <1>8

\* A rollback takes nothing that an older version needs.
LEMMA RollbackFounded ==
  ASSUME Rows, Founded, Rollback
  PROVE  Founded'
<1>1. UNCHANGED <<catalog, made, whole>>
  BY DEF Rollback, Step, history
<1>2. CASE Goes("abandoned") /\ UNCHANGED library
  <2>1. req'.ctx = req.ctx /\ req'.pc = "abandoned"
    BY <1>2, GoesNotes
  <2>2. UNCHANGED <<mods, versions, edges, files>>
    BY <1>2 DEF library
  <2>3. Adding
    BY <1>1, <2>1, <2>2, SameMods DEF Adding
  <2> QED  BY <2>3, AddingFounded
<1>3. CASE ~ (Goes("abandoned") /\ UNCHANGED library) /\ whole
  <2>1. PICK c, es, vs : c = req.ctx /\ es = edges \ c.edges /\ vs = OlderThan(c, versions)
    OBVIOUS
  <2>2. edges' = es /\ versions' = vs /\ Goes("sweep") /\ UNCHANGED <<files, lastIds>>
    BY <1>3, <2>1, RollbackDoes
  <2>3. PICK kept, f : Remain(kept, f)
    BY <1>3, RollbackDoes
  <2>4. /\ kept = {m \in mods : m.id \in c.createdMods => ~ Emptied(m.id, vs, es)}
        /\ mods' = {f[m] : m \in kept}
    BY <2>1, <2>2, <2>3 DEF Remain
  <2>5. \A m \in kept :
          /\ f[m].id = m.id /\ f[m].slug = m.slug
          /\ f[m].link = IF /\ <<m.id, m.link>> \in c.linked
                            /\ ~ \E v \in vs : v.mod = m.id
                         THEN None ELSE m.link
    BY <2>1, <2>2, <2>3 DEF Remain
  <2>6. req'.ctx = c /\ req'.pc = "sweep"
    BY <2>1, <2>2, GoesNotes
  \* A mod with a version that stays is kept as it is.
  <2>7. ASSUME NEW m \in mods, NEW v \in vs, v.mod = m.id
        PROVE  \E n \in mods' : n.id = m.id /\ n.slug = m.slug /\ n.link = m.link
    <3>1. m \in kept
      BY <2>4, <2>7 DEF Emptied
    <3> QED  BY <2>4, <2>5, <2>7, <3>1
  <2>8. Inherits(mods, mods', versions)
    <3>1. \A m \in kept : m \in mods
      BY <2>4
    <3>2. \A m \in kept : f[m].id = m.id /\ f[m].slug = m.slug
      BY <2>5
    <3> QED  BY ONLY <2>4, <3>1, <3>2 DEF Inherits
  <2>9. /\ Sound(catalog, mods, edges, versions, files)
        /\ Lasting(catalog, c, mods, edges, versions)
    BY <1>3, <2>1 DEF Founded
  <2>10. vs \subseteq versions /\ OlderThan(c, vs) = vs /\ es \ c.edges = es
    BY <2>1 DEF OlderThan
  <2>11. \A v \in vs : FileFor(v, mods', files)
    <3> SUFFICES ASSUME NEW v \in vs
                 PROVE  FileFor(v, mods', files)
      OBVIOUS
    <3>1. FileFor(v, mods, files)
      BY <2>9, <2>10 DEF Sound
    <3>2. PICK x \in files, m \in mods :
            m.id = v.mod /\ x.slug = m.slug /\ x.name = v.name /\ x.md5 = v.md5
      BY <3>1 DEF FileFor
    <3>3. PICK n \in mods' : n.id = m.id /\ n.slug = m.slug
      BY <2>7, <3>2
    <3> QED  BY <3>2, <3>3 DEF FileFor
  <2>12. \A v \in vs : MetWith(catalog, v, mods', es, vs)
    <3> SUFFICES ASSUME NEW v \in vs, NEW d \in Needs(catalog, v.ext)
                 PROVE  \E n \in mods' : /\ n.link = d.project
                                         /\ <<v.mod, n.id>> \in es
                                         /\ \E w \in vs : w.mod = n.id /\ d.pin \in {None, w.ext}
      BY DEF MetWith
    <3>1. MetWith(catalog, v, mods, es, vs)
      BY <2>1, <2>9 DEF Lasting
    <3>2. PICK m \in mods : /\ m.link = d.project
                            /\ <<v.mod, m.id>> \in es
                            /\ \E w \in vs : w.mod = m.id /\ d.pin \in {None, w.ext}
      BY <3>1 DEF MetWith
    <3>3. PICK w \in vs : w.mod = m.id /\ d.pin \in {None, w.ext}
      BY <3>2
    <3>4. PICK n \in mods' : n.id = m.id /\ n.link = m.link
      BY <2>7, <3>3
    <3> QED  BY <3>2, <3>3, <3>4
  <2>13. \A v \in vs, m \in mods' : m.id = v.mod => <<m.slug, v.name>> \notin c.artifacts
    BY <2>1, <2>8, <2>9, <2>10 DEF Inherits, Lasting
  <2>14. Sound(catalog', mods', edges', versions', files')
    BY <1>1, <2>2, <2>11, <2>12 DEF Sound
  <2>15. Lasting(catalog', req'.ctx, mods', edges', versions')
    BY <1>1, <2>2, <2>6, <2>10, <2>12, <2>13 DEF Lasting
  <2> QED  BY <2>2, <2>6, <2>10, <2>14, <2>15 DEF Founded, Packed
<1>4. CASE ~ whole
  BY <1>1, <1>4 DEF Founded
<1> QED  BY <1>2, <1>3, <1>4

\* A sweep deletes no file of a version that stayed.
LEMMA SweepFounded ==
  ASSUME Rows, Founded, Sweep
  PROVE  Founded'
<1>1. /\ UNCHANGED <<catalog, made, whole, mods, versions, edges>> /\ req.pc = "sweep"
      /\ files' = {x \in files : <<x.slug, x.name>> \notin req.ctx.artifacts}
  BY DEF Sweep, Step, history
<1>2. req'.ctx = req.ctx /\ req'.pc = "failed"
  BY GoesNotes DEF Sweep
<1> SUFFICES ASSUME whole
             PROVE  Sound(catalog, mods, edges, versions, files')
                    /\ Lasting(catalog, req.ctx, mods, edges, versions)
  BY <1>1, <1>2 DEF Founded, Packed
<1>3. /\ Sound(catalog, mods, edges, versions, files)
      /\ Lasting(catalog, req.ctx, mods, edges, versions)
      /\ OlderThan(req.ctx, versions) = versions
  BY <1>1 DEF Founded
<1>4. ASSUME NEW v \in versions
      PROVE  FileFor(v, mods, files')
  <2>1. PICK x \in files, m \in mods :
          m.id = v.mod /\ x.slug = m.slug /\ x.name = v.name /\ x.md5 = v.md5
    BY <1>3 DEF Sound, FileFor
  <2>2. <<m.slug, v.name>> \notin req.ctx.artifacts
    BY <1>3, <2>1 DEF Lasting
  <2> QED  BY <1>1, <2>1, <2>2 DEF FileFor
<1> QED  BY <1>3, <1>4 DEF Sound

\* A request that begins, or has gone, has noted nothing.
LEMMA NothingNoted ==
  ASSUME Founded, UNCHANGED <<catalog, mods, versions, edges, files>>, whole' => whole,
         req'.ctx = NoContext, req'.pc \notin {"insert", "sweep"}
  PROVE  Founded'
<1> SUFFICES ASSUME whole
             PROVE  Lasting(catalog, req'.ctx, mods, edges, versions)
                    /\ Sound(catalog, mods, edges, versions, files)
  BY DEF Founded, Packed
<1>1. Sound(catalog, mods, edges, versions, files)
  BY DEF Founded
<1>2. PICK c : c = req'.ctx
  OBVIOUS
<1>3. c.createdVersions = {} /\ c.edges = {} /\ c.artifacts = {}
  BY <1>2 DEF NoContext
<1>4. OlderThan(c, versions) = versions /\ edges \ c.edges = edges
  BY <1>3 DEF OlderThan
<1>5. Lasting(catalog, c, mods, edges, versions)
  BY <1>1, <1>3, <1>4 DEF Sound, Lasting
<1> QED  BY <1>1, <1>2, <1>5

LEMMA FoundedStep ==
  ASSUME Rows, Graph, Settled, Founded, [Next]_vars
  PROVE  Founded'
<1>1. CASE UNCHANGED vars
  <2>1. UNCHANGED <<catalog, mods, versions, edges, files, req, made, whole>>
    BY <1>1 DEF vars, library, history
  <2> QED  BY <2>1 DEF Founded, Packed, Top
<1>2. CASE Next
  <2>1. CASE Starting
    <3>1. UNCHANGED <<catalog, library, whole>> /\ req'.ctx = NoContext
          /\ req'.pc \notin {"insert", "sweep"}
      BY <2>1, StartingStep
    <3> QED  BY <3>1, NothingNoted DEF library
  <2>2. CASE Answer \/ Crash
    <3>1. UNCHANGED <<catalog, library, whole>> /\ req' = Idle
      BY <2>2, EndingStep
    <3>2. req'.ctx = NoContext /\ req'.pc \notin {"insert", "sweep"}
      BY <3>1 DEF Idle, Request
    <3> QED  BY <3>1, <3>2, NothingNoted DEF library
  <2>3. CASE Editing
    <3>1. CASE whole'
      BY <2>3, <3>1, EditsAdd, AddingFounded
    <3>2. CASE ~ whole'
      BY <3>2 DEF Founded
    <3> QED  BY <3>1, <3>2
  <2>4. CASE Stepping
    BY <2>4, QuietAdds, OthersAdd, AddingFounded, MoveFilesFounded, InsertFounded,
       RollbackFounded, SweepFounded DEF Stepping
  <2> QED  BY <1>2, <2>1, <2>2, <2>3, <2>4, NextIs
<1> QED  BY <1>1, <1>2

\* At every moment, after a crash and with a failed compensation too, a stored
\* release finds its file as it was packed, and its requirements stored and
\* declared before it, as long as nobody took something out of the library
\* (the order of _materialize).
THEOREM RequirementsFirst == Spec => []DependenciesFirst
<1> DEFINE Inv == Rows /\ Graph /\ Settled
<1>1. Init => Founded
  <2> SUFFICES ASSUME Init
               PROVE  Founded
    OBVIOUS
  <2>1. versions = {} /\ req.pc = "idle"
    BY DEF Init, Idle, Request
  <2> QED  BY <2>1 DEF Founded, Sound, Lasting, OlderThan, Packed
<1>2. Inv /\ Founded /\ [Next]_vars => Founded'
  BY FoundedStep
<1>3. Founded => DependenciesFirst
  <2> SUFFICES ASSUME Founded, whole, NEW v \in versions
               PROVE  /\ \E x \in files, m \in mods :
                           m.id = v.mod /\ x.slug = m.slug /\ x.name = v.name /\ x.md5 = v.md5
                      /\ \A d \in Required(v.ext) : \E n \in Linked(d.project) :
                           /\ <<v.mod, n.id>> \in edges
                           /\ \E w \in versions : w.mod = n.id /\ d.pin \in {None, w.ext}
    BY DEF DependenciesFirst
  <2>1. FileFor(v, mods, files) /\ MetWith(catalog, v, mods, edges, versions)
    BY DEF Founded, Sound
  <2>2. Required(v.ext) = Needs(catalog, v.ext)
    BY DEF Required, Needs
  <2>3. ASSUME NEW d \in Required(v.ext)
        PROVE  \E n \in Linked(d.project) :
                 /\ <<v.mod, n.id>> \in edges
                 /\ \E w \in versions : w.mod = n.id /\ d.pin \in {None, w.ext}
    BY <2>1, <2>2, <2>3 DEF MetWith, Linked
  <2> QED  BY <2>1, <2>3 DEF FileFor
<1>4. Spec => []Inv
  BY RowsGraphSettled
<1> HIDE DEF Inv
<1> QED  BY <1>1, <1>2, <1>3, <1>4, PTL DEF Spec

-----------------------------------------------------------------------------
(* The steps keep what a rollback needs                                    *)

\* The same mods but for their types.
LEMMA SameUntyped ==
  ASSUME NEW M, NEW B, M \subseteq ModRows, B \subseteq ModRows,
         \A m \in M : \E b \in B : b.id = m.id /\ b.slug = m.slug /\ b.link = m.link,
         \A b \in B : \E m \in M : b.id = m.id /\ b.slug = m.slug /\ b.link = m.link
  PROVE  Untyped(M) = Untyped(B)
<1>1. ASSUME NEW m \in ModRows, NEW b \in ModRows,
             b.id = m.id /\ b.slug = m.slug /\ b.link = m.link
      PROVE  [m EXCEPT !.type = "MOD"] = [b EXCEPT !.type = "MOD"]
  BY <1>1 DEF ModRows
<1>2. ASSUME NEW S, NEW T, S \subseteq ModRows, T \subseteq ModRows,
             \A m \in S : \E b \in T : b.id = m.id /\ b.slug = m.slug /\ b.link = m.link
      PROVE  Untyped(S) \subseteq Untyped(T)
  <2> SUFFICES ASSUME NEW x \in Untyped(S)
               PROVE  x \in Untyped(T)
    OBVIOUS
  <2>1. PICK m \in S : x = [m EXCEPT !.type = "MOD"]
    BY DEF Untyped
  <2>2. PICK b \in T : b.id = m.id /\ b.slug = m.slug /\ b.link = m.link
    BY <1>2
  <2>3. [m EXCEPT !.type = "MOD"] = [b EXCEPT !.type = "MOD"]
    BY <1>1, <1>2, <2>2
  <2> QED  BY <2>1, <2>2, <2>3 DEF Untyped
<1>3. Untyped(M) \subseteq Untyped(B)
  BY <1>2
<1>4. Untyped(B) \subseteq Untyped(M)
  BY <1>2
<1> QED  BY <1>3, <1>4

\* A request that has noted nothing has changed nothing.
LEMMA NothingChanged ==
  ASSUME NEW M, NEW B, M \subseteq ModRows, B.mods \subseteq ModRows,
         \A m, n \in B.mods : m.id = n.id => m = n,
         NEW c, ~ Changed(c), ModsKept(B, c, M)
  PROVE  Untyped(M) = Untyped(B.mods)
<1>1. c.createdMods = {} /\ c.linked = {}
  BY DEF Changed
<1>2. \A m \in M : \E b \in B.mods : b.id = m.id /\ b.slug = m.slug /\ b.link = m.link
  BY <1>1 DEF ModsKept
<1>3. ASSUME NEW b \in B.mods
      PROVE  \E m \in M : b.id = m.id /\ b.slug = m.slug /\ b.link = m.link
  <2>1. PICK m \in M : m.id = b.id /\ m.slug = b.slug
    BY DEF ModsKept
  <2>2. PICK a \in B.mods : a.id = m.id /\ a.slug = m.slug /\ a.link = m.link
    BY <1>2
  <2>3. a = b
    BY <2>1, <2>2
  <2> QED  BY <2>1, <2>2, <2>3
<1> QED  BY <1>2, <1>3, SameUntyped

\* The library as it was, but for what has been noted.
LEMMA ModsKeptSame ==
  ASSUME NEW B, NEW c, NEW e, NEW M, NEW N,
         e.createdMods = c.createdMods, e.linked = c.linked,
         \A n \in N : \E m \in M : n.id = m.id /\ n.slug = m.slug /\ n.link = m.link,
         \A m \in M : \E n \in N : n.id = m.id /\ n.slug = m.slug,
         ModsKept(B, c, M)
  PROVE  ModsKept(B, e, N)
<1>1. ASSUME NEW n \in N, n.id \notin e.createdMods
      PROVE  \E b \in B.mods :
               /\ b.id = n.id /\ b.slug = n.slug
               /\ \/ b.link = n.link /\ <<n.id, n.link>> \notin e.linked
                  \/ b.link = None /\ <<n.id, n.link>> \in e.linked
  <2>1. PICK m \in M : n.id = m.id /\ n.slug = m.slug /\ n.link = m.link
    OBVIOUS
  <2> QED  BY <1>1, <2>1 DEF ModsKept
<1>2. ASSUME NEW b \in B.mods
      PROVE  /\ b.id \notin e.createdMods
             /\ \E n \in N : n.id = b.id /\ n.slug = b.slug
  <2>1. PICK m \in M : m.id = b.id /\ m.slug = b.slug
    BY DEF ModsKept
  <2> QED  BY <2>1 DEF ModsKept
<1>3. \A i \in e.createdMods :
        /\ \A v \in B.versions : v.mod # i
        /\ \A x \in B.edges : x[1] # i /\ x[2] # i
  BY DEF ModsKept
<1> QED  BY <1>1, <1>2, <1>3 DEF ModsKept

LEMMA ModsKeptLinked ==
  ASSUME Rows, NEW B, NEW c, NEW e, NEW n \in mods, n.link = None, NEW p,
         NEW k, k.id = n.id, k.slug = n.slug, k.link = p,
         NEW N, N = (mods \ {n}) \cup {k},
         e.createdMods = c.createdMods, e.linked = c.linked \cup {<<n.id, p>>},
         ModsKept(B, c, mods)
  PROVE  ModsKept(B, e, N)
<1>1. k.id = n.id /\ k.slug = n.slug /\ k.link = p /\ N = (mods \ {n}) \cup {k}
  OBVIOUS
<1>2. ASSUME NEW m \in N, m.id \notin e.createdMods
      PROVE  \E b \in B.mods :
               /\ b.id = m.id /\ b.slug = m.slug
               /\ \/ b.link = m.link /\ <<m.id, m.link>> \notin e.linked
                  \/ b.link = None /\ <<m.id, m.link>> \in e.linked
  <2>1. CASE m = k
    <3>1. PICK b \in B.mods : b.id = n.id /\ b.slug = n.slug /\ b.link = None
      BY <1>1, <1>2, <2>1 DEF ModsKept
    <3> QED  BY <1>1, <2>1, <3>1
  <2>2. CASE m \in mods /\ m # n
    <3>1. m.id # n.id
      BY <2>2 DEF Rows, RowsUnique
    <3>2. <<m.id, m.link>> \in e.linked <=> <<m.id, m.link>> \in c.linked
      BY <3>1
    <3> QED  BY <1>2, <2>2, <3>2 DEF ModsKept
  <2> QED  BY <1>1, <2>1, <2>2
<1>3. ASSUME NEW b \in B.mods
      PROVE  /\ b.id \notin e.createdMods
             /\ \E m \in N : m.id = b.id /\ m.slug = b.slug
  <2>1. PICK m \in mods : m.id = b.id /\ m.slug = b.slug
    BY DEF ModsKept
  <2> QED  BY <1>1, <2>1 DEF ModsKept
<1> QED  BY <1>2, <1>3 DEF ModsKept

LEMMA ModsKeptCreated ==
  ASSUME Rows, NEW c, NEW e, NEW row, row.id = lastIds.mods + 1,
         NEW N, N = mods \cup {row},
         e.createdMods = c.createdMods \cup {row.id}, e.linked = c.linked,
         ModsKept(before, c, mods)
  PROVE  ModsKept(before, e, N)
<1>1. /\ lastIds.mods \in Nat
      /\ \A m \in before.mods : m.id \in Nat /\ m.id <= lastIds.mods
      /\ \A v \in before.versions : v.mod \in Nat /\ v.mod <= lastIds.mods
      /\ \A x \in before.edges : /\ x[1] \in Nat /\ x[2] \in Nat
                                 /\ x[1] <= lastIds.mods /\ x[2] <= lastIds.mods
  <2>1. BeforeOK /\ lastIds \in [mods : 0..MaxMod, versions : 0..MaxVersion]
        /\ ModIds \subseteq Nat /\ MaxMod \in Nat
    BY TypesAreNat DEF Rows, TablesTyped
  <2>2. lastIds.mods \in Nat
    BY <2>1
  <2>3. \A m \in before.mods : m.id \in Nat /\ m.id <= lastIds.mods
    BY ONLY <2>1 DEF BeforeOK, ModRows
  <2>4. \A v \in before.versions : v.mod \in Nat /\ v.mod <= lastIds.mods
    BY ONLY <2>1 DEF BeforeOK, VersionRows
  <2>5. \A x \in before.edges : /\ x[1] \in Nat /\ x[2] \in Nat
                                /\ x[1] <= lastIds.mods /\ x[2] <= lastIds.mods
    BY ONLY <2>1 DEF BeforeOK
  <2> QED  BY <2>2, <2>3, <2>4, <2>5
<1>2. /\ \A m \in before.mods : m.id # row.id
      /\ \A v \in before.versions : v.mod # row.id
      /\ \A x \in before.edges : x[1] # row.id /\ x[2] # row.id
  <2>1. \A i \in Nat : i <= lastIds.mods => i # row.id
    BY <1>1
  <2> QED  BY <1>1, <2>1
<1> QED  BY <1>2 DEF ModsKept

\* What makes Kept true until the request ends.
Keeping ==
  /\ Aimed /\ req.pc # "sweep"
  /\ req.pc = "failed" => ~ Changed(req.ctx)
  /\ req.pc # "returned" =>
       /\ RestKept(before, req.ctx, versions, edges, files, req.ctx.artifacts \cup Pending)
       /\ ModsKept(before, req.ctx, mods)

LEMMA KeptIf == Rows /\ Keeping => Kept
<1> SUFFICES ASSUME Rows, Keeping
             PROVE  Kept
  OBVIOUS
<1>1. CASE req.pc = "failed"
  <2>1. PICK c : c = req.ctx
    OBVIOUS
  <2>2. /\ ~ Changed(c) /\ ModsKept(before, c, mods)
        /\ RestKept(before, c, versions, edges, files, c.artifacts \cup Pending)
    BY <1>1, <2>1 DEF Keeping
  <2>3. c.artifacts = {} /\ c.createdVersions = {} /\ c.edges = {} /\ Pending = {}
    BY <1>1, <2>2 DEF Changed, Pending
  <2>4. versions = before.versions /\ edges = before.edges /\ \A x \in files : x \in before.files
    BY <2>2, <2>3 DEF RestKept, OlderThan
  <2>5. BeforeOK /\ mods \subseteq ModRows
    BY DEF Rows, TablesTyped
  <2>6. Untyped(mods) = Untyped(before.mods)
    BY <2>2, <2>5, NothingChanged DEF BeforeOK
  <2> QED  BY <1>1, <2>4, <2>6 DEF Kept, Working, BackExcept
<1>2. CASE req.pc # "failed"
  BY <1>2 DEF Kept, Keeping, Working
<1> QED  BY <1>1, <1>2

LEMMA KeptNow ==
  ASSUME Rows', Keeping'
  PROVE  Kept'
BY KeptIf, PTL

\* A request that raises without a rollback has noted nothing.
LEMMA RaisesUnchanged ==
  ASSUME Rows, Raises
  PROVE  /\ req'.ctx = req.ctx /\ req'.pc \in {"rollback", "failed"}
         /\ req'.pc = "failed" => ~ Changed(req'.ctx)
<1>1. req.kind = "import" => req.ctx = NoContext
  BY DEF Rows, RequestOK, RequestAt, Shaped
<1>2. ~ Changed(NoContext)
  BY DEF Changed, NoContext
<1> QED  BY <1>1, <1>2, RaisesNotes

\* What holds of an undisturbed request while it works.
LEMMA KeptSoFar ==
  ASSUME Kept, calm, Working
  PROVE  /\ RestKept(before, req.ctx, versions, edges, files, req.ctx.artifacts \cup Pending)
         /\ ModsKept(before, req.ctx, mods)
         /\ Aimed
BY DEF Kept

\* A step that changes mods and dependencies at most, and notes what it changes.
LEMMA RestKeptOn ==
  ASSUME NEW B, NEW c, NEW e, e.createdVersions = c.createdVersions, e.artifacts = c.artifacts,
         NEW V, NEW E, NEW D, D \ e.edges = E \ c.edges, NEW F, NEW G, G \subseteq F,
         NEW Q, RestKept(B, c, V, E, F, c.artifacts \cup {}),
         e.artifacts \subseteq Q
  PROVE  RestKept(B, e, V, D, G, Q)
<1>1. OlderThan(e, V) = OlderThan(c, V)
  BY DEF OlderThan
<1> QED  BY <1>1 DEF RestKept

LEMMA OnwardKept ==
  ASSUME Rows, Kept, calm, Working, req.pc # "insert",
         Rows', UNCHANGED <<before, versions>>, files' \subseteq files,
         edges' \ req'.ctx.edges = edges \ req.ctx.edges,
         req'.ctx.createdVersions = req.ctx.createdVersions,
         req'.ctx.artifacts = req.ctx.artifacts,
         ModsKept(before, req.ctx, mods) => ModsKept(before, req'.ctx, mods'),
         req'.pc \notin {"sweep"}, Aimed',
         req'.pc = "failed" => ~ Changed(req'.ctx)
  PROVE  Kept'
<1>1. PICK c, e, Q : c = req.ctx /\ e = req'.ctx /\ Q = req'.ctx.artifacts \cup Pending'
  OBVIOUS
<1>2. RestKept(before, c, versions, edges, files, c.artifacts \cup {})
      /\ ModsKept(before, c, mods)
  BY <1>1, KeptSoFar DEF Pending
<1>3. e.artifacts \subseteq Q /\ edges' \ e.edges = edges \ c.edges
      /\ e.createdVersions = c.createdVersions /\ e.artifacts = c.artifacts
  BY <1>1
<1>4. RestKept(before, e, versions, edges', files', Q)
  BY ONLY <1>2, <1>3, files' \subseteq files, RestKeptOn
<1>5. ModsKept(before, e, mods')
  BY <1>1, <1>2
<1>6. Keeping'
  BY <1>1, <1>4, <1>5 DEF Keeping
<1> QED  BY <1>6, KeptNow

\* Lookup aims at a mod that is free, for a project without one.
LEMMA LookupAims ==
  ASSUME Rows, Lookup
  PROVE  Aimed'
<1> SUFFICES ASSUME req'.pc = "link"
             PROVE  /\ \E m \in mods' : m.id = req'.target /\ m.link = None /\ m.slug = req'.need
                    /\ {m \in mods' : m.link = req'.need} = {}
  BY DEF Aimed, Linked
<1>1. req \in Requests /\ req.ctx \in Contexts /\ mods' = mods
      /\ req.kind \in {"import", "bootstrap", "materialize"}
  BY ContextNow, KindOfStep DEF Lookup, library
<1>2. ~ Raises
  BY RaisesNotes
<1>3. ~ \E m : Resolved(m, req.ctx)
  BY <1>1, ResolvedNotes
<1>4. ~ Goes("create")
  BY GoesNotes
<1>5. PICK m : m = Only(Named(req.need))
  OBVIOUS
<1>6. /\ Linked(req.need) = {} /\ Named(req.need) # {} /\ m.link = None
      /\ req' = [req EXCEPT !.pc = "link", !.target = m.id]
  BY <1>2, <1>3, <1>4, <1>5 DEF Lookup
<1>7. m \in mods /\ m.slug = req.need
  BY <1>5, <1>6, OnlyIn DEF Named
<1>8. req'.target = m.id /\ req'.need = req.need
  BY <1>1, <1>6 DEF Requests
<1> QED  BY <1>1, <1>6, <1>7, <1>8 DEF Linked

LEMMA QuietKept ==
  ASSUME Rows, Graph, Kept, calm, Rows',
         Lookup \/ NextBootstrap \/ Enter \/ NextDependency \/ Choose \/ SetRoles
  PROVE  Kept'
<1>1. UNCHANGED <<catalog, versions, edges, files, before>> /\ Working /\ req.pc # "insert"
  BY DEF Lookup, NextBootstrap, Enter, NextDependency, Choose, SetRoles, Step, history,
         library, Fails, Working
<1>2. SameNotes(req.ctx, req'.ctx) /\ req'.pc # "sweep" /\ (Lookup \/ req'.pc # "link")
      /\ (req'.pc = "failed" => Raises)
  BY QuietNotes
<1>3. req'.pc = "failed" => ~ Changed(req'.ctx)
  BY <1>2, RaisesUnchanged
<1>4. Aimed'
  BY <1>2, LookupAims DEF Aimed
<1>5. PICK c, e : c = req.ctx /\ e = req'.ctx
  OBVIOUS
<1>6. /\ \A n \in mods' : \E m \in mods : n.id = m.id /\ n.slug = m.slug /\ n.link = m.link
      /\ \A m \in mods : \E n \in mods' : n.id = m.id /\ n.slug = m.slug
  <2>1. CASE UNCHANGED mods
    BY <2>1
  <2>2. CASE mods' = {[m EXCEPT !.type = IF m.id \in req.have THEN "BOOTSTRAP" ELSE @] : m \in mods}
    <3>1. PICK f : f = [m \in mods |-> [m EXCEPT !.type = IF m.id \in req.have THEN "BOOTSTRAP" ELSE @]]
      OBVIOUS
    <3>2. mods' = {f[m] : m \in mods}
      BY <2>2, <3>1
    <3>3. \A m \in mods : f[m].id = m.id /\ f[m].slug = m.slug /\ f[m].link = m.link
      BY <3>1 DEF Rows, TablesTyped, ModRows
    <3> QED  BY <3>2, <3>3
  <2> QED
    BY <2>1, <2>2 DEF Lookup, NextBootstrap, Enter, NextDependency, Choose, SetRoles,
                      library, Fails
<1>7. ModsKept(before, c, mods) => ModsKept(before, e, mods')
  <2>1. e.createdMods = c.createdMods /\ e.linked = c.linked
    BY <1>2, <1>5 DEF SameNotes
  <2> QED  BY ONLY <1>6, <2>1, ModsKeptSame
<1> QED  BY <1>1, <1>2, <1>3, <1>4, <1>5, <1>7, OnwardKept DEF SameNotes

\* The request has all it asked for: nothing is left to keep.
LEMMA ReturnedKept ==
  ASSUME Rows', req'.pc = "returned"
  PROVE  Kept'
<1>1. Keeping'
  BY DEF Keeping, Aimed
<1> QED  BY <1>1, KeptNow

LEMMA LinkKept ==
  ASSUME Rows, Kept, calm, Rows', Link
  PROVE  Kept'
<1>1. UNCHANGED <<catalog, before>> /\ Working /\ req.pc = "link"
  BY DEF Link, Step, history, Working
<1>2. /\ NotesBut(req.ctx, req'.ctx, {"linked"})
      /\ UNCHANGED <<versions, edges, files, lastIds>>
  BY LinkNotes
<1>3. /\ \E m \in mods : m.id = req.target /\ m.link = None
      /\ Linked(req.need) = {}
  BY <1>1, KeptSoFar DEF Aimed
<1>4. CASE UNCHANGED mods /\ Raises
  <2>1. /\ req'.ctx = req.ctx /\ req'.pc \in {"rollback", "failed"}
        /\ req'.pc = "failed" => ~ Changed(req'.ctx)
    BY <1>4, RaisesUnchanged
  <2>2. Aimed'
    BY <2>1 DEF Aimed
  <2> QED  BY <1>1, <1>2, <1>4, <2>1, <2>2, OnwardKept
<1>5. CASE req'.pc = "returned"
  BY <1>5, ReturnedKept
<1>6. ASSUME NEW n \in mods, n.link = None, Located,
             mods' = (mods \ {n}) \cup {[n EXCEPT !.link = req.need]},
             req'.ctx.linked = req.ctx.linked \cup {<<n.id, req.need>>}
      PROVE  Kept'
  <2>1. PICK c, e, p : c = req.ctx /\ e = req'.ctx /\ p = req.need
    OBVIOUS
  <2>2. PICK k : k = [n EXCEPT !.link = p]
    OBVIOUS
  <2>3. k.id = n.id /\ k.slug = n.slug /\ k.link = p
    BY <2>2 DEF Rows, TablesTyped, ModRows
  <2>4. /\ e.createdMods = c.createdMods /\ e.linked = c.linked \cup {<<n.id, p>>}
        /\ mods' = (mods \ {n}) \cup {k}
        /\ e.createdVersions = c.createdVersions /\ e.artifacts = c.artifacts
        /\ e.edges = c.edges
    BY <1>2, <1>6, <2>1, <2>2 DEF NotesBut
  <2>5. ModsKept(before, c, mods) => ModsKept(before, e, mods')
    BY ONLY Rows, n \in mods, n.link = None, <2>4, <2>3, ModsKeptLinked
  <2>6. Aimed' /\ req'.pc \notin {"sweep", "failed"}
    BY <1>6 DEF Aimed, Located
  <2> QED  BY <1>1, <1>2, <2>1, <2>4, <2>5, <2>6, OnwardKept
<1> QED  BY <1>3, <1>4, <1>5, <1>6, LinkNotes

LEMMA CreateKept ==
  ASSUME Rows, Kept, calm, Rows', Create
  PROVE  Kept'
<1>1. UNCHANGED <<catalog, before>> /\ Working /\ req.pc = "create"
  BY DEF Create, Step, history, Working
<1>2. /\ NotesBut(req.ctx, req'.ctx, {"createdMods"})
      /\ UNCHANGED <<versions, edges, files>>
  BY CreateNotes
<1>3. PICK c, e : c = req.ctx /\ e = req'.ctx
  OBVIOUS
<1>4. ASSUME Aimed', req'.pc # "sweep", req'.pc = "failed" => ~ Changed(req'.ctx),
             ModsKept(before, c, mods) => ModsKept(before, e, mods')
      PROVE  Kept'
  BY <1>1, <1>2, <1>3, <1>4, OnwardKept DEF NotesBut
<1>5. CASE UNCHANGED mods /\ Raises
  <2>1. /\ req'.ctx = req.ctx /\ req'.pc \in {"rollback", "failed"}
        /\ req'.pc = "failed" => ~ Changed(req'.ctx)
    BY <1>5, RaisesUnchanged
  <2>2. Aimed'
    BY <2>1 DEF Aimed
  <2> QED  BY <1>3, <1>4, <1>5, <2>1, <2>2
<1>6. CASE UNCHANGED mods /\ Located /\ req'.ctx.createdMods = req.ctx.createdMods
  <2>1. e.createdMods = c.createdMods /\ e.linked = c.linked
    BY <1>2, <1>3, <1>6 DEF NotesBut
  <2>2. ModsKept(before, c, mods) => ModsKept(before, e, mods')
    BY <1>6, <2>1, ModsKeptSame
  <2>3. Aimed' /\ req'.pc \notin {"sweep", "failed"}
    BY <1>6 DEF Aimed, Located
  <2> QED  BY <1>4, <2>2, <2>3
<1>7. CASE req'.pc = "returned"
  BY <1>7, ReturnedKept
<1>8. CASE /\ Located
           /\ mods' = mods \cup {[id |-> lastIds.mods + 1, slug |-> req.need,
                                  link |-> req.need, type |-> "MOD"]}
           /\ req'.ctx.createdMods = req.ctx.createdMods \cup {lastIds.mods + 1}
  <2>1. PICK row : row = [id |-> lastIds.mods + 1, slug |-> req.need,
                          link |-> req.need, type |-> "MOD"]
    OBVIOUS
  <2>2. /\ row.id = lastIds.mods + 1 /\ mods' = mods \cup {row}
        /\ e.createdMods = c.createdMods \cup {row.id} /\ e.linked = c.linked
    BY <1>2, <1>3, <1>8, <2>1 DEF NotesBut
  <2>3. ModsKept(before, c, mods) => ModsKept(before, e, mods')
    BY ONLY Rows, <2>2, ModsKeptCreated
  <2>4. Aimed' /\ req'.pc \notin {"sweep", "failed"}
    BY <1>8 DEF Aimed, Located
  <2> QED  BY <1>4, <2>3, <2>4
<1> QED  BY <1>5, <1>6, <1>7, <1>8, CreateNotes

LEMMA DeclareKept ==
  ASSUME Rows, Kept, calm, Rows', Declare
  PROVE  Kept'
<1>1. UNCHANGED <<catalog, before>> /\ Working /\ req.pc = "dependencies"
  BY DEF Declare, Step, history, Working
<1>2. /\ NotesBut(req.ctx, req'.ctx, {"edges"})
      /\ UNCHANGED <<mods, versions, files>>
      /\ req'.pc \in {"returned", "dependencies", "files"} \/ Raises
  BY DeclareNotes
<1>3. PICK c, e : c = req.ctx /\ e = req'.ctx
  OBVIOUS
<1>4. ModsKept(before, c, mods) => ModsKept(before, e, mods')
  <2>1. e.createdMods = c.createdMods /\ e.linked = c.linked
    BY <1>2, <1>3 DEF NotesBut
  <2> QED  BY <1>2, <2>1, ModsKeptSame
<1>5. edges' \ e.edges = edges \ c.edges
  BY <1>3, DeclareNotes
<1>6. Aimed' /\ req'.pc # "sweep" /\ (req'.pc = "failed" => ~ Changed(req'.ctx))
  BY <1>2, RaisesUnchanged DEF Aimed
<1> QED  BY <1>1, <1>2, <1>3, <1>4, <1>5, <1>6, OnwardKept DEF NotesBut

\* A file that was moved into place is pending until it has its row.
LEMMA MoveFilesKept ==
  ASSUME Rows, Graph, Settled, Kept, calm, Rows', MoveFiles
  PROVE  Kept'
<1>1. UNCHANGED <<catalog, before>> /\ Working /\ req.pc = "files"
  BY DEF MoveFiles, Step, history, Working
<1>2. SameNotes(req.ctx, req'.ctx) /\ UNCHANGED <<mods, versions, edges, lastIds>>
  BY MoveFilesNotes
<1>3. PICK f : f = [Top EXCEPT !.name = LocalName(Top.mod.id, Top.release)]
  OBVIOUS
<1>4. Top \in Frames /\ Stored(Top.mod.id, Top.release) = {}
  BY <1>1, TopToFile, NotStored DEF Steady
<1>5. f.mod = Top.mod /\ f.release = Top.release
  BY <1>3, <1>4 DEF Frames
<1>6. PICK c, e : c = req.ctx /\ e = req'.ctx
  OBVIOUS
<1>7. ModsKept(before, c, mods) => ModsKept(before, e, mods')
  <2>1. e.createdMods = c.createdMods /\ e.linked = c.linked
    BY <1>2, <1>6 DEF SameNotes
  <2> QED  BY <1>2, <2>1, ModsKeptSame
<1>8. CASE Raises /\ files' = files \ FileOf(f)
  <2>1. /\ req'.pc \in {"rollback", "failed"}
        /\ req'.pc = "failed" => ~ Changed(req'.ctx)
    BY <1>8, RaisesUnchanged
  <2>2. Aimed'
    BY <2>1 DEF Aimed
  <2> QED  BY <1>1, <1>2, <1>6, <1>7, <1>8, <2>1, <2>2, OnwardKept DEF SameNotes
<1>9. CASE /\ req'.pc = "insert" /\ req'.stack = SetTop(f)
           /\ files' = (files \ FileOf(f)) \cup
                {[slug |-> f.mod.slug, name |-> f.name, md5 |-> Archive(f.release, made)]}
  <2>1. Top' = f
    BY <1>9 DEF Top, SetTop
  <2>2. PICK new, a : /\ new = [slug |-> f.mod.slug, name |-> f.name,
                                md5 |-> Archive(f.release, made)]
                      /\ a = <<f.mod.slug, f.name>>
    OBVIOUS
  <2>3. files' \subseteq files \cup {new} /\ <<new.slug, new.name>> = a
    BY <1>9, <2>2
  <2>4. Pending' = {a}
    BY <1>9, <2>1, <2>2 DEF Pending
  <2>5. RestKept(before, c, versions, edges, files, c.artifacts) /\ ModsKept(before, c, mods)
    <3>1. Pending = {}
      BY <1>1 DEF Pending
    <3> QED  BY <1>1, <1>6, <3>1, KeptSoFar
  <2>6. RestKept(before, e, versions, edges, files', e.artifacts \cup {a})
    BY <1>2, <1>6, <2>3, <2>5 DEF RestKept, OlderThan, SameNotes
  <2>7. Keeping'
    BY <1>1, <1>2, <1>6, <1>7, <1>9, <2>4, <2>5, <2>6 DEF Keeping, Aimed
  <2> QED  BY <2>7, KeptNow
<1>10. Stored(f.mod.id, f.release) = {}
  BY <1>4, <1>5
<1> QED  BY <1>3, <1>8, <1>9, <1>10, MoveFilesNotes

\* The call for a repository is the only one.
LEMMA RepositoryReturns ==
  ASSUME Rows, Graph, Insert, Top.mod.link \in Configs
  PROVE  req'.pc = "returned" \/ Raises
<1>1. Top = req.stack[1] /\ Resolves(req) /\ req \in Requests
  BY TopToFile DEF Insert
<1>2. Len(req.stack) = 1
  BY <1>1 DEF Graph, GraphOf, AtTop
<1>3. ASSUME NEW stored, NEW c, Returns(stored, c)
      PROVE  req'.pc = "returned"
  BY <1>1, <1>2, <1>3 DEF Returns, Requests
<1> QED  BY <1>3 DEF Insert

LEMMA InsertKept ==
  ASSUME Rows, Graph, Settled, Kept, calm, Rows', Insert
  PROVE  Kept'
<1>1. UNCHANGED <<catalog, before>> /\ Working /\ req.pc = "insert"
  BY DEF Insert, Step, history, Working
<1>2. Stored(Top.mod.id, Top.release) = {}
  BY <1>1, NotStored DEF Steady
<1>3. PICK c, e, a : c = req.ctx /\ e = req'.ctx /\ a = <<Top.mod.slug, Top.name>>
  OBVIOUS
<1>4. /\ RestKept(before, c, versions, edges, files, c.artifacts \cup {a})
      /\ ModsKept(before, c, mods)
  BY <1>1, <1>3, KeptSoFar DEF Pending
<1>5. CASE /\ Raises /\ files' = files \ FileOf(Top)
           /\ SameNotes(req.ctx, req'.ctx) /\ UNCHANGED <<mods, versions, edges, lastIds>>
  <2>1. /\ req'.pc \in {"rollback", "failed"}
        /\ req'.pc = "failed" => ~ Changed(req'.ctx)
    BY <1>5, RaisesUnchanged
  <2>2. Pending' = {}
    BY <2>1 DEF Pending
  <2>3. \A x \in files' : x \in files /\ <<x.slug, x.name>> # a
    BY <1>3, <1>5 DEF FileOf
  <2>4. RestKept(before, e, versions, edges, files', e.artifacts \cup {})
    BY <1>3, <1>4, <1>5, <2>3 DEF RestKept, OlderThan, SameNotes
  <2>5. ModsKept(before, e, mods)
    <3>1. e.createdMods = c.createdMods /\ e.linked = c.linked
      BY <1>3, <1>5 DEF SameNotes
    <3> QED  BY <1>4, <3>1, ModsKeptSame
  <2>6. Keeping'
    BY <1>1, <1>3, <1>5, <2>1, <2>2, <2>4, <2>5 DEF Keeping, Aimed
  <2> QED  BY <2>6, KeptNow
<1>6. PICK row : row = [id |-> lastIds.versions + 1, mod |-> Top.mod.id, ext |-> Top.release,
                        name |-> Top.name, md5 |-> Archive(Top.release, made)]
  OBVIOUS
<1>7. CASE /\ req'.pc \in {"returned", "dependencies"}
           /\ versions' = versions \cup {row}
           /\ mods' = {IF m.id = Top.mod.id /\ Top.mod.link \notin Configs
                         THEN Promoted(m) ELSE m : m \in mods}
           /\ UNCHANGED <<edges, files>>
           /\ NotesBut(req.ctx, req'.ctx, {"versions"})
           /\ Top.mod.link \notin Configs
           /\ req'.ctx.createdVersions = req.ctx.createdVersions \cup {row.id}
           /\ req'.ctx.artifacts = req.ctx.artifacts \cup {<<Top.mod.slug, Top.name>>}
  <2>1. /\ e.createdVersions = c.createdVersions \cup {row.id}
        /\ e.artifacts = c.artifacts \cup {a} /\ e.edges = c.edges
        /\ e.createdMods = c.createdMods /\ e.linked = c.linked
    BY <1>3, <1>7 DEF NotesBut
  <2>2. \A v \in versions : v.id # row.id
    <3> SUFFICES ASSUME NEW v \in versions, v.id = row.id
                 PROVE  FALSE
      OBVIOUS
    <3>1. v.id \in Nat /\ lastIds.versions \in Nat /\ v.id <= lastIds.versions
      BY TypesAreNat DEF Rows, TablesTyped, RowsCounted, VersionRows
    <3>2. row.id = lastIds.versions + 1
      BY ONLY <1>6
    <3> QED  BY <3>1, <3>2
  <2>3. OlderThan(e, versions') = OlderThan(c, versions)
    BY <1>7, <2>1, <2>2 DEF OlderThan
  <2>4. Pending' = {}
    BY <1>7 DEF Pending
  <2>5. RestKept(before, e, versions', edges', files', e.artifacts \cup {})
    BY <1>4, <1>7, <2>1, <2>3 DEF RestKept
  <2>6. ModsKept(before, e, mods')
    <3>1. PICK f : f = [m \in mods |-> IF m.id = Top.mod.id /\ Top.mod.link \notin Configs
                                         THEN Promoted(m) ELSE m]
      OBVIOUS
    <3>2. mods' = {f[m] : m \in mods}
      BY <1>7, <3>1
    <3>3. \A m \in mods : f[m].id = m.id /\ f[m].slug = m.slug /\ f[m].link = m.link
      BY <3>1 DEF Rows, TablesTyped, ModRows, Promoted
    <3>4. /\ \A n \in mods' : \E m \in mods : n.id = m.id /\ n.slug = m.slug /\ n.link = m.link
          /\ \A m \in mods : \E n \in mods' : n.id = m.id /\ n.slug = m.slug
      BY <3>2, <3>3
    <3> QED  BY ONLY <1>4, <2>1, <3>4, ModsKeptSame
  <2>7. Keeping'
    BY <1>1, <1>3, <1>7, <2>4, <2>5, <2>6 DEF Keeping, Aimed
  <2> QED  BY <2>7, KeptNow
<1>8. CASE req'.pc = "returned"
  BY <1>8, ReturnedKept
<1>9. CASE Top.mod.link \in Configs /\ ~ Raises
  BY <1>8, <1>9, RepositoryReturns
<1>10. ~ Raises \/ req'.pc \notin {"returned", "dependencies"}
  BY RaisesNotes
<1> QED  BY <1>2, <1>5, <1>6, <1>7, <1>9, <1>10, InsertNotes

\* The rollback takes back what was noted, and only the files stay for the sweep.
LEMMA RollbackKept ==
  ASSUME Rows, Kept, calm, Rows', Rollback
  PROVE  Kept'
<1>1. UNCHANGED before /\ Working /\ req.pc = "rollback"
  BY DEF Rollback, Step, history, Working
<1>2. CASE Goes("abandoned") /\ UNCHANGED library
  <2>1. req'.pc = "abandoned"
    BY <1>2, GoesNotes
  <2> QED  BY <2>1 DEF Kept, Working
<1>3. CASE ~ (Goes("abandoned") /\ UNCHANGED library)
  <2>1. PICK c, es, vs : c = req.ctx /\ es = edges \ c.edges /\ vs = OlderThan(c, versions)
    OBVIOUS
  <2>2. edges' = es /\ versions' = vs /\ Goes("sweep") /\ UNCHANGED <<files, lastIds>>
    BY <1>3, <2>1, RollbackDoes
  <2>3. PICK kept, f : Remain(kept, f)
    BY <1>3, RollbackDoes
  <2>4. /\ kept = {m \in mods : m.id \in c.createdMods => ~ Emptied(m.id, vs, es)}
        /\ mods' = {f[m] : m \in kept}
    BY <2>1, <2>2, <2>3 DEF Remain
  <2>5. \A m \in kept :
          /\ f[m].id = m.id /\ f[m].slug = m.slug
          /\ f[m].link = IF /\ <<m.id, m.link>> \in c.linked
                            /\ ~ \E v \in vs : v.mod = m.id
                         THEN None ELSE m.link
    BY <2>1, <2>2, <2>3 DEF Remain
  <2>6. req'.ctx = c /\ req'.pc = "sweep"
    BY <2>1, <2>2, GoesNotes
  <2>7. /\ RestKept(before, c, versions, edges, files, c.artifacts) /\ ModsKept(before, c, mods)
    <3>1. Pending = {}
      BY <1>1 DEF Pending
    <3> QED  BY <1>1, <2>1, <3>1, KeptSoFar
  <2>8. vs = before.versions /\ es = before.edges
    BY <2>1, <2>7 DEF RestKept
  \* The mods that were made are empty, and all others are kept.
  <2>9. \A m \in mods : m \in kept <=> m.id \notin c.createdMods
    BY <2>4, <2>7, <2>8 DEF ModsKept, Emptied
  <2>10. Untyped(mods') = Untyped(before.mods) \/ Relinked
    <3> SUFFICES ASSUME ~ Relinked
                 PROVE  Untyped(mods') = Untyped(before.mods)
      OBVIOUS
    <3>1. ASSUME NEW m \in kept
          PROVE  \E b \in before.mods : b.id = f[m].id /\ b.slug = f[m].slug /\ b.link = f[m].link
      <4>1. m \in mods /\ m \in ModRows /\ m.id \notin c.createdMods
        BY <2>4, <2>9 DEF Rows, TablesTyped
      <4>2. /\ f[m].id = m.id /\ f[m].slug = m.slug
            /\ f[m].link = IF /\ <<m.id, m.link>> \in c.linked
                              /\ ~ \E v \in vs : v.mod = m.id
                           THEN None ELSE m.link
        BY <2>5
      <4>3. PICK b \in before.mods :
              /\ b.id = m.id /\ b.slug = m.slug
              /\ \/ b.link = m.link /\ <<m.id, m.link>> \notin c.linked
                 \/ b.link = None /\ <<m.id, m.link>> \in c.linked
        BY <2>7, <4>1 DEF ModsKept
      <4>4. b.link = None => ~ \E v \in vs : v.mod = m.id
        BY <2>8, <4>3 DEF Relinked
      <4> QED  BY <4>2, <4>3, <4>4
    <3>2. /\ mods' \subseteq ModRows /\ before.mods \subseteq ModRows
          /\ \A a, b \in before.mods : a.id = b.id => a = b
      BY DEF Rows, TablesTyped, BeforeOK
    <3>3. \A n \in mods' : \E b \in before.mods : b.id = n.id /\ b.slug = n.slug /\ b.link = n.link
      BY <2>4, <3>1
    <3>4. ASSUME NEW b \in before.mods
          PROVE  \E n \in mods' : b.id = n.id /\ b.slug = n.slug /\ b.link = n.link
      <4>1. PICK m \in mods : m.id = b.id /\ m.slug = b.slug
        BY <2>7 DEF ModsKept
      <4>2. m \in kept
        BY <2>7, <2>9, <4>1 DEF ModsKept
      <4>3. PICK a \in before.mods : a.id = f[m].id /\ a.slug = f[m].slug /\ a.link = f[m].link
        BY <3>1, <4>2
      <4>4. f[m].id = m.id
        BY <2>5, <4>2
      <4>5. a = b
        BY <3>2, <4>1, <4>3, <4>4
      <4> QED  BY <2>4, <4>2, <4>3, <4>5
    <3> QED  BY <3>2, <3>3, <3>4, SameUntyped
  <2>11. \A x \in files : x \in before.files \/ <<x.slug, x.name>> \in c.artifacts
    BY <2>7 DEF RestKept
  <2>12. Relinked' <=> Relinked
    BY <1>1 DEF Relinked
  <2> QED
    BY <1>1, <2>2, <2>6, <2>8, <2>10, <2>11, <2>12 DEF Kept, Working, BackExcept
<1> QED  BY <1>2, <1>3

LEMMA SweepKept ==
  ASSUME Rows, Kept, calm, Sweep
  PROVE  Kept'
<1>1. /\ UNCHANGED <<mods, versions, edges, before>> /\ req.pc = "sweep"
      /\ files' = {x \in files : <<x.slug, x.name>> \notin req.ctx.artifacts}
  BY DEF Sweep, Step, history
<1>2. req'.ctx = req.ctx /\ req'.pc = "failed"
  BY GoesNotes DEF Sweep
<1>3. BackExcept(req.ctx.artifacts)
  BY <1>1 DEF Kept
<1>4. /\ Untyped(mods') = Untyped(before'.mods) \/ Relinked'
      /\ versions' = before'.versions /\ edges' = before'.edges
      /\ \A x \in files' : x \in before'.files
  BY <1>1, <1>3 DEF BackExcept, Relinked
<1> QED  BY <1>2, <1>4 DEF Kept, Working, BackExcept

\* When a request begins, the library is as it was when it began.
LEMMA StartingKept ==
  ASSUME Rows, Starting, Rows'
  PROVE  Kept'
<1>1. /\ UNCHANGED <<catalog, library>> /\ req'.ctx = NoContext
      /\ before' = [mods |-> mods, versions |-> versions, edges |-> edges, files |-> files]
      /\ req'.pc \in {"lookup", "bootstrap", "returned", "files", "enter"}
  BY StartingStep
<1>2. PICK c, B : c = req'.ctx /\ B = before'
  OBVIOUS
<1>3. /\ c.createdVersions = {} /\ c.edges = {} /\ c.createdMods = {} /\ c.linked = {}
      /\ B.mods = mods /\ B.versions = versions /\ B.edges = edges /\ B.files = files
  BY <1>1, <1>2 DEF NoContext
<1>4. RestKept(B, c, versions, edges, files, c.artifacts \cup Pending')
  BY <1>3 DEF RestKept, OlderThan
<1>5. ModsKept(B, c, mods)
  BY <1>3 DEF ModsKept
<1>6. Keeping'
  BY <1>1, <1>2, <1>4, <1>5 DEF Keeping, Aimed, library
<1> QED  BY <1>6, KeptNow

LEMMA KeptStep ==
  ASSUME Rows, Graph, Settled, Kept, [Next]_vars
  PROVE  Kept'
<1>1. Rows'
  BY RowsGraphStep
<1>2. CASE UNCHANGED vars
  <2>1. UNCHANGED <<mods, versions, edges, files, req, before, calm>>
    BY <1>2 DEF vars, library, history
  <2> QED
    BY <2>1 DEF Kept, Working, Pending, Aimed, BackExcept, Relinked, Linked, Top
<1>3. CASE Next
  <2>1. CASE Starting
    BY <1>1, <2>1, StartingKept
  <2>2. CASE Answer \/ Crash
    <3>1. req'.pc = "idle"
      BY <2>2, EndingStep, IdleAt
    <3> QED  BY <3>1 DEF Kept, Working
  <2>3. CASE Editing
    <3>1. ~ calm'
      BY <2>3, EditingRows
    <3> QED  BY <3>1 DEF Kept
  <2>4. CASE Stepping
    <3>1. calm' = calm
      BY <2>4, SteppingTables
    <3>2. CASE calm
      BY <1>1, <2>4, <3>2, QuietKept, LinkKept, CreateKept, DeclareKept, MoveFilesKept,
         InsertKept, RollbackKept, SweepKept DEF Stepping
    <3>3. CASE ~ calm
      BY <3>1, <3>3 DEF Kept
    <3> QED  BY <3>2, <3>3
  <2> QED  BY <1>3, <2>1, <2>2, <2>3, <2>4, NextIs
<1> QED  BY <1>2, <1>3

\* A failed import that nobody disturbed leaves the library as it was: no mod,
\* link, version, dependency or file of it stays (_rollback_modrinth_
\* materialization), but for the two remains that RolledBack names.
THEOREM FailuresRolledBack == Spec => []RolledBack
<1> DEFINE Inv == Rows /\ Graph /\ Settled
<1>1. Init => Kept
  <2> SUFFICES ASSUME Init
               PROVE  Kept
    OBVIOUS
  <2>1. req.pc = "idle"
    BY DEF Init, Idle, Request
  <2> QED  BY <2>1 DEF Kept, Working
<1>2. Inv /\ Kept /\ [Next]_vars => Kept'
  BY KeptStep
<1>3. Kept => RolledBack
  BY DEF Kept, BackExcept, RolledBack
<1>4. Spec => []Inv
  BY RowsGraphSettled
<1> HIDE DEF Inv
<1> QED  BY <1>1, <1>2, <1>3, <1>4, PTL DEF Spec

=============================================================================
