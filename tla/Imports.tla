------------------------------- MODULE Imports -------------------------------
(***************************************************************************)
(* Importing mods from Modrinth and GitHub (ModIntegration of              *)
(* models/integration.py): a release is materialized after the releases it *)
(* requires, each in transactions of its own, and a failed import is taken *)
(* back by a compensating transaction.                                     *)
(*                                                                         *)
(* One request imports in the steps of the source, and any of its calls to *)
(* the provider, the repository or the database may fail; the process may  *)
(* also end between two steps.  Meanwhile administrators edit the library  *)
(* and other requests import: their work is one step here.                 *)
(***************************************************************************)
EXTENDS Integers, FiniteSets, Sequences

CONSTANTS
  Projects,     \* upstream projects; the slug of a project is its name
  Configs,      \* those that are GitHub repositories
  Releases,     \* upstream versions
  ProjectOf,    \* of a release
  NumberOf,     \* version_number of a release: not unique in a project
  DateOf,       \* when it was published
  Compatible,   \* releases for the Minecraft version and loader of the build
  Hashed,       \* releases that come with a hash of their file
  Catalogs,     \* what the releases may require: sets of [release, project, pin]
  Downloaders,  \* sets of projects that downloaders need
  Libraries,    \* mods that are there at the start, with ids from 1
  MaxMod,       \* bound: mod ids
  MaxVersion,   \* bound: version ids
  MaxRequests,  \* bound: imports
  MaxEdits,     \* bound: steps of administrators and other requests
  None

\* A release of a project may require others; the state of a repository does not.
Pins == Releases \cup {None}
Requirements == [release : {r \in Releases : ProjectOf[r] \notin Configs},
                 project : Projects \ Configs, pin : Pins]

ModIds == 1..MaxMod
Types == {"MOD", "CONFIG", "BOOTSTRAP"}
ModRows == [id : ModIds, slug : Projects, link : Projects \cup {None}, type : Types]

ASSUME ImportsAssumption ==
  /\ IsFiniteSet(Projects) /\ Configs \subseteq Projects
  /\ ProjectOf \in [Releases -> Projects]
  /\ DOMAIN NumberOf = Releases
  /\ Catalogs \subseteq SUBSET Requirements
  /\ DateOf \in [Releases -> Nat]
  /\ Compatible \subseteq Releases /\ Hashed \subseteq Releases
  /\ Downloaders \subseteq SUBSET (Projects \ Configs)
  /\ \A L \in Libraries :
       /\ L \subseteq ModRows
       /\ {m.id : m \in L} = 1..Cardinality(L)
       /\ \A m, n \in L : m.id = n.id \/ m.slug = n.slug => m = n
  /\ {MaxMod, MaxVersion, MaxRequests, MaxEdits} \subseteq Nat
  /\ None \notin Projects \cup Releases \cup ModRows

VARIABLES
  catalog,  \* dependencies of the releases
  mods,     \* rows of mods: [id, slug, link, type]
  versions, \* rows of modversions: [id, mod, ext, name, md5]
  edges,    \* rows of mod_dependencies: <<mod, dependency>>
  files,    \* the repository: [slug, name, md5]
  lastIds,  \* AUTO_INCREMENT of mods and modversions
  req,      \* the request that imports
  made,     \* requests so far
  edits,    \* steps of others so far
  before,   \* history: the library when the request began
  calm,     \* history: nobody else changed the library since
  whole     \* history: nobody ever took anything out of the library

library == <<mods, versions, edges, files, lastIds>>
history == <<before, calm, whole>>
vars == <<catalog, library, req, made, edits, history>>

Nothing == [mods |-> {}, versions |-> {}, edges |-> {}, files |-> {}]
Linked(p) == {m \in mods : m.link = p}
Named(s) == {m \in mods : m.slug = s}
Stored(i, r) == {v \in versions : v.mod = i /\ v.ext = r}

\* The row of a set that holds at most one.
Only(S) == CHOOSE x \in S : TRUE

\* A slip: the number alone.
PlainName(i, r) == <<NumberOf[r], None>>

\* A second release with the same number gets a name with a hash of its id.
LocalName(i, r) ==
  IF \E v \in versions : v.mod = i /\ v.name = <<NumberOf[r], None>>
    THEN <<NumberOf[r], r>> ELSE <<NumberOf[r], None>>

\* Two imports never write the same archive: it holds the time.
Archive(r, by) == [release |-> r, by |-> by]

NoContext == [mods |-> [p \in Projects |-> None], edges |-> {},
              externals |-> [p \in Projects |-> None],
              processed |-> {}, createdMods |-> {}, linked |-> {},
              createdVersions |-> {}, artifacts |-> {}]
Changed(c) == \/ c.createdMods # {} \/ c.linked # {} \/ c.createdVersions # {}
              \/ c.edges # {} \/ c.artifacts # {}

\* A call of _materialize, with what it still requires and what it has.
Frame(m, r) ==
  [release |-> r, mod |-> m, name |-> None, todo |-> {}, have |-> {},
   existing |-> Stored(m.id, r) # {}]

Request(kind, pc, stack, todo) ==
  [todo |-> todo, have |-> {}, kind |-> kind, pc |-> pc, stack |-> stack,
   ctx |-> NoContext, need |-> None, target |-> 0, stored |-> FALSE]
Idle == Request("none", "idle", <<>>, {})

Top == Head(req.stack)
Path == {req.stack[i].mod.link : i \in DOMAIN req.stack}
SetTop(f) == <<f>> \o Tail(req.stack)
Goes(pc) == req' = [req EXCEPT !.pc = pc]

\* The request raises: what it changed is taken back, where the source does.
Raises == Goes(IF req.kind # "import" /\ Changed(req.ctx)
                 THEN "rollback" ELSE "failed")
Fails == Raises /\ UNCHANGED library

Init ==
  /\ catalog \in Catalogs
  /\ mods \in Libraries
  /\ versions = {} /\ edges = {} /\ files = {}
  /\ lastIds = [mods |-> Cardinality(mods), versions |-> 0]
  /\ req = Idle
  /\ made = 0 /\ edits = 0
  /\ before = Nothing
  /\ calm = TRUE /\ whole = TRUE

-----------------------------------------------------------------------------
(* Requests                                                                *)

Begins(r) ==
  /\ req.pc = "idle"
  /\ made < MaxRequests
  /\ made' = made + 1
  /\ req' = r
  /\ before' = [mods |-> mods, versions |-> versions, edges |-> edges, files |-> files]
  /\ calm' = TRUE
  /\ UNCHANGED <<catalog, library, edits, whole>>

\* "Add mod" of the browser, an entry of an imported list, or the write API.
BeginImport == \E p \in Projects \ Configs :
  Begins([Request("import", "lookup", <<>>, {}) EXCEPT !.need = p])

\* Downloaders that were enabled in the settings.
BeginBootstrap == \E P \in Downloaders :
  Begins(Request("bootstrap", "bootstrap", <<>>, P))

\* A release chosen in a build, or on the page of the mod.
BeginMaterialize == \E m \in mods, r \in Releases :
  /\ m.link # None
  /\ ProjectOf[r] = m.link
  /\ Begins(Request("materialize",
       IF Stored(m.id, r) # {} THEN "returned"
       ELSE IF m.link \in Configs THEN "files" ELSE "enter", <<Frame(m, r)>>, {}))

Step == /\ UNCHANGED <<catalog, made, edits, history>>

-----------------------------------------------------------------------------
(* import_project                                                          *)

\* The mod of the project that the request needs is known.
Resolved(m, c) ==
  req' = CASE req.kind = "import" -> [req EXCEPT !.pc = "returned"]
           [] req.kind = "bootstrap" ->
                [req EXCEPT !.pc = "bootstrap", !.ctx = c, !.todo = @ \ {req.need},
                            !.have = @ \cup {m.id}]
           [] req.kind = "materialize" ->
                [req EXCEPT !.pc = "choose",
                            !.ctx = [c EXCEPT !.mods[req.need] = m]]

\* The provider's project, the mod that is linked to it, and the mod that has
\* its slug.
Lookup ==
  /\ req.pc = "lookup"
  /\ UNCHANGED library
  /\ LET p == req.need
     IN \/ Raises
        \/ /\ Linked(p) # {}
           /\ Resolved(Only(Linked(p)), req.ctx)
        \/ /\ Linked(p) = {}
           /\ IF Named(p) = {} THEN Goes("create")
              ELSE IF Only(Named(p)).link # None THEN Raises
              ELSE req' = [req EXCEPT !.pc = "link", !.target = Only(Named(p)).id]
  /\ Step

\* link_integration of the mod with the slug of the project, if it has no link
\* still; a mod that has been given this very link meanwhile will do as well.
Link ==
  /\ req.pc = "link"
  /\ LET p == req.need
         free == {m \in mods : m.id = req.target /\ m.link = None}
         done == {m \in Named(p) : m.link = p}
         context(m) == [req.ctx EXCEPT !.linked = @ \cup {<<m.id, p>>}]
     IN \/ Fails
        \/ /\ free # {} /\ Linked(p) # {}
           /\ Resolved(Only(Linked(p)), req.ctx)
           /\ UNCHANGED library
        \/ /\ free = {} /\ done # {}
           /\ Resolved(Only(done), context(Only(done)))
           /\ UNCHANGED library
        \/ /\ free # {} /\ Linked(p) = {}
           /\ LET m == [Only(free) EXCEPT !.link = p]
              IN /\ mods' = (mods \ free) \cup {m}
                 /\ Resolved(m, context(m))
           /\ UNCHANGED <<versions, edges, files, lastIds>>
  /\ Step

\* Mod.new of a managed mod.
Create ==
  /\ req.pc = "create"
  /\ LET p == req.need
         m == [id |-> lastIds.mods + 1, slug |-> p, link |-> p, type |-> "MOD"]
     IN \/ Fails
        \/ /\ Linked(p) # {}
           /\ Resolved(Only(Linked(p)), req.ctx)
           /\ UNCHANGED library
        \/ /\ Linked(p) = {} /\ Named(p) = {}
           /\ lastIds.mods < MaxMod
           /\ mods' = mods \cup {m}
           /\ lastIds' = [lastIds EXCEPT !.mods = @ + 1]
           /\ Resolved(m, [req.ctx EXCEPT !.createdMods = @ \cup {m.id}])
           /\ UNCHANGED <<versions, edges, files>>
  /\ Step

\* ensure_bootstrap_projects goes through the projects ...
NextBootstrap ==
  /\ req.pc = "bootstrap"
  /\ \E p \in req.todo :
       req' = IF Linked(p) = {} THEN [req EXCEPT !.pc = "lookup", !.need = p]
              ELSE [req EXCEPT !.todo = @ \ {p},
                               !.have = @ \cup {Only(Linked(p)).id}]
  /\ UNCHANGED library
  /\ Step

\* ... and gives their mods the role of a bootstrap.
SetRoles ==
  /\ req.pc = "bootstrap" /\ req.todo = {}
  /\ \/ Fails
     \/ /\ mods' = {[m EXCEPT !.type = IF m.id \in req.have THEN "BOOTSTRAP" ELSE @]
                     : m \in mods}
        /\ Goes("returned")
        /\ UNCHANGED <<versions, edges, files, lastIds>>
  /\ Step

-----------------------------------------------------------------------------
(* _materialize and the releases it requires                               *)

\* list_versions: the newest compatible release comes first.
Listed(p) == {r \in Compatible : ProjectOf[r] = p}
Newest(p) == IF Listed(p) = {} THEN None
             ELSE CHOOSE r \in Listed(p) : \A q \in Listed(p) : DateOf[q] <= DateOf[r]

Required(r) == {d \in catalog : d.release = r}

\* One release of a project cannot be two.
Conflict(D) == \E d, e \in D : d.project = e.project /\ d.pin # e.pin

\* The provider's metadata of the release are read.
Enter ==
  /\ req.pc = "enter"
  /\ UNCHANGED library
  /\ LET p == Top.mod.link
         D == Required(Top.release)
     IN \/ Raises
        \/ /\ Top.release \in Listed(p)
           /\ ~ Conflict(D)
           /\ req' = [req EXCEPT
                        !.pc = "dependencies",
                        !.stack = SetTop([Top EXCEPT !.todo = D]),
                        !.ctx.externals[p] = Top.release,
                        !.ctx.mods[p] = Top.mod]
  /\ Step

NextDependency ==
  /\ req.pc = "dependencies"
  /\ UNCHANGED library
  /\ \E d \in Top.todo :
       IF d.project \in Path THEN Raises
       ELSE req' = [req EXCEPT
                      !.pc = IF req.ctx.mods[d.project] = None
                               THEN "lookup" ELSE "choose",
                      !.need = d.project]
  /\ Step

Needed == Only({d \in Top.todo : d.project = req.need})

\* The requirement d of the top frame is met by the mod of its project.
Met(f, d, c) ==
  [f EXCEPT !.todo = @ \ {d}, !.have = @ \cup {c.mods[d.project].id}]

\* A pinned release, the one that the graph uses already, or the newest.
Wanted(d, known) == IF known # None THEN known
                    ELSE IF d.pin # None THEN d.pin ELSE Newest(d.project)

\* A slip: the release at hand will do.
NeverClashes(d, known) == FALSE

Clashes(d, known) == known # None /\ d.pin # None /\ d.pin # known

\* The release that meets a requirement, materialized if this graph has not
\* done so.
Choose ==
  /\ req.pc = "choose"
  /\ UNCHANGED library
  /\ LET d == Needed
         known == req.ctx.externals[d.project]
         r == Wanted(d, known)
         m == req.ctx.mods[d.project]
         ctx == [req.ctx EXCEPT !.externals[d.project] = r]
     IN \/ /\ known = None \/ Clashes(d, known)
           /\ Raises
        \/ /\ ~ Clashes(d, known)
           /\ r \in Listed(d.project)
           /\ req' = IF <<d.project, r>> \in ctx.processed
                THEN [req EXCEPT !.pc = "dependencies", !.ctx = ctx,
                                 !.stack = SetTop(Met(Top, d, ctx))]
                ELSE [req EXCEPT !.pc = "enter", !.ctx = ctx,
                                 !.stack = <<Frame(m, r)>> \o @]
  /\ Step

\* The call of the top frame returns to the frame that required it.
Returns(stored, c) ==
  req' = IF Len(req.stack) = 1
    THEN [req EXCEPT !.pc = "returned", !.ctx = c, !.stored = stored]
    ELSE LET p == Top.mod.link
             f == Head(Tail(req.stack))
             d == Only({e \in f.todo : e.project = p})
         IN [req EXCEPT !.pc = "dependencies",
                        !.ctx = [c EXCEPT !.processed = @ \cup {<<p, Top.release>>}],
                        !.stack = <<Met(f, d, c)>> \o Tail(Tail(@))]

\* What a mod requires, over any number of dependencies E.
Reach(E, i) ==
  LET within[n \in Nat] ==
        IF n = 0 THEN {i}
        ELSE LET near == within[n - 1]
             IN near \cup {e[2] : e \in {x \in E : x[1] \in near}}
  IN within[MaxMod]

\* ModDependency.ensure for each required mod, then on to the files.
Declare ==
  /\ req.pc = "dependencies" /\ Top.todo = {}
  /\ LET i == Top.mod.id
     IN \/ /\ Top.have = {}
           /\ UNCHANGED library
           /\ IF Top.existing THEN Returns(FALSE, req.ctx) ELSE Goes("files")
        \/ \E j \in Top.have :
             LET f == SetTop([Top EXCEPT !.have = @ \ {j}])
                 known == \A k \in {i, j} : \E m \in mods : m.id = k
             IN \/ Fails
                \/ /\ known /\ <<i, j>> \in edges
                   /\ req' = [req EXCEPT !.stack = f]
                   /\ UNCHANGED library
                \/ /\ known /\ <<i, j>> \notin edges /\ i \notin Reach(edges, j)
                   /\ edges' = edges \cup {<<i, j>>}
                   /\ req' = [req EXCEPT !.stack = f,
                                         !.ctx.edges = @ \cup {<<i, j>>}]
                   /\ UNCHANGED <<mods, versions, files, lastIds>>
  /\ Step

-----------------------------------------------------------------------------
(* Files and rows of a release                                             *)

FileOf(f) == {x \in files : x.slug = f.mod.slug /\ x.name = f.name}

\* A download must have the size and the strongest hash that the provider
\* gives, and there must be a hash; a config is packed here.
Verified(f) == f.mod.link \in Configs \/ f.release \in Hashed

\* The download is verified and packed aside, then moved into place.  After
\* a failure the names are cleared, unless another import has the row.
MoveFiles ==
  /\ req.pc = "files"
  /\ LET f == [Top EXCEPT !.name = LocalName(Top.mod.id, Top.release)]
     IN \/ /\ IF Stored(f.mod.id, f.release) # {}
                THEN Returns(FALSE, req.ctx) /\ UNCHANGED files
                ELSE Raises /\ files' = files \ FileOf(f)
           /\ UNCHANGED <<mods, versions, edges, lastIds>>
        \/ /\ Verified(f)
           /\ files' = (files \ FileOf(f)) \cup
                {[slug |-> f.mod.slug, name |-> f.name,
                  md5 |-> Archive(f.release, made)]}
           /\ req' = [req EXCEPT !.pc = "insert", !.stack = SetTop(f)]
           /\ UNCHANGED <<mods, versions, edges, lastIds>>
  /\ Step

\* A parent with another type is promoted by a version with a JAR.
Promoted(m) == IF m.type = "CONFIG" THEN [m EXCEPT !.type = "MOD"] ELSE m

Insert ==
  /\ req.pc = "insert"
  /\ LET f == Top
         id == lastIds.versions + 1
         row == [id |-> id, mod |-> f.mod.id, ext |-> f.release,
                 name |-> f.name, md5 |-> Archive(f.release, made)]
         context == [req.ctx EXCEPT
                       !.createdVersions = @ \cup {id},
                       !.artifacts = @ \cup {<<f.mod.slug, f.name>>}]
         config == f.mod.link \in Configs
     IN IF Stored(f.mod.id, f.release) # {}
          THEN Returns(FALSE, req.ctx) /\ UNCHANGED library
        ELSE \/ /\ files' = files \ FileOf(f)
                /\ Raises
                /\ UNCHANGED <<mods, versions, edges, lastIds>>
             \/ /\ lastIds.versions < MaxVersion
                /\ versions' = versions \cup {row}
                /\ lastIds' = [lastIds EXCEPT !.versions = id]
                /\ mods' = {IF m.id = f.mod.id /\ ~ config THEN Promoted(m) ELSE m
                            : m \in mods}
                /\ Returns(TRUE, IF config THEN req.ctx ELSE context)
                /\ UNCHANGED <<edges, files>>
  /\ Step

-----------------------------------------------------------------------------
(* Taking a failed import back                                             *)

\* A slip: counts the dependencies that are being removed.
EmptiedBefore(i, vs, es) == /\ ~ \E v \in vs : v.mod = i
                            /\ ~ \E e \in edges : i \in {e[1], e[2]}

Emptied(i, vs, es) == /\ ~ \E v \in vs : v.mod = i
                      /\ ~ \E e \in es : i \in {e[1], e[2]}

\* Dependencies, versions, mods without any left, and links without imported
\* versions: one transaction, which may fail and is then only logged.
Rollback ==
  /\ req.pc = "rollback"
  /\ LET done == req.ctx
         es == edges \ done.edges
         vs == {v \in versions : v.id \notin done.createdVersions}
         kept == {m \in mods : m.id \in done.createdMods => ~ Emptied(m.id, vs, es)}
         unlink(m) == /\ <<m.id, m.link>> \in done.linked
                      /\ ~ \E v \in vs : v.mod = m.id
     IN \/ Goes("abandoned") /\ UNCHANGED library
        \/ /\ edges' = es
           /\ versions' = vs
           /\ mods' = {[m EXCEPT !.link = IF unlink(m) THEN None ELSE @] : m \in kept}
           /\ Goes("sweep")
           /\ UNCHANGED <<files, lastIds>>
  /\ Step

\* The files of the versions that were taken back.
Sweep ==
  /\ req.pc = "sweep"
  /\ files' = {x \in files : <<x.slug, x.name>> \notin req.ctx.artifacts}
  /\ Goes("failed")
  /\ UNCHANGED <<mods, versions, edges, lastIds>>
  /\ Step

Ends ==
  /\ req' = Idle
  /\ before' = Nothing
  /\ UNCHANGED <<catalog, library, made, edits, calm, whole>>

Answer == req.pc \in {"returned", "failed", "abandoned"} /\ Ends

\* The process ends; nothing takes its import back.
Crash ==
  /\ req.pc \notin {"idle", "returned", "failed", "abandoned"}
  /\ Ends

-----------------------------------------------------------------------------
(* Administrators and other requests                                       *)

Edits(takes) ==
  /\ edits < MaxEdits
  /\ edits' = edits + 1
  /\ calm' = FALSE
  /\ whole' = (whole /\ ~ takes)
  /\ UNCHANGED <<catalog, req, made, before>>

\* A slip: slugs are not unique.
NewManualTwice == \E p \in Projects :
  /\ lastIds.mods < MaxMod
  /\ mods' = mods \cup {[id |-> lastIds.mods + 1, slug |-> p, link |-> None, type |-> "MOD"]}
  /\ lastIds' = [lastIds EXCEPT !.mods = @ + 1]
  /\ UNCHANGED <<versions, edges, files>>
  /\ Edits(FALSE)

\* "New mod", with the slug of a project.
NewManual == \E p \in Projects, t \in {"MOD", "CONFIG"} :
  /\ Named(p) = {}
  /\ lastIds.mods < MaxMod
  /\ mods' = mods \cup {[id |-> lastIds.mods + 1, slug |-> p, link |-> None, type |-> t]}
  /\ lastIds' = [lastIds EXCEPT !.mods = @ + 1]
  /\ UNCHANGED <<versions, edges, files>>
  /\ Edits(FALSE)

\* link_existing: a MOD to a project, a CONFIG to a repository.
LinkExisting == \E m \in mods, p \in Projects :
  /\ m.link = None
  /\ m.type = (IF p \in Configs THEN "CONFIG" ELSE "MOD")
  /\ Linked(p) = {}
  /\ mods' = (mods \ {m}) \cup {[m EXCEPT !.link = p]}
  /\ UNCHANGED <<versions, edges, files, lastIds>>
  /\ Edits(FALSE)

Unlink == \E m \in mods :
  /\ m.link # None
  /\ mods' = (mods \ {m}) \cup {[m EXCEPT !.link = None]}
  /\ UNCHANGED <<versions, edges, files, lastIds>>
  /\ Edits(TRUE)

AddDependency == \E m, n \in mods :
  /\ <<m.id, n.id>> \notin edges
  /\ m.id \notin Reach(edges, n.id)
  /\ edges' = edges \cup {<<m.id, n.id>>}
  /\ UNCHANGED <<mods, versions, files, lastIds>>
  /\ Edits(FALSE)

DeleteDependency == \E e \in edges :
  /\ edges' = edges \ {e}
  /\ UNCHANGED <<mods, versions, files, lastIds>>
  /\ Edits(TRUE)

\* The rows go, the files stay.
DeleteVersion == \E v \in versions :
  /\ versions' = versions \ {v}
  /\ UNCHANGED <<mods, edges, files, lastIds>>
  /\ Edits(TRUE)

DeleteMod == \E m \in mods :
  /\ mods' = mods \ {m}
  /\ versions' = {v \in versions : v.mod # m.id}
  /\ edges' = {e \in edges : m.id \notin {e[1], e[2]}}
  /\ UNCHANGED <<files, lastIds>>
  /\ Edits(TRUE)

\* Another request imports a project, as Create does.
OtherProject == \E p \in Projects :
  /\ Linked(p) = {} /\ Named(p) = {}
  /\ lastIds.mods < MaxMod
  /\ mods' = mods \cup {[id |-> lastIds.mods + 1, slug |-> p, link |-> p, type |-> "MOD"]}
  /\ lastIds' = [lastIds EXCEPT !.mods = @ + 1]
  /\ UNCHANGED <<versions, edges, files>>
  /\ Edits(FALSE)

\* Another request stores a release: its files and its row.
OtherImport == \E m \in mods, r \in Releases :
  LET f == [mod |-> m, name |-> LocalName(m.id, r)]
      md5 == Archive(r, 0)
  IN /\ m.link = ProjectOf[r]
     /\ Verified([mod |-> m, release |-> r])
     /\ Stored(m.id, r) = {}
     /\ lastIds.versions < MaxVersion
     /\ files' = (files \ FileOf(f)) \cup
          {[slug |-> m.slug, name |-> f.name, md5 |-> md5]}
     /\ versions' = versions \cup
          {[id |-> lastIds.versions + 1, mod |-> m.id, ext |-> r,
            name |-> f.name, md5 |-> md5]}
     /\ lastIds' = [lastIds EXCEPT !.versions = @ + 1]
     /\ UNCHANGED <<mods, edges>>
     /\ Edits(TRUE)

-----------------------------------------------------------------------------

Next ==
  \/ BeginImport \/ BeginBootstrap \/ BeginMaterialize
  \/ Lookup \/ Link \/ Create \/ NextBootstrap \/ SetRoles
  \/ Enter \/ NextDependency \/ Choose \/ Declare \/ MoveFiles \/ Insert
  \/ Rollback \/ Sweep \/ Answer \/ Crash
  \/ NewManual \/ LinkExisting \/ Unlink \/ AddDependency \/ DeleteDependency
  \/ DeleteVersion \/ DeleteMod \/ OtherProject \/ OtherImport

Spec == Init /\ [][Next]_vars

-----------------------------------------------------------------------------
(* Properties                                                              *)

Names == {<<NumberOf[r], x>> : r \in Releases, x \in Pins}
Archives == [release : Releases, by : 0..MaxRequests]

\* Every row and every file is well formed, ids are unique, the stack of a
\* request holds no more calls than there are projects.
TypeOK ==
  /\ mods \subseteq ModRows
  /\ versions \subseteq [id : 1..MaxVersion, mod : ModIds, ext : Releases,
                          name : Names, md5 : Archives]
  /\ edges \subseteq ModIds \X ModIds
  /\ files \subseteq [slug : Projects, name : Names, md5 : Archives]
  /\ \A m, n \in mods : m.id = n.id \/ m.slug = n.slug => m = n
  /\ \A x, y \in files : x.slug = y.slug /\ x.name = y.name => x = y
  /\ Len(req.stack) <= Cardinality(Projects)

\* A failed import that nobody disturbed leaves the library as it was: no mod,
\* link, version, dependency or file of it stays (_rollback_modrinth_
\* materialization, and the unlink calls of _materialize).  Two remains are
\* known: the promoted type of a parent, and a new link of a mod that had
\* imported versions from an earlier one.
Untyped(S) == {[m EXCEPT !.type = "MOD"] : m \in S}
Relinked == \E m \in before.mods :
              m.link = None /\ \E v \in before.versions : v.mod = m.id
RolledBack ==
  req.pc = "failed" /\ calm =>
    /\ Untyped(mods) = Untyped(before.mods) \/ Relinked
    /\ versions = before.versions
    /\ edges = before.edges
    /\ files \subseteq before.files

\* An import that stored its release and was not disturbed has stored the
\* whole graph: verified releases for the build, for every one of them the
\* pinned releases and no others of the same projects, declared as
\* dependencies (_materialize_modrinth_dependencies).
ImportedWhole ==
  req.pc = "returned" /\ req.stored /\ calm =>
    \A p \in Projects :
      LET r == req.ctx.externals[p]
      IN r # None => \E m \in Linked(p) :
           /\ Stored(m.id, r) # {}
           /\ r \in Hashed \cap Compatible
           /\ \A d \in Required(r) :
                /\ req.ctx.externals[d.project] # None
                /\ d.pin \in {None, req.ctx.externals[d.project]}
                /\ \E n \in Linked(d.project) : <<m.id, n.id>> \in edges

\* At every moment, after a crash and with a failed compensation too, a stored
\* release finds its file as it was packed, and its requirements stored and
\* declared before it, as long as nobody took something out of the library
\* (the order of _materialize).
DependenciesFirst ==
  whole => \A v \in versions :
    /\ \E x \in files, m \in mods :
          m.id = v.mod /\ x.slug = m.slug /\ x.name = v.name /\ x.md5 = v.md5
    /\ \A d \in Required(v.ext) : \E n \in Linked(d.project) :
          /\ <<v.mod, n.id>> \in edges
          /\ \E w \in versions : w.mod = n.id /\ d.pin \in {None, w.ext}

=============================================================================
