------------------------------ MODULE Exports -------------------------------
(***************************************************************************)
(* Exports of one build (models/platform_export.py, mcinstance.py,         *)
(* distribution.py and their routes in asite.py), the bootstrap and the    *)
(* hosted FileDirector bundle that an exported pack reads later (api.py,   *)
(* bootstrap_manifest.py, distribution_api.py), and the delivery of the    *)
(* build through Technic (technic_solderpy_loader.py).                     *)
(*                                                                         *)
(* Two parties bring the packages of an exported pack to a player: the     *)
(* launcher takes the files an archive lists, and a downloader inside it   *)
(* the rest, from a list in the archive or from one it reads when the game *)
(* starts.  An export reads the packages, the sync mappings and the        *)
(* optional groups one after another; the build is edited meanwhile and    *)
(* afterwards.  What a player is given now is a function of the archive    *)
(* and of the build as it is now.                                          *)
(*                                                                         *)
(* A mod is in the build at most once (OneVersionPerMod of BuildContents)  *)
(* and in one version; names, hashes, URLs and compatibility with the      *)
(* build's loader are left out.                                            *)
(***************************************************************************)
EXTENDS Integers, FiniteSets

CONSTANTS
  Mods,        \* mods of the library
  TypeOf,      \* mods.modtype of each: "MOD", "CONFIG" or "LAUNCHER"
  SideOf,      \* mods.side of each
  ModrinthOf,  \* "version": a project and its version, "project", or "none"
  Stored,      \* mods whose Modrinth file was stored when it was imported
  Jars,        \* mods with a raw JAR
  Mapped,      \* mods whose project has a sync mapping
  SolderToo,   \* mapped mods with override_solder_only
  MaxAtFirst,  \* bound: memberships the build starts with
  MaxEdits,    \* bound: edits of the build and the mappings
  Absent

REQUIRED == 0
OPTIONAL == 1
EXCLUDED == 2

ASSUME ExportsAssumption ==
  /\ TypeOf \in [Mods -> {"MOD", "CONFIG", "LAUNCHER"}]
  /\ SideOf \in [Mods -> {"BOTH", "CLIENT", "SERVER"}]
  /\ ModrinthOf \in [Mods -> {"version", "project", "none"}]
  /\ Stored \subseteq {m \in Mods : ModrinthOf[m] = "version"}
  /\ Jars \subseteq Mods
  /\ Mapped \subseteq {m \in Mods : ModrinthOf[m] # "none"}
  /\ SolderToo \subseteq Mapped
  /\ MaxAtFirst \in Nat
  /\ MaxEdits \in Nat
  /\ Absent \notin {"loader", "technic"}

VARIABLES
  members,  \* of each mod, its row of build_modversion and its item, or Absent
  mode,     \* modpacks.optional_mode
  enabled,  \* mods whose sync mapping is enabled
  public,   \* "yes": published and not private, and so is the modpack
  technic,  \* delivery_mode of technic_solderpy_loader_builds, or Absent
  job,      \* the export: what it has read, then its archive
  edits     \* how many edits were made

exportVars == <<members, mode, enabled, public, technic, job, edits>>

\* The rows of build_modversion and their items.  An id is never reused: a
\* mod that is added again gets that of the edit.
Rows == [id : 0 .. MaxEdits, state : {REQUIRED, OPTIONAL, EXCLUDED},
         grouped : {0, 1}, default : {0, 1}]

Ignored == {m \in Mods : TypeOf[m] = "LAUNCHER"}

\* The rows OptionalGroups allows: loader packages are in no group, and an
\* excluded membership is in one, of a modpack in Advanced mode.
Legal(m, row, md) ==
  /\ row.grouped = 1 => m \notin Ignored
  /\ row.grouped = 0 => row.default = 0
  /\ row.state = EXCLUDED => row.grouped = 1 /\ md = "ADVANCED"

In(packages) == {m \in Mods : packages[m] # Absent}

\* The ids and defaults get_active_groups finds: none in Basic mode.
ActiveGroups ==
  {[id |-> <<m, members[m].id>>, default |-> members[m].default] :
     m \in {x \in In(members) : mode = "ADVANCED" /\ members[x].grouped = 1}}

\* The packages that are in a group, as the export sees both.
GroupedIn(packages, groups) ==
  {m \in In(packages) : \E i \in groups : i.id = <<m, packages[m].id>>}

ExportInit ==
  /\ mode \in {"BASIC", "ADVANCED"}
  /\ \E S \in SUBSET Mods :
       /\ Cardinality(S) <= MaxAtFirst
       /\ \E f \in [S -> {r \in Rows : r.id = 0}] :
            /\ \A m \in S : Legal(m, f[m], mode)
            /\ members = [m \in Mods |-> IF m \in S THEN f[m] ELSE Absent]
  /\ enabled \in SUBSET Mapped
  /\ public = "yes"
  /\ technic = Absent
  /\ job = [stage |-> "idle"]
  /\ edits = 0

-----------------------------------------------------------------------------
(* What an export makes of the packages it has read                        *)

Actual(packages) == In(packages) \ Ignored

\* native_modrinth_files: the native packages whose file is known, stored when
\* it was imported or found at a provider that still has the version.
NativeFiles(native, answered) == native \cap (Stored \cup answered)

\* _package_plan: the packages left after the mapped ones, those the launcher
\* downloads, and those the downloader has to.  The groups keep a package from
\* a launcher, which knows no group rules.
Plan(packages, groups, source, handles, mapped, answered) ==
  LET kept == Actual(packages) \ mapped
      grouped == IF handles THEN GroupedIn(packages, groups) ELSE {}
      native == {m \in kept \ grouped : ModrinthOf[m] = "version"}
      files == {m \in NativeFiles(native, answered) :
                  handles /\ source = "hybrid" /\ packages[m].state # EXCLUDED}
  IN [kept |-> kept, launcher |-> files, downloader |-> kept \ files]

\* _active_export_overrides.
ActiveMappings(mapped, source) ==
  IF source = "hybrid" THEN mapped ELSE mapped \cap SolderToo

\* _override_modrinth_versions: a mapped package needs a selected version.
MappingRefused(packages, mapped) ==
  \E m \in mapped \cap Actual(packages) : ModrinthOf[m] # "version"

\* A slip: the memberships of the mapped packages are left out.
ListedNatives(packages, launcher, mapped) ==
  {<<m, packages[m].id>> : m \in launcher}

\* launcherOwnedMemberships: the natives of the plan and the packages whose
\* project is mapped (_override_launcher_memberships).
Listed(packages, launcher, mapped) ==
  {<<m, packages[m].id>> : m \in launcher \cup (mapped \cap Actual(packages))}

\* FileDirectorExport.bundle, and what MCInstanceExport.render writes.
Bundle(packages, groups, S) ==
  {m \in S \ Ignored : packages[m].state # EXCLUDED
                         \/ m \in GroupedIn(packages, groups)}

\* MCInstanceExport.render: a choice must be of a client and have a raw JAR.
McilRefused(packages, groups, S) ==
  \E m \in Bundle(packages, groups, S) :
    /\ packages[m].state = OPTIONAL \/ m \in GroupedIn(packages, groups)
    /\ SideOf[m] = "SERVER" \/ m \notin Jars \/ TypeOf[m] # "MOD"

\* _prism_packages: what a self-contained instance has.
Defaults(packages, groups) ==
  {m \in Actual(packages) :
     /\ SideOf[m] # "SERVER"
     /\ IF m \in GroupedIn(packages, groups)
          THEN [id |-> <<m, packages[m].id>>, default |-> 1] \in groups
          ELSE packages[m].state = REQUIRED}

\* _server_launcher: the one required server-side loader package, with a JAR.
ServerLoaders(packages) ==
  {m \in In(packages) : /\ m \in Ignored
                        /\ SideOf[m] = "SERVER"
                        /\ packages[m].state # EXCLUDED}
ServerRefused(packages) ==
  \/ Cardinality(ServerLoaders(packages)) # 1
  \/ \E m \in ServerLoaders(packages) :
       packages[m].state # REQUIRED \/ m \notin Jars

-----------------------------------------------------------------------------
(* The export                                                              *)

\* The formats, with the downloaders the routes offer for each.  The source
\* decides nothing but URLs in the others than Modrinth's and CurseForge's.
Formats ==
  [to : {"modrinth", "curseforge"}, by : {"loader", "mcil", "bundled", "hosted"},
   source : {"hybrid", "solder"}]
  \cup [to : {"modrinth"}, by : {"none"}, source : {"hybrid", "solder"}]
  \cup [to : {"prism"}, by : {"loader", "mcil", "bundled", "hosted", "none"},
        source : {"hybrid"}]
  \cup [to : {"packwiz"}, by : {"none"}, source : {"hybrid"}]
  \cup [to : {"filedirector"}, by : {"bundled"}, source : {"hybrid"}]
  \cup [to : {"mcinstance"}, by : {"mcil"}, source : {"hybrid"}]
  \cup [to : {"loader", "server"}, by : {"loader"}, source : {"hybrid"}]

\* Packs whose downloader reads the build when the game starts.
Live(format) == format.by \in {"loader", "hosted"}

\* MCInstanceExport.load: build and packages come from one query.
\* (Bound: builds Technic delivers are not exported as well.)
Load ==
  /\ job.stage = "idle"
  /\ technic = Absent
  /\ job' = [stage |-> "loaded", packages |-> members, public |-> public,
             touched |-> {}]
  /\ UNCHANGED <<members, mode, enabled, public, technic, edits>>

\* PlatformExportOverride.get_enabled.
ReadMappings ==
  /\ job.stage = "loaded"
  /\ job' = [stage |-> "mapped", packages |-> job.packages,
             public |-> job.public, touched |-> job.touched,
             mapped |-> enabled]
  /\ UNCHANGED <<members, mode, enabled, public, technic, edits>>

\* The packages an archive brings with it or lists for its downloader.
Carried(format, packages, groups, plan) ==
  CASE format.to = "prism" /\ format.by = "none" -> Defaults(packages, groups)
    [] format.to = "packwiz" ->
         {m \in plan.kept : m \in Jars /\ packages[m].state # EXCLUDED}
    [] format.by \in {"mcil", "bundled"} ->
         Bundle(packages, groups, plan.downloader)
    [] OTHER -> {}

\* The files a launcher gets itself: natives of the plan and mapped projects,
\* whether the build has them or not, or the modloader of a server.
Files(format, packages, plan, mapped) ==
  plan.launcher \cup mapped
    \cup IF format.to = "server" THEN ServerLoaders(packages) ELSE {}

\* Only a published build that is not private is read by a running game.
Withheld(format) == Live(format) /\ job.public = "no"

Refused(format, packages, groups, plan, mapped) ==
  \/ MappingRefused(packages, mapped)
  \/ Withheld(format)
  \/ format.by = "mcil" /\ McilRefused(packages, groups, plan.downloader)
  \/ format.to = "server" /\ ServerRefused(packages)
  \/ format.to = "modrinth" /\ format.by = "none" /\ plan.downloader # {}

\* The archive, or Absent when the export is refused.
Archive(format, groups, answered) ==
  LET packages == job.packages
      native == format.to \in {"modrinth", "curseforge"}
      mapped == IF native THEN ActiveMappings(job.mapped, format.source) ELSE {}
      plan == Plan(packages, groups, format.source, format.to = "modrinth",
                   mapped, answered)
  IN IF Refused(format, packages, groups, plan, mapped) THEN Absent
     ELSE [format |-> format,
           launcher |-> Files(format, packages, plan, mapped),
           listed |-> IF native /\ format.by = "loader"
                        THEN Listed(packages, plan.launcher, mapped) ELSE {},
           bundle |-> Carried(format, packages, groups, plan),
           mapped |-> mapped]

\* get_active_groups_for_packages, then the archive is rendered.  The provider
\* may have lost versions.
Export(format) ==
  /\ job.stage = "mapped"
  /\ \E answered \in SUBSET {m \in Mods \ Stored : ModrinthOf[m] = "version"} :
       LET archive == Archive(format, ActiveGroups, answered) IN
       job' = IF archive = Absent THEN [stage |-> "refused"]
              ELSE [stage |-> "exported", packages |-> job.packages,
                    grouped |-> GroupedIn(job.packages, ActiveGroups),
                    touched |-> job.touched, archive |-> archive]
  /\ UNCHANGED <<members, mode, enabled, public, technic, edits>>

-----------------------------------------------------------------------------
(* What the public routes answer now                                       *)

Sides(target) ==
  {m \in Mods : SideOf[m] \in {"BOTH", IF target = "server" THEN "SERVER"
                                       ELSE "CLIENT"}}

\* The groups of both queries of a public route are those of one moment.
NowGrouped == GroupedIn(members, ActiveGroups)

\* TechnicSolderPyLoader.get_active.
ActiveTechnic == IF public = "yes" THEN technic ELSE Absent

\* The memberships modpack_bootstrap gives the loader: BootstrapManifest.render
\* keeps a grouped package the loader's, and the explicit ownership the
\* exports ask for everything else but what Technic installs.
LoaderOwned(target, platform) ==
  {m \in (In(members) \cap Sides(target)) \ Ignored :
     \/ m \in NowGrouped
     \/ ~(platform = "technic" /\ ActiveTechnic = "technic"
            /\ members[m].state = REQUIRED)}

\* An excluded package is only in the choices of its group.
Offered(S) == {m \in S : members[m].state # EXCLUDED \/ m \in NowGrouped}

\* _director_bundle of "mods" and "modrinth-fallback": the fallback has the
\* native packages only while they are excluded.
HostedBundle(name) ==
  LET fallback == {m \in In(members) : ModrinthOf[m] # "version"
                                         \/ members[m].state = EXCLUDED}
  IN Bundle(members, ActiveGroups,
            IF name = "modrinth-fallback" THEN fallback ELSE In(members))

\* get_modversions_api and _technic_solderpy_loader_manifest: what Technic
\* installs itself.
TechnicManifest ==
  LET basic == {m \in In(members) \cap Sides("client") :
                  members[m].state = REQUIRED}
  IN IF ActiveTechnic = "loader" THEN basic \cap Ignored ELSE basic

-----------------------------------------------------------------------------
(* Edits                                                                   *)

\* A change of the build and the memberships it touches.  (Bound: only when
\* an export or Technic has read the build; before, it is as it was at first.)
Edit(touched) ==
  /\ job.stage = "idle" => technic # Absent
  /\ job.stage # "refused"
  /\ edits < MaxEdits
  /\ edits' = edits + 1
  /\ job' = IF job.stage = "idle" THEN job
            ELSE [job EXCEPT !.touched = @ \cup touched]

\* A membership is added, removed, or gets another state or group.
EditMember(m) ==
  /\ Edit({m})
  /\ \E row \in Rows \cup {Absent} :
       /\ row # members[m]
       /\ row # Absent =>
            /\ Legal(m, row, mode)
            /\ row.id = IF members[m] = Absent THEN edits + 1 ELSE members[m].id
            /\ members[m] # Absent /\ mode = "BASIC" =>
                 row.grouped = members[m].grouped
                   /\ row.default = members[m].default
            /\ members[m] = Absent => row.grouped = 0 /\ row.state # EXCLUDED
       /\ members' = [members EXCEPT ![m] = row]
  /\ UNCHANGED <<mode, enabled, public, technic>>

\* set_modpack_mode: every group appears or disappears.
SwitchMode ==
  /\ Edit({m \in In(members) : members[m].grouped = 1})
  /\ mode' = IF mode = "BASIC" THEN "ADVANCED" ELSE "BASIC"
  /\ mode = "ADVANCED" => \A m \in In(members) : members[m].state # EXCLUDED
  /\ UNCHANGED <<members, enabled, public, technic>>

\* PlatformExportOverride.set_enabled.  (Bound: only while an export has not
\* read the mappings yet.)
SetMapping(m) ==
  /\ job.stage = "loaded"
  /\ Edit({})
  /\ enabled' = IF m \in enabled THEN enabled \ {m} ELSE enabled \cup {m}
  /\ UNCHANGED <<members, mode, public, technic>>

\* The build or its modpack is published or withdrawn.
SetPublic ==
  /\ Edit({})
  /\ public' = IF public = "yes" THEN "no" ELSE "yes"
  /\ UNCHANGED <<members, mode, enabled, technic>>

\* A slip: the delivery mode of the form is stored as it is.
ConfigureTechnicRaw(delivery) ==
  /\ job.stage = "idle"
  /\ public = "yes"
  /\ technic # delivery
  /\ technic' = "solder"
  /\ UNCHANGED <<members, mode, enabled, public, job, edits>>

\* TechnicSolderPyLoader.configure and disable.
ConfigureTechnic(delivery) ==
  /\ job.stage = "idle"
  /\ public = "yes"
  /\ technic # delivery
  /\ technic' = delivery
  /\ UNCHANGED <<members, mode, enabled, public, job, edits>>

DisableTechnic ==
  /\ job.stage = "idle"
  /\ technic # Absent
  /\ technic' = Absent
  /\ UNCHANGED <<members, mode, enabled, public, job, edits>>

-----------------------------------------------------------------------------
ExportNext ==
  \/ Load \/ ReadMappings \/ SwitchMode \/ SetPublic \/ DisableTechnic
  \/ \E format \in Formats : Export(format)
  \/ \E m \in Mods : EditMember(m)
  \/ \E m \in Mapped : SetMapping(m)
  \/ \E delivery \in {"loader", "technic"} : ConfigureTechnic(delivery)

ExportSpec == ExportInit /\ [][ExportNext]_exportVars

-----------------------------------------------------------------------------
\* The variables have their types, and an archive lists mods of the build it
\* was made from or mapped ones.
ExportTypeOK ==
  /\ members \in [Mods -> Rows \cup {Absent}]
  /\ \A m \in In(members) : Legal(m, members[m], mode)
  /\ mode \in {"BASIC", "ADVANCED"}
  /\ enabled \subseteq Mapped
  /\ public \in {"yes", "no"}
  /\ technic \in {"loader", "technic", Absent}
  /\ edits \in 0 .. MaxEdits
  /\ job.stage \in {"idle", "loaded", "mapped", "refused", "exported"}
  /\ job.stage = "exported" =>
       /\ job.archive.format \in Formats
       /\ job.archive.bundle \subseteq Actual(job.packages)
       /\ job.archive.launcher \subseteq In(job.packages) \cup Mapped

-----------------------------------------------------------------------------
(* What a player is given who starts the exported pack now.                *)

Target == IF job.archive.format.to = "server" THEN "server" ELSE "client"

ByLauncher == job.archive.launcher \cap Sides(Target)

\* _write_downloader_config chooses what the downloader reads; the loader
\* leaves out the memberships its config lists.
Fallback(format) == format.to = "modrinth" /\ format.source = "hybrid"
ByDownloader ==
  LET a == job.archive IN
  CASE a.format.by = "loader" ->
         {m \in Offered(LoaderOwned(Target, a.format.to)) :
            <<m, members[m].id>> \notin a.listed}
    [] a.format.by = "hosted" ->
         HostedBundle(IF Fallback(a.format) THEN "modrinth-fallback" ELSE "mods")
           \cap Sides(Target)
    [] OTHER -> a.bundle \cap Sides(Target)

\* What the format can carry of the build as it is now.
Wanted ==
  LET format == job.archive.format
      offered == Offered((In(members) \cap Sides(Target)) \ Ignored) IN
  CASE format.to = "server" -> offered \cup ServerLoaders(members)
    [] format.to = "packwiz" ->
         {m \in offered \cap Jars : members[m].state # EXCLUDED}
    [] format.to = "prism" /\ format.by = "none" ->
         Defaults(members, ActiveGroups)
    [] OTHER -> offered

\* Memberships that are still those the export has read, and among them those
\* nobody has touched since.
Same(m) ==
  /\ members[m] # Absent /\ job.packages[m] # Absent
  /\ members[m].id = job.packages[m].id
Untouched(m) == Same(m) /\ m \notin job.touched

\* Where a hosted FileDirector bundle goes wrong: it still has the mapped
\* packages, and the fallback of a Modrinth pack leaves out every native
\* package, those the launcher was not given too.
HostedAmiss(m) ==
  LET a == job.archive IN
  /\ a.format.by = "hosted"
  /\ \/ m \in a.mapped
     \/ /\ Fallback(a.format) /\ ModrinthOf[m] = "version"
        /\ m \notin a.launcher \/ ~Untouched(m)

\* Every package the export has read comes to the player once, from the
\* launcher or from the downloader, and what the build keeps from players
\* comes from none ("so it is not installed twice",
\* docs/distribution-formats.md).  A loader or a hosted bundle holds to this
\* whatever is edited during the export and after it, a list in the archive
\* for the memberships nobody touched since.
ExportsDeliverOnce ==
  job.stage = "exported" /\ (Live(job.archive.format) => public = "yes") =>
    \A m \in In(members) :
      /\ IF Live(job.archive.format) THEN Same(m) ELSE Untouched(m)
      /\ ~HostedAmiss(m)
      => IF m \in Wanted
           THEN (m \in ByLauncher) # (m \in ByDownloader)
           ELSE Untouched(m) /\ m \notin job.archive.mapped =>
                  m \notin ByLauncher \cup ByDownloader

\* A package that is a choice of a group is never among the files a launcher
\* installs without asking, unless its project is mapped ("Advanced-group
\* choices always remain Loader-owned", docs/bootstrap-api.md).
ChoicesStayChoices ==
  job.stage = "exported" =>
    \A m \in In(members) :
      Untouched(m) /\ m \in job.grouped /\ m \notin job.archive.mapped =>
        m \notin ByLauncher

\* Through Technic, what is on offer comes once, from Technic or from the
\* loader it installs ("Both choices avoid duplicate installs",
\* docs/distribution-formats.md), in every mode of delivery and after it is
\* disabled or the build withdrawn.  The exception is a required package of a
\* group while Technic delivers: the loader has it too.
TechnicDeliversOnce ==
  LET loader == IF ActiveTechnic = Absent THEN {}
                ELSE Offered(LoaderOwned("client", technic)) IN
  \A m \in In(members) \cap Sides("client") :
    LET required == members[m].state = REQUIRED IN
    IF m \in Ignored \/ ActiveTechnic = Absent
      THEN (m \in TechnicManifest <=> required) /\ m \notin loader
      ELSE \/ m \in Offered({m}) /\ (m \in TechnicManifest) # (m \in loader)
           \/ ActiveTechnic = "technic" /\ required /\ m \in NowGrouped
           \/ m \notin Offered({m}) \cup TechnicManifest \cup loader

\* The three together: one way to the player for every package.
DeliveredOnce ==
  ExportsDeliverOnce /\ ChoicesStayChoices /\ TechnicDeliversOnce
=============================================================================
