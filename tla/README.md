# A TLA+ model of solder.py

solder.py is a Flask application over MySQL that manages Minecraft modpacks:
a library of mods and their versions, modpacks with builds, exports for several
launchers, a read API for launchers, a write API, and direct publication to
Modrinth and CurseForge. Several server processes with several threads each run
the same handlers against one database. Almost every property worth stating is
therefore about transactions of concurrent requests, about state that is read
in one of them and used in another, and about calls to other services that
happen outside every transaction.

This directory holds TLA+ modules that model those parts, TLC configurations
that check them on small instances, and theorems about them that TLAPS checks
for every value of the constants. `PROJECT.json` lists components, runs,
mutants, the source lines each definition translates, findings, hazards and
theorems. Paths below are relative to the repository.

    tlc -config Publishing.cfg MCPublishing        # a run
    tlapm DistributionProofs.tla                   # the proofs of a module

## Inventory

Each entry gives the state a component keeps, its operations, what it talks to,
what is hard in it, and what would make it correct.

**Direct publishing** (`models/platform_publishing.py`, `publish_build` and
`_render_native_platform_archive` in `asite.py`). State: accounts, publication
targets, and `modpack_publication_runs` with a status and a deduplication key.
Operations: configure or delete a target, publish (render an archive, claim a
run, upload over HTTP, record the outcome), release a run for a retry. Hard:
the lock state and the version are read long before they are used; the upload
runs outside every transaction; a request may time out while the provider goes
on, a gateway may answer for it, the worker may die, the owner may release a
run that is still going. Correct if one version of a build is never uploaded
twice by itself, successes are numbered without gaps, and a recorded success is
true and final.

**Optional states and advanced optional groups** (`models/advanced_optional.py`
and its callers in `build.py`, `build_modversion.py`, `mod.py`, `modversion.py`,
`write_api.py`, `asite.py`). State: the mode of a modpack, groups of a build,
items that list a membership in or outside a group, and the optional state of a
membership. Operations: switch mode, create and delete groups, list, unlist,
move in and out of groups, add and remove memberships, delete and clone builds.
Hard: no foreign keys; `normalize_group` reads a snapshot and writes current
rows. Correct if items belong to live memberships and groups of their build, an
exact-one group has one default, and nothing is excluded where no group can
bring it back.

**Build contents and required dependencies** (`models/modversion.py`,
`models/build_modversion.py`, `models/write_api.py`, `models/compatibility.py`,
`models/mod_dependency.py`). State: the versions in a build, the build's loader,
the pairs of mods of which one requires the other. Operations: add or replace a
version with what its mod requires, update all mods, remove, edit the build,
edit the required mods. Hard: the two interfaces lock different rows, the
present mods are read once from a snapshot, a launcher changes the loader that
its own required mods must fit, and nothing in the table forbids a second
version of a mod. Correct if a build has one version of a mod, everything
required, and versions that fit.

**Read API and its caches** (`api.py`, `models/cache_revision.py`, `app.py`).
State: TTL caches in each process, a revision row that is part of every key.
Operations: answer from or into the cache; change, clear, increment. Hard: a
read overlaps a change in another process; the look-up or the increment of the
revision fails. Correct if a change that was announced is never missed
afterwards, and any change is seen in the end.

**Mod and version library** (`models/mod.py`, `models/modversion.py`,
`models/mcinstance.py`, `models/write_api.py`). State: mods, versions, hashes,
the ZIP and JAR files in a repository or bucket, URLs that serve a JAR instead.
Operations: upload (files, then a row, then the marked build in a second
transaction, with a compensation), hash in a thread, create JARs and scan for
them, override downloads, edit, delete. Hard: files are moved without a lock,
hashes and downloads are computed outside every transaction, and a version may
be deleted while a build adds it or a thread hashes it. Correct if the stored
MD5s are those of the files, an override serves the JAR whose MD5 is stored,
and no build refers to a deleted version.

**Modpacks, builds and channels; clients, keys and user access**
(`models/modpack.py`, `models/build.py`, `models/client.py`, `models/key.py`,
`models/client_modpack.py`, `models/user_modpack.py`, `models/api_token.py`).
State: modpacks that are hidden or private, with a recommended and a latest
build; builds that are published or private; clients with their modpacks, API
keys, personal tokens. Operations: create, clone, rename, publish, hide, delete,
mark, grant and withdraw. Hard: a read takes several queries, channels and
variants name builds by version, and which query has which condition is written
out separately for every route. Correct if an answer names only builds its
caller may read, under the name that was asked for, and what one route lists
another one serves.

**Write API and tokens** (`api_write.py`, `models/write_api.py`). The same
tables by other transactions, under token scopes and user permissions.

**Login, sessions, throttling, setup** (`alogin.py`, `asetup.py`,
`models/session.py`, `models/login_throttle.py`, `models/user.py`,
`models/passhasher.py`, `models/common.py`). State: users with a password hash
and permissions, session rows, failure counters, blocks. Operations: set up, log
in, upgrade a hash, verify and touch a session, log out, clean up, change a
password, edit users. Hard: the block is read before the password is verified,
which takes long, and the failure is counted afterwards; a new session replaces
old ones in two statements; the cleanup thread ends with the first exception.
Correct if overlapping guesses are bounded, a user has one session, a password
that was changed stays changed, and the first user is an administrator.

**Provider integrations** (`models/integration.py`,
`models/integration_manifest.py`). State: links of mods to projects, provider
ids of versions, pairs of required mods, archives. Operations: search, import a
release with everything it requires, materialize a version, roll back. Hard: an
import is many transactions, files and remote calls; it fails half-way and must
take back exactly what it made; required releases come in diamonds and circles.
Correct if a failed import leaves nothing, a finished one is whole, and what a
release requires is stored before it.

**Maven repository** (`models/maven.py`). State: repositories, artifacts with a
rule, versions mapped by the rule or by hand. Operations: create, refresh,
change the rule, correct a version, delete. Hard: the metadata is fetched
between two transactions and the rule applied row by row. Correct if
corrections survive and every other row follows the rule.

**Exports and distribution** (`models/platform_export.py`,
`models/platform_export_override.py`, `models/mcinstance.py`,
`models/distribution.py`, `distribution_api.py`, `models/bootstrap_manifest.py`,
`models/technic_solderpy_loader.py`). State: sync mappings, the build a Technic
loader delivers. Operations: export to a dozen formats, serve the bootstrap and
the hosted bundles, configure and disable Technic delivery. Hard: a pack has two
installers, and which of them has a package is decided by different code at
different times: when the archive is written, when the loader reads the
bootstrap, when Technic reads its manifest. Correct if every package comes from
exactly one of them.

**GitHub configuration export** (`models/github_config.py`), **schema**
(`models/database.py`), **signing** (`models/bootstrap_signing.py`),
**dashboard, help and tools** (`models/dashboard.py`, `models/help_docs.py`,
`tools/`). Rendering, DDL, library calls and read-only pages.

Components meet in the database, in `CacheRevision` (every writer increments
it), in `Modversion._add_required_dependencies` (called from the management
site, the bulk update, the write API and imports), and in
`AdvancedOptional.normalize_group` (called wherever a membership goes).
`Build.get_by_modpack_version_api` answers manifests, bootstraps, hosted packs
and exports; `Modversion.new` stores versions for uploads, the write API, Maven
and imports.

## Modules

| Module | Models | Checked by |
| --- | --- | --- |
| `Publishing` | direct publication | `MCPublishing`, `DistributionProofs` |
| `ReleaseLedger` | what publication promises of a target and a build | refined by `Publishing` |
| `OptionalGroups` | optional states and groups | `MCOptionalGroups`, `OptionalGroupsProofs` |
| `BuildContents` | versions in a build, required mods | `MCBuildContents`, `BuildContentsProofs` |
| `ApiCache` | the caches of the read API | `MCApiCache`, `ReadApiProofs` |
| `Serving` | modpacks, builds, channels, and who reads them | `MCServing`, `ReadApiProofs` |
| `Access` | setup, login, sessions, users | `MCAccess`, `AccessProofs` |
| `Library` | versions of a mod, their files and overrides | `MCLibrary`, `LibraryProofs` |
| `Imports` | imports from Modrinth and GitHub | `MCImports`, `ImportsProofs` |
| `Maven` | an artifact and its mapping | `MCMaven`, `MavenProofs` |
| `Exports` | exports, hosted bundles, Technic delivery | `MCExports`, `DistributionProofs` |

The modules meet at their borders: `Exports` assumes of a build what
`BuildContents` (a mod once) and `OptionalGroups` (legal states and groups)
show; `Serving` decides which build a route answers with, `ApiCache` how old the
answer may be, `Exports` what is in it; `Imports` and `Maven` create rows whose
later life is in `Library`.

Two proof modules are about two modules each: `ReadApiProofs` about `Serving`
and `ApiCache`, the two halves of an answer of the read API, and
`DistributionProofs` about `Publishing` and `Exports`, the two ways a build
leaves the server as a pack. So that they can be extended together, the
definitions of `ApiCache` and `Exports` that would meet others have a prefix
(`CacheSpec`, `CacheTypeOK`, `ExportSpec`, `ExportTypeOK`).

Definitions marked "A slip" in the modules are plausible mistakes. No
specification uses them; substituting one for the definition after it shows that
a property notices the mistake. `PROJECT.json` pairs them with properties.

### Transactions

MySQL runs with its default isolation, REPEATABLE READ. A transaction's plain
SELECTs read the snapshot of its first one; its UPDATE, INSERT, DELETE and
`FOR UPDATE` statements see and lock current rows until the commit. The modules
therefore split a transaction that reads before it writes into an opening step,
which records what it read, and a commit, which does all its writes. Placing the
writes at the commit is sound because a written row is locked until then and
nobody reads it uncommitted. A transaction that only writes is one step.

### Publishing

`targets`, `builds`, `runs` and `lastRun` are rows and counters of tables;
`workers` are the local variables of requests; `requests` is what became of each
upload at the provider. `Open` is the handler before it renders, `Resolve` the
read of the target and the token, `Begin` or `Refuse` the transaction of
`_begin_run` (the target's row is locked, so it is one step), the `Answer`
actions the ways `_publish_modrinth` and `_publish_curseforge` end, `Finish` the
transaction of `_finish_run`. `Accept` and `Lose` belong to the provider and the
network. `Crash` ends a worker anywhere. `ReleaseForRetry`, `EditBuild`,
`SaveTarget` and `DeleteTarget` are the user's. `OwnerCare` says how careful the
owner is before "Allow retry". A version is a sequence of parts, so that a build
may itself be named like a patch of another version; a digest is a pair of a
content and the version rendered into the manifest.

`ReleaseLedger` knows a release number under way and the number of confirmed
releases of each target and build. `Publishing` implements it, with the active
run's patch number and the count of successes as its variables, provided owners
release only runs that nothing holds any more. TLC checks this on an instance,
and `LedgerImplemented` proves it.

### OptionalGroups

Every operation that changes a mode, a group, an item, an optional state or a
membership. `Normalized` is `normalize_group`: among rows that tie, which
becomes the default depends on `sort_order`, which is left out, so it is a
choice. The item of a membership stands for its row (the table has at most one).
The mode a route reads is merged with the opening step, `delete_modpack` is
`DeleteBuild` for each build, and a clone, which only inserts rows from one
snapshot, is one step. `remove_build_mod` locks the item row, which only removes
interleavings that the model keeps. `CHECK_DEADLOCK FALSE` in these
configurations: identifiers are not reused and are bounded, so a long behaviour
runs out of them.

### BuildContents

One build with a fixed Minecraft version and a fixed catalog of versions. A
request of kind `site` is `add_modversion_to_selected_build`, `all` is
`update_all_compatible`, `api` the write API's add and update. `Start` takes the
snapshot. `NextJob`, `ResolvePresent` and `ResolveMissing` are the loop of
`_add_required_dependencies`; its queue is a set, because the order in which
mods are visited changes nothing but the order of rows. `Commit` applies the
changes. `Precedes` is the ORDER BY of the query that chooses a version.

`LocksBuild`, `HoldsRow` and `HoldsGap` are the locks. The statements of the
management site lock the row of the build, those of the write API rows of the
mod in the build or the gap where they would be. Which further rows a join locks
depends on the order the optimiser chooses; the model keeps what every order
locks, so it has at least the interleavings MySQL has. Numbers of rows stand for
AUTO_INCREMENT ids: only their order within a mod matters, and a number that
neither a row nor a request refers to is free again.

### ApiCache

One response. Its content is the number of the last change committed when the
handler's first query ran; later queries can only show more. A writer commits,
clears its process's caches and increments the revision in the order of its
kind: some management handlers clear before `after_request` increments, the
write API after, the hashing thread never. A failed look-up uses revision 0 and
is owed nothing.

### Serving

`packs`, `builds`, `grants` and `user` are rows; `Readable`, `Accessible`,
`OfVersion`, `OfMod` and the others are the WHERE clauses of the queries, one
operator each. A read (listings, a modpack, a build, the bootstrap, a hosted
pack, the page of a mod version) runs query by query with edits in between;
`was` records what held at some moment of it, so that `AnswersWereRight` can
say: whatever is in the answer was published and open to the caller, and the
name meant that build, at some moment of the read. Moments may differ: a modpack
can have had its slug before a build was published. `ListedIsServed` compares the
queries with each other. Version strings are sequences of parts, so that
"1-optional" may be a variant of "1" or a build of its own.
Left out: contents and marks of builds, the `from` comparison, fields of
answers. An UPDATE by id is one step and changes one column; the two look-ups of
a principal are one, and so are the two queries that authenticate it. Clients
are there at first and are not created again. One user has one token; other
users are administrators. A behaviour ends with the answer of its read.

### Access

A worker serves one request at a time. `AskLogin` reads the block, `CheckPassword`
verifies outside every transaction, `UpgradeHash`, `ClearFailures`,
`StartSession` and `CountFailure` are the transactions that follow; any of them
may break (`LoginBreaks`, `LoseFailure`). `Clean` is the loop of the session
thread and `CleanerEnds` its end with an exception: `Session.running` stays set
and keeps another from starting. Time passes in ticks. `Tick` does not pass
while a failure waits for the locks of its rows, which InnoDB ends long before
WINDOW_MINUTES do. Start states are a clean database, whose tables are created
when the process starts (`Startup`), and one with an administrator whose hash
is of the first version. Sessions of a deleted user stay until they expire, and
a changed password ends no session: both are in the model. CSRF tokens, cookies
and hash functions are library calls.

### Library

One mod with one slug, its files in a local folder. A file, its MD5 and what a
URL serves are one value. `Upload`, `PlaceZip`, `PlaceJar`, `Insert`,
`MarkedBuild` and, on failure, `Undo` and `Unlink` are the steps of
`modlibrary_post` and `Modversion.new`; `HashRead` and `HashStore` those of the
hashing thread; `Scan`, `StoreJars`, `RecordJars` those of `MCInstanceJar`;
`CheckOverride` and `SaveOverride` the two halves of `update_jar_url_override`;
`CountBuilds` and `DeleteCounted` the deletion of the write API, `ListVersions`
and `DeleteMod` that of a mod. The histories name where the code gives no
guarantee: `shared` (two requests write the files of one version: nothing but
the check for existing files keeps them apart), `byHand` (an MD5 that was typed
in), `unseen` (an MD5 replaced by a request that had not seen the override),
`missed` (a version added to a build while it was being deleted). A
JAR creation has seen the override of its row only as long as the MD5 of the
row was one of that override's file (`seen` is empty for an id in `unseen`). R2,
provider
ids, renaming and the refusal of versions that do not fit a build are left out.

### Imports

One request imports in the steps of the source: `Lookup`, `Link`, `Create` for
each project, then `Enter`, `NextDependency`, `Choose`, `Declare`, `MoveFiles`
and `Insert`, a depth-first walk whose stack is `req.stack`. Every call of the
provider, the repository or the database may fail; `Rollback` and `Sweep` are
the compensation, `Crash` ends the process anywhere. Meanwhile administrators
edit the library (`NewManual`, `LinkExisting`, `DeleteVersion`, ...) and another
request imports (`OtherProject`, `OtherImport`: their whole work is one step).
`before`, `calm` and `whole` remember the library at the start of the request,
whether anyone else changed it since, and whether anything was ever taken out.
Only a release of a project requires others: the state of a GitHub repository
comes without dependencies (`Requirements`). The library a behaviour begins with
has unique ids and slugs, as its keys demand.

### Maven

One artifact. `NewArtifact`, `Attach`, `CreationFails` and `Undo` are the
creation with its compensation; `Refresh`, `Fetch` and `Sync` a refresh, whose
metadata is fetched between two transactions; `ReadRule`, `SaveRule`, `Reread`,
`Select` and `Reapply` the change of a rule, which `SaveMapping`, the correction
of one version, may overlap. A reapplication answers for the
rows that were not corrected when it selected them (`Uncorrected`). What the
regular expressions of a rule make of a
version string is a function of the instance (`Embedded`, `Fixed`).

### Exports

`members` is the build, `job` an export that reads packages (`Load`), mappings
(`ReadMappings`) and groups (`Export`) one after another, and then its archive:
what the launcher is told to get, what the downloader finds in the archive, and
what it is told to leave alone. `ByLauncher` and `ByDownloader` are what a
player is given by each *now*: a loader or a hosted bundle reads the build when
the game starts. `DeliveredOnce` compares them after every edit, with three
parts: an exported pack (`ExportsDeliverOnce`), choices
(`ChoicesStayChoices`) and Technic (`TechnicDeliversOnce`). The property is
about memberships that are still those the export read; for one that was
removed and added again, or whose project was mapped later, the pack a player
has says nothing new, and it does come twice.
Left out: contents, hashes, paths and downloader releases, the matching of
CurseForge files, CSV exports, the `server` ownership of configurations written
by older versions. A mapping has the side of its mod. Technic configuration is one
step (`get_active` asks again for what it checks). Both queries of a public
route read one moment. `public` stands for build and modpack. What the loader
does with `launcherOwnedMemberships` is external (docs/bootstrap-api.md).

## Runs

| Run | Instance | Distinct states | Shows |
| --- | --- | --- | --- |
| `publishing` | one target, builds `1.0` and `1.0-patch-1`, two workers, two runs, a careless owner | 177,708 | No version is accepted twice, successes are final, patches are in sequence, whatever fails or crashes |
| `publishing_ledger` | one build, two workers, three runs, an owner who waits | 49,544 | `Publishing` implements `ReleaseLedger`; uploads settle |
| `optional_groups` | one pack, two builds, two mods, three memberships, two groups, one request at a time | 1,689,000 | Items, groups and optional states agree, and an exact-one group has one default |
| `api_cache` | two processes with one thread each, a management and a write API change | 37,103 | No announced change is missed, stale entries go in the end |
| `build_contents` | three mods, five versions; two management requests, or a write API request beside an editor | 189,166 | One version of a mod, everything required, versions that fit, no circles |
| `serving` | two slugs, three builds, one worker beside one read; nobody, the API key or a client as the caller | 1,097,650 | Every answer was right at some moment; what is listed is served |
| `access` | two workers, one name, one address, two passwords, three ticks, five requests | 681,176 | Guesses are bounded, one session, a changed password stays changed, expired sessions go |
| `access_setup` | the same | until violated | The first user of a clean database has no permissions |
| `library` | one version string, two ZIPs and their JARs, two rows, two workers, four requests, one hashing | 1,634,071 | Overrides and MD5s are those of the files |
| `imports` | three projects and a repository, six releases in a diamond, a chain, a circle and two pins; two requests, one edit by others | 727,363 | A failed import leaves nothing, a finished one is whole, requirements come first |
| `maven` | two upstream versions, one of which the pattern matches, two workers, two saves, one change upstream | 1,390,643 | Corrections survive, other rows follow the rule |
| `exports` | four mods of which two are in the build, every format, one edit at any moment | 1,120,684 | Every package is delivered once |

Why the bounds are enough. *Publishing*: two workers are the two actors of every
race on one target and build, which all properties are about (nothing relates
different pairs); two runs are a duplicate; the run of the ledger has three, so a
success, a failure and another attempt fit in one behaviour; one content is
enough where no property compares contents. *OptionalGroups*: a second build is
needed for clones and foreign groups, two groups for moves between groups,
three memberships for two of one build and one of another. *BuildContents*:
three mods that may require each other in a ring give transitive and shared
requirements and the circle; the catalog has a launcher that changes the
loader, an older explicit and a newer universal version, and a version that
fits one loader only. Two rows of one mod are a violation already. `WalkAtOnce`
lets a request that walks through required mods finish its walk before others
move: these steps read and write only its own state, so they commute with all
others. *ApiCache*: two processes with a thread each, a management change and a
write API change; the second thread of a process and the hashing thread exist in
`MCApiCache` for larger instances, the proof covers any number. *Serving*: a
read beside two requests that each take one or two steps; a pack with a build,
and room for a second pack and two more builds, so that a name may move from one
to the other, or a pack with a build and another that has the name of a channel;
a version, its variant and a channel name; "latest" stands for
both channels and "optional" for both suffixes, which the code treats alike.
*Access*: the account is blocked at its second failure and the address at its
fourth, so that both limits and a retry after the block fit into five requests;
a window and a block of two ticks; with these, the bound of `GuessesBounded` is
reached exactly. *Library*: one version string is one pair of files, and two
rows and two workers are all that can share it; two JARs tell a replaced one
from the one that was verified. *Imports*: the catalogs have the shapes of a
dependency graph on which the walk can go wrong; one edit by others beside two
requests, since every property is about a single disturbed or undisturbed
import. *Maven*: a matching and an unmatched version, a correction, and two
saves, so that two rules, or a rule and a correction, overlap. *Exports*: two
packages are what a downloader can confuse; the four mods are a native one whose
file is stored, one whose file the provider may have lost, server files with a
mapped project, and a server's modloader. An edit happens only once an export or
Technic has read something (before that it is another start), one of a mapping
only before the export has read them, and a build that Technic delivers is not
exported in the same behaviour.

`CHECK_DEADLOCK FALSE` is said where behaviours end: identifiers are not reused
and are bounded, and so are requests, edits and time (`optional_groups`,
`access`, `access_setup`, `imports`, `maven`, `library`, `serving`), or one
export is all there is (`exports`).

Symmetry is used in runs without liveness properties only, over workers, mods,
requests and files that no definition tells apart.

### Liveness and fairness

`UploadsSettle` (no attempt stays PENDING while its worker lives) assumes weak
fairness of a worker's progress: rendering ends, the database answers, and every
upload has a timeout (`_REQUEST_TIMEOUT`, `models/platform_publishing.py:21`). A
crash is always possible and ends the obligation; so it is not claimed that an
attempt of a dead worker settles (it does not: it waits for "Allow retry").

`StaleHeals` (once nothing changes, every cache ends up with the current
response) assumes weak fairness of a thread that has a key (handlers finish) and
of the expiry of each entry (`CACHE_TTL`). Nothing is assumed of increments.

`ExpiredGo` (expired sessions go) assumes weak fairness of the session thread's
loop, and is claimed only as long as that thread has not ended.

## Findings and departures

`access_setup` (`FirstAdministrator`) is a disagreement of the code with the
README it is shipped with: the web setup of a clean database is to make the
first administrator, but the tables are created when the process starts, and
`User.new` then takes the database for one that was set up before. Only with
`NEW_USER` does the first user get permissions. `PROJECT.json` quotes the lines.

Where the code promises less than one may expect, the checked properties have a
named exception, and each exception was found to be needed. The definitions
to reproduce them are in the modules.

* The refusal of an identical archive never fires, because the version of the
  patch is rendered into the archive: `PatchesChangeTheBuild` of `Publishing`
  fails for one worker and two contents.
* "Allow retry" is offered for an upload that is running: `CheckedRetryIsSafe`
  fails with `OwnerCare = "checks_remote"`, an owner who looks at the provider
  first.
* Two requests at once may leave an exact-one group without a default, each
  keeping a row that the other takes away: `SomeDefault` with two workers. At
  most one default survives any interleaving (theorem `OneDefaultAtMost`).
* "The build mod no longer exists." is said of a membership whose state does not
  change, since MySQL counts changed rows: `UngroupTellsTruth` fails.
* A management add and a write API add of one mod at once put two versions of it
  in a build: `OneVersionPerMod` without `LoadsApart`. Two edits of required mods
  at once make a circle each of them would be refused: `NoCircles` with two
  editors.
* `delete_modversion` and `delete_mod` may delete a version a build has just
  added (`missed` in `Library`); uploads of one version at once share its files
  (`shared`); a scan replaces a JAR MD5 beneath an override (`unseen`).
* A failed import keeps the promoted type of its parent and the new link of a
  mod that had imported versions before (`Untyped`, `Relinked` in `Imports`).
* A new rule that had selected its rows writes over a correction saved since
  (`overtaken` in `Maven`), and a refresh that began before a rule was saved
  inserts rows of the old one (`behind`).
* A build may be inserted for a modpack deleted meanwhile (`late` in `Serving`).
* A hosted FileDirector bundle still has the mapped packages, and the fallback
  of a hybrid Modrinth pack leaves out every native package, those the launcher
  was not given too (`HostedAmiss` in `Exports`, `distribution_api.py:229`);
  while Technic delivers, a required package of a group comes from the loader
  too. docs/distribution-formats.md says of both that nothing is installed
  twice.
* An edit that moves a package out of its group between two reads of one export
  can drop it from both lists; `touched` excludes such packages.

## Proofs

All theorems hold for every value of the constants that satisfies the named
assumption of the module (`PublishingAssumption`, `OptionalGroupsAssumption`,
and so on). Most of these only give the constants their types and keep `None`,
which stands for NULL, apart from them. `AccessAssumption` says more: both limits
are at least 2, a window and a block last two ticks or more, a block is not
shorter than the window, and there are finitely many workers
(`models/login_throttle.py` has limits of 5 and 30, and 15 minutes for both).
`LibrariesAssumption` of `Serving` says that the libraries it begins with are
well formed.
Each proof module defines an inductive invariant, shows that the initial states
satisfy it and that each action keeps it, and derives the rest. Every such
invariant was checked by TLC on the instance of its run before it was proved.

*`DistributionProofs`, publication*: `TypeCorrect`, `DuplicateLock`
(`OneActiveAttempt`), `NoDuplicates` (`NoDuplicateRelease`), `SuccessStays`
(`SuccessIsFinal`), `NumbersInSequence` (`PatchesInSequence`), `LedgerImplemented`
(`ImplementsLedger`). That no version is accepted twice is not inductive: it
depends on the key of every row that stands for a remote version or may come to
(`KeysKept`), which depends on no two workers holding one row and on answers
agreeing with requests (`RowsHeld`). The unique key then keeps two such rows
apart (`VersionsApart`). The numbers of the successes follow from what an active
attempt carries (`Numbered`): the number of successes, all of which are older
than it; as the lock admits one active attempt only, its success is the next.
The refinement assumes `OwnerCare = "waits"`, an owner who releases an attempt
only when no worker holds it and no request of it is under way or accepted; then
a released attempt is over (`ReleasedGone`), the lock has no exception, and an
active attempt is always for the next release (`ActiveNext`). Under these each
step is a claim, a confirmation, an abandonment or a deletion of the ledger, or
leaves it alone. Without the hypothesis the released upload may still succeed
beside its retry, and the refinement fails.

*`OptionalGroupsProofs`*: for any number of concurrent requests `TypeCorrect`
and `OneDefaultAtMost` (`AtMostOneDefault`). The argument of the second is that
`normalize_group`, however old its snapshot, writes every row the group has by
then (`NormalizedKeeps`). The invariant adds that snapshots know no group that
does not exist yet (`GoodSnap`), that fresh ids are unused (`Fresh`), and the
types of open transactions. `ItemsStay` (`ItemsBelong`), `DefaultStays`
(`SomeDefault`), `ExcludedStays` (`ExcludedInGroup`) and `ExcludedCanBeChosen`
(`ExcludedReachable`) have the hypothesis `Serial`, that requests do not overlap
(one worker): without foreign keys, nothing else keeps two requests from
leaving an item without its group or a group without its default, as the
departures above show. The last also has `OnePack`, that all builds are of one
modpack. The invariant (`SInv`) adds what an open transaction has read of the
tables, which are still as it read them (`Current`).

*`BuildContentsProofs`*: `TypeCorrect`, `AddsComplete` (`AddsAreComplete`), for
every graph of required mods, circles included, and any concurrent requests. The
invariant (`WalkCovers`) is that of a graph search: what is owed is present, or
required by a mod visited or queued; what a visited mod requires directly is
visited or pending; and what is owed and was present is still in the build or
will be inserted. `Required` is defined as the least closed set, which makes the
step from "no mod pending" to "all required mods visited" one lemma.

The rest of the module is about what the locks of a build ensure.
`SiteAddsFitTheLoader` (`SiteAddsFit`) needs no assumption: the lock of the
build's row keeps its loader as it was when the request computed the loader for
its required mods (`JobLoaderIsSynced`), so what it finds fits the loader that
its commit leaves (`FitInv`). `OneVersion` (`OneVersionPerMod`) assumes that the
requests at once are all of the management site or there is only one
(`LoadsApart`), and `OneEditorNoCircles` (`NoCircles`) that editors run one after
another (`EditorsAlone`); neither can be dropped, as the departures above show.
Of the first the invariant says that a transaction that adds is the only one,
and that the mods it inserts are distinct and not in the build. The second rests
on `MorePairs`: new pairs from a mod make no circle in a graph that has none if,
with them, no target leads back to the mod.

*`ReadApiProofs`, caches*: `CacheTypes` (`CacheTypeOK`), `ReadsAreFresh`
(`FreshAfterBump`), for any number of processes, threads and changes. The
invariant (`CacheInductive`) says that an entry under the current revision, or a
response about to be stored under it, shows every announced change, and that no
key is ahead of the revision.

*`AccessProofs`*: `TypeCorrect`, `OneSession` (`OneSessionPerUser`),
`HashCurrent` (`HashIsCurrent`) and `GuessesAreBounded` (`GuessesBounded`), for
any number of workers, users, names and addresses. The first three need
that ids are handed out in order, so that no row takes the place of one a login
has read. The bound on the failures of a name relates the list of times at
which they were counted (a history) to the row of the throttle, which keeps only
the first time and a number: `RowOK` says which end of the list the row stands
for and when its block was set. A failure counted is one whose request saw no
block, so within a window the requests that may still be counted are those that
read the row before (`Before`). A window overlaps at most two rows. `WindowOK`
bounds what it has of the earlier one, and distinguishes whether the block of
the later one is within it (`Normal`), was over before (`Over`) or begins in its
last tick (`OverLate`). The bound is 2 (limit + workers - 2): each of two rows
takes limit - 1 failures, and every worker but one may be checking a password
while the limit is reached. A smaller one that had been stated,
2 (limit - 1) + workers, is the same for two workers, and false for three: the
workers count in both rows.

*`MavenProofs`*: `TypeCorrect`, `CorrectionsStay` (`ManualKept`) and
`RulesApply` (`RuleFollowed`), for any versions, rules and workers. The
invariant says of each request what its artifact still is, which rows it has
seen, and that a row it is going to write is one the current rule has not
reached yet, or is recorded as written over (`Targets`). The attempt to prove it
showed that a reapplication also cleared the record of rows it passes over
because they are corrected; once the correction is withdrawn, the row says what
an older rule said (three saves violate `RuleFollowed`). It now clears only the
rows it is for.

*`LibraryProofs`*: `TypeCorrect`, `OverridesServe` (`OverrideMatches`) and
`HashesOfFiles` (`FilesBehindRows`), for any versions, files and requests. Files
are changed by the requests that hold a version, and only a shared version is
held by two (`Exclusive`), so what a request found out of its files stays true
(`AllFiled`), and the JAR it is going to store is there already or the first one
(`Files`). The attempt to prove `OverrideMatches` showed that a JAR creation
that begins after an MD5 was replaced beneath an override was taken to have seen
the two agree (one row and six requests violate it); it no longer is.

*`ReadApiProofs`, answers*: `TypeCorrect`, `AnswersRight` (`AnswersWereRight`) and
`ListingsServed` (`ListedIsServed`), for any library, versions, variants,
channels and callers. What is true now is in the history of the read
(`Now \subseteq was`), so what a query returns is in it, and it only grows; what
the read has in hand between two queries is in it too (`InHand`), which says for
each kind of read what it relies on: the packs its key and token opened, the
packs still to list, the builds collected, the versions still to try. The attempt
to prove `AnswersWereRight` showed that it asked too much: that a build of the
name itself was not to be had was recorded for packs under the slug only, so a
read that found its pack, then lost the slug to a renaming and the build to a
withdrawal, was taken to be wrong in answering with the channel's version (two
edits and a build named like the channel violate it). A pack that was found is
now recorded whatever its slug is, and the run begins with such a build.
`ListingsServed` follows from the rows alone: the WHERE clauses of the listings
imply those of the look-ups, and a name with a variant tries the bare version
after the real names (`CandidatesAre`).

*`DistributionProofs`, exports*: `ExportTypes` (`ExportTypeOK`) and
`OneWayToThePlayer` (`DeliveredOnce`), for any mods, mappings, formats and edits.
The invariant (`ExportInvariant`) has two halves. What an export has read is what
the build still has, but for the memberships touched since (`PackagesKnown`,
`GroupsKnown`): an edit either touches a membership or leaves it as it was. And
an archive is related to the packages and groups it was made from: what the
launcher was given (`GivenTo`), what the downloader leaves to the launcher
(`Owned`) and what it brings itself (`Brought`). The property follows by cases
over the formats: for an untouched membership, what the archive says and what a
loader or a hosted bundle reads today speak of one row. Besides the types of its
constants, `ExportsAssumption` keeps `Absent` apart from the two ways Technic
delivers.

*`ImportsProofs`*: `ImportTypes` (`TypeOK`), `ImportsWhole` (`ImportedWhole`),
`RequirementsFirst` (`DependenciesFirst`) and `FailuresRolledBack`
(`RolledBack`), for any catalog of required releases, circles included, any
library to begin with, and any edits, failures and crashes. None needs an
induction over the catalog: the recursion of `_materialize` is the stack of the
request, and an invariant of the stack does instead. The invariant has five
layers.

* `Rows`: the tables and the request are well formed, a slug and a file name are
  taken once, and no id, a noted one neither, is ahead of the AUTO_INCREMENT; so
  a new row takes the place of nothing that the request remembers.
* `Graph`: what the request knows of the graph it resolves. The calls in progress
  work on distinct projects, which bounds the stack by the number of projects;
  each call waits for a requirement of its own, whose pin the call above has
  (`Waiting`); a chosen release is pinned down in the context, and its project
  is either in progress or processed (`Known`); a processed release has all it
  requires processed, with the pins respected. A second pin for a project that
  differs from the first can therefore only raise.
* `Settled`: as long as nobody disturbed the request, or nothing was ever taken
  out of the library, what it knows is still true there: mods found are in place,
  processed releases stored, their dependencies declared. `ImportedWhole` needs
  no more than these three: at the end the stack is down to one release, and
  every other chosen one is processed.
* `Kept`: what the request noted is exactly what it has to take back. Without the
  versions, dependencies and files it noted (and the file already in place whose
  row is still to come, `Pending`), the library is the one before; without the
  mods and links it noted, the mods are too, but for their types. One
  compensating transaction and the sweep of the files then give `RolledBack`.
* `Founded`: a version has its file and its requirements below it (`Sound`), and
  an older version does not rest on anything the request would take back
  (`Lasting`), so neither a compensation nor a crash inside it leaves a version
  without what it requires. A file that is in place and has no row carries the
  archive of this request under a name no version of the mod has (`Packed`).

`RolledBack` is about requests that nobody disturbed, `DependenciesFirst` about
libraries from which nothing was taken out: `Settled` covers both with
`calm \/ whole`.

### Model-checked only

`UploadsSettle`, `StaleHeals` and `ExpiredGo` are liveness properties under
fairness, out of the prover's reach, and stay with TLC; and `FirstAdministrator`
is a claim that the code refutes. Every other property of every run is what a
theorem states, some under a hypothesis named above (`Serial`, `OnePack`,
`LoadsApart`, `EditorsAlone`, `OwnerCare = "waits"`) that the run's instance
satisfies too. What TLC checks of them beside the proofs is that the
instances reach the interesting cases: each action fires, and each property is
violated by a plausible slip in the code.

## Not modelled

Rendering of archives and pages, parsing of remote answers, password hashing,
signing, cookies and DDL are data or library calls. The export of configurations
to GitHub copies a tree and keeps no state. Dashboard, help pages and tools only
read. Two requests of the write API that run at once are left out of
`build_contents`, because with any request beside it the write API breaks
`OneVersionPerMod`. In `Publishing` a target keeps its remote project and its
identity; in `OptionalGroups` builds of one modpack are cloned, while an
excluded membership may be out of reach in a build cloned into another modpack
(the guide says nothing of it). What is left out of single modules is said in
their sections and in the notes of `PROJECT.json`.

## Plan

Every safety property that a run checks is proved. What could be added are
parts that are not modelled yet, in this order:

1. Retargeting of a publication target and the life of its account, beside the
   attempts of `Publishing`: a target would keep a history of remote projects.
2. The other sources of an import (CurseForge, a manifest with several
   projects), whose steps are those of `Imports` with other look-ups.
3. R2 as the repository of `Library`, where moving a file is two remote calls.
