------------------------------- MODULE Serving -------------------------------
(***************************************************************************)
(* Modpacks and builds, and who may read them (models/modpack.py,          *)
(* models/build.py, models/client*.py, models/key.py, models/api_token.py, *)
(* models/user_modpack.py): the read API of api.py and the distribution    *)
(* endpoints beside the site and the write API.                            *)
(*                                                                         *)
(* A version string is a sequence of parts: "1.0-optional" is              *)
(* <<"1.0", "optional">> and the channel "latest" is <<"latest">>.  What a *)
(* build contains and the response caches are other modules.               *)
(***************************************************************************)
EXTENDS Integers, FiniteSets, SequencesExt

CONSTANTS
  Slugs,
  Versions,  \* version strings of builds and names asked for
  Channels,  \* <<"recommended">> and <<"latest">>
  Variants,  \* "optional" and "server"
  Clients,   \* ids of clients, each with its UUID
  Callers,   \* credentials of a read: [cid, k, t], the client UUID or None,
             \* whether it has the API key, whether it has the token
  Workers,
  Starts,    \* libraries to begin with: [packs, builds, grants, user]
  MaxPack, MaxBuild,  \* bounds: ids
  MaxBegun,           \* bound: requests that begin
  None

ASSUME ServingAssumption ==
  /\ \A v \in Versions : v \in Seq(STRING) /\ v # <<>>
  /\ Channels \subseteq Versions
  /\ Callers \subseteq [cid : Clients \cup {None}, k : BOOLEAN, t : BOOLEAN]
  /\ {MaxPack, MaxBuild, MaxBegun} \subseteq Nat

VARIABLES
  packs,     \* modpacks by id, or None
  builds,    \* builds by id, or None
  clients,   \* clients that exist
  grants,    \* client_modpack: <<client, pack>>
  key,       \* TRUE while the API key exists
  user,      \* an owner of a personal token: [full, csv, assigned, token, revoked]
  lastPack, lastBuild,  \* AUTO_INCREMENT of modpacks and builds
  job,       \* request of each worker that manages modpacks and builds
  read,      \* a request of the read API
  begun,
  late,      \* history: builds inserted after their pack was deleted
  was        \* history: what held at some moment of the read, see Now

store == <<packs, builds, clients, grants, key, user, lastPack, lastBuild, late>>
vars == <<store, job, read, begun, was>>

PackIds == 1..MaxPack
BuildIds == 1..MaxBuild
Packs == {p \in PackIds : packs[p] # None}
Builds == {b \in BuildIds : builds[b] # None}

PackRows ==
  [slug : Slugs, hidden : BOOLEAN, private : BOOLEAN,
   channel : [Channels -> Versions \cup {None}], variants : SUBSET Variants]
BuildRows == [pack : PackIds, ver : Versions, published : BOOLEAN, private : BOOLEAN]
Owners ==
  [full : BOOLEAN, csv : SUBSET PackIds, assigned : SUBSET PackIds,
   token : BOOLEAN, revoked : BOOLEAN]

ASSUME LibrariesAssumption ==
  /\ None \notin PackRows
  /\ \A s \in Starts :
       LET there == {p \in PackIds : s.packs[p] # None}
       IN  /\ s.packs \in [PackIds -> PackRows \cup {None}]
           /\ s.builds \in [BuildIds -> BuildRows \cup {None}]
           /\ s.grants \subseteq Clients \X PackIds
           /\ s.user \in Owners /\ s.user.csv \subseteq there
           /\ \A p, q \in there : s.packs[p].slug = s.packs[q].slug => p = q
           /\ \A b \in BuildIds : s.builds[b] # None => s.builds[b].pack \in there

Idle == [pc |-> "idle"]
\* A behaviour is followed up to the answer of its read: a bound, since reads
\* change nothing.
Begins == begun < MaxBegun /\ begun' = begun + 1 /\ read.pc # "done"
Does(w, j) == job[w] = Idle /\ Begins /\ job' = [job EXCEPT ![w] = j]
Ends(w) == read.pc # "done" /\ job' = [job EXCEPT ![w] = Idle]

(***************************************************************************)
(* Queries                                                                 *)
(***************************************************************************)
\* EXISTS (SELECT 1 FROM client_modpack INNER JOIN clients ...)
Associated(cid, p) == cid \in clients /\ <<cid, p>> \in grants

\* modpacks.private = 0 AND builds.private = 0, or an associated client
Readable(b, cid) ==
  LET p == builds[b].pack
  IN  /\ p \in Packs
      /\ (~packs[p].private /\ ~builds[b].private) \/ Associated(cid, p)

\* get_by_cid_api, get_all_api and the packs of the principal
ListedPacks(cid, mine) ==
  {p \in Packs : (~packs[p].hidden /\ ~packs[p].private) \/ Associated(cid, p) \/ p \in mine}

\* get_all_by_slug_api
BySlug(slug) == {p \in Packs : packs[p].slug = slug}

\* _get_accessible_modpack
Accessible(slug, cid, mine) ==
  {p \in BySlug(slug) : ~packs[p].private \/ Associated(cid, p) \/ p \in mine}

\* get_by_modpack_api
OfPack(p, cid, privileged) ==
  {b \in Builds : /\ builds[b].pack = p /\ builds[b].published
                  /\ privileged \/ Readable(b, cid)}

\* A slip: the pack was found, so that it is public is not asked again.
OfVersionOnly(p, cid, privileged, v) ==
  {b \in Builds : /\ builds[b].pack = p /\ builds[b].ver = v
                  /\ builds[b].published
                  /\ privileged \/ ~builds[b].private \/ Associated(cid, p)}

\* get_by_modpack_version_api
OfVersion(p, cid, privileged, v) ==
  {b \in Builds : /\ builds[b].pack = p /\ builds[b].ver = v
                  /\ builds[b].published
                  /\ privileged \/ Readable(b, cid)}

\* A slip: the private modpacks are forgotten.
OfModBuildsOnly(cid, mine) ==
  {b \in Builds : /\ builds[b].published /\ builds[b].pack \in Packs
                  /\ \/ ~builds[b].private \/ Associated(cid, builds[b].pack)
                     \/ builds[b].pack \in mine}

\* Modversion.get_builds_api, of a version that every build contains
OfMod(cid, mine) ==
  {b \in Builds : /\ builds[b].published /\ builds[b].pack \in Packs
                  /\ Readable(b, cid) \/ builds[b].pack \in mine}

\* The packs that a valid API key and a personal token open to a reader.
KeyOpens(k) == IF k /\ key THEN PackIds ELSE {}
TokenOpens(t) ==
  IF ~t \/ ~user.token THEN {}
  ELSE IF user.full THEN PackIds ELSE user.csv \cup user.assigned

\* _get_build_by_version_or_channel: the versions it tries for a name.
Tries(row, name) ==
  IF name \in Channels /\ row.channel[name] # None THEN <<name, row.channel[name]>>
  ELSE <<name>>

\* _get_requested_build: a real name first, then the variants.
Candidates(row, name) ==
  IF Len(name) > 1 /\ Last(name) \in row.variants
  THEN Tries(row, name) \o Tries(row, Front(name))
  ELSE Tries(row, name)

\* DistributionExport.load_build
Selected(row, name) ==
  IF name \notin Channels THEN <<name>>
  ELSE IF row.channel[name] = None THEN <<>> ELSE <<row.channel[name]>>

NamesTried(kind, row, name) ==
  CASE kind = "build" -> Candidates(row, name)
    [] kind = "bootstrap" -> Tries(row, name)
    [] kind = "hosted" -> Selected(row, name)

\* to_json: the names a modpack advertises for a build.
Advertised(p, b) ==
  {builds[b].ver} \cup {Append(builds[b].ver, s) : s \in packs[p].variants}

(***************************************************************************)
(* What a read may answer with, kept while it runs.                        *)
(***************************************************************************)
Named == {"build", "bootstrap", "hosted"}

\* What the documentation lets a name stand for, in a pack.
Meanings(p, name) ==
  LET bare == IF Len(name) > 1 /\ Last(name) \in packs[p].variants THEN {name, Front(name)}
              ELSE {name}
  IN  bare \cup {packs[p].channel[c] : c \in bare \cap Channels}

\* What is true now of the modpacks and builds that the read asks for.
Now ==
  LET open == {b \in Builds : builds[b].published /\ Readable(b, read.cid)}
      listed == {p \in Packs : (~packs[p].hidden /\ ~packs[p].private) \/ Associated(read.cid, p)}
      asked == BySlug(read.slug)
      named == {builds[b].pack : b \in {b \in open : builds[b].ver = read.name}}
      meant == IF read.kind \in Named THEN UNION {{p} \X Meanings(p, read.name) : p \in asked}
               ELSE {}
      published == {b \in Builds : builds[b].published /\ (read.k \/ read.t)}
  IN  ({"open"} \X open) \cup ({"listed"} \X listed) \cup ({"slug"} \X asked)
      \cup ({"unnamed"} \X (PackIds \ named)) \cup ({"means"} \X meant)
      \cup ({"published"} \X published)
      \cup ({"opens"} \X (KeyOpens(read.k) \cup TokenOpens(read.t)))

Watch ==
  was' = CASE read'.pc = "idle" -> {}
           [] read'.pc = "done" -> was
           [] read'.pc \notin {"idle", "done"} -> was \cup Now'

(***************************************************************************)
(* Reading: each query is a step with a connection and a snapshot of its   *)
(* own.  Reads change nothing, so one caller at a time is followed.        *)
(***************************************************************************)
\* The slug and the name of a route, where it has them.
Routes ==
  ({"list", "mod"} \X {None} \X {None}) \cup ({"pack"} \X Slugs \X {None})
  \cup (Named \X Slugs \X Versions)

\* The request arrives, and _has_valid_api_key.
BeginRead(caller, route) ==
  /\ read = Idle
  /\ route[1] = "hosted" => caller = [cid |-> None, k |-> FALSE, t |-> FALSE]
  /\ read' = [pc |-> IF caller.t THEN "token" ELSE "pack", kind |-> route[1],
              slug |-> route[2], name |-> route[3], mine |-> KeyOpens(caller.k),
              cid |-> caller.cid, k |-> caller.k, t |-> caller.t,
              pack |-> None, tries |-> <<>>, left |-> {}, out |-> {}]
  /\ UNCHANGED <<store, job, begun>> /\ Watch

\* ApiToken.authenticate: both of its queries read one snapshot.
Authenticate ==
  /\ read.pc = "token"
  /\ read' = [read EXCEPT !.pc = "pack", !.mine = @ \cup TokenOpens(TRUE)]
  /\ UNCHANGED <<store, job, begun>> /\ Watch

Answered(b) == [id |-> b, pack |-> builds[b].pack, ver |-> builds[b].ver]
Answers(out) == read' = [pc |-> "done", kind |-> read.kind, name |-> read.name, out |-> out]

\* /api/modpack/<slug>... and the distribution endpoints look the pack up.
FindPack ==
  LET found == Accessible(read.slug, read.cid, read.mine)
  IN  /\ read.pc = "pack" /\ read.kind \notin {"list", "mod"}
      /\ \/ found = {} /\ Answers({})
         \/ \E p \in found : read' =
              IF read.kind = "pack"
              THEN [read EXCEPT !.pc = "builds", !.left = {p}]
              ELSE [read EXCEPT !.pc = "name", !.pack = p,
                      !.tries = NamesTried(read.kind, packs[p], read.name)]
      /\ UNCHANGED <<store, job, begun>> /\ Watch

\* /api/modpack
FindPacks ==
  /\ read.pc = "pack" /\ read.kind = "list"
  /\ read' = [read EXCEPT !.pc = "builds", !.left = ListedPacks(read.cid, read.mine)]
  /\ UNCHANGED <<store, job, begun>> /\ Watch

\* get_builds_api of each pack that was found, in the order of ids.
ListBuilds ==
  /\ read.pc = "builds"
  /\ \/ read.left = {} /\ Answers(read.out)
     \/ \E p \in read.left :
          /\ \A q \in read.left : p <= q
          /\ read' = [read EXCEPT !.left = @ \ {p},
               !.out = @ \cup {Answered(b) : b \in OfPack(p, read.cid, p \in read.mine)}]
  /\ UNCHANGED <<store, job, begun>> /\ Watch

\* /api/mod/<name>/<version>
ReadMod ==
  /\ read.pc = "pack" /\ read.kind = "mod"
  /\ Answers({Answered(b) : b \in OfMod(read.cid, read.mine)})
  /\ UNCHANGED <<store, job, begun>> /\ Watch

\* One get_build_api.  A channel of a distribution redirects to the version.
LookUp ==
  LET found == OfVersion(read.pack, read.cid, read.pack \in read.mine, Head(read.tries))
  IN  /\ read.pc = "name"
      /\ \/ read.tries = <<>> /\ Answers({})
         \/ /\ read.tries # <<>> /\ found = {}
            /\ read' = [read EXCEPT !.tries = Tail(@)]
         \/ /\ read.tries # <<>>
            /\ \E b \in found :
                 IF read.kind = "hosted" /\ read.name \in Channels
                 THEN read' = [read EXCEPT !.pc = "pack", !.name = builds[b].ver]
                 ELSE Answers({Answered(b)})
      /\ UNCHANGED <<store, job, begun>> /\ Watch

(***************************************************************************)
(* Modpacks                                                                *)
(***************************************************************************)
\* INSERT INTO modpacks, user_modpack and the CSV of user_permissions.
Inserts(row, own) ==
  /\ lastPack < MaxPack /\ BySlug(row.slug) = {}
  /\ packs' = [packs EXCEPT ![lastPack + 1] = row]
  /\ lastPack' = lastPack + 1
  /\ user' = IF own THEN [user EXCEPT !.csv = @ \cup {lastPack + 1},
                                      !.assigned = @ \cup {lastPack + 1}]
             ELSE user

\* Modpack.new and create_modpack, by the owner of the token or somebody else.
CreatePack(slug, hidden, private, own) ==
  /\ Begins
  /\ Inserts([slug |-> slug, hidden |-> hidden, private |-> private,
              channel |-> [c \in Channels |-> None], variants |-> {}], own)
  /\ UNCHANGED <<builds, clients, grants, key, lastBuild, late, job, read>> /\ Watch

\* update_checkbox of the site and update_modpack of the API, one column each.
UpdatePack(p) ==
  /\ Begins /\ p \in Packs
  /\ \/ packs' = [packs EXCEPT ![p].hidden = ~@]
     \/ packs' = [packs EXCEPT ![p].private = ~@]
     \/ \E s \in Variants : packs' = [packs EXCEPT ![p].variants = SymDiff(@, {s})]
     \/ \E c \in Channels, v \in Versions \cup {None} :
          packs' = [packs EXCEPT ![p].channel[c] = v]
     \/ \E s \in Slugs : BySlug(s) = {} /\ packs' = [packs EXCEPT ![p].slug = s]
  /\ UNCHANGED <<builds, clients, grants, key, user, lastPack, lastBuild, late, job, read>> /\ Watch

VersionsOf(p) == {builds[b].ver : b \in {b \in Builds : builds[b].pack = p}}

\* The modpack page lists the builds, then updates the channel.
BeginChannel(w, p) ==
  /\ p \in Packs
  /\ Does(w, [pc |-> "channel", pack |-> p, allowed |-> VersionsOf(p)])
  /\ UNCHANGED <<store, read>> /\ Watch

ChooseChannel(w, c) ==
  LET r == job[w]
  IN  /\ r.pc = "channel" /\ Ends(w)
      /\ \/ /\ r.allowed = {} \/ r.pack \notin Packs
            /\ UNCHANGED packs
         \/ /\ r.pack \in Packs
            /\ \E v \in r.allowed : packs' = [packs EXCEPT ![r.pack].channel[c] = v]
      /\ UNCHANGED <<builds, clients, grants, key, user, lastPack, lastBuild, late, read, begun>> /\ Watch

\* clone_modpack copies the row that the handler read and the builds of now.
BeginClone(w, p, slug) ==
  /\ p \in Packs
  /\ Does(w, [pc |-> "clone", pack |-> p, row |-> packs[p], slug |-> slug])
  /\ UNCHANGED <<store, read>> /\ Watch

Copied(p) == {b \in Builds : builds[b].pack = p}

ClonePack(w, private, own) ==
  LET r == job[w]
      n == Cardinality(Copied(r.pack))
  IN  /\ r.pc = "clone" /\ Ends(w)
      /\ \/ /\ BySlug(r.slug) # {}
            /\ UNCHANGED <<packs, builds, user, lastPack, lastBuild>>
         \/ /\ lastBuild + n <= MaxBuild
            /\ Inserts([r.row EXCEPT !.slug = r.slug, !.hidden = FALSE, !.private = private], own)
            /\ \E copied \in [1..n -> Copied(r.pack)] :
                 /\ \A i, j \in 1..n : i < j => copied[i] < copied[j]
                 /\ builds' = [b \in BuildIds |->
                      IF b \in lastBuild + 1..lastBuild + n
                      THEN [builds[copied[b - lastBuild]] EXCEPT !.pack = lastPack + 1]
                      ELSE builds[b]]
            /\ lastBuild' = lastBuild + n
      /\ UNCHANGED <<clients, grants, key, late, read, begun>> /\ Watch

\* A slip: the builds stay.
DeletePackRow(p) ==
  /\ Begins /\ p \in Packs
  /\ packs' = [packs EXCEPT ![p] = None]
  /\ grants' = {g \in grants : g[2] # p}
  /\ user' = [user EXCEPT !.csv = @ \ {p}, !.assigned = @ \ {p}]
  /\ UNCHANGED <<builds, clients, key, lastPack, lastBuild, late, job, read>> /\ Watch

\* delete_modpack, with delete_related_rows
DeletePack(p) ==
  /\ Begins /\ p \in Packs
  /\ packs' = [packs EXCEPT ![p] = None]
  /\ builds' = [b \in BuildIds |-> IF b \in Copied(p) THEN None ELSE builds[b]]
  /\ grants' = {g \in grants : g[2] # p}
  /\ user' = [user EXCEPT !.csv = @ \ {p}, !.assigned = @ \ {p}]
  /\ UNCHANGED <<clients, key, lastPack, lastBuild, late, job, read>> /\ Watch

(***************************************************************************)
(* Builds                                                                  *)
(***************************************************************************)
\* The handler looks the modpack up, then inserts.
BeginBuild(w, p) ==
  /\ p \in Packs /\ Does(w, [pc |-> "build", pack |-> p])
  /\ UNCHANGED <<store, read>> /\ Watch

\* create_build of the API refuses a version twice, Build.new of the site does not.
CreateBuild(w, v, published, private) ==
  LET p == job[w].pack
  IN  /\ job[w].pc = "build" /\ Ends(w)
      /\ \/ /\ v \in VersionsOf(p)
            /\ UNCHANGED <<builds, lastBuild, late>>
         \/ /\ lastBuild < MaxBuild
            /\ lastBuild' = lastBuild + 1
            /\ builds' = [builds EXCEPT ![lastBuild + 1] =
                 [pack |-> p, ver |-> v, published |-> published, private |-> private]]
            /\ late' = IF p \in Packs THEN late ELSE late \cup {lastBuild + 1}
      /\ UNCHANGED <<packs, clients, grants, key, user, lastPack, read, begun>> /\ Watch

\* Build.update and update_checkbox of the site, and update_build of the API,
\* where alone a version is not given twice.
UpdateBuild(b) ==
  /\ Begins /\ b \in Builds
  /\ \/ builds' = [builds EXCEPT ![b].published = ~@]
     \/ builds' = [builds EXCEPT ![b].private = ~@]
     \/ \E v \in Versions : builds' = [builds EXCEPT ![b].ver = v]
  /\ UNCHANGED <<packs, clients, grants, key, user, lastPack, lastBuild, late, job, read>> /\ Watch

DeleteBuild(b) ==
  /\ Begins /\ b \in Builds
  /\ builds' = [builds EXCEPT ![b] = None]
  /\ late' = late \ {b}
  /\ UNCHANGED <<packs, clients, grants, key, user, lastPack, lastBuild, job, read>> /\ Watch

(***************************************************************************)
(* Clients, keys, users and tokens                                         *)
(***************************************************************************)
Known(p) == p \in 1..lastPack

\* Client_modpack.new takes any ids: its page was rendered before.
Grant(c, p) ==
  /\ Begins /\ Known(p)
  /\ grants' = grants \cup {<<c, p>>}
  /\ UNCHANGED <<packs, builds, clients, key, user, lastPack, lastBuild, late, job, read>> /\ Watch

Ungrant(g) ==
  /\ Begins /\ g \in grants
  /\ grants' = grants \ {g}
  /\ UNCHANGED <<packs, builds, clients, key, user, lastPack, lastBuild, late, job, read>> /\ Watch

\* update_client of the API: the whole list at once, of packs that exist.
SetGrants(c, ps) ==
  /\ Begins /\ c \in clients /\ ps \subseteq Packs
  /\ grants' = {g \in grants : g[1] # c} \cup ({c} \X ps)
  /\ UNCHANGED <<packs, builds, clients, key, user, lastPack, lastBuild, late, job, read>> /\ Watch

DeleteClient(c) ==
  /\ Begins /\ c \in clients
  /\ clients' = clients \ {c}
  /\ grants' = {g \in grants : g[1] # c}
  /\ UNCHANGED <<packs, builds, key, user, lastPack, lastBuild, late, job, read>> /\ Watch

\* Key.new_key and Key.delete_key
SetKey ==
  /\ Begins /\ key' = ~key
  /\ UNCHANGED <<packs, builds, clients, grants, user, lastPack, lastBuild, late, job, read>> /\ Watch

Users(u) ==
  /\ Begins /\ user' = u
  /\ UNCHANGED <<packs, builds, clients, grants, key, lastPack, lastBuild, late, job, read>> /\ Watch

\* User_modpack.new and delete_user_modpack leave the CSV alone.
Assign(p) == Known(p) /\ Users([user EXCEPT !.assigned = @ \cup {p}])
Unassign(p) == p \in user.assigned /\ Users([user EXCEPT !.assigned = @ \ {p}])

\* update_userpermissions
SetFull == Users([user EXCEPT !.full = ~@])

\* ApiToken.create, and delete
CreateToken == ~user.token /\ ~user.revoked /\ Users([user EXCEPT !.token = TRUE])
RevokeToken == user.token /\ Users([user EXCEPT !.token = FALSE, !.revoked = TRUE])

\* migrate_technic_modpack_permissions, whenever the schema is prepared
Migrate == Users([user EXCEPT !.assigned = @ \cup (user.csv \cap Packs)])

(***************************************************************************)
(* The specification                                                       *)
(***************************************************************************)
Init ==
  /\ \E s \in Starts :
       /\ packs = s.packs /\ builds = s.builds /\ grants = s.grants /\ user = s.user
       /\ lastPack = Cardinality({p \in PackIds : s.packs[p] # None})
       /\ lastBuild = Cardinality({b \in BuildIds : s.builds[b] # None})
  /\ clients = Clients
  /\ key = TRUE
  /\ job = [w \in Workers |-> Idle]
  /\ read = Idle
  /\ begun = 0
  /\ late = {}
  /\ was = {}

Read ==
  \/ \E caller \in Callers, route \in Routes : BeginRead(caller, route)
  \/ Authenticate \/ FindPack \/ FindPacks \/ ListBuilds \/ ReadMod \/ LookUp

Manage(w) ==
  \/ \E p \in PackIds : BeginChannel(w, p) \/ BeginBuild(w, p)
  \/ \E p \in PackIds, slug \in Slugs : BeginClone(w, p, slug)
  \/ \E c \in Channels : ChooseChannel(w, c)
  \/ \E private, own \in BOOLEAN : ClonePack(w, private, own)
  \/ \E v \in Versions, published, private \in BOOLEAN :
        CreateBuild(w, v, published, private)

Edit ==
  \/ \E slug \in Slugs, hidden, private, own \in BOOLEAN : CreatePack(slug, hidden, private, own)
  \/ \E p \in PackIds : UpdatePack(p) \/ DeletePack(p)
  \/ \E b \in BuildIds : UpdateBuild(b) \/ DeleteBuild(b)

Administer ==
  \/ \E c \in Clients : DeleteClient(c) \/ \E p \in PackIds : Grant(c, p)
  \/ \E g \in grants : Ungrant(g)
  \/ \E c \in Clients, ps \in SUBSET PackIds : SetGrants(c, ps)
  \/ SetKey \/ SetFull \/ CreateToken \/ RevokeToken \/ Migrate
  \/ \E p \in PackIds : Assign(p) \/ Unassign(p)

Next ==
  \/ Read \/ Edit \/ Administer
  \/ \E w \in Workers : Manage(w)

Spec == Init /\ [][Next]_vars

-----------------------------------------------------------------------------
\* What the workers and the read have in hand.
Jobs ==
  {Idle} \cup [pc : {"channel"}, pack : PackIds, allowed : SUBSET Versions]
  \cup [pc : {"clone"}, pack : PackIds, row : PackRows, slug : Slugs]
  \cup [pc : {"build"}, pack : PackIds]

Kinds == {"list", "mod", "pack"} \cup Named
AnswerRows == [id : BuildIds, pack : PackIds, ver : Versions]
Reading ==
  [pc : {"token", "pack", "builds", "name"}, kind : Kinds, slug : Slugs \cup {None},
   name : Versions \cup {None}, mine : SUBSET PackIds, cid : Clients \cup {None},
   k : BOOLEAN, t : BOOLEAN, pack : PackIds \cup {None}, tries : Seq(Seq(STRING)),
   left : SUBSET PackIds, out : SUBSET AnswerRows]
Done ==
  [pc : {"done"}, kind : Kinds, name : Versions \cup {None}, out : SUBSET AnswerRows]

(***************************************************************************)
(* Properties                                                              *)
(***************************************************************************)
\* Every build belongs to a modpack, except one that was inserted for a pack
\* deleted since its handler had looked it up (api_write.py create_build,
\* asite.py modpack); a user's CSV names only modpacks that exist.
TypeOK ==
  /\ packs \in [PackIds -> PackRows \cup {None}]
  /\ builds \in [BuildIds -> BuildRows \cup {None}]
  /\ \A p, q \in Packs : packs[p].slug = packs[q].slug => p = q
  /\ \A b \in Builds \ late : builds[b].pack \in Packs
  /\ clients \subseteq Clients /\ grants \subseteq Clients \X PackIds
  /\ user \in Owners /\ user.csv \subseteq Packs
  /\ job \in [Workers -> Jobs] /\ read \in {Idle} \cup Reading \cup Done
  /\ lastPack \in 0..MaxPack /\ lastBuild \in 0..MaxBuild /\ begun \in 0..MaxBegun

\* Whatever changes while a read runs, every build in its answer was
\* published, and open to the caller by the visibility table of docs/api.md,
\* at some moment of the read; its pack had the slug that was asked for, its
\* version is what the name stood for, and a real build of that name went
\* before a channel or a variant (api.py _get_requested_build, build.py
\* get_by_modpack_version_api, distribution.py load_build).
AnswersWereRight ==
  read.pc = "done" => \A a \in read.out :
    /\ \/ <<"open", a.id>> \in was
       \/ {<<"published", a.id>>, <<"opens", a.pack>>} \subseteq was
    /\ read.kind = "list" => {<<"listed", a.pack>>, <<"opens", a.pack>>} \cap was # {}
    /\ read.kind \notin {"list", "mod"} => <<"slug", a.pack>> \in was
    /\ read.kind \in Named => <<"means", <<a.pack, a.ver>>>> \in was
    /\ read.kind \in {"build", "bootstrap"} /\ a.ver # read.name => <<"unnamed", a.pack>> \in was

\* The builds that a manifest request for a name may answer with, right now.
Served(p, cid, mine, name) ==
  LET tries == Candidates(packs[p], name)
      found(i) == OfVersion(p, cid, p \in mine, tries[i])
  IN  UNION {found(i) : i \in {i \in DOMAIN tries : \A j \in 1..i - 1 : found(j) = {}}}

\* The listings and the manifests agree for every caller: a listed modpack is
\* readable by its slug, every name it advertises (modpack.py to_json) has a
\* manifest, a build's own version leads to a build of that version, and a
\* build named on the page of a mod version can be fetched.  (A read changes
\* nothing, so the states without one are all there is to look at.)
ListedIsServed ==
  read = Idle => \A cid \in clients \cup {None}, mine \in SUBSET Packs :
    LET readable == {p \in Packs : p \in Accessible(packs[p].slug, cid, mine)}
    IN  /\ ListedPacks(cid, mine) \subseteq readable
        /\ \A p \in readable : \A b \in OfPack(p, cid, p \in mine) :
             /\ \A n \in Advertised(p, b) : Served(p, cid, mine, n) # {}
             /\ b \in OfVersion(p, cid, p \in mine, builds[b].ver)
             /\ \A a \in Served(p, cid, mine, builds[b].ver) : builds[a].ver = builds[b].ver
        /\ \A b \in OfMod(cid, mine) :
             LET p == builds[b].pack
             IN  p \in readable /\ b \in OfPack(p, cid, p \in mine)
==============================================================================
