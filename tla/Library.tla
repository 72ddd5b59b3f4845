------------------------------- MODULE Library -------------------------------
(***************************************************************************)
(* The versions of a mod in the library (models/modversion.py, models/     *)
(* mod.py, models/mcinstance.py, their pages in asite.py and endpoints in  *)
(* models/write_api.py): rows, the ZIP and JAR files that stand behind     *)
(* them, and the URL that may serve a JAR instead.                         *)
(*                                                                         *)
(* One mod is followed, under one slug, in a repository that is a local    *)
(* folder.  A file, its MD5 and what a URL serves are one value.           *)
(***************************************************************************)
EXTENDS Integers, FiniteSets

CONSTANTS
  Versions,  \* version strings
  Zips, Jars,
  JarOf,     \* the JAR of each ZIP, or None if it is not the only one
  Workers,
  MaxRows,   \* bound: ids of mod versions
  MaxBegun,  \* bound: requests that begin
  MaxHashes, \* bound: hashings under way
  None

Row == [ver : Versions, md5 : Zips \cup {None}, jarmd5 : Jars \cup {None},
        override : Jars \cup {None}]

ASSUME LibraryAssumption ==
  /\ DOMAIN JarOf = Zips /\ \A z \in Zips : JarOf[z] \in Jars \cup {None}
  /\ None \notin Versions \cup Zips \cup Jars \cup Row
  /\ {MaxRows, MaxBegun, MaxHashes} \subseteq Nat

VARIABLES
  mod,       \* type of the mod, or None when it was deleted
  rows,      \* modversions by id, or None
  built,     \* ids in rows of build_modversion
  zip, jar,  \* files of the repository by version, or None
  lastId,    \* AUTO_INCREMENT of modversions
  req,       \* request of each worker
  hashes,    \* hashings under way: [id, md5], md5 None until the file is read
  begun,
  shared,    \* history: versions whose files two requests wrote, or two rows have
  byHand,    \* history: <<id, column>> of a hash entered and not verified since
  unseen,    \* history: ids whose JAR MD5 was replaced beneath an unseen override
  missed     \* history: ids added behind the back of a deletion

store == <<mod, rows, built, lastId>>
files == <<zip, jar>>
history == <<shared, byHand, unseen, missed>>
vars == <<store, files, req, hashes, begun, history>>

Ids == 1..MaxRows
Idle == [pc |-> "idle"]
Exists(id) == rows[id] # None

Request(w, r) == req' = [req EXCEPT ![w] = r]
Ends(w) == Request(w, Idle)
Begins == begun < MaxBegun /\ begun' = begun + 1

\* Versions whose files a request is about to write or unlink.
Holds(w) ==
  IF req[w].pc \in {"zip", "jar", "insert", "mark", "undo", "unlink"} THEN {req[w].ver}
  ELSE IF req[w].pc \in {"store", "record"} THEN {rec.ver : rec \in req[w].items}
  ELSE {}

Others(w) == UNION {Holds(v) : v \in Workers \ {w}}
Rivals(ids) == {rows[i].ver : i \in {i \in Ids \ ids : Exists(i)}}

\* extract_jar_from_zip finds the only JAR of a ZIP, if it has one.
Eligible(z) == {JarOf[z]} \ {None}

\* verify_jar_url_override downloads the URL and compares the MD5.
Verified(url, j) == j # None /\ url = j

\* promote_parent_mod_for_jar_md5
Promoted(j) == IF j # None /\ mod = "NONE" THEN "MOD" ELSE mod

NewRow(v, z, j, url) == [ver |-> v, md5 |-> z, override |-> url, jarmd5 |-> j]

\* INSERT INTO modversions
Inserts(w, row) ==
  /\ lastId < MaxRows
  /\ lastId' = lastId + 1
  /\ rows' = [rows EXCEPT ![lastId + 1] = row]
  /\ mod' = Promoted(row.jarmd5)
  /\ shared' = shared \cup ({row.ver} \cap (Others(w) \cup Rivals({})))

Init ==
  /\ mod \in {"NONE", "MOD"}
  /\ rows = [id \in Ids |-> None] /\ built = {} /\ lastId = 0
  /\ zip = [v \in Versions |-> None] /\ jar = [v \in Versions |-> None]
  /\ req = [w \in Workers |-> Idle]
  /\ hashes = {} /\ begun = 0
  /\ shared = {} /\ byHand = {} /\ unseen = {} /\ missed = {}

-----------------------------------------------------------------------------
(* Uploads                                                                 *)

\* The staged files are verified, and no file of the version is there yet.
Upload(w) ==
  /\ req[w].pc = "idle" /\ Begins
  /\ mod # None
  /\ \E v \in Versions, z \in Zips, marked \in BOOLEAN :
       /\ zip[v] = None
       /\ \E j \in Eligible(z) \cup {None} :
            /\ j # None => jar[v] = None
            /\ Request(w, [pc |-> "zip", ver |-> v, zip |-> z, jar |-> j, id |-> None,
                           marked |-> marked])
       /\ shared' = shared \cup ({v} \cap (Others(w) \cup Rivals({})))
  /\ UNCHANGED <<store, files, hashes, byHand, unseen, missed>>

\* os.replace moves the ZIP, and then the JAR.
PlaceZip(w) ==
  /\ req[w].pc = "zip"
  /\ zip' = [zip EXCEPT ![req[w].ver] = req[w].zip]
  /\ Request(w, [req[w] EXCEPT !.pc = IF req[w].jar = None THEN "insert" ELSE "jar"])
  /\ UNCHANGED <<store, jar, hashes, begun, history>>

PlaceJar(w) ==
  /\ req[w].pc = "jar"
  /\ jar' = [jar EXCEPT ![req[w].ver] = req[w].jar]
  /\ Request(w, [req[w] EXCEPT !.pc = "insert"])
  /\ UNCHANGED <<store, zip, hashes, begun, history>>

\* Modversion.new commits the row before the version is added to a build.
Insert(w) ==
  /\ req[w].pc = "insert"
  /\ Inserts(w, NewRow(req[w].ver, req[w].zip, req[w].jar, None))
  /\ Request(w, IF req[w].marked THEN [req[w] EXCEPT !.pc = "mark", !.id = lastId + 1]
                ELSE Idle)
  /\ UNCHANGED <<built, files, hashes, begun, byHand, unseen, missed>>

MarkedBuild(w) ==
  /\ req[w].pc = "mark"
  /\ Exists(req[w].id) /\ mod # None
  /\ built' = built \cup {req[w].id}
  /\ Ends(w)
  /\ UNCHANGED <<mod, rows, lastId, files, hashes, begun, history>>

\* The insertion fails, or the version cannot be added to the marked build.
UploadFails(w) ==
  /\ req[w].pc \in {"insert", "mark"}
  /\ Request(w, [req[w] EXCEPT !.pc = IF @ = "mark" THEN "undo" ELSE "unlink"])
  /\ UNCHANGED <<store, files, hashes, begun, history>>

Without(ids) == [id \in Ids |-> IF id \in ids THEN None ELSE rows[id]]

\* The row is deleted again ...
Undo(w) ==
  /\ req[w].pc = "undo"
  /\ rows' = Without({req[w].id})
  /\ built' = built \ {req[w].id}
  /\ Request(w, [req[w] EXCEPT !.pc = "unlink"])
  /\ UNCHANGED <<mod, lastId, files, hashes, begun, history>>

\* ... and so are the files that this request has moved.
Unlink(w) ==
  /\ req[w].pc = "unlink"
  /\ zip' = [zip EXCEPT ![req[w].ver] = None]
  /\ jar' = IF req[w].jar = None THEN jar ELSE [jar EXCEPT ![req[w].ver] = None]
  /\ Ends(w)
  /\ UNCHANGED <<store, hashes, begun, history>>

-----------------------------------------------------------------------------
(* Versions made by hand                                                   *)

\* The legacy form asks for a file; without an MD5 a thread hashes it.
NewManual(w) ==
  /\ req[w].pc = "idle" /\ Begins
  /\ mod # None
  /\ \E v \in Versions, z \in Zips \cup {None} :
       /\ zip[v] # None
       /\ Inserts(w, NewRow(v, z, None, None))
       /\ IF z = None
            THEN /\ Cardinality(hashes) < MaxHashes
                 /\ hashes' = hashes \cup {[id |-> lastId + 1, md5 |-> None]}
                 /\ UNCHANGED byHand
            ELSE /\ byHand' = byHand \cup {<<lastId + 1, "md5">>}
                 /\ UNCHANGED hashes
  /\ UNCHANGED <<built, files, req, unseen, missed>>

\* The write API stores what the request says, and downloads an override.
CreateVersion(w) ==
  /\ req[w].pc = "idle" /\ Begins
  /\ mod # None
  /\ \E v \in Versions, z \in Zips, j \in Jars \cup {None} :
       /\ v \notin Rivals({})
       /\ \E url \in {None} \cup {u \in Jars : Verified(u, j)} :
            Inserts(w, NewRow(v, z, j, url))
       /\ byHand' = byHand \cup {<<lastId + 1, "md5">>, <<lastId + 1, "jarmd5">>}
  /\ UNCHANGED <<built, files, req, hashes, unseen, missed>>

\* Mod.update and update_mod, of a mod that keeps its slug.
EditMod ==
  /\ Begins
  /\ mod # None
  /\ mod' \in {"NONE", "MOD"} \ {mod}
  /\ UNCHANGED <<rows, built, lastId, files, req, hashes, history>>

\* Verify ZIP of the management page.
Verify == \E id \in Ids :
  /\ Begins
  /\ Exists(id) /\ mod # None
  /\ Cardinality(hashes) < MaxHashes
  /\ hashes' = hashes \cup {[id |-> id, md5 |-> None]}
  /\ UNCHANGED <<store, files, req, history>>

\* rehash reads the file of the version, whose string never changes ...
HashRead == \E h \in hashes, v \in Versions :
  /\ h.md5 = None /\ zip[v] # None
  /\ Exists(h.id) => rows[h.id].ver = v
  /\ hashes' = (hashes \ {h}) \cup {[id |-> h.id, md5 |-> zip[v]]}
  /\ UNCHANGED <<store, files, req, begun, history>>

\* ... and update_hash stores its MD5 in the row of the id.
HashStore == \E h \in hashes :
  /\ h.md5 # None
  /\ hashes' = hashes \ {h}
  /\ IF Exists(h.id)
       THEN /\ rows' = [rows EXCEPT ![h.id].md5 = h.md5]
            /\ byHand' = byHand \ {<<h.id, "md5">>}
       ELSE UNCHANGED <<rows, byHand>>
  /\ UNCHANGED <<mod, built, lastId, files, req, begun, shared, unseen, missed>>

\* Without a file or a database the thread ends.
HashFails == \E h \in hashes :
  /\ hashes' = hashes \ {h}
  /\ UNCHANGED <<store, files, req, begun, history>>

-----------------------------------------------------------------------------
(* Raw JARs                                                                *)

\* _prepare_jar_artifact: the only JAR of a ZIP that has the stored MD5.
Extracted(id) ==
  IF rows[id].md5 # None /\ zip[rows[id].ver] = rows[id].md5
    THEN Eligible(rows[id].md5) ELSE {}

\* A slip: an existing JAR is taken for the one that the row names.
PreparedUnverified(id) ==
  LET row == rows[id]
  IN IF row.jarmd5 # None /\ jar[row.ver] # None THEN {row.jarmd5}
     ELSE {j \in Extracted(id) : row.jarmd5 \in {None, j}}

\* MCInstanceJar.create: a JAR with the stored MD5 that is there, or else the
\* one of the ZIP, which must have the stored MD5 if there is any.
Prepared(id) ==
  LET row == rows[id]
  IN IF row.jarmd5 # None /\ jar[row.ver] # None
       THEN {row.jarmd5} \cap {jar[row.ver]}
       ELSE {j \in Extracted(id) : row.jarmd5 \in {None, j}}

Item(id, j) == [id |-> id, ver |-> rows[id].ver, jar |-> j]

CreateJar(w) ==
  /\ req[w].pc = "idle" /\ Begins
  /\ mod = "MOD"
  /\ \E id \in {id \in Ids : Exists(id)} :
       \E j \in Prepared(id) :
         /\ Request(w, [pc |-> IF rows[id].jarmd5 # None /\ jar[rows[id].ver] # None
                                 THEN "record" ELSE "store",
                        scan |-> FALSE, items |-> {Item(id, j)},
                        seen |-> IF id \in unseen THEN {}
                                 ELSE {<<id, rows[id].override>>}])
         /\ shared' = shared \cup ({rows[id].ver} \cap (Others(w) \cup Rivals({id})))
  /\ UNCHANGED <<store, files, hashes, byHand, unseen, missed>>

\* promote_jar_only_none_mods prepares the JARs of all versions of a NONE mod.
Scan(w) ==
  /\ req[w].pc = "idle" /\ Begins
  /\ mod = "NONE"
  /\ LET ids == {id \in Ids : Exists(id)}
         vers == {rows[id].ver : id \in ids}
     IN /\ ids # {}
        /\ \A id \in ids : Extracted(id) # {}
        /\ Request(w, [pc |-> "store", scan |-> TRUE, seen |-> {},
                       items |-> {Item(id, JarOf[rows[id].md5]) : id \in ids}])
        /\ shared' = shared \cup (vers \cap Others(w))
                            \cup {v \in vers : \E i, k \in ids : /\ i # k
                                                                 /\ rows[i].ver = v
                                                                 /\ rows[k].ver = v}
  /\ UNCHANGED <<store, files, hashes, byHand, unseen, missed>>

\* os.replace, of every JAR that was prepared.
StoreJars(w) ==
  /\ req[w].pc = "store"
  /\ jar' = [v \in Versions |-> IF v \in Holds(w)
               THEN (CHOOSE rec \in req[w].items : rec.ver = v).jar ELSE jar[v]]
  /\ Request(w, [req[w] EXCEPT !.pc = "record"])
  /\ UNCHANGED <<store, zip, hashes, begun, history>>

\* JAR MD5s are stored: of one id, whatever has become of its row, or of all
\* the versions of a mod that still has these and is still NONE.
RecordJars(w) ==
  /\ req[w].pc = "record"
  /\ LET items == {rec \in req[w].items : Exists(rec.id)}
         ids == {rec.id : rec \in items}
         Of(id) == (CHOOSE rec \in items : rec.id = id).jar
     IN IF req[w].scan /\ (mod # "NONE" \/ {id \in Ids : Exists(id)}
                                            # {rec.id : rec \in req[w].items})
          THEN UNCHANGED <<mod, rows, byHand, unseen>>
          ELSE /\ rows' = [id \in Ids |-> IF id \in ids
                             THEN [rows[id] EXCEPT !.jarmd5 = Of(id)] ELSE rows[id]]
               /\ mod' = IF ids = {} THEN mod ELSE Promoted(Of(CHOOSE id \in ids : TRUE))
               /\ byHand' = byHand \ {<<id, "jarmd5">> : id \in ids}
               /\ unseen' = unseen \cup {id \in ids : /\ rows[id].jarmd5 # Of(id)
                                                      /\ rows[id].override # None
                                                      /\ <<id, rows[id].override>> \notin req[w].seen}
  /\ Ends(w)
  /\ UNCHANGED <<built, lastId, files, hashes, begun, shared, missed>>

-----------------------------------------------------------------------------
(* Overrides and edits                                                     *)

\* update_jar_url_override reads the JAR MD5 and downloads the URL ...
CheckOverride(w) ==
  /\ req[w].pc = "idle" /\ Begins
  /\ mod # None
  /\ \E id \in {id \in Ids : Exists(id)}, url \in Jars :
       /\ Verified(url, rows[id].jarmd5)
       /\ Request(w, [pc |-> "override", id |-> id, url |-> url])
  /\ UNCHANGED <<store, files, hashes, history>>

StillSame(id, url) == rows[id].jarmd5 = url

\* ... and compares the MD5 again with that of the locked row.
SaveOverride(w) ==
  /\ req[w].pc = "override"
  /\ LET r == req[w]
     IN IF Exists(r.id) /\ StillSame(r.id, r.url)
          THEN /\ rows' = [rows EXCEPT ![r.id].override = r.url]
               /\ unseen' = unseen \ {r.id}
          ELSE UNCHANGED <<rows, unseen>>
  /\ Ends(w)
  /\ UNCHANGED <<mod, built, lastId, files, hashes, begun, shared, byHand, missed>>

ClearOverride == \E id \in Ids :
  /\ Begins
  /\ Exists(id) /\ mod # None
  /\ rows[id].override # None
  /\ rows' = [rows EXCEPT ![id].override = None]
  /\ unseen' = unseen \ {id}
  /\ UNCHANGED <<mod, built, lastId, files, req, hashes, shared, byHand, missed>>

\* A slip: an override is downloaded only if the request names it.
CheckedOnly(set, had) == "override" \in DOMAIN set /\ set.override # None

\* Must the override be downloaded?
Checked(set, had) ==
  LET effective == IF "override" \in DOMAIN set THEN set.override ELSE had.override
  IN effective # None /\ DOMAIN set \cap {"override", "jarmd5"} # {}

\* What the body of a request may name.
Bodies == [md5 : Zips] \cup [jarmd5 : Jars \cup {None}]
            \cup [override : Jars \cup {None}]
            \cup [jarmd5 : Jars \cup {None}, override : Jars \cup {None}]

Field(set, had, f) == IF f \in DOMAIN set THEN set[f] ELSE had[f]

\* The write API reads the row, and downloads the override for the MD5 that
\* the row is to have.
ReadVersion(w) ==
  /\ req[w].pc = "idle" /\ Begins
  /\ mod # None
  /\ \E id \in {id \in Ids : Exists(id)}, set \in Bodies :
       LET url == Field(set, rows[id], "override")
           j == Field(set, rows[id], "jarmd5")
       IN /\ url # None => j # None
          /\ Checked(set, rows[id]) => Verified(url, j)
          /\ Request(w, [pc |-> "update", id |-> id, set |-> set, had |-> rows[id]])
  /\ UNCHANGED <<store, files, hashes, history>>

\* update_modversion: what was downloaded must be for the MD5 of the locked row.
UpdateVersion(w) ==
  /\ req[w].pc = "update"
  /\ LET r == req[w]
         row == rows[r.id]
         Named(f) == f \in DOMAIN r.set
     IN IF Exists(r.id) /\ (Checked(r.set, r.had) => row.jarmd5 = r.had.jarmd5)
          THEN /\ rows' = [rows EXCEPT ![r.id] =
                    NewRow(row.ver, Field(r.set, row, "md5"), Field(r.set, row, "jarmd5"),
                           Field(r.set, row, "override"))]
               /\ mod' = IF Named("jarmd5") THEN Promoted(r.set.jarmd5) ELSE mod
               /\ byHand' = byHand \cup {<<r.id, f>> : f \in DOMAIN r.set \ {"override"}}
               /\ unseen' = IF Named("override") THEN unseen \ {r.id}
                            ELSE IF /\ Named("jarmd5") /\ row.override # None
                                    /\ row.override # r.had.override
                                   THEN unseen \cup {r.id}
                            ELSE unseen
          ELSE UNCHANGED <<mod, rows, byHand, unseen>>
  /\ Ends(w)
  /\ UNCHANGED <<built, lastId, files, hashes, begun, shared, missed>>

-----------------------------------------------------------------------------
(* Builds and deletions                                                    *)

\* The management pages lock the version that they add to a build.
AddLocked == \E id \in Ids :
  /\ Begins
  /\ Exists(id) /\ mod # None
  /\ built' = built \cup {id}
  /\ UNCHANGED <<mod, rows, lastId, files, req, hashes, history>>

\* The write API, and the search for required versions, read it before.
ReadForBuild(w) ==
  /\ req[w].pc = "idle" /\ Begins
  /\ mod # None
  /\ \E id \in {id \in Ids \ built : Exists(id)} :
       Request(w, [pc |-> "add", id |-> id])
  /\ UNCHANGED <<store, files, hashes, history>>

AddRead(w) ==
  /\ req[w].pc = "add"
  /\ built' = built \cup {req[w].id}
  /\ missed' = IF Exists(req[w].id) THEN missed ELSE missed \cup {req[w].id}
  /\ Ends(w)
  /\ UNCHANGED <<mod, rows, lastId, files, hashes, begun, shared, byHand, unseen>>

Remove == \E id \in built :
  /\ Begins
  /\ built' = built \ {id}
  /\ UNCHANGED <<mod, rows, lastId, files, req, hashes, history>>

\* A slip: the rows of the builds stay.
DeleteRowOnly == \E id \in Ids :
  /\ Begins
  /\ Exists(id) /\ mod # None
  /\ rows' = Without({id})
  /\ UNCHANGED <<mod, built, lastId, files, req, hashes, history>>

\* Modversion.delete_modversion takes the rows of the builds along, not the files.
DeleteVersion == \E id \in Ids :
  /\ Begins
  /\ Exists(id) /\ mod # None
  /\ rows' = Without({id})
  /\ built' = built \ {id}
  /\ UNCHANGED <<mod, lastId, files, req, hashes, history>>

\* The write API counts the builds, and refuses a version that has any ...
CountBuilds(w) ==
  /\ req[w].pc = "idle" /\ Begins
  /\ mod # None
  /\ \E id \in {id \in Ids \ built : Exists(id)} :
       Request(w, [pc |-> "delete", id |-> id])
  /\ UNCHANGED <<store, files, hashes, history>>

\* ... and deletes the row.
DeleteCounted(w) ==
  /\ req[w].pc = "delete"
  /\ rows' = Without({req[w].id})
  /\ missed' = missed \cup (built \cap {req[w].id})
  /\ Ends(w)
  /\ UNCHANGED <<mod, built, lastId, files, hashes, begun, shared, byHand, unseen>>

\* delete_mod of both looks the versions up ...
ListVersions(w) ==
  /\ req[w].pc = "idle" /\ Begins
  /\ mod # None
  /\ Request(w, [pc |-> "deletemod", ids |-> {id \in Ids : Exists(id)}])
  /\ UNCHANGED <<store, files, hashes, history>>

\* ... deletes their rows in the builds, and all versions that there are now.
DeleteMod(w) ==
  /\ req[w].pc = "deletemod"
  /\ rows' = [id \in Ids |-> None]
  /\ built' = built \ req[w].ids
  /\ missed' = missed \cup {id \in built' : Exists(id)}
  /\ mod' = None
  /\ Ends(w)
  /\ UNCHANGED <<lastId, files, hashes, begun, shared, byHand, unseen>>

\* The process ends, or a request fails, between two steps.
Crash(w) ==
  /\ req[w].pc # "idle"
  /\ Ends(w)
  /\ UNCHANGED <<store, files, hashes, begun, history>>

-----------------------------------------------------------------------------

Next ==
  \/ EditMod \/ Verify \/ HashRead \/ HashStore \/ HashFails
  \/ ClearOverride \/ AddLocked \/ Remove \/ DeleteVersion
  \/ \E w \in Workers :
       \/ Upload(w) \/ PlaceZip(w) \/ PlaceJar(w) \/ Insert(w) \/ MarkedBuild(w)
       \/ UploadFails(w) \/ Undo(w) \/ Unlink(w)
       \/ NewManual(w) \/ CreateVersion(w)
       \/ CreateJar(w) \/ Scan(w) \/ StoreJars(w) \/ RecordJars(w)
       \/ CheckOverride(w) \/ SaveOverride(w) \/ ReadVersion(w) \/ UpdateVersion(w)
       \/ ReadForBuild(w) \/ AddRead(w) \/ CountBuilds(w) \/ DeleteCounted(w)
       \/ ListVersions(w) \/ DeleteMod(w) \/ Crash(w)

Spec == Init /\ [][Next]_vars

-----------------------------------------------------------------------------
(* Properties                                                              *)

\* The rows are well formed, and what a build contains is a version that exists,
\* unless it was added while the version was being deleted (delete_modversion,
\* delete_mod, add_build_mod: there is no foreign key).
TypeOK ==
  /\ mod \in {"NONE", "MOD", None}
  /\ rows \in [Ids -> Row \cup {None}]
  /\ zip \in [Versions -> Zips \cup {None}] /\ jar \in [Versions -> Jars \cup {None}]
  /\ \A id \in built \ missed : Exists(id)

\* The file that an override serves has the JAR MD5 that is stored, whatever
\* uploads, JAR creations, edits and other overrides run beside its download,
\* unless the MD5 was replaced by a request that had not seen the override with
\* the MD5 that it has: a scan never looks at it, an edit or a JAR creation looks
\* before it was saved (update_jar_url_override, update_modversion).
OverrideMatches ==
  \A id \in Ids :
    Exists(id) /\ id \notin unseen /\ rows[id].override # None
      => rows[id].override = rows[id].jarmd5

\* The MD5s of a version are those of its files, after failed uploads, crashes,
\* deletions, edits and scans, unless they were entered by hand and not verified
\* since, or two requests or two rows shared the files: nothing but the
\* check for existing files keeps uploads of one version apart (modlibrary_post,
\* Modversion.new, MCInstanceJar).
FilesBehindRows ==
  \A id \in Ids :
    Exists(id) /\ rows[id].ver \notin shared
      => /\ rows[id].md5 # None /\ <<id, "md5">> \notin byHand
              => zip[rows[id].ver] = rows[id].md5
         /\ rows[id].jarmd5 # None /\ <<id, "jarmd5">> \notin byHand
              => jar[rows[id].ver] = rows[id].jarmd5

=============================================================================
