---------------------------- MODULE LibraryProofs ----------------------------
(***************************************************************************)
(* Proofs about Library: for any number of requests, versions and files,   *)
(* however uploads, JAR creations, edits, overrides, hashings, deletions   *)
(* and crashes interleave, the builds contain rows that exist, an override *)
(* serves the JAR that is stored, and the hashes of a version are those of *)
(* its files, with the exceptions that the histories record.               *)
(*                                                                         *)
(* The files are changed by the requests that hold a version.  Two of them *)
(* hold the same version only if it is shared (Exclusive); so what one has *)
(* found out of the files of a version that is not shared stays true until *)
(* it is done (AllFiled), and the JAR that it will store is the one that   *)
(* is there already or the first one (Files).  Ids are not given twice, so *)
(* an id that a request or a hashing holds names the version that it named *)
(* first, or none (Given).                                                 *)
(***************************************************************************)
EXTENDS Library, TLAPS

Uploading == {"zip", "jar", "insert", "mark", "undo", "unlink"}
Storing == {"store", "record"}

Items == [id : Ids, ver : Versions, jar : Jars]

Requests ==
  [pc : {"idle"}]
    \cup [pc : Uploading, ver : Versions, zip : Zips, jar : Jars \cup {None},
          id : Ids \cup {None}, marked : BOOLEAN]
    \cup [pc : Storing, scan : BOOLEAN, items : SUBSET Items,
          seen : SUBSET (Ids \X (Jars \cup {None}))]
    \cup [pc : {"override"}, id : Ids, url : Jars]
    \cup [pc : {"update"}, id : Ids, set : Bodies, had : Row]
    \cup [pc : {"add", "delete"}, id : Ids]
    \cup [pc : {"deletemod"}, ids : SUBSET Ids]

\* What a request has found out and still relies on, whatever happens meanwhile:
\* the JAR of an upload is that of its ZIP, an override that a JAR creation has
\* seen is for its JAR, and an edit has downloaded the override it needs.
Sound(r) ==
  /\ r.pc \in Uploading /\ r.jar # None => r.jar = JarOf[r.zip]
  /\ r.pc = "jar" => r.jar # None
  /\ r.pc \in {"mark", "undo"} => r.id \in Ids
  /\ r.pc \in Storing =>
       \A rec \in r.items : \A url \in Jars : <<rec.id, url>> \in r.seen => url = rec.jar
  /\ r.pc = "update" => LET url == Field(r.set, r.had, "override")
                        IN Checked(r.set, r.had) => Verified(url, Field(r.set, r.had, "jarmd5"))

Hashings == [id : Ids, md5 : Zips \cup {None}]

Shapes ==
  /\ lastId \in 0..MaxRows
  /\ built \subseteq Ids
  /\ hashes \subseteq Hashings
  /\ req \in [Workers -> Requests]
  /\ \A w \in Workers : Sound(req[w])

\* An id that is named was given, and names the version that it named first.
Named(r, rs, last) ==
  /\ r.pc \in {"mark", "undo"} => r.id <= last
  /\ r.pc \in Storing =>
       \A rec \in r.items : rec.id <= last /\ (rs[rec.id] # None => rs[rec.id].ver = rec.ver)

Given ==
  /\ \A id \in Ids : Exists(id) => id <= lastId
  /\ \A h \in hashes : h.id <= lastId
  /\ \A w \in Workers : Named(req[w], rows, lastId)

\* The versions whose files a request holds.
Held(r) == IF r.pc \in Uploading THEN {r.ver}
           ELSE IF r.pc \in Storing THEN {rec.ver : rec \in r.items}
           ELSE {}

\* Nobody else holds the files of a version that is not shared.
Exclusive ==
  \A v, w \in Workers : v # w => Held(req[v]) \cap Held(req[w]) \subseteq shared

\* What a request knows of the files that it alone holds, and the rows of an upload.
Filed(r, zs, js, rs, sh) ==
  /\ r.pc \in Uploading /\ r.ver \notin sh =>
       /\ r.pc = "zip" => zs[r.ver] = None
       /\ r.pc # "zip" => zs[r.ver] = r.zip
       /\ r.pc \in {"insert", "mark", "undo", "unlink"} => js[r.ver] = r.jar
       /\ \A id \in Ids : rs[id] # None /\ rs[id].ver = r.ver
                            => r.pc \in {"mark", "undo"} /\ id = r.id
  /\ r.pc \in Storing =>
       \A rec \in r.items : rec.ver \notin sh =>
         /\ r.pc = "store" => zs[rec.ver] # None /\ rec.jar = JarOf[zs[rec.ver]]
         /\ r.pc = "record" => js[rec.ver] = rec.jar

AllFiled == \A w \in Workers : Filed(req[w], zip, jar, rows, shared)

\* The JAR of a version is the one of its ZIP, and a hash is the one of its file.
Files ==
  /\ \A v \in Versions \ shared : jar[v] # None => zip[v] # None /\ jar[v] = JarOf[zip[v]]
  /\ \A h \in hashes : h.md5 # None /\ Exists(h.id) /\ rows[h.id].ver \notin shared
                         => zip[rows[h.id].ver] = h.md5

IInv == /\ TypeOK /\ Shapes /\ Given /\ Exclusive /\ AllFiled /\ Files
        /\ FilesBehindRows /\ OverrideMatches

USE LibraryAssumption

-----------------------------------------------------------------------------
(* Operators                                                               *)

LEMMA IdleRequest == Idle \in Requests /\ Sound(Idle) /\ Idle.pc = "idle"
  BY DEF Idle, Requests, Sound, Uploading, Storing

LEMMA HoldsHeld == \A w : Holds(w) = Held(req[w])
  BY DEF Holds, Held, Uploading, Storing

\* A request without files claims nothing about them.
Free(r) == r.pc \notin Uploading /\ r.pc \notin Storing

LEMMA FreeRequest ==
  ASSUME NEW r, Free(r), NEW zs, NEW js, NEW rs, NEW sh, NEW last
  PROVE  Held(r) = {} /\ Named(r, rs, last) /\ Filed(r, zs, js, rs, sh)
  BY DEF Free, Held, Named, Filed, Uploading

\* Rows go, or keep their version; a new one has an id that was not given before.
Follows(rs, rs2, last) ==
  \A id \in Ids : rs2[id] # None => \/ rs[id] # None /\ rs2[id].ver = rs[id].ver
                                    \/ ~ (id <= last)

LEMMA NamedStays ==
  ASSUME NEW r \in Requests, Sound(r), NEW rs, NEW rs2, NEW last \in Nat, NEW last2 \in Nat,
         Named(r, rs, last), Follows(rs, rs2, last), last <= last2
  PROVE  Named(r, rs2, last2)
<1>1. CASE r.pc \in {"mark", "undo"}
  <2>1. r.id \in Nat
    BY <1>1 DEF Sound, Ids
  <2>2. QED
    BY <1>1, <2>1 DEF Named, Storing
<1>2. CASE r.pc \in Storing
  <2>1. \A rec \in r.items : rec.id \in Ids /\ rec.id \in Nat
    BY <1>2 DEF Requests, Storing, Uploading, Items, Ids
  <2>2. QED
    BY <1>2, <2>1 DEF Named, Follows, Storing
<1>3. CASE r.pc \notin {"mark", "undo"} /\ r.pc \notin Storing
  BY <1>3 DEF Named
<1>4. QED
  BY <1>1, <1>2, <1>3

\* What a request knows of its files stays true while nobody else changes them
\* and nobody else adds a row for them, unless the version becomes shared.
LEMMA FiledStays ==
  ASSUME NEW r \in Requests, NEW zs, NEW js, NEW rs, NEW sh, Filed(r, zs, js, rs, sh),
         NEW zs2, NEW js2, NEW rs2, NEW sh2, sh \subseteq sh2,
         \A v \in Held(r) : v \notin sh2 => zs2[v] = zs[v] /\ js2[v] = js[v],
         \A id \in Ids : rs2[id] # None /\ rs2[id].ver \in Held(r) /\ rs2[id].ver \notin sh2
                           => rs[id] # None /\ rs2[id].ver = rs[id].ver
  PROVE  Filed(r, zs2, js2, rs2, sh2)
<1>1. CASE r.pc \in Uploading
  <2>1. Held(r) = {r.ver} /\ r.pc \notin Storing
    BY <1>1 DEF Held, Uploading, Storing
  <2>2. CASE r.ver \in sh2
    BY <2>1, <2>2 DEF Filed
  <2>3. CASE r.ver \notin sh2
    BY <1>1, <2>1, <2>3 DEF Filed
  <2>4. QED
    BY <2>2, <2>3
<1>2. CASE r.pc \in Storing
  <2>1. Held(r) = {rec.ver : rec \in r.items} /\ r.pc \notin Uploading
    BY <1>2 DEF Held, Uploading, Storing
  <2>2. ASSUME NEW rec \in r.items, rec.ver \notin sh2
        PROVE  zs2[rec.ver] = zs[rec.ver] /\ js2[rec.ver] = js[rec.ver] /\ rec.ver \notin sh
    BY <2>1, <2>2
  <2>3. QED
    BY <1>2, <2>1, <2>2 DEF Filed
<1>3. CASE r.pc \notin Uploading /\ r.pc \notin Storing
  BY <1>3 DEF Filed
<1>4. QED
  BY <1>1, <1>2, <1>3

LEMMA OthersHold ==
  ASSUME NEW w, NEW v \in Workers, v # w
  PROVE  Held(req[v]) \subseteq Others(w)
<1>1. Holds(v) \in {Holds(u) : u \in Workers \ {w}}
  OBVIOUS
<1>2. Holds(v) \subseteq Others(w)
  BY <1>1 DEF Others
<1>3. QED
  BY <1>2, HoldsHeld

-----------------------------------------------------------------------------
(* Steps of the requests                                                   *)

\* A request goes on, and writes no files but those that it holds.
LEMMA Goes ==
  ASSUME IInv, NEW w \in Workers, NEW r \in Requests, Sound(r), Request(w, r),
         shared \subseteq shared', lastId' \in 0..MaxRows, lastId <= lastId',
         Follows(rows, rows', lastId),
         \A id \in Ids : rows'[id] # None => /\ rows[id] # None \/ id <= lastId'
                                             /\ \/ rows[id] # None
                                                \/ rows'[id].ver \notin Others(w)
                                                \/ rows'[id].ver \in shared',
         \A v \in Versions \ Held(req[w]) : zip'[v] = zip[v] /\ jar'[v] = jar[v],
         Held(r) \cap Others(w) \subseteq shared',
         Named(r, rows', lastId'), Filed(r, zip', jar', rows', shared')
  PROVE  /\ \A v \in Workers : (req[v] \in Requests /\ Sound(req[v]))'
         /\ req' \in [Workers -> Requests]
         /\ \A id \in Ids : rows'[id] # None => id <= lastId'
         /\ \A v \in Workers : Named(req[v], rows, lastId)'
         /\ Exclusive' /\ AllFiled'
<1>1. /\ req'[w] = r /\ req' \in [Workers -> Requests]
      /\ \A v \in Workers : v # w => req'[v] = req[v]
  BY DEF Request, IInv, Shapes
<1>2. lastId \in Nat /\ lastId' \in Nat
  BY DEF IInv, Shapes
<1>3. \A v \in Workers : (req[v] \in Requests /\ Sound(req[v]))'
  BY <1>1 DEF IInv, Shapes
<1>4. ASSUME NEW id \in Ids, rows'[id] # None PROVE id <= lastId'
  <2>1. CASE rows[id] # None
    BY <1>2, <2>1 DEF IInv, Given, Exists, Ids
  <2>2. CASE rows[id] = None
    BY <1>4, <2>2
  <2>3. QED
    BY <2>1, <2>2
<1>5. ASSUME NEW v \in Workers PROVE Named(req'[v], rows', lastId')
  <2>1. CASE v = w
    BY <1>1, <2>1
  <2>2. CASE v # w
    <3>1. req[v] \in Requests /\ Sound(req[v]) /\ Named(req[v], rows, lastId)
      BY DEF IInv, Shapes, Given
    <3>2. QED
      BY <1>1, <1>2, <2>2, <3>1, NamedStays
  <2>3. QED
    BY <2>1, <2>2
<1>6. Exclusive'
  <2>. SUFFICES ASSUME NEW u \in Workers, NEW v \in Workers, u # v
                PROVE  Held(req'[u]) \cap Held(req'[v]) \subseteq shared'
    BY DEF Exclusive
  <2>1. CASE u = w
    <3>1. Held(req'[u]) = Held(r) /\ Held(req'[v]) \subseteq Others(w)
      BY <1>1, <2>1, OthersHold
    <3>2. QED
      BY <3>1
  <2>2. CASE v = w
    <3>1. Held(req'[v]) = Held(r) /\ Held(req'[u]) \subseteq Others(w)
      BY <1>1, <2>2, OthersHold
    <3>2. QED
      BY <3>1
  <2>3. CASE u # w /\ v # w
    <3>1. Held(req[u]) \cap Held(req[v]) \subseteq shared
      BY DEF IInv, Exclusive
    <3>2. req'[u] = req[u] /\ req'[v] = req[v]
      BY <1>1, <2>3
    <3>3. QED
      BY <3>1, <3>2
  <2>4. QED
    BY <2>1, <2>2, <2>3
<1>7. ASSUME NEW v \in Workers PROVE Filed(req'[v], zip', jar', rows', shared')
  <2>1. CASE v = w
    BY <1>1, <2>1
  <2>2. CASE v # w
    <3>1. req[v] \in Requests /\ Filed(req[v], zip, jar, rows, shared)
      BY DEF IInv, Shapes, AllFiled
    <3>2. \A x \in Held(req[v]) : x \notin shared' => zip'[x] = zip[x] /\ jar'[x] = jar[x]
      <4>1. Held(req[v]) \cap Held(req[w]) \subseteq shared
        BY <2>2 DEF IInv, Exclusive
      <4>2. Held(req[v]) \subseteq Versions
        BY <3>1 DEF Requests, Held, Uploading, Storing, Items
      <4>3. QED
        BY <4>1, <4>2
    <3>3. \A id \in Ids : rows'[id] # None /\ rows'[id].ver \in Held(req[v])
                          /\ rows'[id].ver \notin shared'
                            => rows[id] # None /\ rows'[id].ver = rows[id].ver
      <4>. SUFFICES ASSUME NEW id \in Ids, rows'[id] # None,
                           rows'[id].ver \in Held(req[v]), rows'[id].ver \notin shared'
                    PROVE  rows[id] # None /\ rows'[id].ver = rows[id].ver
        OBVIOUS
      <4>1. rows'[id].ver \in Others(w)
        BY <2>2, OthersHold
      <4>2. rows[id] # None
        BY <4>1
      <4>3. id <= lastId
        BY <4>2 DEF IInv, Given, Exists
      <4>4. QED
        BY <4>2, <4>3 DEF Follows
    <3>4. Filed(req[v], zip', jar', rows', shared')
      BY <3>1, <3>2, <3>3, FiledStays
    <3>5. QED
      BY <1>1, <2>2, <3>4
  <2>3. QED
    BY <2>1, <2>2
<1>8. QED
  BY <1>1, <1>3, <1>4, <1>5, <1>6, <1>7 DEF AllFiled

\* The same, when no request goes on.
LEMMA Rests ==
  ASSUME IInv, req' = req, shared' = shared, lastId' = lastId, zip' = zip, jar' = jar,
         \A id \in Ids : rows'[id] # None => rows[id] # None /\ rows'[id].ver = rows[id].ver
  PROVE  /\ \A v \in Workers : (req[v] \in Requests /\ Sound(req[v]))'
         /\ req' \in [Workers -> Requests]
         /\ \A id \in Ids : rows'[id] # None => id <= lastId'
         /\ \A v \in Workers : Named(req[v], rows, lastId)'
         /\ Exclusive' /\ AllFiled'
<1>1. lastId \in Nat
  BY DEF IInv, Shapes
<1>2. ASSUME NEW v \in Workers
      PROVE  Named(req[v], rows', lastId) /\ Filed(req[v], zip, jar, rows', shared)
  <2>1. /\ req[v] \in Requests /\ Sound(req[v]) /\ Named(req[v], rows, lastId)
        /\ Filed(req[v], zip, jar, rows, shared)
    BY DEF IInv, Shapes, Given, AllFiled
  <2>2. Follows(rows, rows', lastId) /\ lastId <= lastId
    BY <1>1 DEF Follows
  <2>3. Named(req[v], rows', lastId)
    BY <1>1, <2>1, <2>2, NamedStays
  <2>4. Filed(req[v], zip, jar, rows', shared)
    BY <2>1, FiledStays
  <2>5. QED
    BY <2>3, <2>4
<1>3. QED
  BY <1>2 DEF IInv, Shapes, Given, Exists, Exclusive, AllFiled

\* Rows that are there are what they were.
Shrunk(rs, rs2) == \A id \in Ids : rs2[id] # None => rs2[id] = rs[id]

\* With the same files, what is said of the rows that stay remains true.
LEMMA RowsStay ==
  ASSUME IInv, Shrunk(rows, rows'), zip' = zip, jar' = jar,
         shared \subseteq shared', byHand' = byHand, unseen' = unseen
  PROVE  FilesBehindRows' /\ OverrideMatches'
<1>1. FilesBehindRows'
  BY DEF IInv, FilesBehindRows, Shrunk, Exists
<1>2. OverrideMatches'
  BY DEF IInv, OverrideMatches, Shrunk, Exists
<1>3. QED
  BY <1>1, <1>2

LEMMA FilesStay ==
  ASSUME IInv, Follows(rows, rows', lastId), zip' = zip, jar' = jar,
         shared \subseteq shared', hashes' \subseteq hashes
  PROVE  Files' /\ \A h \in hashes' : h.id <= lastId
<1>1. \A h \in hashes' : h \in hashes /\ h.id <= lastId /\ h.id \in Ids
  BY DEF IInv, Given, Shapes, Hashings
<1>2. \A v \in Versions \ shared' : jar'[v] # None => zip'[v] # None /\ jar'[v] = JarOf[zip'[v]]
  BY DEF IInv, Files
<1>3. ASSUME NEW h \in hashes', h.md5 # None, rows'[h.id] # None,
             rows'[h.id].ver \notin shared'
      PROVE  zip'[rows'[h.id].ver] = h.md5
  <2>1. rows[h.id] # None /\ rows'[h.id].ver = rows[h.id].ver /\ h \in hashes
    BY <1>1, <1>3 DEF Follows
  <2>2. QED
    BY <1>3, <2>1 DEF IInv, Files, Exists
<1>4. QED
  BY <1>1, <1>2, <1>3 DEF Files, Exists

LEMMA ShrunkFollows ==
  ASSUME IInv, Shrunk(rows, rows')
  PROVE  /\ Follows(rows, rows', lastId)
         /\ \A id \in Ids : rows'[id] # None => rows[id] # None /\ rows'[id].ver = rows[id].ver
  BY DEF Shrunk, Follows

\* A request takes or keeps files, rows go or stay, and a build loses what the
\* rows lose, or what it has is missed.
LEMMA Takes ==
  ASSUME IInv, NEW w \in Workers, NEW r \in Requests, Sound(r), Request(w, r),
         rows' \in [Ids -> Row \cup {None}], Shrunk(rows, rows'),
         mod' \in {"NONE", "MOD", None}, built' \subseteq Ids,
         \A id \in built' : id \notin missed' => rows'[id] # None,
         files' = files, hashes' = hashes, lastId' = lastId,
         shared \subseteq shared', byHand' = byHand, unseen' = unseen,
         Held(r) \cap Others(w) \subseteq shared',
         Named(r, rows', lastId), Filed(r, zip, jar, rows', shared')
  PROVE  IInv'
<1>1. zip' = zip /\ jar' = jar
  BY DEF files
<1>2. TypeOK'
  BY <1>1 DEF IInv, TypeOK, Exists
<1>3. Named(r, rows', lastId') /\ Filed(r, zip', jar', rows', shared')
  BY <1>1
<1>4. /\ Follows(rows, rows', lastId)
      /\ \A id \in Ids : rows'[id] # None => rows[id] # None /\ rows'[id].ver = rows[id].ver
  BY ShrunkFollows
<1>5. lastId' \in 0..MaxRows /\ lastId <= lastId'
  BY DEF IInv, Shapes
<1>6. /\ \A v \in Workers : (req[v] \in Requests /\ Sound(req[v]))'
      /\ req' \in [Workers -> Requests]
      /\ \A id \in Ids : rows'[id] # None => id <= lastId'
      /\ \A v \in Workers : Named(req[v], rows, lastId)'
      /\ Exclusive' /\ AllFiled'
  BY <1>1, <1>3, <1>4, <1>5, Goes
<1>7. Files' /\ \A h \in hashes' : h.id <= lastId
  BY <1>1, <1>4, FilesStay
<1>8. FilesBehindRows' /\ OverrideMatches'
  BY <1>1, RowsStay
<1>9. Shapes' /\ Given'
  BY <1>5, <1>6, <1>7 DEF IInv, Shapes, Given, Exists
<1>10. QED
  BY <1>2, <1>6, <1>7, <1>8, <1>9 DEF IInv

\* The same of a request without files.
LEMMA Quiet ==
  ASSUME IInv, NEW w \in Workers, NEW r \in Requests, Sound(r), Request(w, r), Free(r),
         rows' \in [Ids -> Row \cup {None}], Shrunk(rows, rows'),
         mod' \in {"NONE", "MOD", None}, built' \subseteq Ids,
         \A id \in built' : id \notin missed' => rows'[id] # None,
         files' = files, hashes' = hashes, lastId' = lastId,
         shared' = shared, byHand' = byHand, unseen' = unseen
  PROVE  IInv'
<1>1. /\ Held(r) = {} /\ Named(r, rows', lastId) /\ Filed(r, zip, jar, rows', shared')
  BY FreeRequest
<1>2. QED
  BY <1>1, Takes

\* What is known of a request in a state that the invariant allows.
LEMMA Holding ==
  ASSUME IInv, NEW w \in Workers
  PROVE  /\ req[w] \in Requests /\ Sound(req[w])
         /\ req[w].pc \in {"mark", "undo", "override", "update", "add", "delete"}
              => req[w].id \in Ids
         /\ req[w].pc \in Uploading =>
              /\ req[w].ver \in Versions /\ req[w].zip \in Zips
              /\ req[w].jar \in Jars \cup {None} /\ req[w].marked \in BOOLEAN
         /\ req[w].pc \in Storing =>
              req[w].items \subseteq Items /\ req[w].scan \in BOOLEAN
         /\ req[w].pc = "override" => req[w].url \in Jars
         /\ req[w].pc = "update" => req[w].set \in Bodies /\ req[w].had \in Row
         /\ req[w].pc = "deletemod" => req[w].ids \subseteq Ids
<1>1. req[w] \in Requests /\ Sound(req[w])
  BY DEF IInv, Shapes
<1>2. QED
  BY <1>1 DEF Requests, Sound, Uploading, Storing

LEMMA Typed ==
  ASSUME IInv
  PROVE  /\ rows \in [Ids -> Row \cup {None}] /\ mod \in {"NONE", "MOD", None}
         /\ built \subseteq Ids /\ \A id \in built : id \notin missed => rows[id] # None
         /\ zip \in [Versions -> Zips \cup {None}] /\ jar \in [Versions -> Jars \cup {None}]
         /\ lastId \in Nat /\ lastId <= MaxRows /\ MaxRows \in Nat
         /\ Shrunk(rows, rows)
  BY DEF IInv, TypeOK, Shapes, Shrunk, Exists

LEMMA MarkedBuildInv == ASSUME IInv, NEW w \in Workers, MarkedBuild(w) PROVE IInv'
<1>1. /\ req[w].id \in Ids /\ rows[req[w].id] # None /\ rows' = rows /\ missed' = missed
      /\ built' = built \cup {req[w].id}
  BY Holding DEF MarkedBuild, Exists, history
<1>2. \A id \in built' : id \notin missed' => rows'[id] # None
  BY <1>1, Typed
<1>3. Request(w, Idle) /\ Free(Idle)
  BY IdleRequest DEF MarkedBuild, Ends, Free, Uploading, Storing
<1>4. built' \subseteq Ids
  BY <1>1, Typed
<1>5. QED
  BY <1>1, <1>2, <1>3, <1>4, Typed, IdleRequest, Quiet DEF MarkedBuild, history

\* A request without files begins, ends or goes on, and nothing else changes.
LEMMA Turns ==
  ASSUME IInv, NEW w \in Workers, NEW r \in Requests, Sound(r), Request(w, r), Free(r),
         store' = store, files' = files, hashes' = hashes, history' = history
  PROVE  IInv'
<1>1. /\ mod' = mod /\ rows' = rows /\ built' = built /\ lastId' = lastId
      /\ shared' = shared /\ byHand' = byHand /\ unseen' = unseen /\ missed' = missed
  BY DEF store, history
<1>2. QED
  BY <1>1, Typed, Quiet

LEMMA CrashInv == ASSUME IInv, NEW w \in Workers, Crash(w) PROVE IInv'
<1>1. Free(Idle)
  BY IdleRequest DEF Free, Uploading, Storing
<1>2. QED
  BY <1>1, IdleRequest, Turns DEF Crash, Ends

LEMMA CheckOverrideInv == ASSUME IInv, NEW w \in Workers, CheckOverride(w) PROVE IInv'
<1>1. PICK id \in Ids, url \in Jars :
        Request(w, [pc |-> "override", id |-> id, url |-> url])
  BY DEF CheckOverride
<1>2. PICK r : r = [pc |-> "override", id |-> id, url |-> url]
  OBVIOUS
<1>3. r \in Requests /\ Sound(r) /\ Free(r)
  BY <1>2 DEF Requests, Sound, Free, Uploading, Storing
<1>4. QED
  BY <1>1, <1>2, <1>3, Turns DEF CheckOverride

LEMMA ReadVersionInv == ASSUME IInv, NEW w \in Workers, ReadVersion(w) PROVE IInv'
<1>1. PICK id \in Ids, set \in Bodies :
        /\ rows[id] # None
        /\ Checked(set, rows[id]) =>
             Verified(Field(set, rows[id], "override"), Field(set, rows[id], "jarmd5"))
        /\ Request(w, [pc |-> "update", id |-> id, set |-> set, had |-> rows[id]])
  BY DEF ReadVersion, Exists
<1>2. PICK r : r = [pc |-> "update", id |-> id, set |-> set, had |-> rows[id]]
  OBVIOUS
<1>3. rows[id] \in Row
  BY <1>1, Typed
<1>4. r \in Requests /\ Sound(r) /\ Free(r)
  BY <1>1, <1>2, <1>3 DEF Requests, Sound, Free, Uploading, Storing
<1>5. QED
  BY <1>1, <1>2, <1>4, Turns DEF ReadVersion

LEMMA ReadIdInv ==
  ASSUME IInv, NEW w \in Workers, ReadForBuild(w) \/ CountBuilds(w)
  PROVE  IInv'
<1>1. PICK id \in Ids, pc \in {"add", "delete"} : Request(w, [pc |-> pc, id |-> id])
  BY DEF ReadForBuild, CountBuilds
<1>2. PICK r : r = [pc |-> pc, id |-> id]
  OBVIOUS
<1>3. r \in Requests /\ Sound(r) /\ Free(r)
  BY <1>2 DEF Requests, Sound, Free, Uploading, Storing
<1>4. QED
  BY <1>1, <1>2, <1>3, Turns DEF ReadForBuild, CountBuilds

LEMMA ListVersionsInv == ASSUME IInv, NEW w \in Workers, ListVersions(w) PROVE IInv'
<1>1. PICK r : r = [pc |-> "deletemod", ids |-> {id \in Ids : Exists(id)}]
  OBVIOUS
<1>2. r \in Requests /\ Sound(r) /\ Free(r)
  BY <1>1 DEF Requests, Sound, Free, Uploading, Storing
<1>3. Request(w, r)
  BY <1>1 DEF ListVersions
<1>4. QED
  BY <1>2, <1>3, Turns DEF ListVersions

LEMMA AddReadInv == ASSUME IInv, NEW w \in Workers, AddRead(w) PROVE IInv'
<1>1. /\ req[w].id \in Ids /\ rows' = rows /\ built' = built \cup {req[w].id}
      /\ missed' = IF rows[req[w].id] # None THEN missed ELSE missed \cup {req[w].id}
  BY Holding DEF AddRead, Exists
<1>2. \A id \in built' : id \notin missed' => rows'[id] # None
  BY <1>1, Typed
<1>3. built' \subseteq Ids
  BY <1>1, Typed
<1>4. Request(w, Idle) /\ Free(Idle)
  BY IdleRequest DEF AddRead, Ends, Free, Uploading, Storing
<1>5. QED
  BY <1>1, <1>2, <1>3, <1>4, Typed, IdleRequest, Quiet DEF AddRead

LEMMA WithoutRows ==
  ASSUME IInv, NEW ids \in SUBSET Ids, rows' = Without(ids)
  PROVE  /\ rows' \in [Ids -> Row \cup {None}]
         /\ Shrunk(rows, rows')
         /\ \A id \in Ids : id \notin ids => rows'[id] = rows[id]
         /\ \A id \in ids : rows'[id] = None
  BY Typed DEF Without, Shrunk

LEMMA DeleteCountedInv == ASSUME IInv, NEW w \in Workers, DeleteCounted(w) PROVE IInv'
<1>1. /\ req[w].id \in Ids /\ rows' = Without({req[w].id}) /\ built' = built
      /\ missed' = missed \cup (built \cap {req[w].id})
  BY Holding DEF DeleteCounted
<1>2. /\ rows' \in [Ids -> Row \cup {None}] /\ Shrunk(rows, rows')
      /\ \A id \in Ids : id # req[w].id => rows'[id] = rows[id]
  <2>1. PICK ids \in SUBSET Ids : ids = {req[w].id}
    BY <1>1
  <2>2. rows' = Without(ids)
    BY <1>1, <2>1
  <2>3. QED
    BY <2>1, <2>2, WithoutRows
<1>3. \A id \in built' : id \notin missed' => rows'[id] # None
  BY <1>1, <1>2, Typed
<1>4. Request(w, Idle) /\ Free(Idle)
  BY IdleRequest DEF DeleteCounted, Ends, Free, Uploading, Storing
<1>5. QED
  BY <1>1, <1>2, <1>3, <1>4, Typed, IdleRequest, Quiet DEF DeleteCounted

LEMMA DeleteModInv == ASSUME IInv, NEW w \in Workers, DeleteMod(w) PROVE IInv'
<1>1. /\ rows' = [id \in Ids |-> None] /\ built' = built \ req[w].ids /\ mod' = None
      /\ missed' = missed \cup {id \in built' : rows[id] # None}
  BY DEF DeleteMod, Exists
<1>2. rows' \in [Ids -> Row \cup {None}] /\ Shrunk(rows, rows')
  BY <1>1 DEF Shrunk
<1>3. built' \subseteq Ids /\ \A id \in built' : id \notin missed' => rows'[id] # None
  BY <1>1, Typed
<1>4. Request(w, Idle) /\ Free(Idle)
  BY IdleRequest DEF DeleteMod, Ends, Free, Uploading, Storing
<1>5. QED
  BY <1>1, <1>2, <1>3, <1>4, IdleRequest, Quiet DEF DeleteMod

-----------------------------------------------------------------------------
(* Uploads                                                                 *)

LEMMA OwnFiles == ASSUME IInv, NEW w \in Workers
                  PROVE  Held(req[w]) \cap Others(w) \subseteq shared
<1>. SUFFICES ASSUME NEW x \in Held(req[w]), x \in Others(w) PROVE x \in shared
  OBVIOUS
<1>1. PICK v \in Workers \ {w} : x \in Holds(v)
  BY DEF Others
<1>2. x \in Held(req[v])
  BY <1>1, HoldsHeld
<1>3. QED
  BY <1>2 DEF IInv, Exclusive

LEMMA HeldVersions ==
  ASSUME NEW r \in Requests
  PROVE  /\ Held(r) \subseteq Versions
         /\ r.pc \in Uploading => Held(r) = {r.ver}
         /\ r.pc \in Storing => Held(r) = {rec.ver : rec \in r.items}
  BY DEF Requests, Held, Uploading, Storing, Items

LEMMA UploadInv == ASSUME IInv, NEW w \in Workers, Upload(w) PROVE IInv'
<1>1. PICK v \in Versions, z \in Zips, marked \in BOOLEAN, j \in Jars \cup {None} :
        /\ zip[v] = None /\ j \in Eligible(z) \cup {None}
        /\ Request(w, [pc |-> "zip", ver |-> v, zip |-> z, jar |-> j, id |-> None,
                       marked |-> marked])
        /\ shared' = shared \cup ({v} \cap (Others(w) \cup Rivals({})))
  BY DEF Upload, Eligible
<1>2. PICK r : r = [pc |-> "zip", ver |-> v, zip |-> z, jar |-> j, id |-> None,
                    marked |-> marked]
  OBVIOUS
<1>3. r \in Requests /\ r.pc = "zip" /\ r.ver = v
  BY <1>2 DEF Requests, Uploading
<1>4. Sound(r)
  BY <1>1, <1>2 DEF Sound, Uploading, Storing, Eligible
<1>5. Held(r) = {v}
  BY <1>3 DEF Held, Uploading
<1>6. \A id \in Ids : rows[id] # None /\ rows[id].ver = v => v \in shared'
  <2>. SUFFICES ASSUME NEW id \in Ids, rows[id] # None, rows[id].ver = v
                PROVE  v \in Rivals({})
    BY <1>1
  <2>1. QED
    BY DEF Rivals, Exists
<1>7. Named(r, rows, lastId) /\ Filed(r, zip, jar, rows, shared')
  BY <1>1, <1>3, <1>6 DEF Named, Filed, Storing
<1>8. /\ rows' = rows /\ mod' = mod /\ built' = built /\ missed' = missed
      /\ files' = files /\ hashes' = hashes /\ lastId' = lastId
      /\ byHand' = byHand /\ unseen' = unseen
  BY DEF Upload, store
<1>9. Request(w, r) /\ shared \subseteq shared' /\ Held(r) \cap Others(w) \subseteq shared'
  BY <1>1, <1>2, <1>5
<1>10. QED
  BY <1>3, <1>4, <1>7, <1>8, <1>9, Typed, Takes

\* A request writes files that it holds: the rows of a version that is not shared
\* keep their ZIP, and their JAR if it was there.
Written(r, zs, zs2, js, js2, rs, sh) ==
  /\ \A v \in Versions \ Held(r) : zs2[v] = zs[v] /\ js2[v] = js[v]
  /\ \A v \in Held(r) : v \notin sh =>
       /\ js2[v] # None => zs2[v] # None /\ js2[v] = JarOf[zs2[v]]
       /\ \A id \in Ids : rs[id] # None /\ rs[id].ver = v
            => zs2[v] = zs[v] /\ (js[v] # None => js2[v] = js[v])

LEMMA Writes ==
  ASSUME IInv, NEW w \in Workers, NEW r \in Requests, Sound(r), Request(w, r),
         store' = store, hashes' = hashes, history' = history,
         zip' \in [Versions -> Zips \cup {None}], jar' \in [Versions -> Jars \cup {None}],
         Written(req[w], zip, zip', jar, jar', rows, shared),
         Held(r) \subseteq Held(req[w]),
         Named(r, rows, lastId), Filed(r, zip', jar', rows, shared)
  PROVE  IInv'
<1>1. /\ mod' = mod /\ rows' = rows /\ built' = built /\ lastId' = lastId
      /\ shared' = shared /\ byHand' = byHand /\ unseen' = unseen /\ missed' = missed
  BY DEF store, history
<1>2. /\ \A v \in Workers : (req[v] \in Requests /\ Sound(req[v]))'
      /\ req' \in [Workers -> Requests]
      /\ \A id \in Ids : rows'[id] # None => id <= lastId'
      /\ \A v \in Workers : Named(req[v], rows, lastId)'
      /\ Exclusive' /\ AllFiled'
  <2>1. lastId' \in 0..MaxRows /\ lastId <= lastId'
    BY <1>1 DEF IInv, Shapes
  <2>2. Follows(rows, rows', lastId)
    BY <1>1 DEF Follows
  <2>3. Held(r) \cap Others(w) \subseteq shared'
    BY <1>1, OwnFiles
  <2>4. Named(r, rows', lastId') /\ Filed(r, zip', jar', rows', shared')
    BY <1>1
  <2>5. QED
    BY <1>1, <2>1, <2>2, <2>3, <2>4, Goes DEF Written
<1>3. TypeOK'
  BY <1>1 DEF IInv, TypeOK, Exists
<1>4. Shapes' /\ Given'
  BY <1>1, <1>2 DEF IInv, Shapes, Given, Exists
<1>5. ASSUME NEW id \in Ids, rows[id] # None, rows[id].ver \notin shared
      PROVE  /\ zip'[rows[id].ver] = zip[rows[id].ver]
             /\ jar[rows[id].ver] # None => jar'[rows[id].ver] = jar[rows[id].ver]
  <2>1. rows[id].ver \in Versions
    BY <1>5, Typed DEF Row
  <2>2. QED
    BY <1>5, <2>1 DEF Written
<1>6. Files'
  <2>1. ASSUME NEW v \in Versions \ shared
        PROVE  jar'[v] # None => zip'[v] # None /\ jar'[v] = JarOf[zip'[v]]
    <3>1. CASE v \in Held(req[w])
      BY <3>1 DEF Written
    <3>2. CASE v \notin Held(req[w])
      BY <3>2 DEF IInv, Files, Written
    <3>3. QED
      BY <3>1, <3>2
  <2>2. ASSUME NEW h \in hashes, h.md5 # None, rows[h.id] # None, rows[h.id].ver \notin shared
        PROVE  zip'[rows[h.id].ver] = h.md5
    <3>1. h.id \in Ids
      BY DEF IInv, Shapes, Hashings
    <3>2. QED
      BY <1>5, <2>2, <3>1 DEF IInv, Files, Exists
  <2>3. QED
    BY <1>1, <2>1, <2>2 DEF Files, Exists
<1>7. FilesBehindRows'
  <2>. SUFFICES ASSUME NEW id \in Ids, rows[id] # None, rows[id].ver \notin shared
                PROVE  /\ rows[id].md5 # None /\ <<id, "md5">> \notin byHand
                            => zip'[rows[id].ver] = rows[id].md5
                       /\ rows[id].jarmd5 # None /\ <<id, "jarmd5">> \notin byHand
                            => jar'[rows[id].ver] = rows[id].jarmd5
    BY <1>1 DEF FilesBehindRows, Exists
  <2>1. /\ rows[id].md5 # None /\ <<id, "md5">> \notin byHand
             => zip[rows[id].ver] = rows[id].md5
        /\ rows[id].jarmd5 # None /\ <<id, "jarmd5">> \notin byHand
             => jar[rows[id].ver] = rows[id].jarmd5
    BY DEF IInv, FilesBehindRows, Exists
  <2>2. QED
    BY <1>5, <2>1
<1>8. OverrideMatches'
  BY <1>1 DEF IInv, OverrideMatches, Exists
<1>9. QED
  BY <1>2, <1>3, <1>4, <1>6, <1>7, <1>8 DEF IInv

\* What an upload knows of its files, when its version is not shared.
LEMMA Uploads ==
  ASSUME IInv, NEW w \in Workers, req[w].pc \in Uploading
  PROVE  /\ Held(req[w]) = {req[w].ver} /\ req[w].ver \in Versions
         /\ req[w].jar # None => req[w].jar = JarOf[req[w].zip]
         /\ req[w].ver \notin shared =>
              /\ req[w].pc = "zip" => zip[req[w].ver] = None /\ jar[req[w].ver] = None
              /\ req[w].pc # "zip" => zip[req[w].ver] = req[w].zip
              /\ req[w].pc \in {"insert", "mark", "undo", "unlink"}
                   => jar[req[w].ver] = req[w].jar
              /\ \A id \in Ids : rows[id] # None /\ rows[id].ver = req[w].ver
                   => req[w].pc \in {"mark", "undo"} /\ id = req[w].id
<1>1. /\ Filed(req[w], zip, jar, rows, shared) /\ Sound(req[w]) /\ req[w] \in Requests
      /\ req[w].ver \in Versions
  BY Holding DEF IInv, AllFiled
<1>2. \A v \in Versions \ shared : jar[v] # None => zip[v] # None
  BY DEF IInv, Files
<1>3. QED
  BY <1>1, <1>2, HeldVersions DEF Filed, Sound

\* An upload goes on with its files.
LEMMA Onwards ==
  ASSUME IInv, NEW w \in Workers, req[w].pc \in Uploading, NEW pc \in Uploading,
         NEW r, r = [req[w] EXCEPT !.pc = pc],
         pc = "jar" => req[w].jar # None, pc \in {"mark", "undo"} => req[w].id \in Ids
  PROVE  /\ r \in Requests /\ Sound(r) /\ Held(r) = Held(req[w])
         /\ r.pc = pc /\ r.ver = req[w].ver /\ r.zip = req[w].zip /\ r.jar = req[w].jar
         /\ r.id = req[w].id
<1>1. req[w] \in Requests /\ Sound(req[w])
  BY Holding
<1>2. req[w] \in [pc : Uploading, ver : Versions, zip : Zips, jar : Jars \cup {None},
                  id : Ids \cup {None}, marked : BOOLEAN]
  BY <1>1 DEF Requests, Uploading, Storing
<1>3. /\ r \in [pc : Uploading, ver : Versions, zip : Zips, jar : Jars \cup {None},
                id : Ids \cup {None}, marked : BOOLEAN]
      /\ r.pc = pc /\ r.ver = req[w].ver /\ r.zip = req[w].zip /\ r.jar = req[w].jar
      /\ r.id = req[w].id
  BY <1>2
<1>4. r \in Requests
  BY <1>3 DEF Requests
<1>5. Sound(r)
  BY <1>1, <1>3 DEF Sound, Uploading, Storing
<1>6. QED
  BY <1>1, <1>3, <1>4, <1>5, HeldVersions

LEMMA PlaceZipInv == ASSUME IInv, NEW w \in Workers, PlaceZip(w) PROVE IInv'
<1>1. /\ req[w].pc = "zip" /\ req[w].pc \in Uploading
      /\ zip' = [zip EXCEPT ![req[w].ver] = req[w].zip] /\ jar' = jar
      /\ store' = store /\ hashes' = hashes /\ history' = history
  BY DEF PlaceZip, Uploading
<1>2. PICK pc \in {"insert", "jar"} : pc = IF req[w].jar = None THEN "insert" ELSE "jar"
  OBVIOUS
<1>3. PICK r : r = [req[w] EXCEPT !.pc = pc]
  OBVIOUS
<1>4. Request(w, r)
  BY <1>2, <1>3 DEF PlaceZip
<1>5. /\ r \in Requests /\ Sound(r) /\ Held(r) = Held(req[w])
      /\ r.pc = pc /\ r.ver = req[w].ver /\ r.zip = req[w].zip /\ r.jar = req[w].jar
  <2>1. pc \in Uploading /\ (pc = "jar" => req[w].jar # None)
    BY <1>2 DEF Uploading
  <2>2. QED
    BY <1>1, <1>2, <1>3, <2>1, Onwards
<1>6. PICK x \in Versions, z \in Zips : x = req[w].ver /\ z = req[w].zip
  BY <1>1, Holding
<1>7. /\ Held(req[w]) = {x}
      /\ x \notin shared => /\ jar[x] = None
                            /\ \A id \in Ids : rows[id] # None => rows[id].ver # x
  BY <1>1, <1>6, Uploads
<1>8. /\ zip' \in [Versions -> Zips \cup {None}] /\ jar' \in [Versions -> Jars \cup {None}]
      /\ zip'[x] = z /\ \A v \in Versions : v # x => zip'[v] = zip[v]
  BY <1>1, <1>6, Typed
<1>9. Named(r, rows, lastId)
  BY <1>2, <1>5 DEF Named, Storing
<1>10. Filed(r, zip', jar', rows, shared)
  BY <1>1, <1>2, <1>5, <1>6, <1>7, <1>8 DEF Filed, Uploading, Storing
<1>11. Written(req[w], zip, zip', jar, jar', rows, shared)
  BY <1>1, <1>7, <1>8 DEF Written
<1>12. QED
  BY <1>1, <1>4, <1>5, <1>8, <1>9, <1>10, <1>11, Writes

LEMMA PlaceJarInv == ASSUME IInv, NEW w \in Workers, PlaceJar(w) PROVE IInv'
<1>1. /\ req[w].pc = "jar" /\ req[w].pc \in Uploading
      /\ jar' = [jar EXCEPT ![req[w].ver] = req[w].jar] /\ zip' = zip
      /\ store' = store /\ hashes' = hashes /\ history' = history
  BY DEF PlaceJar, Uploading
<1>2. PICK r : r = [req[w] EXCEPT !.pc = "insert"]
  OBVIOUS
<1>3. Request(w, r)
  BY <1>2 DEF PlaceJar
<1>4. /\ r \in Requests /\ Sound(r) /\ Held(r) = Held(req[w])
      /\ r.pc = "insert" /\ r.ver = req[w].ver /\ r.zip = req[w].zip /\ r.jar = req[w].jar
  <2>1. "insert" \in Uploading
    BY DEF Uploading
  <2>2. QED
    BY <1>1, <1>2, <2>1, Onwards
<1>5. PICK x \in Versions, z \in Zips, j \in Jars \cup {None} :
        x = req[w].ver /\ z = req[w].zip /\ j = req[w].jar
  BY <1>1, Holding
<1>6. /\ Held(req[w]) = {x} /\ (j # None => j = JarOf[z])
      /\ x \notin shared => /\ zip[x] = z
                            /\ \A id \in Ids : rows[id] # None => rows[id].ver # x
  BY <1>1, <1>5, Uploads
<1>7. /\ zip' \in [Versions -> Zips \cup {None}] /\ jar' \in [Versions -> Jars \cup {None}]
      /\ jar'[x] = j /\ \A v \in Versions : v # x => jar'[v] = jar[v]
  BY <1>1, <1>5, Typed
<1>8. Named(r, rows, lastId)
  BY <1>4 DEF Named, Storing
<1>9. Filed(r, zip', jar', rows, shared)
  BY <1>1, <1>4, <1>5, <1>6, <1>7 DEF Filed, Uploading, Storing
<1>10. z # None
  OBVIOUS
<1>11. Written(req[w], zip, zip', jar, jar', rows, shared)
  BY <1>1, <1>6, <1>7, <1>10 DEF Written
<1>12. QED
  BY <1>1, <1>3, <1>4, <1>7, <1>8, <1>9, <1>11, Writes

LEMMA UnlinkInv == ASSUME IInv, NEW w \in Workers, Unlink(w) PROVE IInv'
<1>1. /\ req[w].pc = "unlink" /\ req[w].pc \in Uploading
      /\ zip' = [zip EXCEPT ![req[w].ver] = None]
      /\ jar' = IF req[w].jar = None THEN jar ELSE [jar EXCEPT ![req[w].ver] = None]
      /\ store' = store /\ hashes' = hashes /\ history' = history
      /\ Request(w, Idle)
  BY DEF Unlink, Ends, Uploading
<1>2. PICK x \in Versions, j \in {req[w].jar} : x = req[w].ver /\ j = req[w].jar
  BY <1>1, Holding
<1>3. /\ Held(req[w]) = {x}
      /\ x \notin shared => /\ jar[x] = j
                            /\ \A id \in Ids : rows[id] # None => rows[id].ver # x
  BY <1>1, <1>2, Uploads
<1>4. /\ zip' \in [Versions -> Zips \cup {None}] /\ jar' \in [Versions -> Jars \cup {None}]
      /\ \A v \in Versions : v # x => zip'[v] = zip[v] /\ jar'[v] = jar[v]
      /\ x \notin shared => jar'[x] = None
  BY <1>1, <1>2, <1>3, Typed
<1>5. Free(Idle)
  BY IdleRequest DEF Free, Uploading, Storing
<1>6. /\ Held(Idle) = {} /\ Named(Idle, rows, lastId)
      /\ Filed(Idle, zip', jar', rows, shared)
  BY <1>5, FreeRequest
<1>7. Written(req[w], zip, zip', jar, jar', rows, shared)
  BY <1>3, <1>4 DEF Written
<1>8. QED
  BY <1>1, <1>4, <1>6, <1>7, IdleRequest, Writes

LEMMA UploadFailsInv == ASSUME IInv, NEW w \in Workers, UploadFails(w) PROVE IInv'
<1>1. /\ req[w].pc \in {"insert", "mark"} /\ req[w].pc \in Uploading
      /\ store' = store /\ files' = files /\ hashes' = hashes /\ history' = history
  BY DEF UploadFails, Uploading
<1>2. PICK pc \in {"undo", "unlink"} : pc = IF req[w].pc = "mark" THEN "undo" ELSE "unlink"
  OBVIOUS
<1>3. PICK r : r = [req[w] EXCEPT !.pc = pc]
  OBVIOUS
<1>4. Request(w, r)
  <2>1. [req[w] EXCEPT !.pc = IF @ = "mark" THEN "undo" ELSE "unlink"] = r
    BY <1>2, <1>3
  <2>2. QED
    BY <2>1 DEF UploadFails
<1>5. /\ r \in Requests /\ Sound(r) /\ Held(r) = Held(req[w])
      /\ r.pc = pc /\ r.ver = req[w].ver /\ r.zip = req[w].zip /\ r.jar = req[w].jar
      /\ r.id = req[w].id
  <2>1. pc \in Uploading /\ (pc \in {"mark", "undo"} => req[w].id \in Ids) /\ pc # "jar"
    BY <1>1, <1>2, Holding DEF Uploading
  <2>2. QED
    BY <1>1, <1>3, <2>1, Onwards
<1>6. Named(r, rows, lastId)
  <2>1. Named(req[w], rows, lastId)
    BY DEF IInv, Given
  <2>2. QED
    BY <1>1, <1>2, <1>5, <2>1 DEF Named, Storing
<1>7. Filed(r, zip, jar, rows, shared)
  BY <1>1, <1>2, <1>5, Uploads DEF Filed, Uploading, Storing
<1>8. /\ mod' = mod /\ rows' = rows /\ built' = built /\ lastId' = lastId
      /\ shared' = shared /\ byHand' = byHand /\ unseen' = unseen /\ missed' = missed
  BY <1>1 DEF store, history
<1>9. Held(r) \cap Others(w) \subseteq shared'
  BY <1>5, <1>8, OwnFiles
<1>10. QED
  BY <1>1, <1>4, <1>5, <1>6, <1>7, <1>8, <1>9, Typed, Takes

LEMMA UndoInv == ASSUME IInv, NEW w \in Workers, Undo(w) PROVE IInv'
<1>1. /\ req[w].pc = "undo" /\ req[w].pc \in Uploading /\ req[w].id \in Ids
      /\ rows' = Without({req[w].id}) /\ built' = built \ {req[w].id}
      /\ mod' = mod /\ files' = files /\ hashes' = hashes /\ lastId' = lastId
      /\ shared' = shared /\ byHand' = byHand /\ unseen' = unseen /\ missed' = missed
  BY Holding DEF Undo, Uploading, history
<1>2. /\ rows' \in [Ids -> Row \cup {None}] /\ Shrunk(rows, rows')
      /\ \A id \in Ids : id # req[w].id => rows'[id] = rows[id]
      /\ rows'[req[w].id] = None
  <2>1. PICK ids \in SUBSET Ids : ids = {req[w].id}
    BY <1>1
  <2>2. rows' = Without(ids)
    BY <1>1, <2>1
  <2>3. QED
    BY <2>1, <2>2, WithoutRows
<1>3. PICK r : r = [req[w] EXCEPT !.pc = "unlink"]
  OBVIOUS
<1>4. Request(w, r)
  BY <1>3 DEF Undo
<1>5. /\ r \in Requests /\ Sound(r) /\ Held(r) = Held(req[w])
      /\ r.pc = "unlink" /\ r.ver = req[w].ver /\ r.zip = req[w].zip /\ r.jar = req[w].jar
  <2>1. "unlink" \in Uploading
    BY DEF Uploading
  <2>2. QED
    BY <1>1, <1>3, <2>1, Onwards
<1>6. Named(r, rows', lastId)
  BY <1>5 DEF Named, Storing
<1>7. Filed(r, zip, jar, rows', shared')
  <2>1. ASSUME r.ver \notin shared, NEW id \in Ids, rows'[id] # None, rows'[id].ver = r.ver
        PROVE  FALSE
    <3>1. id # req[w].id /\ rows[id] # None /\ rows[id].ver = req[w].ver
      BY <1>2, <1>5, <2>1
    <3>2. QED
      BY <1>1, <1>5, <2>1, <3>1, Uploads
  <2>2. QED
    BY <1>1, <1>5, <2>1, Uploads DEF Filed, Uploading, Storing
<1>8. Held(r) \cap Others(w) \subseteq shared'
  BY <1>1, <1>5, OwnFiles
<1>9. built' \subseteq Ids /\ \A id \in built' : id \notin missed' => rows'[id] # None
  BY <1>1, <1>2, Typed
<1>10. QED
  BY <1>1, <1>2, <1>4, <1>5, <1>6, <1>7, <1>8, <1>9, Typed, Takes

-----------------------------------------------------------------------------
(* New rows                                                                *)

\* The new row says what its files are, or is entered by hand, and serves the JAR
\* that it names.
Truthful(id, row, zs, js, sh, hand) ==
  /\ row.override # None => row.override = row.jarmd5
  /\ row.ver \notin sh =>
       /\ row.md5 # None /\ <<id, "md5">> \notin hand => zs[row.ver] = row.md5
       /\ row.jarmd5 # None /\ <<id, "jarmd5">> \notin hand => js[row.ver] = row.jarmd5

\* A request adds a row, and keeps its files or is done.
LEMMA Adds ==
  ASSUME IInv, NEW w \in Workers, NEW r \in Requests, Sound(r), Request(w, r),
         NEW row \in Row, Inserts(w, row),
         files' = files, built' = built, unseen' = unseen, missed' = missed,
         byHand \subseteq byHand',
         \A h \in hashes' : h \in hashes \/ h = [id |-> lastId + 1, md5 |-> None],
         Truthful(lastId + 1, row, zip, jar, shared', byHand'),
         Held(r) \subseteq Held(req[w]),
         Named(r, rows', lastId'), Filed(r, zip, jar, rows', shared')
  PROVE  IInv'
<1>1. /\ zip' = zip /\ jar' = jar
      /\ rows' = [rows EXCEPT ![lastId + 1] = row] /\ lastId' = lastId + 1
      /\ shared' = shared \cup ({row.ver} \cap (Others(w) \cup Rivals({})))
      /\ mod' = Promoted(row.jarmd5)
  BY DEF files, Inserts
<1>2. PICK new \in Ids : new = lastId + 1 /\ ~ (new <= lastId) /\ lastId' \in 0..MaxRows
                         /\ lastId <= lastId'
  <2>1. lastId \in Nat /\ lastId < MaxRows /\ MaxRows \in Nat
    BY Typed DEF Inserts
  <2>2. QED
    BY <1>1, <2>1 DEF Ids
<1>3. /\ rows'[new] = row /\ \A id \in Ids : id # new => rows'[id] = rows[id]
      /\ rows' \in [Ids -> Row \cup {None}] /\ rows[new] = None
      /\ row # None
  <2>1. rows[new] = None
    BY <1>2 DEF IInv, Given, Exists
  <2>2. QED
    BY <1>1, <1>2, <2>1, Typed
<1>4. Follows(rows, rows', lastId)
  BY <1>2, <1>3 DEF Follows
<1>5. /\ \A v \in Workers : (req[v] \in Requests /\ Sound(req[v]))'
      /\ req' \in [Workers -> Requests]
      /\ \A id \in Ids : rows'[id] # None => id <= lastId'
      /\ \A v \in Workers : Named(req[v], rows, lastId)'
      /\ Exclusive' /\ AllFiled'
  <2>1. \A id \in Ids : rows'[id] # None => /\ rows[id] # None \/ id <= lastId'
                                            /\ \/ rows[id] # None
                                               \/ rows'[id].ver \notin Others(w)
                                               \/ rows'[id].ver \in shared'
    <3>. SUFFICES ASSUME NEW id \in Ids, rows'[id] # None, rows[id] = None
                  PROVE  /\ id <= lastId'
                         /\ rows'[id].ver \notin Others(w) \/ rows'[id].ver \in shared'
      OBVIOUS
    <3>1. id = new
      BY <1>3
    <3>2. new <= lastId'
      BY <1>1, <1>2
    <3>3. QED
      BY <1>1, <1>3, <3>1, <3>2
  <2>2. Held(r) \cap Others(w) \subseteq shared'
    BY <1>1, OwnFiles
  <2>3. Filed(r, zip', jar', rows', shared') /\ shared \subseteq shared'
    BY <1>1
  <2>4. QED
    BY <1>1, <1>2, <1>4, <2>1, <2>2, <2>3, Goes
<1>6. TypeOK'
  <2>1. mod' \in {"NONE", "MOD", None}
    BY <1>1, Typed DEF Promoted
  <2>2. \A id \in built' \ missed' : rows'[id] # None
    BY <1>3, Typed
  <2>3. QED
    BY <1>1, <1>3, <2>1, <2>2, Typed DEF TypeOK, Exists
<1>7. Shapes' /\ Given'
  <2>1. ASSUME NEW h \in hashes' PROVE h \in Hashings /\ h.id <= lastId'
    <3>1. CASE h \in hashes
      <4>1. h \in Hashings /\ h.id <= lastId
        BY <3>1 DEF IInv, Shapes, Given
      <4>2. h.id \in Nat
        BY <4>1 DEF Hashings, Ids
      <4>3. QED
        BY <1>1, <4>1, <4>2, Typed
    <3>2. CASE h = [id |-> lastId + 1, md5 |-> None]
      BY <1>1, <1>2, <3>2 DEF Hashings
    <3>3. QED
      BY <3>1, <3>2
  <2>2. QED
    BY <1>2, <1>5, <2>1, Typed DEF Shapes, Given, Exists
<1>8. Files'
  <2>1. ASSUME NEW h \in hashes', h.md5 # None, rows'[h.id] # None,
               rows'[h.id].ver \notin shared'
        PROVE  zip[rows'[h.id].ver] = h.md5
    <3>1. h \in hashes /\ h.id \in Ids /\ h.id <= lastId
      BY <2>1 DEF IInv, Shapes, Given, Hashings
    <3>2. rows[h.id] # None /\ rows'[h.id].ver = rows[h.id].ver
      BY <1>4, <2>1, <3>1 DEF Follows
    <3>3. QED
      BY <1>1, <2>1, <3>1, <3>2 DEF IInv, Files, Exists
  <2>2. QED
    BY <1>1, <2>1 DEF IInv, Files, Exists
<1>9. FilesBehindRows'
  <2>. SUFFICES ASSUME NEW id \in Ids, rows'[id] # None, rows'[id].ver \notin shared'
                PROVE  /\ rows'[id].md5 # None /\ <<id, "md5">> \notin byHand'
                            => zip[rows'[id].ver] = rows'[id].md5
                       /\ rows'[id].jarmd5 # None /\ <<id, "jarmd5">> \notin byHand'
                            => jar[rows'[id].ver] = rows'[id].jarmd5
    BY <1>1 DEF FilesBehindRows, Exists
  <2>1. CASE id = new
    BY <1>2, <1>3, <2>1 DEF Truthful
  <2>2. CASE id # new
    <3>1. rows'[id] = rows[id] /\ rows[id].ver \notin shared
      BY <1>1, <1>3, <2>2
    <3>2. QED
      BY <3>1 DEF IInv, FilesBehindRows, Exists
  <2>3. QED
    BY <2>1, <2>2
<1>10. OverrideMatches'
  <2>. SUFFICES ASSUME NEW id \in Ids, rows'[id] # None, id \notin unseen,
                       rows'[id].override # None
                PROVE  rows'[id].override = rows'[id].jarmd5
    BY DEF OverrideMatches, Exists
  <2>1. CASE id = new
    BY <1>3, <2>1 DEF Truthful
  <2>2. CASE id # new
    BY <1>3, <2>2 DEF IInv, OverrideMatches, Exists
  <2>3. QED
    BY <2>1, <2>2
<1>11. QED
  BY <1>5, <1>6, <1>7, <1>8, <1>9, <1>10 DEF IInv

LEMMA NewRowFields ==
  ASSUME NEW v \in Versions, NEW z \in Zips \cup {None}, NEW j \in Jars \cup {None},
         NEW url \in Jars \cup {None}, NEW row, row = NewRow(v, z, j, url)
  PROVE  /\ row \in Row
         /\ row.ver = v /\ row.md5 = z /\ row.jarmd5 = j /\ row.override = url
  BY DEF NewRow, Row

LEMMA InsertInv == ASSUME IInv, NEW w \in Workers, Insert(w) PROVE IInv'
<1>1. /\ req[w].pc = "insert" /\ req[w].pc \in Uploading
      /\ files' = files /\ built' = built /\ unseen' = unseen /\ missed' = missed
      /\ byHand' = byHand /\ hashes' = hashes
  BY DEF Insert, Uploading
<1>2. PICK v \in Versions, z \in Zips, j \in Jars \cup {None} :
        v = req[w].ver /\ z = req[w].zip /\ j = req[w].jar
  BY <1>1, Holding
<1>3. PICK row : row = NewRow(v, z, j, None)
  OBVIOUS
<1>4. row \in Row /\ row.ver = v /\ row.md5 = z /\ row.jarmd5 = j /\ row.override = None
  BY <1>3, NewRowFields
<1>5. Inserts(w, row)
  BY <1>2, <1>3 DEF Insert
<1>6. /\ Held(req[w]) = {v}
      /\ v \notin shared => /\ zip[v] = z /\ jar[v] = j
                            /\ \A id \in Ids : rows[id] # None => rows[id].ver # v
  BY <1>1, <1>2, Uploads
<1>7. /\ shared \subseteq shared' /\ lastId' = lastId + 1 /\ lastId \in Nat
      /\ lastId < MaxRows /\ rows' = [rows EXCEPT ![lastId + 1] = row]
      /\ Ids = 1..MaxRows /\ MaxRows \in Nat
  BY <1>5, Typed DEF Inserts, Ids
<1>8. Truthful(lastId + 1, row, zip, jar, shared', byHand')
  BY <1>4, <1>6, <1>7 DEF Truthful
<1>9. CASE ~ req[w].marked
  <2>1. Request(w, Idle) /\ Free(Idle)
    BY <1>9, IdleRequest DEF Insert, Free, Uploading, Storing
  <2>2. /\ Held(Idle) = {} /\ Named(Idle, rows', lastId')
        /\ Filed(Idle, zip, jar, rows', shared')
    BY <2>1, FreeRequest
  <2>3. QED
    BY <1>1, <1>4, <1>5, <1>8, <2>1, <2>2, IdleRequest, Adds
<1>10. CASE req[w].marked
  <2>1. PICK new \in Ids : new = lastId + 1 /\ new <= lastId'
    BY <1>7
  <2>2. PICK r : r = [req[w] EXCEPT !.pc = "mark", !.id = new]
    OBVIOUS
  <2>3. Request(w, r)
    BY <1>10, <2>1, <2>2 DEF Insert
  <2>4. /\ r \in Requests
        /\ r.pc = "mark" /\ r.ver = v /\ r.zip = z /\ r.jar = j /\ r.id = new
    <3>1. req[w] \in [pc : Uploading, ver : Versions, zip : Zips, jar : Jars \cup {None},
                      id : Ids \cup {None}, marked : BOOLEAN]
      BY <1>1, Holding DEF Requests, Uploading, Storing
    <3>2. /\ r \in [pc : Uploading, ver : Versions, zip : Zips, jar : Jars \cup {None},
                    id : Ids \cup {None}, marked : BOOLEAN]
          /\ r.pc = "mark" /\ r.ver = v /\ r.zip = z /\ r.jar = j /\ r.id = new
      BY <1>2, <2>2, <3>1 DEF Uploading
    <3>3. QED
      BY <3>2 DEF Requests
  <2>5. Sound(r)
    BY <1>1, <1>2, <2>4, Uploads DEF Sound, Uploading, Storing
  <2>6. Held(r) = {v}
    BY <2>4 DEF Held, Uploading
  <2>7. Named(r, rows', lastId')
    BY <2>1, <2>4 DEF Named, Storing
  <2>8. rows' \in [Ids -> Row \cup {None}] /\ \A id \in Ids : id # new => rows'[id] = rows[id]
    BY <1>4, <1>7, <2>1, Typed
  <2>9. Filed(r, zip, jar, rows', shared')
    BY <1>6, <1>7, <2>4, <2>8 DEF Filed, Storing
  <2>10. QED
    BY <1>1, <1>4, <1>5, <1>6, <1>8, <2>3, <2>4, <2>5, <2>6, <2>7, <2>9, Adds
<1>11. QED
  BY <1>9, <1>10

\* An idle request stays what it is.
LEMMA StaysIdle ==
  ASSUME IInv, NEW w \in Workers, req[w].pc = "idle", req' = req
  PROVE  /\ req[w] \in Requests /\ Sound(req[w]) /\ Request(w, req[w])
         /\ Free(req[w]) /\ Held(req[w]) = {}
<1>1. req[w] \in Requests /\ Sound(req[w])
  BY Holding
<1>2. Request(w, req[w])
  BY DEF IInv, Shapes, Request
<1>3. Free(req[w]) /\ Held(req[w]) = {}
  BY DEF Free, Held, Uploading, Storing
<1>4. QED
  BY <1>1, <1>2, <1>3

LEMMA NewManualInv == ASSUME IInv, NEW w \in Workers, NewManual(w) PROVE IInv'
<1>1. /\ req[w].pc = "idle" /\ req' = req
      /\ files' = files /\ built' = built /\ unseen' = unseen /\ missed' = missed
  BY DEF NewManual
<1>2. PICK v \in Versions, z \in Zips \cup {None} :
        /\ Inserts(w, NewRow(v, z, None, None))
        /\ IF z = None
             THEN /\ hashes' = hashes \cup {[id |-> lastId + 1, md5 |-> None]}
                  /\ byHand' = byHand
             ELSE /\ byHand' = byHand \cup {<<lastId + 1, "md5">>}
                  /\ hashes' = hashes
  BY DEF NewManual
<1>3. PICK row : row = NewRow(v, z, None, None)
  OBVIOUS
<1>4. /\ row \in Row /\ row.md5 = z /\ row.jarmd5 = None /\ row.override = None
      /\ Inserts(w, row)
  BY <1>2, <1>3, NewRowFields
<1>5. /\ byHand \subseteq byHand'
      /\ \A h \in hashes' : h \in hashes \/ h = [id |-> lastId + 1, md5 |-> None]
  BY <1>2
<1>6. Truthful(lastId + 1, row, zip, jar, shared', byHand')
  BY <1>2, <1>4 DEF Truthful
<1>7. /\ req[w] \in Requests /\ Sound(req[w]) /\ Request(w, req[w])
      /\ Free(req[w])
  BY <1>1, StaysIdle
<1>8. /\ Held(req[w]) = {} /\ Named(req[w], rows', lastId')
      /\ Filed(req[w], zip, jar, rows', shared')
  BY <1>7, FreeRequest
<1>9. QED
  BY <1>1, <1>4, <1>5, <1>6, <1>7, <1>8, Adds

LEMMA CreateVersionInv == ASSUME IInv, NEW w \in Workers, CreateVersion(w) PROVE IInv'
<1>1. /\ req[w].pc = "idle" /\ req' = req /\ hashes' = hashes
      /\ files' = files /\ built' = built /\ unseen' = unseen /\ missed' = missed
      /\ byHand' = byHand \cup {<<lastId + 1, "md5">>, <<lastId + 1, "jarmd5">>}
  BY DEF CreateVersion
<1>2. PICK v \in Versions, z \in Zips, j \in Jars \cup {None} :
        \E url \in {None} \cup {u \in Jars : Verified(u, j)} :
          Inserts(w, NewRow(v, z, j, url))
  BY DEF CreateVersion
<1>url. PICK url \in {None} \cup {u \in Jars : Verified(u, j)} :
          Inserts(w, NewRow(v, z, j, url))
  BY <1>2
<1>3. PICK row : row = NewRow(v, z, j, url)
  OBVIOUS
<1>4. url \in Jars \cup {None} /\ (url # None => url = j)
  BY <1>url DEF Verified
<1>5. /\ row \in Row /\ row.jarmd5 = j /\ row.override = url /\ Inserts(w, row)
  BY <1>url, <1>3, <1>4, NewRowFields
<1>6. Truthful(lastId + 1, row, zip, jar, shared', byHand')
  BY <1>1, <1>4, <1>5 DEF Truthful
<1>7. /\ req[w] \in Requests /\ Sound(req[w]) /\ Request(w, req[w])
      /\ Free(req[w])
  BY <1>1, StaysIdle
<1>8. /\ Held(req[w]) = {} /\ Named(req[w], rows', lastId')
      /\ Filed(req[w], zip, jar, rows', shared')
  BY <1>7, FreeRequest
<1>9. byHand \subseteq byHand' /\ \A h \in hashes' : h \in hashes
  BY <1>1
<1>10. QED
  BY <1>1, <1>5, <1>6, <1>7, <1>8, <1>9, Adds

-----------------------------------------------------------------------------
(* Raw JARs                                                                *)

\* A JAR that was prepared is the one that the row names, is there already, or
\* comes from the ZIP that is there.
LEMMA PreparedJar ==
  ASSUME IInv, NEW id \in Ids, rows[id] # None, NEW j \in Prepared(id)
  PROVE  /\ j \in Jars
         /\ rows[id].jarmd5 # None => j = rows[id].jarmd5
         /\ rows[id].jarmd5 # None /\ jar[rows[id].ver] # None => j = jar[rows[id].ver]
         /\ ~ (rows[id].jarmd5 # None /\ jar[rows[id].ver] # None) =>
              zip[rows[id].ver] # None /\ j = JarOf[zip[rows[id].ver]]
<1>1. rows[id] \in Row
  BY Typed
<1>2. PICK row \in Row : row = rows[id]
  BY <1>1
<1>3. CASE row.jarmd5 # None /\ jar[row.ver] # None
  <2>1. j \in {row.jarmd5} \cap {jar[row.ver]}
    BY <1>2, <1>3 DEF Prepared
  <2>2. row.jarmd5 \in Jars
    BY <1>3 DEF Row
  <2>3. QED
    BY <1>2, <1>3, <2>1, <2>2
<1>4. CASE ~ (row.jarmd5 # None /\ jar[row.ver] # None)
  <2>1. j \in Extracted(id) /\ row.jarmd5 \in {None, j}
    BY <1>2, <1>4 DEF Prepared
  <2>2. row.md5 # None /\ zip[row.ver] = row.md5 /\ j \in {JarOf[row.md5]} \ {None}
    BY <1>2, <2>1 DEF Extracted, Eligible
  <2>3. row.md5 \in Zips
    BY <2>2 DEF Row
  <2>4. QED
    BY <1>2, <1>4, <2>1, <2>2, <2>3
<1>5. QED
  BY <1>3, <1>4

LEMMA CreateJarInv == ASSUME IInv, NEW w \in Workers, CreateJar(w) PROVE IInv'
<1>1. PICK id \in Ids : rows[id] # None /\ \E j \in Prepared(id) :
        /\ Request(w, [pc |-> IF rows[id].jarmd5 # None /\ jar[rows[id].ver] # None
                                THEN "record" ELSE "store",
                       scan |-> FALSE, items |-> {Item(id, j)},
                       seen |-> IF id \in unseen THEN {}
                                ELSE {<<id, rows[id].override>>}])
        /\ shared' = shared \cup ({rows[id].ver} \cap (Others(w) \cup Rivals({id})))
  BY DEF CreateJar, Exists
<1>2. PICK j \in Prepared(id), pc \in Storing,
           seen \in {{}, {<<id, rows[id].override>>}} :
        /\ pc = IF rows[id].jarmd5 # None /\ jar[rows[id].ver] # None
                  THEN "record" ELSE "store"
        /\ seen = IF id \in unseen THEN {} ELSE {<<id, rows[id].override>>}
        /\ Request(w, [pc |-> pc, scan |-> FALSE, items |-> {Item(id, j)}, seen |-> seen])
        /\ shared' = shared \cup ({rows[id].ver} \cap (Others(w) \cup Rivals({id})))
  BY <1>1 DEF Storing
<1>3. PICK x \in Versions : x = rows[id].ver
  BY <1>1, Typed DEF Row
<1>4. /\ j \in Jars
      /\ pc = "record" => j = jar[x]
      /\ pc = "store" => zip[x] # None /\ j = JarOf[zip[x]]
  BY <1>1, <1>2, <1>3, PreparedJar
<1>5. PICK items : items = {[id |-> id, ver |-> x, jar |-> j]}
  OBVIOUS
<1>6. PICK r : r = [pc |-> pc, scan |-> FALSE, items |-> items, seen |-> seen]
  OBVIOUS
<1>7. Request(w, r)
  BY <1>2, <1>3, <1>5, <1>6 DEF Item
<1>8. /\ items \subseteq Items
      /\ \A rec \in items : rec.id = id /\ rec.ver = x /\ rec.jar = j
  BY <1>4, <1>5 DEF Items
<1>9. seen \in SUBSET (Ids \X (Jars \cup {None}))
  BY <1>1, <1>2, Typed DEF Row
<1>10. r \in Requests /\ r.pc \in Storing /\ r.pc \notin Uploading
  BY <1>6, <1>8, <1>9 DEF Requests, Storing, Uploading
<1>11. Sound(r)
  <2>1. ASSUME NEW url \in Jars, <<id, url>> \in seen PROVE url = j
    <3>1. id \notin unseen /\ url = rows[id].override /\ url # None
      BY <1>2, <2>1
    <3>2. url = rows[id].jarmd5
      BY <1>1, <3>1 DEF IInv, OverrideMatches, Exists
    <3>3. QED
      BY <1>1, <3>1, <3>2, PreparedJar
  <2>2. r.items = items /\ r.seen = seen
    BY <1>6
  <2>3. QED
    BY <1>8, <1>10, <2>1, <2>2 DEF Sound, Storing, Uploading
<1>12. Held(r) = {x}
  <2>1. Held(r) = {rec.ver : rec \in items}
    BY <1>6, <1>10 DEF Held
  <2>2. QED
    BY <1>5, <1>8, <2>1
<1>13. Named(r, rows, lastId)
  <2>1. id <= lastId
    BY <1>1 DEF IInv, Given, Exists
  <2>2. QED
    BY <1>3, <1>6, <1>8, <1>10, <2>1 DEF Named, Storing, Uploading
<1>14. Filed(r, zip, jar, rows, shared')
  BY <1>4, <1>6, <1>8, <1>10 DEF Filed
<1>15. /\ rows' = rows /\ mod' = mod /\ built' = built /\ missed' = missed
       /\ files' = files /\ hashes' = hashes /\ lastId' = lastId
       /\ byHand' = byHand /\ unseen' = unseen
  BY DEF CreateJar, store
<1>16. shared \subseteq shared' /\ Held(r) \cap Others(w) \subseteq shared'
  BY <1>2, <1>3, <1>12
<1>17. QED
  BY <1>7, <1>10, <1>11, <1>13, <1>14, <1>15, <1>16, Typed, Takes

LEMMA ScanInv == ASSUME IInv, NEW w \in Workers, Scan(w) PROVE IInv'
<1>1. PICK ids, vers :
        /\ ids = {id \in Ids : rows[id] # None} /\ vers = {rows[id].ver : id \in ids}
        /\ \A id \in ids : Extracted(id) # {}
        /\ Request(w, [pc |-> "store", scan |-> TRUE, seen |-> {},
                       items |-> {Item(id, JarOf[rows[id].md5]) : id \in ids}])
        /\ shared \subseteq shared' /\ vers \cap Others(w) \subseteq shared'
  BY DEF Scan, Exists
<1>2. PICK items : items = {Item(id, JarOf[rows[id].md5]) : id \in ids}
  OBVIOUS
<1>3. ASSUME NEW id \in ids
      PROVE  /\ rows[id].ver \in Versions /\ rows[id].md5 \in Zips
             /\ JarOf[rows[id].md5] \in Jars /\ zip[rows[id].ver] = rows[id].md5
             /\ id \in Ids /\ id <= lastId /\ rows[id] # None
  <2>1. id \in Ids /\ rows[id] # None /\ rows[id] \in Row /\ id <= lastId
    BY <1>1, Typed DEF IInv, Given, Exists
  <2>2. rows[id].md5 # None /\ zip[rows[id].ver] = rows[id].md5 /\ JarOf[rows[id].md5] # None
    BY <1>1 DEF Extracted, Eligible
  <2>3. QED
    BY <2>1, <2>2 DEF Row
<1>4. ASSUME NEW rec \in items
      PROVE  /\ rec \in Items /\ rec.ver \in vers
             /\ rec.id <= lastId /\ rows[rec.id].ver = rec.ver
             /\ zip[rec.ver] # None /\ rec.jar = JarOf[zip[rec.ver]]
  <2>1. PICK id \in ids : rec = Item(id, JarOf[rows[id].md5])
    BY <1>2
  <2>2. rec = [id |-> id, ver |-> rows[id].ver, jar |-> JarOf[rows[id].md5]]
    BY <2>1 DEF Item
  <2>3. QED
    BY <1>1, <1>3, <2>2 DEF Items
<1>5. PICK r : r = [pc |-> "store", scan |-> TRUE, seen |-> {}, items |-> items]
  OBVIOUS
<1>6. Request(w, r)
  BY <1>1, <1>2, <1>5
<1>7. /\ r \in Requests /\ r.pc = "store" /\ r.pc \in Storing /\ r.pc \notin Uploading
      /\ r.items = items /\ r.seen = {}
  <2>1. items \in SUBSET Items
    BY <1>4
  <2>2. QED
    BY <1>5, <2>1 DEF Requests, Storing, Uploading
<1>8. Sound(r)
  BY <1>7 DEF Sound, Storing, Uploading
<1>9. Held(r) \subseteq vers
  BY <1>4, <1>7 DEF Held
<1>10. Named(r, rows, lastId) /\ Filed(r, zip, jar, rows, shared')
  BY <1>4, <1>7 DEF Named, Filed, Uploading
<1>11. /\ rows' = rows /\ mod' = mod /\ built' = built /\ missed' = missed
       /\ files' = files /\ hashes' = hashes /\ lastId' = lastId
       /\ byHand' = byHand /\ unseen' = unseen
  BY DEF Scan, store
<1>12. Held(r) \cap Others(w) \subseteq shared'
  BY <1>1, <1>9
<1>13. QED
  BY <1>1, <1>6, <1>7, <1>8, <1>10, <1>11, <1>12, Typed, Takes

LEMMA StoreJarsInv == ASSUME IInv, NEW w \in Workers, StoreJars(w) PROVE IInv'
<1>. DEFINE Chosen(v) == CHOOSE rec \in req[w].items : rec.ver = v
<1>1. /\ req[w].pc = "store" /\ req[w].pc \in Storing
      /\ jar' = [v \in Versions |-> IF v \in Held(req[w]) THEN Chosen(v).jar ELSE jar[v]]
      /\ zip' = zip /\ store' = store /\ hashes' = hashes /\ history' = history
  BY HoldsHeld DEF StoreJars, Storing
<1>2. PICK items \in SUBSET Items : items = req[w].items
  BY <1>1, Holding
<1>3. Held(req[w]) = {rec.ver : rec \in items}
  BY <1>1, <1>2, HeldVersions, Holding
<1>4. ASSUME NEW v \in Held(req[w])
      PROVE  Chosen(v) \in items /\ Chosen(v).ver = v /\ Chosen(v).jar \in Jars
  <2>1. \E rec \in items : rec.ver = v
    BY <1>3
  <2>2. Chosen(v) \in items /\ Chosen(v).ver = v
    BY <1>2, <2>1
  <2>3. QED
    BY <2>2 DEF Items
<1>5. ASSUME NEW rec \in items, rec.ver \notin shared
      PROVE  zip[rec.ver] # None /\ rec.jar = JarOf[zip[rec.ver]]
  BY <1>1, <1>2, <1>5 DEF IInv, AllFiled, Filed
<1>6. PICK r : r = [req[w] EXCEPT !.pc = "record"]
  OBVIOUS
<1>7. Request(w, r)
  BY <1>6 DEF StoreJars
<1>8. /\ r \in Requests /\ r.pc = "record" /\ r.items = items /\ r.seen = req[w].seen
      /\ r.pc \in Storing /\ r.pc \notin Uploading
  <2>1. req[w] \in [pc : Storing, scan : BOOLEAN, items : SUBSET Items,
                    seen : SUBSET (Ids \X (Jars \cup {None}))]
    BY <1>1, Holding DEF Requests, Uploading, Storing
  <2>2. /\ r \in [pc : Storing, scan : BOOLEAN, items : SUBSET Items,
                  seen : SUBSET (Ids \X (Jars \cup {None}))]
        /\ r.pc = "record" /\ r.items = items /\ r.seen = req[w].seen
    BY <1>2, <1>6, <2>1 DEF Storing
  <2>3. QED
    BY <2>2 DEF Requests, Storing, Uploading
<1>9. Sound(r)
  <2>1. Sound(req[w])
    BY Holding
  <2>2. QED
    BY <1>1, <1>2, <1>8, <2>1 DEF Sound, Storing, Uploading
<1>10. Held(r) = Held(req[w])
  BY <1>3, <1>8, HeldVersions
<1>11. Named(r, rows, lastId)
  <2>1. Named(req[w], rows, lastId)
    BY DEF IInv, Given
  <2>2. QED
    BY <1>1, <1>2, <1>8, <2>1 DEF Named, Storing
<1>. HIDE DEF Chosen
<1>12. /\ zip' \in [Versions -> Zips \cup {None}] /\ jar' \in [Versions -> Jars \cup {None}]
       /\ \A v \in Held(req[w]) : jar'[v] = Chosen(v).jar
       /\ \A v \in Versions \ Held(req[w]) : jar'[v] = jar[v]
  <2>1. Held(req[w]) \subseteq Versions
    BY Holding, HeldVersions
  <2>2. QED
    BY <1>1, <1>4, <2>1, Typed
<1>13. ASSUME NEW v \in Held(req[w]), v \notin shared
       PROVE  zip[v] # None /\ jar'[v] = JarOf[zip[v]]
  BY <1>4, <1>5, <1>12, <1>13
<1>14. Filed(r, zip', jar', rows, shared)
  <2>1. ASSUME NEW rec \in items, rec.ver \notin shared PROVE jar'[rec.ver] = rec.jar
    <3>1. rec.ver \in Held(req[w])
      BY <1>3
    <3>2. QED
      BY <1>5, <1>13, <2>1, <3>1
  <2>2. QED
    BY <1>8, <2>1 DEF Filed
<1>15. Written(req[w], zip, zip', jar, jar', rows, shared)
  <2>1. \A v \in Versions \ shared : jar[v] # None => jar[v] = JarOf[zip[v]]
    BY DEF IInv, Files
  <2>2. Held(req[w]) \subseteq Versions
    BY Holding, HeldVersions
  <2>3. QED
    BY <1>1, <1>12, <1>13, <2>1, <2>2 DEF Written
<1>16. QED
  BY <1>1, <1>7, <1>8, <1>9, <1>10, <1>11, <1>12, <1>14, <1>15, Writes

-----------------------------------------------------------------------------
(* Edits of rows                                                           *)

\* What the two invariants say of one row.
Right(id, row, zs, js, sh, hand, un) ==
  /\ id \notin un /\ row.override # None => row.override = row.jarmd5
  /\ row.ver \notin sh =>
       /\ row.md5 # None /\ <<id, "md5">> \notin hand => zs[row.ver] = row.md5
       /\ row.jarmd5 # None /\ <<id, "jarmd5">> \notin hand => js[row.ver] = row.jarmd5

LEMMA RightRows ==
  ASSUME IInv, NEW id \in Ids, rows[id] # None
  PROVE  /\ Right(id, rows[id], zip, jar, shared, byHand, unseen)
         /\ rows[id] \in Row /\ rows[id].ver \in Versions
<1>1. rows[id] \in Row /\ rows[id].ver \in Versions
  BY Typed DEF Row
<1>2. QED
  BY <1>1 DEF IInv, FilesBehindRows, OverrideMatches, Right, Exists

\* Rows are edited: they keep their version, and are right.
Edited ==
  /\ mod' \in {"NONE", "MOD", None} /\ built' = built /\ missed' = missed
  /\ files' = files /\ hashes' \subseteq hashes /\ lastId' = lastId /\ shared' = shared
  /\ rows' \in [Ids -> Row \cup {None}]
  /\ \A id \in Ids : /\ rows[id] # None => rows'[id] # None
                     /\ rows'[id] # None =>
                          /\ rows[id] # None /\ rows'[id].ver = rows[id].ver
                          /\ Right(id, rows'[id], zip, jar, shared, byHand', unseen')

LEMMA EditedRows ==
  ASSUME IInv, Edited, \/ req' = req
                       \/ \E w \in Workers : Request(w, Idle)
  PROVE  IInv'
<1>1. /\ zip' = zip /\ jar' = jar /\ lastId' = lastId /\ shared' = shared
      /\ built' = built /\ missed' = missed /\ hashes' \subseteq hashes
      /\ \A id \in Ids : rows'[id] # None => rows[id] # None /\ rows'[id].ver = rows[id].ver
  BY DEF files, Edited
<1>2. Follows(rows, rows', lastId)
  BY <1>1 DEF Follows
<1>3. /\ \A v \in Workers : (req[v] \in Requests /\ Sound(req[v]))'
      /\ req' \in [Workers -> Requests]
      /\ \A id \in Ids : rows'[id] # None => id <= lastId'
      /\ \A v \in Workers : Named(req[v], rows, lastId)'
      /\ Exclusive' /\ AllFiled'
  <2>1. CASE req' = req
    BY <1>1, <2>1, Rests
  <2>2. CASE \E w \in Workers : Request(w, Idle)
    <3>1. PICK w \in Workers : Request(w, Idle)
      BY <2>2
    <3>2. Free(Idle)
      BY IdleRequest DEF Free, Uploading, Storing
    <3>3. /\ Held(Idle) = {} /\ Named(Idle, rows', lastId')
          /\ Filed(Idle, zip', jar', rows', shared')
      BY <3>2, FreeRequest
    <3>4. lastId' \in 0..MaxRows /\ lastId <= lastId'
      BY <1>1 DEF IInv, Shapes
    <3>5. QED
      BY <1>1, <1>2, <3>1, <3>3, <3>4, IdleRequest, Goes
  <2>3. QED
    BY <2>1, <2>2
<1>4. Files' /\ \A h \in hashes' : h.id <= lastId
  BY <1>1, <1>2, FilesStay
<1>5. FilesBehindRows' /\ OverrideMatches'
  BY <1>1 DEF Edited, Right, FilesBehindRows, OverrideMatches, Exists
<1>6. TypeOK'
  BY <1>1, Typed DEF Edited, TypeOK, Exists
<1>7. Shapes' /\ Given'
  BY <1>1, <1>3, <1>4 DEF IInv, Shapes, Given, Exists
<1>8. QED
  BY <1>3, <1>4, <1>5, <1>6, <1>7 DEF IInv

\* One row is edited, or none.
LEMMA EditsOne ==
  ASSUME IInv, NEW id \in Ids, rows[id] # None, NEW row \in Row,
         rows' = [rows EXCEPT ![id] = row], row.ver = rows[id].ver,
         mod' \in {"NONE", "MOD", None}, built' = built, missed' = missed,
         files' = files, hashes' \subseteq hashes, lastId' = lastId, shared' = shared,
         Right(id, row, zip, jar, shared, byHand', unseen'),
         \A i : i # id => /\ i \in unseen' <=> i \in unseen
                          /\ \A c : <<i, c>> \in byHand' <=> <<i, c>> \in byHand,
         \/ req' = req
         \/ \E w \in Workers : Request(w, Idle)
  PROVE  IInv'
<1>1. /\ rows'[id] = row /\ \A i \in Ids : i # id => rows'[i] = rows[i]
      /\ rows' \in [Ids -> Row \cup {None}] /\ row # None
  BY Typed
<1>2. ASSUME NEW i \in Ids, rows'[i] # None
      PROVE  Right(i, rows'[i], zip, jar, shared, byHand', unseen')
  <2>1. CASE i = id
    BY <1>1, <2>1
  <2>2. CASE i # id
    <3>1. Right(i, rows[i], zip, jar, shared, byHand, unseen)
      BY <1>1, <1>2, <2>2, RightRows
    <3>2. QED
      BY <1>1, <2>2, <3>1 DEF Right
  <2>3. QED
    BY <2>1, <2>2
<1>3. Edited
  BY <1>1, <1>2 DEF Edited
<1>4. QED
  BY <1>3, EditedRows

LEMMA SaveOverrideInv == ASSUME IInv, NEW w \in Workers, SaveOverride(w) PROVE IInv'
<1>1. PICK id \in Ids, url \in Jars : id = req[w].id /\ url = req[w].url
  BY Holding DEF SaveOverride
<1>2. /\ mod' = mod /\ built' = built /\ missed' = missed /\ byHand' = byHand
      /\ files' = files /\ hashes' = hashes /\ lastId' = lastId /\ shared' = shared
      /\ Request(w, Idle)
  BY DEF SaveOverride, Ends
<1>3. CASE rows[id] # None /\ rows[id].jarmd5 = url
  <2>1. PICK row : row = [rows[id] EXCEPT !.override = url]
    OBVIOUS
  <2>2. rows' = [rows EXCEPT ![id] = row] /\ unseen' = unseen \ {id}
    BY <1>1, <1>3, <2>1 DEF SaveOverride, StillSame, Exists
  <2>3. /\ rows[id] \in Row /\ Right(id, rows[id], zip, jar, shared, byHand, unseen)
    BY <1>3, RightRows
  <2>4. /\ row \in Row /\ row.ver = rows[id].ver /\ row.md5 = rows[id].md5
        /\ row.jarmd5 = rows[id].jarmd5 /\ row.override = url
    BY <2>1, <2>3 DEF Row
  <2>5. Right(id, row, zip, jar, shared, byHand', unseen')
    BY <1>2, <1>3, <2>3, <2>4 DEF Right
  <2>6. QED
    BY <1>2, <1>3, <2>2, <2>4, <2>5, Typed, EditsOne
<1>4. CASE ~ (rows[id] # None /\ rows[id].jarmd5 = url)
  <2>1. rows' = rows /\ unseen' = unseen
    BY <1>1, <1>4 DEF SaveOverride, StillSame, Exists
  <2>2. Edited
    BY <1>2, <2>1, Typed, RightRows DEF Edited
  <2>3. QED
    BY <1>2, <2>2, EditedRows
<1>5. QED
  BY <1>3, <1>4

LEMMA ClearOverrideInv == ASSUME IInv, ClearOverride PROVE IInv'
<1>1. PICK id \in Ids :
        /\ rows[id] # None /\ rows' = [rows EXCEPT ![id].override = None]
        /\ unseen' = unseen \ {id}
  BY DEF ClearOverride, Exists
<1>2. /\ mod' = mod /\ built' = built /\ missed' = missed /\ byHand' = byHand
      /\ files' = files /\ hashes' = hashes /\ lastId' = lastId /\ shared' = shared
      /\ req' = req
  BY DEF ClearOverride
<1>3. PICK row : row = [rows[id] EXCEPT !.override = None]
  OBVIOUS
<1>4. rows[id] \in Row /\ Right(id, rows[id], zip, jar, shared, byHand, unseen)
  BY <1>1, RightRows
<1>5. /\ row \in Row /\ row.ver = rows[id].ver /\ row.md5 = rows[id].md5
      /\ row.jarmd5 = rows[id].jarmd5 /\ row.override = None
  BY <1>3, <1>4 DEF Row
<1>6. rows' = [rows EXCEPT ![id] = row]
  BY <1>1, <1>3
<1>7. Right(id, row, zip, jar, shared, byHand', unseen')
  BY <1>2, <1>4, <1>5 DEF Right
<1>8. QED
  BY <1>1, <1>2, <1>5, <1>6, <1>7, Typed, EditsOne

LEMMA HashStoreInv == ASSUME IInv, HashStore PROVE IInv'
<1>1. PICK h \in hashes :
        /\ h.md5 # None
        /\ hashes' = hashes \ {h}
        /\ IF rows[h.id] # None
             THEN /\ rows' = [rows EXCEPT ![h.id].md5 = h.md5]
                  /\ byHand' = byHand \ {<<h.id, "md5">>}
             ELSE rows' = rows /\ byHand' = byHand
  BY DEF HashStore, Exists
<1>2. /\ mod' = mod /\ built' = built /\ missed' = missed /\ unseen' = unseen
      /\ files' = files /\ lastId' = lastId /\ shared' = shared /\ req' = req
      /\ hashes' \subseteq hashes
  BY <1>1 DEF HashStore
<1>3. PICK id \in Ids, z \in Zips : id = h.id /\ z = h.md5
  BY <1>1 DEF IInv, Shapes, Hashings
<1>4. CASE rows[id] # None
  <2>1. PICK row : row = [rows[id] EXCEPT !.md5 = z]
    OBVIOUS
  <2>2. rows[id] \in Row /\ Right(id, rows[id], zip, jar, shared, byHand, unseen)
    BY <1>4, RightRows
  <2>3. /\ row \in Row /\ row.ver = rows[id].ver /\ row.md5 = z
        /\ row.jarmd5 = rows[id].jarmd5 /\ row.override = rows[id].override
    BY <2>1, <2>2 DEF Row
  <2>4. rows' = [rows EXCEPT ![id] = row] /\ byHand' = byHand \ {<<id, "md5">>}
    BY <1>1, <1>3, <1>4, <2>1
  <2>5. rows[id].ver \notin shared => zip[rows[id].ver] = z
    BY <1>1, <1>3, <1>4 DEF IInv, Files, Exists
  <2>6. <<id, "jarmd5">> \notin byHand' => <<id, "jarmd5">> \notin byHand
    BY <2>4
  <2>7. Right(id, row, zip, jar, shared, byHand', unseen')
    BY <1>2, <2>2, <2>3, <2>5, <2>6 DEF Right
  <2>8. \A i : i # id => \A c : <<i, c>> \in byHand' <=> <<i, c>> \in byHand
    BY <2>4
  <2>9. QED
    BY <1>2, <1>4, <2>3, <2>4, <2>7, <2>8, Typed, EditsOne
<1>5. CASE rows[id] = None
  <2>1. rows' = rows /\ byHand' = byHand
    BY <1>1, <1>3, <1>5
  <2>2. Edited
    BY <1>2, <2>1, Typed, RightRows DEF Edited
  <2>3. QED
    BY <1>2, <2>2, EditedRows
<1>6. QED
  BY <1>4, <1>5

\* JARs are recorded for the versions that they were stored for.
LEMMA RecordJarsInv == ASSUME IInv, NEW w \in Workers, RecordJars(w) PROVE IInv'
<1>1. /\ req[w].pc = "record" /\ req[w].pc \in Storing
      /\ built' = built /\ missed' = missed /\ files' = files /\ hashes' = hashes
      /\ lastId' = lastId /\ shared' = shared /\ Request(w, Idle)
  BY DEF RecordJars, Ends, Storing
<1>. DEFINE items == {rec \in req[w].items : Exists(rec.id)}
            ids == {rec.id : rec \in items}
            Of(id) == (CHOOSE rec \in items : rec.id = id).jar
<1>2. /\ \A rec \in items : rec \in req[w].items /\ rows[rec.id] # None
      /\ \A id : id \in ids <=> \E rec \in items : rec.id = id
  BY DEF Exists
<1>3. \/ rows' = rows /\ mod' = mod /\ byHand' = byHand /\ unseen' = unseen
      \/ /\ rows' = [id \in Ids |-> IF id \in ids
                       THEN [rows[id] EXCEPT !.jarmd5 = Of(id)] ELSE rows[id]]
         /\ mod' = IF ids = {} THEN mod ELSE Promoted(Of(CHOOSE id \in ids : TRUE))
         /\ byHand' = byHand \ {<<id, "jarmd5">> : id \in ids}
         /\ unseen' = unseen \cup {id \in ids : /\ rows[id].jarmd5 # Of(id)
                                                /\ rows[id].override # None
                                                /\ <<id, rows[id].override>> \notin req[w].seen}
  <2>1. CASE req[w].scan /\ (mod # "NONE" \/ {id \in Ids : Exists(id)}
                                              # {rec.id : rec \in req[w].items})
    BY <2>1, Zenon DEF RecordJars
  <2>2. CASE ~ (req[w].scan /\ (mod # "NONE" \/ {id \in Ids : Exists(id)}
                                                 # {rec.id : rec \in req[w].items}))
    BY <2>2, Zenon DEF RecordJars
  <2>3. QED
    BY <2>1, <2>2
<1>. HIDE DEF items, ids
<1>4. CASE rows' = rows /\ mod' = mod /\ byHand' = byHand /\ unseen' = unseen
  <2>1. Edited
    BY <1>1, <1>4, Typed, RightRows DEF Edited
  <2>2. QED
    BY <1>1, <2>1, EditedRows
<1>5. CASE /\ rows' = [id \in Ids |-> IF id \in ids
                         THEN [rows[id] EXCEPT !.jarmd5 = Of(id)] ELSE rows[id]]
           /\ mod' = IF ids = {} THEN mod ELSE Promoted(Of(CHOOSE id \in ids : TRUE))
           /\ byHand' = byHand \ {<<id, "jarmd5">> : id \in ids}
           /\ unseen' = unseen \cup {id \in ids : /\ rows[id].jarmd5 # Of(id)
                                                  /\ rows[id].override # None
                                                  /\ <<id, rows[id].override>> \notin req[w].seen}
  <2>1. ASSUME NEW id \in ids
        PROVE  /\ id \in Ids /\ rows[id] # None /\ Of(id) \in Jars
               /\ rows[id].ver \notin shared => jar[rows[id].ver] = Of(id)
               /\ \A url \in Jars : <<id, url>> \in req[w].seen => url = Of(id)
    <3>1. PICK rec : rec = CHOOSE x \in items : x.id = id
      OBVIOUS
    <3>2. rec \in items /\ rec.id = id /\ Of(id) = rec.jar
      <4>1. \E q \in items : q.id = id
        BY <1>2
      <4>2. QED
        BY <3>1, <4>1
    <3>3. rec \in req[w].items /\ rec \in Items /\ rows[id] # None
      BY <1>1, <1>2, <3>2, Holding
    <3>4. rows[id].ver = rec.ver
      BY <1>1, <3>2, <3>3 DEF IInv, Given, Named
    <3>5. rec.ver \notin shared => jar[rec.ver] = rec.jar
      BY <1>1, <3>3 DEF IInv, AllFiled, Filed
    <3>6. \A url \in Jars : <<id, url>> \in req[w].seen => url = rec.jar
      BY <1>1, <3>2, <3>3, Holding DEF Sound
    <3>7. QED
      BY <3>2, <3>3, <3>4, <3>5, <3>6 DEF Items
  <2>. HIDE DEF Of
  <2>2. ASSUME NEW id \in Ids, rows[id] # None
        PROVE  /\ rows'[id] \in Row /\ rows'[id] # None
               /\ rows'[id].ver = rows[id].ver
               /\ Right(id, rows'[id], zip, jar, shared, byHand', unseen')
    <3>1. rows[id] \in Row /\ Right(id, rows[id], zip, jar, shared, byHand, unseen)
      BY <2>2, RightRows
    <3>2. CASE id \notin ids
      <4>1. /\ rows'[id] = rows[id] /\ (id \in unseen' <=> id \in unseen)
            /\ \A c : <<id, c>> \in byHand' <=> <<id, c>> \in byHand
        BY <1>5, <3>2
      <4>2. QED
        BY <3>1, <4>1 DEF Right
    <3>3. CASE id \in ids
      <4>1. PICK j \in Jars : /\ j = Of(id)
                              /\ rows[id].ver \notin shared => jar[rows[id].ver] = j
                              /\ \A url \in Jars : <<id, url>> \in req[w].seen => url = j
        BY <2>1, <3>3
      <4>2. rows'[id] = [rows[id] EXCEPT !.jarmd5 = j]
        BY <1>5, <3>3, <4>1
      <4>3. /\ rows'[id] \in Row /\ rows'[id].ver = rows[id].ver
            /\ rows'[id].md5 = rows[id].md5
            /\ rows'[id].jarmd5 = j /\ rows'[id].override = rows[id].override
        BY <3>1, <4>2 DEF Row
      <4>4. <<id, "md5">> \notin byHand' => <<id, "md5">> \notin byHand
        BY <1>5
      <4>5. ASSUME id \notin unseen', rows[id].override # None PROVE rows[id].override = j
        <5>1. id \notin unseen
          BY <1>5, <4>5
        <5>2. \/ rows[id].jarmd5 = j
              \/ <<id, rows[id].override>> \in req[w].seen
          BY <1>5, <3>3, <4>1, <4>5
        <5>3. CASE rows[id].jarmd5 = j
          BY <3>1, <4>5, <5>1, <5>3 DEF Right
        <5>4. CASE <<id, rows[id].override>> \in req[w].seen
          BY <3>1, <4>1, <4>5, <5>4 DEF Row
        <5>5. QED
          BY <5>2, <5>3, <5>4
      <4>6. Right(id, rows'[id], zip, jar, shared, byHand', unseen')
        BY <3>1, <4>1, <4>3, <4>4, <4>5 DEF Right
      <4>7. QED
        BY <4>3, <4>6
    <3>4. QED
      BY <3>1, <3>2, <3>3
  <2>3. \A id \in Ids : rows[id] = None => rows'[id] = None
    BY <1>5, <2>1
  <2>4. rows' \in [Ids -> Row \cup {None}]
    <3>1. DOMAIN rows' = Ids /\ rows' = [id \in Ids |-> rows'[id]]
      BY <1>5
    <3>2. \A id \in Ids : rows'[id] \in Row \cup {None}
      BY <2>2, <2>3
    <3>3. QED
      BY <3>1, <3>2
  <2>5. mod' \in {"NONE", "MOD", None}
    BY <1>5, Typed DEF Promoted
  <2>6. Edited
    BY <1>1, <2>2, <2>3, <2>4, <2>5 DEF Edited
  <2>7. QED
    BY <1>1, <2>6, EditedRows
<1>6. QED
  BY <1>3, <1>4, <1>5

\* What a request names replaces what the row has, and is of its type.
LEMMA Fields ==
  ASSUME NEW set \in Bodies, NEW row \in Row
  PROVE  /\ Field(set, row, "md5") \in Zips \cup {None}
         /\ Field(set, row, "jarmd5") \in Jars \cup {None}
         /\ Field(set, row, "override") \in Jars \cup {None}
         /\ "jarmd5" \in DOMAIN set => set.jarmd5 \in Jars \cup {None}
<1>1. CASE set \in [md5 : Zips]
  <2>1. DOMAIN set = {"md5"} /\ set.md5 \in Zips
    BY <1>1
  <2>2. QED
    BY <2>1 DEF Field, Row
<1>2. CASE set \in [jarmd5 : Jars \cup {None}]
  <2>1. DOMAIN set = {"jarmd5"} /\ set.jarmd5 \in Jars \cup {None}
    BY <1>2
  <2>2. QED
    BY <2>1 DEF Field, Row
<1>3. CASE set \in [override : Jars \cup {None}]
  <2>1. DOMAIN set = {"override"} /\ set.override \in Jars \cup {None}
    BY <1>3
  <2>2. QED
    BY <2>1 DEF Field, Row
<1>4. CASE set \in [jarmd5 : Jars \cup {None}, override : Jars \cup {None}]
  <2>1. /\ DOMAIN set = {"jarmd5", "override"}
        /\ set.jarmd5 \in Jars \cup {None} /\ set.override \in Jars \cup {None}
    BY <1>4
  <2>2. QED
    BY <2>1 DEF Field, Row
<1>5. QED
  BY <1>1, <1>2, <1>3, <1>4 DEF Bodies

\* An override that was not downloaded for the JAR that the row gets is unseen.
LEMMA UpdatedOverride ==
  ASSUME NEW set, NEW had, NEW row,
         Checked(set, had) => /\ Verified(Field(set, had, "override"), Field(set, had, "jarmd5"))
                              /\ row.jarmd5 = had.jarmd5,
         Field(set, row, "override") # None
  PROVE  \/ Field(set, row, "override") = Field(set, row, "jarmd5")
         \/ /\ "override" \notin DOMAIN set /\ "jarmd5" \in DOMAIN set
            /\ row.override # None /\ row.override # had.override
         \/ /\ "override" \notin DOMAIN set /\ "jarmd5" \notin DOMAIN set
            /\ Field(set, row, "override") = row.override
            /\ Field(set, row, "jarmd5") = row.jarmd5
<1>1. CASE "override" \in DOMAIN set
  <2>1. Checked(set, had)
    BY <1>1 DEF Checked, Field
  <2>2. QED
    BY <1>1, <2>1 DEF Verified, Field
<1>2. CASE "override" \notin DOMAIN set /\ "jarmd5" \in DOMAIN set
  <2>1. CASE row.override = had.override
    <3>1. Checked(set, had)
      BY <1>2, <2>1 DEF Checked, Field
    <3>2. QED
      BY <1>2, <2>1, <3>1 DEF Verified, Field
  <2>2. CASE row.override # had.override
    BY <1>2, <2>2 DEF Field
  <2>3. QED
    BY <2>1, <2>2
<1>3. CASE "override" \notin DOMAIN set /\ "jarmd5" \notin DOMAIN set
  BY <1>3 DEF Field
<1>4. QED
  BY <1>1, <1>2, <1>3

LEMMA UpdateVersionInv == ASSUME IInv, NEW w \in Workers, UpdateVersion(w) PROVE IInv'
<1>1. PICK id \in Ids, set \in Bodies, had \in Row :
        /\ id = req[w].id /\ set = req[w].set /\ had = req[w].had
        /\ Checked(set, had) => Verified(Field(set, had, "override"), Field(set, had, "jarmd5"))
  BY Holding DEF UpdateVersion, Sound
<1>2. /\ built' = built /\ missed' = missed /\ files' = files /\ hashes' = hashes
      /\ lastId' = lastId /\ shared' = shared /\ Request(w, Idle)
  BY DEF UpdateVersion, Ends
<1>3. CASE rows[id] # None /\ (Checked(set, had) => rows[id].jarmd5 = had.jarmd5)
  <2>1. PICK row : row = NewRow(rows[id].ver, Field(set, rows[id], "md5"),
                                Field(set, rows[id], "jarmd5"),
                                Field(set, rows[id], "override"))
    OBVIOUS
  <2>2. /\ rows' = [rows EXCEPT ![id] = row]
        /\ mod' = IF "jarmd5" \in DOMAIN set THEN Promoted(set.jarmd5) ELSE mod
        /\ byHand' = byHand \cup {<<id, f>> : f \in DOMAIN set \ {"override"}}
        /\ unseen' = IF "override" \in DOMAIN set THEN unseen \ {id}
                     ELSE IF /\ "jarmd5" \in DOMAIN set /\ rows[id].override # None
                             /\ rows[id].override # had.override
                            THEN unseen \cup {id}
                     ELSE unseen
    BY <1>1, <1>3, <2>1 DEF UpdateVersion, Exists
  <2>3. rows[id] \in Row /\ Right(id, rows[id], zip, jar, shared, byHand, unseen)
    BY <1>3, RightRows
  <2>4. /\ row \in Row /\ row.ver = rows[id].ver
        /\ row.md5 = Field(set, rows[id], "md5")
        /\ row.jarmd5 = Field(set, rows[id], "jarmd5")
        /\ row.override = Field(set, rows[id], "override")
    BY <2>1, <2>3, Fields DEF NewRow, Row
  <2>5. ASSUME id \notin unseen', row.override # None PROVE row.override = row.jarmd5
    <3>1. \/ row.override = row.jarmd5
          \/ /\ "override" \notin DOMAIN set /\ "jarmd5" \in DOMAIN set
             /\ rows[id].override # None /\ rows[id].override # had.override
          \/ /\ "override" \notin DOMAIN set /\ "jarmd5" \notin DOMAIN set
             /\ row.override = rows[id].override /\ row.jarmd5 = rows[id].jarmd5
      BY <1>1, <1>3, <2>4, <2>5, UpdatedOverride
    <3>2. QED
      BY <2>2, <2>3, <2>5, <3>1 DEF Right
  <2>6. /\ <<id, "md5">> \notin byHand' =>
             <<id, "md5">> \notin byHand /\ row.md5 = rows[id].md5
        /\ <<id, "jarmd5">> \notin byHand' =>
             <<id, "jarmd5">> \notin byHand /\ row.jarmd5 = rows[id].jarmd5
    BY <2>2, <2>4 DEF Field
  <2>7. Right(id, row, zip, jar, shared, byHand', unseen')
    BY <2>3, <2>4, <2>5, <2>6 DEF Right
  <2>8. \A i : i # id => /\ i \in unseen' <=> i \in unseen
                         /\ \A c : <<i, c>> \in byHand' <=> <<i, c>> \in byHand
    BY <2>2
  <2>9. mod' \in {"NONE", "MOD", None}
    BY <2>2, Typed DEF Promoted
  <2>10. QED
    BY <1>2, <1>3, <2>2, <2>4, <2>7, <2>8, <2>9, EditsOne
<1>4. CASE ~ (rows[id] # None /\ (Checked(set, had) => rows[id].jarmd5 = had.jarmd5))
  <2>1. rows' = rows /\ mod' = mod /\ byHand' = byHand /\ unseen' = unseen
    BY <1>1, <1>4 DEF UpdateVersion, Exists
  <2>2. Edited
    BY <1>2, <2>1, Typed, RightRows DEF Edited
  <2>3. QED
    BY <1>2, <2>2, EditedRows
<1>5. QED
  BY <1>3, <1>4

-----------------------------------------------------------------------------
(* Steps of no request                                                     *)

\* Rows go or stay, a build loses what the rows lose, and hashings go on.
LEMMA Settles ==
  ASSUME IInv, req' = req, shared' = shared, lastId' = lastId, files' = files,
         byHand' = byHand, unseen' = unseen,
         rows' \in [Ids -> Row \cup {None}], Shrunk(rows, rows'),
         mod' \in {"NONE", "MOD", None}, built' \subseteq Ids,
         \A id \in built' : id \notin missed' => rows'[id] # None,
         hashes' \subseteq Hashings,
         \A h \in hashes' : /\ h.id <= lastId
                            /\ \/ h \in hashes
                               \/ h.md5 = None
                               \/ rows[h.id] # None => zip[rows[h.id].ver] = h.md5
  PROVE  IInv'
<1>1. zip' = zip /\ jar' = jar
  BY DEF files
<1>2. /\ Follows(rows, rows', lastId)
      /\ \A id \in Ids : rows'[id] # None => rows[id] # None /\ rows'[id].ver = rows[id].ver
  BY ShrunkFollows
<1>3. /\ \A v \in Workers : (req[v] \in Requests /\ Sound(req[v]))'
      /\ req' \in [Workers -> Requests]
      /\ \A id \in Ids : rows'[id] # None => id <= lastId'
      /\ \A v \in Workers : Named(req[v], rows, lastId)'
      /\ Exclusive' /\ AllFiled'
  BY <1>1, <1>2, Rests
<1>4. FilesBehindRows' /\ OverrideMatches'
  BY <1>1, RowsStay
<1>5. TypeOK'
  BY <1>1, Typed DEF TypeOK, Exists
<1>6. Shapes' /\ Given'
  BY <1>3 DEF IInv, Shapes, Given, Exists
<1>7. Files'
  <2>1. \A v \in Versions \ shared' : jar'[v] # None => zip'[v] # None /\ jar'[v] = JarOf[zip'[v]]
    BY <1>1 DEF IInv, Files
  <2>2. ASSUME NEW h \in hashes', h.md5 # None, rows'[h.id] # None,
               rows'[h.id].ver \notin shared'
        PROVE  zip'[rows'[h.id].ver] = h.md5
    <3>1. h.id \in Ids
      BY DEF Hashings
    <3>2. rows[h.id] # None /\ rows'[h.id].ver = rows[h.id].ver
      BY <1>2, <2>2, <3>1
    <3>3. CASE h \in hashes
      BY <1>1, <2>2, <3>2, <3>3 DEF IInv, Files, Exists
    <3>4. CASE h \notin hashes
      BY <1>1, <2>2, <3>2, <3>4
    <3>5. QED
      BY <3>3, <3>4
  <2>3. QED
    BY <2>1, <2>2 DEF Files, Exists
<1>8. QED
  BY <1>3, <1>4, <1>5, <1>6, <1>7 DEF IInv

LEMMA EditModInv == ASSUME IInv, EditMod PROVE IInv'
<1>1. /\ req' = req /\ shared' = shared /\ lastId' = lastId /\ files' = files
      /\ byHand' = byHand /\ unseen' = unseen /\ rows' = rows /\ built' = built
      /\ missed' = missed /\ hashes' = hashes /\ mod' \in {"NONE", "MOD", None}
  BY DEF EditMod, history
<1>2. hashes \subseteq Hashings /\ \A h \in hashes : h.id <= lastId
  BY DEF IInv, Shapes, Given
<1>3. QED
  BY <1>1, <1>2, Typed, Settles

\* Steps that only change the hashings.
LEMMA Hashes ==
  ASSUME IInv, store' = store, files' = files, req' = req, history' = history,
         hashes' \subseteq Hashings,
         \A h \in hashes' : /\ h.id <= lastId
                            /\ \/ h \in hashes
                               \/ h.md5 = None
                               \/ rows[h.id] # None => zip[rows[h.id].ver] = h.md5
  PROVE  IInv'
<1>1. /\ shared' = shared /\ lastId' = lastId /\ byHand' = byHand /\ unseen' = unseen
      /\ rows' = rows /\ built' = built /\ missed' = missed /\ mod' = mod
  BY DEF store, history
<1>2. QED
  BY <1>1, Typed, Settles

LEMMA VerifyInv == ASSUME IInv, Verify PROVE IInv'
<1>1. PICK id \in Ids : /\ rows[id] # None
                        /\ hashes' = hashes \cup {[id |-> id, md5 |-> None]}
  BY DEF Verify, Exists
<1>2. PICK n : n = [id |-> id, md5 |-> None]
  OBVIOUS
<1>3. n \in Hashings /\ n.id = id /\ n.md5 = None /\ hashes' = hashes \cup {n}
  BY <1>1, <1>2 DEF Hashings
<1>4. id <= lastId
  BY <1>1 DEF IInv, Given, Exists
<1>5. hashes \subseteq Hashings /\ \A h \in hashes : h.id <= lastId
  BY DEF IInv, Shapes, Given
<1>6. store' = store /\ files' = files /\ req' = req /\ history' = history
  BY DEF Verify
<1>7. QED
  BY <1>3, <1>4, <1>5, <1>6, Hashes

LEMMA HashReadInv == ASSUME IInv, HashRead PROVE IInv'
<1>1. PICK h \in hashes, v \in Versions :
        /\ h.md5 = None /\ zip[v] # None
        /\ rows[h.id] # None => rows[h.id].ver = v
        /\ hashes' = (hashes \ {h}) \cup {[id |-> h.id, md5 |-> zip[v]]}
  BY DEF HashRead, Exists
<1>2. PICK n : n = [id |-> h.id, md5 |-> zip[v]]
  OBVIOUS
<1>3. hashes \subseteq Hashings /\ \A g \in hashes : g.id <= lastId
  BY DEF IInv, Shapes, Given
<1>4. zip[v] \in Zips
  BY <1>1, Typed
<1>5. n \in Hashings /\ n.id = h.id /\ n.md5 = zip[v] /\ hashes' = (hashes \ {h}) \cup {n}
  BY <1>1, <1>2, <1>3, <1>4 DEF Hashings
<1>6. rows[n.id] # None => zip[rows[n.id].ver] = n.md5
  BY <1>1, <1>5
<1>7. store' = store /\ files' = files /\ req' = req /\ history' = history
  BY DEF HashRead
<1>8. QED
  BY <1>3, <1>5, <1>6, <1>7, Hashes

LEMMA HashFailsInv == ASSUME IInv, HashFails PROVE IInv'
<1>1. PICK h \in hashes : hashes' = hashes \ {h}
  BY DEF HashFails
<1>2. hashes \subseteq Hashings /\ \A g \in hashes : g.id <= lastId
  BY DEF IInv, Shapes, Given
<1>3. store' = store /\ files' = files /\ req' = req /\ history' = history
  BY DEF HashFails
<1>4. QED
  BY <1>1, <1>2, <1>3, Hashes

\* What the three steps on builds leave alone.
LEMMA BuildsInv == ASSUME IInv, AddLocked \/ Remove \/ DeleteVersion PROVE IInv'
<1>1. /\ req' = req /\ shared' = shared /\ lastId' = lastId /\ files' = files
      /\ byHand' = byHand /\ unseen' = unseen /\ missed' = missed
      /\ hashes' = hashes /\ mod' = mod
  BY DEF AddLocked, Remove, DeleteVersion, history
<1>2. hashes \subseteq Hashings /\ \A g \in hashes : g.id <= lastId
  BY DEF IInv, Shapes, Given
<1>3. CASE AddLocked
  <2>1. PICK id \in Ids : rows[id] # None /\ built' = built \cup {id} /\ rows' = rows
    BY <1>3 DEF AddLocked, Exists
  <2>2. QED
    BY <1>1, <1>2, <2>1, Typed, Settles
<1>4. CASE Remove
  <2>1. PICK id \in built : built' = built \ {id} /\ rows' = rows
    BY <1>4 DEF Remove
  <2>2. QED
    BY <1>1, <1>2, <2>1, Typed, Settles
<1>5. CASE DeleteVersion
  <2>1. PICK id \in Ids, ids \in SUBSET Ids :
          ids = {id} /\ rows' = Without(ids) /\ built' = built \ {id}
    BY <1>5 DEF DeleteVersion
  <2>2. /\ rows' \in [Ids -> Row \cup {None}] /\ Shrunk(rows, rows')
        /\ \A i \in Ids : i # id => rows'[i] = rows[i]
    BY <2>1, WithoutRows
  <2>3. built' \subseteq Ids /\ \A i \in built' : i \notin missed' => rows'[i] # None
    BY <1>1, <2>1, <2>2, Typed
  <2>4. QED
    BY <1>1, <1>2, <2>2, <2>3, Typed, Settles
<1>6. QED
  BY <1>3, <1>4, <1>5

LEMMA StutterInv == ASSUME IInv, UNCHANGED vars PROVE IInv'
<1>1. store' = store /\ files' = files /\ req' = req /\ history' = history /\ hashes' = hashes
  BY DEF vars
<1>2. hashes \subseteq Hashings /\ \A g \in hashes : g.id <= lastId
  BY DEF IInv, Shapes, Given
<1>3. QED
  BY <1>1, <1>2, Hashes

-----------------------------------------------------------------------------
(* The invariant                                                           *)

LEMMA InitInv == Init => IInv
<1>. SUFFICES ASSUME Init PROVE IInv
  OBVIOUS
<1>1. \A w \in Workers : req[w] = Idle
  BY DEF Init
<1>2. Free(Idle)
  BY IdleRequest DEF Free, Uploading, Storing
<1>3. TypeOK
  BY DEF Init, TypeOK
<1>4. Shapes
  BY <1>1, IdleRequest DEF Init, Shapes
<1>5. Given
  <2>1. \A w \in Workers : Named(req[w], rows, lastId)
    BY <1>1, <1>2, FreeRequest
  <2>2. QED
    BY <2>1 DEF Init, Given, Exists
<1>6. Exclusive
  <2>1. Held(Idle) = {}
    BY <1>2, FreeRequest
  <2>2. QED
    BY <1>1, <2>1 DEF Exclusive
<1>7. AllFiled
  BY <1>1, <1>2, FreeRequest DEF AllFiled
<1>8. Files
  BY DEF Init, Files
<1>9. FilesBehindRows /\ OverrideMatches
  BY DEF Init, FilesBehindRows, OverrideMatches, Exists
<1>10. QED
  BY <1>3, <1>4, <1>5, <1>6, <1>7, <1>8, <1>9 DEF IInv

LEMMA NextInv == IInv /\ [Next]_vars => IInv'
<1>. SUFFICES ASSUME IInv, [Next]_vars PROVE IInv'
  OBVIOUS
<1>1. CASE UNCHANGED vars
  BY <1>1, StutterInv
<1>2. CASE \/ EditMod \/ Verify \/ HashRead \/ HashStore \/ HashFails
           \/ ClearOverride \/ AddLocked \/ Remove \/ DeleteVersion
  BY <1>2, EditModInv, VerifyInv, HashReadInv, HashStoreInv, HashFailsInv,
     ClearOverrideInv, BuildsInv
<1>3. ASSUME NEW w \in Workers,
             \/ Upload(w) \/ PlaceZip(w) \/ PlaceJar(w) \/ Insert(w) \/ MarkedBuild(w)
             \/ UploadFails(w) \/ Undo(w) \/ Unlink(w) \/ NewManual(w) \/ CreateVersion(w)
      PROVE  IInv'
  BY <1>3, UploadInv, PlaceZipInv, PlaceJarInv, InsertInv, MarkedBuildInv,
     UploadFailsInv, UndoInv, UnlinkInv, NewManualInv, CreateVersionInv
<1>4. ASSUME NEW w \in Workers,
             \/ CreateJar(w) \/ Scan(w) \/ StoreJars(w) \/ RecordJars(w)
             \/ CheckOverride(w) \/ SaveOverride(w) \/ ReadVersion(w) \/ UpdateVersion(w)
      PROVE  IInv'
  BY <1>4, CreateJarInv, ScanInv, StoreJarsInv, RecordJarsInv, CheckOverrideInv,
     SaveOverrideInv, ReadVersionInv, UpdateVersionInv
<1>5. ASSUME NEW w \in Workers,
             \/ ReadForBuild(w) \/ AddRead(w) \/ CountBuilds(w) \/ DeleteCounted(w)
             \/ ListVersions(w) \/ DeleteMod(w) \/ Crash(w)
      PROVE  IInv'
  BY <1>5, ReadIdInv, AddReadInv, DeleteCountedInv, ListVersionsInv, DeleteModInv, CrashInv
<1>6. QED
  BY <1>1, <1>2, <1>3, <1>4, <1>5 DEF Next

LEMMA Invariance == Spec => []IInv
<1>1. Init => IInv
  BY InitInv
<1>2. IInv /\ [Next]_vars => IInv'
  BY NextInv
<1>3. QED
  BY <1>1, <1>2, PTL DEF Spec

-----------------------------------------------------------------------------
(* Theorems                                                                *)

\* However deletions, additions to builds and failed uploads interleave, a build
\* contains versions that exist, but for those added behind a deletion
\* (delete_modversion, delete_mod, add_build_mod), and the rows stay well formed.
THEOREM TypeCorrect == Spec => []TypeOK
<1>1. IInv => TypeOK
  BY DEF IInv
<1>2. QED
  BY <1>1, Invariance, PTL

\* Whatever runs beside the download of an override, the file that a URL serves
\* has the JAR MD5 of its row, unless a request that had not seen the override
\* replaced that MD5 (update_jar_url_override, update_modversion, MCInstanceJar.create).
THEOREM OverridesServe == Spec => []OverrideMatches
<1>1. IInv => OverrideMatches
  BY DEF IInv
<1>2. QED
  BY <1>1, Invariance, PTL

\* After any uploads, crashes, deletions, scans and hashings, the MD5s of a version
\* are those of its files, but for those entered by hand, and for versions whose
\* files two requests or two rows share (modlibrary_post, Modversion.update_hash,
\* MCInstanceJar.create, promote_jar_only_none_mods).
THEOREM HashesOfFiles == Spec => []FilesBehindRows
<1>1. IInv => FilesBehindRows
  BY DEF IInv
<1>2. QED
  BY <1>1, Invariance, PTL

=============================================================================
