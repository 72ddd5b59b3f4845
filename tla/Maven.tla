-------------------------------- MODULE Maven --------------------------------
(***************************************************************************)
(* The mod of a Maven artifact and the mapping of its upstream versions to *)
(* Minecraft and mod versions (models/maven.py, its pages in asite.py and  *)
(* endpoints in api_write.py, and the Maven entries of an imported list).  *)
(*                                                                         *)
(* One artifact is followed, under the id it has now; rows of an id that   *)
(* was deleted are joined with nothing.  A worker holds the artifact that  *)
(* it read while it waits for the repository and for other transactions.   *)
(***************************************************************************)
EXTENDS Integers, FiniteSets

CONSTANTS
  Upstream,    \* upstream versions that may be published
  Embedded,    \* their mapping by the pattern of the artifact, or None
  Fixed,       \* the mapping with a fixed Minecraft version
  Corrections, \* mappings that users enter
  Loaders,
  Workers,
  MaxCreated,  \* bound: artifact ids
  MaxSaves,    \* bound: rules and mappings that are saved
  MaxNews,     \* bound: changes of the repository's metadata
  None

Modes == {"EMBEDDED", "FIXED", "MANUAL"}
Rules == [mode : Modes, loader : Loaders]
Sources == {"RULE", "MANUAL", "UNMAPPED"}
Mappings == Corrections \cup {Embedded[u] : u \in Upstream}
              \cup {Fixed[u] : u \in Upstream} \cup {None}
Row == [map : Mappings, loader : Loaders, enabled : BOOLEAN, source : Sources,
        available : BOOLEAN]

ASSUME MavenAssumption ==
  /\ DOMAIN Embedded = Upstream /\ DOMAIN Fixed = Upstream
  /\ \A u \in Upstream : Fixed[u] # None
  /\ None \notin Corrections \cup Loaders \cup Row
  /\ None \notin [id : Nat, rule : Rules, mod : Nat \cup {None}]
  /\ {MaxCreated, MaxSaves, MaxNews} \subseteq Nat

VARIABLES
  published, \* versions in maven-metadata.xml
  repo,      \* is the row of the repository there?
  artifact,  \* row of maven_artifacts: [id, rule, mod], or None
  rows,      \* rows of maven_versions, by upstream version, or None
  mod,       \* id of the artifact that the managed mod names, or None
  lastId,    \* AUTO_INCREMENT of maven_artifacts
  req,       \* request of each worker
  saves, news,
  chosen,    \* history: mapping last saved by a user, by upstream version
  overtaken, \* history: saved while a new rule was about to be written over it
  behind     \* history: written by a rule that was not the current one

store == <<repo, artifact, rows, mod, lastId>>
history == <<chosen, overtaken, behind>>
vars == <<published, store, req, saves, news, history>>

Idle == [pc |-> "idle"]
NoRows == [u \in Upstream |-> None]
Forget == /\ chosen' = NoRows /\ overtaken' = {} /\ behind' = {}

Request(w, r) == req' = [req EXCEPT ![w] = r]
Ends(w) == Request(w, Idle)

\* split_maven_version
Split(u, rule) == CASE rule.mode = "EMBEDDED" -> Embedded[u]
                    [] rule.mode = "FIXED" -> Fixed[u]
                    [] rule.mode = "MANUAL" -> None

\* A slip: a version without a mapping is enabled.
RuledBlindly(u, rule) ==
  [map |-> Split(u, rule), loader |-> rule.loader, enabled |-> TRUE, source |-> "RULE"]

\* What a rule says of a version: enabled if it has a mapping.
Ruled(u, rule) ==
  LET m == Split(u, rule)
  IN [map |-> m, loader |-> rule.loader, enabled |-> m # None,
      source |-> IF m # None THEN "RULE" ELSE "UNMAPPED"]

Says(row) == [map |-> row.map, loader |-> row.loader, enabled |-> row.enabled,
              source |-> row.source]
With(row, said) == [map |-> said.map, loader |-> said.loader, enabled |-> said.enabled,
                    source |-> said.source, available |-> row.available]

Init ==
  /\ published \in SUBSET Upstream /\ published # {}
  /\ repo = TRUE
  /\ artifact = None /\ rows = NoRows /\ mod = None /\ lastId = 0
  /\ req = [w \in Workers |-> Idle]
  /\ saves = 0 /\ news = 0
  /\ chosen = NoRows /\ overtaken = {} /\ behind = {}

\* The repository publishes a version, or drops one.
News ==
  /\ news < MaxNews
  /\ news' = news + 1
  /\ \E u \in Upstream :
       published' = IF u \in published THEN published \ {u} ELSE published \cup {u}
  /\ UNCHANGED <<store, req, saves, history>>

-----------------------------------------------------------------------------
(* An artifact and its mod                                                 *)

\* MavenArtifact.new: the repository is looked up, the row inserted; the
\* coordinates are unique.
NewArtifact(w) ==
  /\ req[w].pc = "idle"
  /\ repo /\ artifact = None /\ lastId < MaxCreated
  /\ \E rule \in Rules :
       /\ artifact' = [id |-> lastId + 1, rule |-> rule, mod |-> None]
       /\ Request(w, [pc |-> "fetch", id |-> lastId + 1, rule |-> rule, creates |-> TRUE])
  /\ lastId' = lastId + 1
  /\ rows' = NoRows
  /\ Forget
  /\ UNCHANGED <<published, repo, mod, saves, news>>

\* An entry of an imported list finds the artifact without a mod.
ResumeArtifact(w) ==
  /\ req[w].pc = "idle"
  /\ artifact # None
  /\ artifact.mod = None
  /\ Request(w, [pc |-> "import", id |-> artifact.id, made |-> FALSE])
  /\ UNCHANGED <<published, store, saves, news, history>>

\* import_project: Mod.new under the slug of the artifact, or the mod that
\* names the artifact already.
ImportMod(w) ==
  /\ req[w].pc = "import"
  /\ IF (artifact # None /\ artifact.id = req[w].id) /\ mod \in {None, req[w].id}
       THEN /\ mod' = req[w].id
            /\ Request(w, [req[w] EXCEPT !.pc = "attach"])
       ELSE /\ Request(w, [req[w] EXCEPT !.pc = "undo"])
            /\ UNCHANGED mod
  /\ UNCHANGED <<published, repo, artifact, rows, lastId, saves, news, history>>

Attach(w) ==
  /\ req[w].pc = "attach"
  /\ IF artifact # None /\ artifact.id = req[w].id
       THEN artifact' = [artifact EXCEPT !.mod = req[w].id]
       ELSE UNCHANGED artifact
  /\ Ends(w)
  /\ UNCHANGED <<published, repo, rows, mod, lastId, saves, news, history>>

\* Any call of the creation raises.
CreationFails(w) ==
  /\ \/ req[w].pc \in {"import", "attach"}
     \/ req[w].pc \in {"fetch", "sync"} /\ req[w].creates
  /\ Request(w, [pc |-> "undo", id |-> req[w].id,
                 made |-> IF req[w].pc \in {"fetch", "sync"} THEN TRUE ELSE req[w].made])
  /\ UNCHANGED <<published, store, saves, news, history>>

\* delete_unlinked, of an artifact that this request made.
Undo(w) ==
  /\ req[w].pc = "undo"
  /\ IF req[w].made /\ artifact # None /\ artifact.id = req[w].id /\ artifact.mod = None
       THEN artifact' = None /\ rows' = NoRows /\ Forget
       ELSE UNCHANGED <<artifact, rows, history>>
  /\ Ends(w)
  /\ UNCHANGED <<published, repo, mod, lastId, saves, news>>

\* Mod.delete_mod takes the artifact and its versions along.
DeleteMod ==
  /\ mod # None
  /\ IF artifact # None /\ artifact.mod = mod
       THEN artifact' = None /\ rows' = NoRows /\ Forget
       ELSE UNCHANGED <<artifact, rows, history>>
  /\ mod' = None
  /\ UNCHANGED <<published, repo, lastId, req, saves, news>>

\* MavenRepository.delete, of a repository without artifacts.
DeleteRepository ==
  /\ repo /\ artifact = None
  /\ repo' = FALSE
  /\ UNCHANGED <<published, artifact, rows, mod, lastId, req, saves, news, history>>

NewRepository ==
  /\ ~ repo
  /\ repo' = TRUE
  /\ UNCHANGED <<published, artifact, rows, mod, lastId, req, saves, news, history>>

-----------------------------------------------------------------------------
(* Refreshing the versions                                                 *)

\* The page, the write API, or list_versions of a build reads the artifact ...
Refresh(w) ==
  /\ req[w].pc = "idle"
  /\ artifact # None
  /\ Request(w, [pc |-> "fetch", id |-> artifact.id, rule |-> artifact.rule,
                 creates |-> FALSE])
  /\ UNCHANGED <<published, store, saves, news, history>>

\* ... and waits for the metadata, which name a version at least.
Fetch(w) ==
  /\ req[w].pc = "fetch"
  /\ published # {}
  /\ Request(w, [pc |-> "sync", id |-> req[w].id, rule |-> req[w].rule,
                 creates |-> req[w].creates, list |-> published])
  /\ UNCHANGED <<published, store, saves, news, history>>

FetchFails(w) ==
  /\ req[w].pc = "fetch" /\ ~ req[w].creates
  /\ Ends(w)
  /\ UNCHANGED <<published, store, saves, news, history>>

\* A slip: a correction is refreshed like every other row.
SyncedAnyway(u, row, r) ==
  IF u \in r.list THEN With([available |-> TRUE], Ruled(u, r.rule))
  ELSE IF row # None THEN [row EXCEPT !.available = FALSE] ELSE None

\* Versions that the list does not name stay, and are not available.
Synced(u, row, r) ==
  IF u \in r.list
    THEN IF row # None /\ row.source = "MANUAL" THEN [row EXCEPT !.available = TRUE]
         ELSE With([available |-> TRUE], Ruled(u, r.rule))
    ELSE IF row # None THEN [row EXCEPT !.available = FALSE] ELSE None

\* MavenVersion.sync.
Sync(w) ==
  /\ req[w].pc = "sync"
  /\ LET r == req[w]
         mine == artifact # None /\ artifact.id = r.id
     IN /\ rows' = IF mine THEN [u \in Upstream |-> Synced(u, rows[u], r)] ELSE rows
        /\ behind' = IF ~ mine THEN behind
                     ELSE IF r.rule = artifact.rule THEN behind \ r.list
                     ELSE behind \cup r.list
        /\ Request(w, IF r.creates THEN [pc |-> "import", id |-> r.id, made |-> TRUE]
                      ELSE Idle)
  /\ UNCHANGED <<published, repo, artifact, mod, lastId, saves, news, chosen, overtaken>>

-----------------------------------------------------------------------------
(* Rules and corrections                                                   *)

Saves == saves < MaxSaves /\ saves' = saves + 1

\* The write API reads the artifact first, and takes what the request does not
\* name from there.
ReadRule(w) ==
  /\ req[w].pc = "idle"
  /\ artifact # None
  /\ Saves
  /\ \E mode \in Modes, loader \in Loaders :
       \E rule \in {[artifact.rule EXCEPT !.mode = mode],
                    [artifact.rule EXCEPT !.loader = loader],
                    [mode |-> mode, loader |-> loader]} :
         Request(w, [pc |-> "rule", id |-> artifact.id, rule |-> rule])
  /\ UNCHANGED <<published, store, news, history>>

\* update_rule stores the rule in a transaction of its own ...
SaveRule(w) ==
  /\ req[w].pc = "rule"
  /\ IF artifact # None /\ artifact.id = req[w].id
       THEN /\ artifact' = [artifact EXCEPT !.rule = req[w].rule]
            /\ behind' = {u \in Upstream : rows[u] # None}
            /\ Request(w, [req[w] EXCEPT !.pc = "reread"])
       ELSE UNCHANGED <<artifact, behind>> /\ Ends(w)
  /\ UNCHANGED <<published, repo, rows, mod, lastId, saves, news, chosen, overtaken>>

\* ... reads the artifact again ...
Reread(w) ==
  /\ req[w].pc = "reread"
  /\ IF artifact # None /\ artifact.id = req[w].id
       THEN Request(w, [req[w] EXCEPT !.pc = "select", !.rule = artifact.rule])
       ELSE Ends(w)
  /\ UNCHANGED <<published, store, saves, news, history>>

\* A slip: a new rule passes by the versions that are not available.
ReappliableNow == {u \in Upstream : rows[u] # None /\ rows[u].source # "MANUAL"
                                      /\ rows[u].available}

Reappliable == {u \in Upstream : rows[u] # None /\ rows[u].source # "MANUAL"}

\* History: the versions that a new rule is for.
Uncorrected == {u \in Upstream : rows[u] # None /\ rows[u].source # "MANUAL"}

\* ... and reapply_rule looks for the versions without a correction ...
Select(w) ==
  /\ req[w].pc = "select"
  /\ LET mine == artifact # None /\ artifact.id = req[w].id
     IN Request(w, [pc |-> "reapply", id |-> req[w].id, rule |-> req[w].rule,
                    ids |-> IF mine THEN Reappliable ELSE {},
                    seen |-> IF mine THEN Uncorrected ELSE {}])
  /\ UNCHANGED <<published, store, saves, news, history>>

\* ... which it updates by their ids.
Reapply(w) ==
  /\ req[w].pc = "reapply"
  /\ LET r == req[w]
         mine == artifact # None /\ artifact.id = r.id
     IN /\ rows' = IF mine THEN [u \in Upstream |-> IF u \in r.ids
                                   THEN With(rows[u], Ruled(u, r.rule)) ELSE rows[u]]
                   ELSE rows
        /\ behind' = IF ~ mine THEN behind
                     ELSE IF r.rule = artifact.rule THEN behind \ r.seen
                     ELSE behind \cup r.seen
  /\ Ends(w)
  /\ UNCHANGED <<published, repo, artifact, mod, lastId, saves, news, chosen, overtaken>>

\* update_manual: an enabled version needs a mapping.  A row that the update
\* does not change is taken for one that is gone.
SaveMapping == \E u \in Upstream, m \in Corrections \cup {None},
                  loader \in Loaders, enabled \in BOOLEAN :
  LET said == [map |-> m, loader |-> loader, enabled |-> enabled, source |-> "MANUAL"]
  IN /\ Saves
     /\ enabled => m # None
     /\ rows[u] # None /\ Says(rows[u]) # said
     /\ rows' = [rows EXCEPT ![u] = With(@, said)]
     /\ chosen' = [chosen EXCEPT ![u] = said]
     /\ overtaken' = IF \E w \in Workers : req[w].pc = "reapply" /\ u \in req[w].ids
                       THEN overtaken \cup {u} ELSE overtaken \ {u}
     /\ UNCHANGED <<published, repo, artifact, mod, lastId, req, news, behind>>

\* The process ends between two transactions.
Crash(w) ==
  /\ req[w].pc # "idle"
  /\ Ends(w)
  /\ UNCHANGED <<published, store, saves, news, history>>

-----------------------------------------------------------------------------

Next ==
  \/ News \/ DeleteMod \/ DeleteRepository \/ NewRepository \/ SaveMapping
  \/ \E w \in Workers :
       \/ NewArtifact(w) \/ ResumeArtifact(w) \/ ImportMod(w) \/ Attach(w)
       \/ CreationFails(w) \/ Undo(w)
       \/ Refresh(w) \/ Fetch(w) \/ FetchFails(w) \/ Sync(w)
       \/ ReadRule(w) \/ SaveRule(w) \/ Reread(w) \/ Select(w) \/ Reapply(w)
       \/ Crash(w)

Spec == Init /\ [][Next]_vars

-----------------------------------------------------------------------------
(* Properties                                                              *)

\* The rows are well formed, an enabled version has a mapping, and an artifact
\* is attached to the mod that names it.
TypeOK ==
  /\ rows \in [Upstream -> Row \cup {None}]
  /\ \A u \in Upstream : rows[u] # None /\ rows[u].enabled => rows[u].map # None
  /\ artifact = None => rows = NoRows
  /\ artifact # None => /\ artifact.id \in 1..lastId
                        /\ artifact.rule \in Rules
                        /\ artifact.mod \in {None, artifact.id}

\* A correction stays as it was saved, whatever the refreshes and new rules of
\* other requests do, unless a new rule had looked for its rows before the
\* correction and writes them after it (sync and reapply_rule against
\* update_manual).
ManualKept ==
  \A u \in Upstream :
    chosen[u] # None /\ u \notin overtaken => rows[u] # None /\ Says(rows[u]) = chosen[u]

\* Every other row, available or not, says what the rule of the artifact says,
\* except for those that a request with an older rule wrote since the rule was
\* saved, or that the saving request has not reached (update_rule against
\* sync).
RuleFollowed ==
  \A u \in Upstream :
    rows[u] # None /\ rows[u].source # "MANUAL" /\ u \notin behind
      => Says(rows[u]) = Ruled(u, artifact.rule)

=============================================================================
