----------------------------- MODULE MavenProofs -----------------------------
(***************************************************************************)
(* Proofs about Maven: whatever refreshes, new rules, corrections, crashes *)
(* and deletions interleave, by any number of workers, the rows are well   *)
(* formed, a correction stays as it was saved, and every other row says    *)
(* what the rule says, with the exceptions that the histories record.      *)
(*                                                                         *)
(* None of the three is inductive by itself.  A worker that writes rows by *)
(* their ids (Reapply) must find them, so the rows that it looked up are   *)
(* there as long as the artifact is the one that it read; the ids of       *)
(* artifacts are not used again, so that no worker holds the id of an      *)
(* artifact that is yet to come; and a row that a worker is about to write *)
(* and that a user has corrected since is known to be overtaken (Targets). *)
(***************************************************************************)
EXTENDS Maven, TLAPS

Said == [map : Mappings, loader : Loaders, enabled : BOOLEAN, source : Sources]

Requests ==
  [pc : {"idle"}]
    \cup [pc : {"fetch"}, id : Nat, rule : Rules, creates : BOOLEAN]
    \cup [pc : {"sync"}, id : Nat, rule : Rules, creates : BOOLEAN, list : SUBSET Upstream]
    \cup [pc : {"import", "attach", "undo"}, id : Nat, made : BOOLEAN]
    \cup [pc : {"rule", "reread", "select"}, id : Nat, rule : Rules]
    \cup [pc : {"reapply"}, id : Nat, rule : Rules, ids : SUBSET Upstream,
          seen : SUBSET Upstream]

Artifacts == [id : Nat, rule : Rules, mod : Nat \cup {None}]

\* Requests are well formed; what users saved are corrections.
Shapes ==
  /\ published \subseteq Upstream
  /\ lastId \in Nat
  /\ req \in [Workers -> Requests]
  /\ artifact # None => artifact \in Artifacts
  /\ DOMAIN chosen = Upstream
  /\ \A u \in Upstream : chosen[u] # None => chosen[u] \in Said /\ chosen[u].source = "MANUAL"

\* A worker holds the id of an artifact that was made.
Known == \A w \in Workers : req[w].pc # "idle" => req[w].id <= lastId

\* What a worker that writes rows by their ids may rely on.
Target(r, a, rs, cs, over) ==
  r.pc = "reapply" =>
    /\ r.seen = r.ids
    /\ a # None /\ a.id = r.id => \A u \in r.ids : rs[u] # None
    /\ \A u \in r.ids : cs[u] # None => u \in over

Targets == \A w \in Workers : Target(req[w], artifact, rows, chosen, overtaken)

IInv == TypeOK /\ Shapes /\ Known /\ Targets /\ ManualKept /\ RuleFollowed

USE MavenAssumption

-----------------------------------------------------------------------------
(* Rows and what is said of them                                           *)

\* What a rule says of a version is well formed, and no correction.
LEMMA RuledSays ==
  ASSUME NEW u \in Upstream, NEW rule \in Rules
  PROVE  /\ Ruled(u, rule) \in Said
         /\ Ruled(u, rule).enabled => Ruled(u, rule).map # None
         /\ Ruled(u, rule).source # "MANUAL"
<1>1. Split(u, rule) \in Mappings
  <2>1. CASE rule.mode = "EMBEDDED"
    BY <2>1 DEF Split, Mappings
  <2>2. CASE rule.mode = "FIXED"
    BY <2>2 DEF Split, Mappings
  <2>3. CASE rule.mode = "MANUAL"
    BY <2>3 DEF Split, Mappings
  <2>4. rule.mode \in Modes
    BY DEF Rules
  <2>5. QED
    BY <2>1, <2>2, <2>3, <2>4 DEF Modes
<1>2. rule.loader \in Loaders
  BY DEF Rules
<1>3. PICK m \in Mappings : m = Split(u, rule)
  BY <1>1
<1>4. CASE m # None
  <2>1. Ruled(u, rule) = [map |-> m, loader |-> rule.loader, enabled |-> TRUE,
                          source |-> "RULE"]
    BY <1>3, <1>4 DEF Ruled
  <2>2. QED
    BY <1>2, <1>4, <2>1 DEF Said, Sources
<1>5. CASE m = None
  <2>1. Ruled(u, rule) = [map |-> m, loader |-> rule.loader, enabled |-> FALSE,
                          source |-> "UNMAPPED"]
    BY <1>3, <1>5 DEF Ruled
  <2>2. QED
    BY <1>2, <2>1 DEF Said, Sources
<1>6. QED
  BY <1>4, <1>5

\* A row that says something is a row, and says that.
LEMMA WithSays ==
  ASSUME NEW said \in Said, NEW row, row.available \in BOOLEAN
  PROVE  /\ With(row, said) \in Row
         /\ With(row, said) # None
         /\ Says(With(row, said)) = said
         /\ With(row, said).enabled = said.enabled
         /\ With(row, said).map = said.map
         /\ With(row, said).source = said.source
  BY DEF With, Says, Said, Row

\* Whether a version is available is nothing that its row says.
LEMMA OnlyAvailable ==
  ASSUME NEW row \in Row, NEW b \in BOOLEAN
  PROVE  /\ [row EXCEPT !.available = b] \in Row
         /\ [row EXCEPT !.available = b] # None
         /\ Says([row EXCEPT !.available = b]) = Says(row)
         /\ [row EXCEPT !.available = b].enabled = row.enabled
         /\ [row EXCEPT !.available = b].map = row.map
         /\ [row EXCEPT !.available = b].source = row.source
  BY DEF Says, Row

-----------------------------------------------------------------------------
(* The steps                                                               *)

LEMMA InitInv == Init => IInv
<1>. SUFFICES ASSUME Init PROVE IInv
  OBVIOUS
<1>1. /\ \A u \in Upstream : rows[u] = None /\ chosen[u] = None
      /\ DOMAIN chosen = Upstream
  BY DEF Init, NoRows
<1>2. TypeOK
  BY <1>1 DEF Init, TypeOK, NoRows
<1>3. Shapes /\ Known /\ Targets
  BY <1>1 DEF Init, Shapes, Known, Targets, Target, Requests, Idle
<1>4. ManualKept /\ RuleFollowed
  BY <1>1 DEF ManualKept, RuleFollowed
<1>5. QED
  BY <1>2, <1>3, <1>4 DEF IInv

\* A worker goes on to a request that is well formed, of an artifact that was made.
LEMMA Goes ==
  ASSUME Shapes, Known, NEW w \in Workers, NEW r \in Requests, Request(w, r),
         lastId' \in Nat, lastId <= lastId', r.pc # "idle" => r.id <= lastId'
  PROVE  /\ req' \in [Workers -> Requests]
         /\ Known'
         /\ req'[w] = r
         /\ \A v \in Workers : v # w => req'[v] = req[v]
<1>1. /\ req' \in [Workers -> Requests]
      /\ req'[w] = r
      /\ \A v \in Workers : v # w => req'[v] = req[v]
  BY DEF Shapes, Request
<1>2. ASSUME NEW v \in Workers, req'[v].pc # "idle" PROVE req'[v].id <= lastId'
  <2>1. CASE v = w
    BY <1>1, <1>2, <2>1
  <2>2. CASE v # w
    <3>1. req'[v] = req[v] /\ req[v].id <= lastId
      BY <1>1, <1>2, <2>2 DEF Known
    <3>2. req[v].id \in Nat
      BY <1>1, <1>2, <2>2, <3>1 DEF Requests, Shapes
    <3>3. lastId \in Nat
      BY DEF Shapes
    <3>4. QED
      BY <3>1, <3>2, <3>3
  <2>3. QED
    BY <2>1, <2>2
<1>3. QED
  BY <1>1, <1>2 DEF Known

LEMMA IdleRequest == Idle \in Requests /\ Idle.pc = "idle"
  BY DEF Idle, Requests

\* What does not change the artifact, its rows or the histories, and begins no
\* writing of rows, preserves the invariant.
LEMMA Elsewhere ==
  ASSUME IInv, NEW w \in Workers, NEW r \in Requests, Request(w, r),
         r.pc # "idle" => r.id <= lastId, r.pc # "reapply",
         published' = published,
         artifact' = artifact, rows' = rows, lastId' = lastId, history' = history
  PROVE  IInv'
<1>1. /\ chosen' = chosen /\ overtaken' = overtaken /\ behind' = behind
  BY DEF history
<1>2. /\ req' \in [Workers -> Requests] /\ Known'
      /\ req'[w] = r
      /\ \A v \in Workers : v # w => req'[v] = req[v]
  <2>1. Shapes /\ Known /\ lastId' \in Nat /\ lastId <= lastId'
    BY DEF IInv, Shapes
  <2>2. r.pc # "idle" => r.id <= lastId'
    OBVIOUS
  <2>3. QED
    BY <2>1, <2>2, Goes
<1>3. TypeOK' /\ ManualKept' /\ RuleFollowed'
  BY <1>1 DEF IInv, TypeOK, ManualKept, RuleFollowed
<1>4. Shapes'
  BY <1>1, <1>2 DEF IInv, Shapes
<1>5. Targets'
  <2>. SUFFICES ASSUME NEW v \in Workers
                PROVE  Target(req'[v], artifact, rows, chosen, overtaken)
    BY <1>1 DEF Targets
  <2>1. CASE v = w
    BY <1>2, <2>1 DEF Target
  <2>2. CASE v # w
    BY <1>2, <2>2 DEF IInv, Targets
  <2>3. QED
    BY <2>1, <2>2
<1>6. QED
  BY <1>2, <1>3, <1>4, <1>5 DEF IInv

\* The same of a step that no worker takes.
LEMMA Apart ==
  ASSUME IInv, published' \subseteq Upstream, req' = req,
         artifact' = artifact, rows' = rows, lastId' = lastId, history' = history
  PROVE  IInv'
  BY DEF IInv, Shapes, Known, Targets, Target, TypeOK, ManualKept, RuleFollowed, history

\* An artifact goes, and its rows with it.
LEMMA ArtifactGoes ==
  ASSUME IInv, artifact' = None, rows' = NoRows, Forget,
         published' = published, lastId' = lastId,
         req' \in [Workers -> Requests], Known',
         \A v \in Workers : req'[v] = req[v] \/ req'[v].pc # "reapply"
  PROVE  IInv'
<1>1. /\ \A u \in Upstream : rows'[u] = None /\ chosen'[u] = None
      /\ DOMAIN chosen' = Upstream
  BY DEF Forget, NoRows
<1>2. TypeOK'
  BY <1>1 DEF TypeOK, NoRows
<1>3. Shapes'
  BY <1>1 DEF IInv, Shapes
<1>4. ASSUME NEW v \in Workers
      PROVE  Target(req[v], artifact, rows, chosen, overtaken)'
  <2>1. CASE req'[v].pc # "reapply"
    BY <2>1 DEF Target
  <2>2. CASE req'[v] = req[v]
    <3>1. Target(req[v], artifact, rows, chosen, overtaken) /\ req'[v] = req[v]
      BY <2>2 DEF IInv, Targets
    <3>2. req[v] \in Requests
      BY DEF IInv, Shapes
    <3>3. req[v].pc = "reapply" => req[v].ids \subseteq Upstream
      BY <3>2 DEF Requests
    <3>4. QED
      BY <1>1, <3>1, <3>3 DEF Target
  <2>3. QED
    BY <2>1, <2>2
<1>5. ManualKept' /\ RuleFollowed'
  BY <1>1 DEF ManualKept, RuleFollowed
<1>6. QED
  BY <1>2, <1>3, <1>4, <1>5 DEF IInv, Targets

\* What is known of a request in a state that the invariant allows.
LEMMA Holding ==
  ASSUME IInv, NEW w \in Workers
  PROVE  /\ req[w] \in Requests
         /\ req[w].pc # "idle" => req[w].id \in Nat /\ req[w].id <= lastId
         /\ req[w].pc \in {"fetch", "sync", "rule", "reread", "select", "reapply"}
              => req[w].rule \in Rules
         /\ req[w].pc \in {"fetch", "sync"} => req[w].creates \in BOOLEAN
         /\ req[w].pc \in {"import", "attach", "undo"} => req[w].made \in BOOLEAN
         /\ req[w].pc = "sync" => req[w].list \subseteq Upstream
         /\ req[w].pc = "reapply" => req[w].ids \subseteq Upstream
<1>1. req[w] \in Requests
  BY DEF IInv, Shapes
<1>2. req[w].pc # "idle" => req[w].id <= lastId
  BY DEF IInv, Known
<1>3. QED
  BY <1>1, <1>2 DEF Requests

\* The artifact that is there.
LEMMA Artifact ==
  ASSUME IInv, artifact # None
  PROVE  /\ artifact.id \in Nat /\ artifact.id <= lastId /\ lastId \in Nat
         /\ artifact.rule \in Rules /\ artifact.mod \in {None, artifact.id}
         /\ artifact \in Artifacts
  BY DEF IInv, TypeOK, Shapes

LEMMA ResumeArtifactInv == ASSUME IInv, NEW w \in Workers, ResumeArtifact(w) PROVE IInv'
<1>1. PICK r : r = [pc |-> "import", id |-> artifact.id, made |-> FALSE]
  OBVIOUS
<1>2. Request(w, r) /\ artifact # None
  BY <1>1 DEF ResumeArtifact
<1>3. r \in Requests /\ r.id <= lastId /\ r.pc # "reapply"
  BY <1>1, <1>2, Artifact DEF Requests
<1>4. QED
  BY <1>2, <1>3, Elsewhere DEF ResumeArtifact, store

LEMMA ImportModInv == ASSUME IInv, NEW w \in Workers, ImportMod(w) PROVE IInv'
<1>1. req[w].pc = "import" /\ req[w] \in Requests /\ req[w].id <= lastId
  BY Holding DEF ImportMod
<1>2. PICK pc \in {"attach", "undo"} : Request(w, [req[w] EXCEPT !.pc = pc])
  BY DEF ImportMod
<1>3. /\ [req[w] EXCEPT !.pc = pc] \in Requests
      /\ [req[w] EXCEPT !.pc = pc].id <= lastId
      /\ [req[w] EXCEPT !.pc = pc].pc # "reapply"
  BY <1>1 DEF Requests
<1>4. QED
  BY <1>2, <1>3, Elsewhere DEF ImportMod

LEMMA CreationFailsInv == ASSUME IInv, NEW w \in Workers, CreationFails(w) PROVE IInv'
<1>1. /\ req[w].pc \in {"fetch", "sync", "import", "attach"}
      /\ req[w].id \in Nat /\ req[w].id <= lastId
      /\ req[w].pc \in {"import", "attach"} => req[w].made \in BOOLEAN
  BY Holding DEF CreationFails
<1>2. PICK b \in BOOLEAN :
        b = IF req[w].pc \in {"fetch", "sync"} THEN TRUE ELSE req[w].made
  BY <1>1
<1>3. PICK r : r = [pc |-> "undo", id |-> req[w].id, made |-> b]
  OBVIOUS
<1>4. r \in Requests /\ r.id <= lastId /\ r.pc # "reapply"
  BY <1>1, <1>3 DEF Requests
<1>5. Request(w, r)
  BY <1>2, <1>3 DEF CreationFails
<1>6. QED
  BY <1>4, <1>5, Elsewhere DEF CreationFails, store

LEMMA RefreshInv == ASSUME IInv, NEW w \in Workers, Refresh(w) PROVE IInv'
<1>1. PICK r : r = [pc |-> "fetch", id |-> artifact.id, rule |-> artifact.rule,
                    creates |-> FALSE]
  OBVIOUS
<1>2. Request(w, r) /\ artifact # None
  BY <1>1 DEF Refresh
<1>3. r \in Requests /\ r.id <= lastId /\ r.pc # "reapply"
  BY <1>1, <1>2, Artifact DEF Requests
<1>4. QED
  BY <1>2, <1>3, Elsewhere DEF Refresh, store

LEMMA FetchInv == ASSUME IInv, NEW w \in Workers, Fetch(w) PROVE IInv'
<1>1. PICK r : r = [pc |-> "sync", id |-> req[w].id, rule |-> req[w].rule,
                    creates |-> req[w].creates, list |-> published]
  OBVIOUS
<1>2. Request(w, r) /\ req[w].pc = "fetch" /\ published \subseteq Upstream
  BY <1>1 DEF Fetch, IInv, Shapes
<1>3. r \in Requests /\ r.id <= lastId /\ r.pc # "reapply"
  BY <1>1, <1>2, Holding DEF Requests
<1>4. QED
  BY <1>2, <1>3, Elsewhere DEF Fetch, store

LEMMA FetchFailsInv == ASSUME IInv, NEW w \in Workers, FetchFails(w) PROVE IInv'
  BY IdleRequest, Elsewhere DEF FetchFails, Ends, store

LEMMA CrashInv == ASSUME IInv, NEW w \in Workers, Crash(w) PROVE IInv'
  BY IdleRequest, Elsewhere DEF Crash, Ends, store

LEMMA ReadRuleInv == ASSUME IInv, NEW w \in Workers, ReadRule(w) PROVE IInv'
<1>1. artifact # None /\ artifact.rule \in Rules
  BY Artifact DEF ReadRule
<1>2. PICK mode \in Modes, loader \in Loaders :
        \E rule \in {[artifact.rule EXCEPT !.mode = mode],
                     [artifact.rule EXCEPT !.loader = loader],
                     [mode |-> mode, loader |-> loader]} :
          Request(w, [pc |-> "rule", id |-> artifact.id, rule |-> rule])
  BY DEF ReadRule
<1>3. PICK rule \in Rules :
        Request(w, [pc |-> "rule", id |-> artifact.id, rule |-> rule])
  BY <1>1, <1>2 DEF Rules
<1>4. PICK r : r = [pc |-> "rule", id |-> artifact.id, rule |-> rule]
  OBVIOUS
<1>5. r \in Requests /\ r.id <= lastId /\ r.pc # "reapply"
  BY <1>1, <1>4, Artifact DEF Requests
<1>6. Request(w, r)
  BY <1>3, <1>4
<1>7. QED
  BY <1>5, <1>6, Elsewhere DEF ReadRule, store

LEMMA RereadInv == ASSUME IInv, NEW w \in Workers, Reread(w) PROVE IInv'
<1>1. req[w].pc = "reread" /\ req[w] \in Requests /\ req[w].id <= lastId
  BY Holding DEF Reread
<1>2. CASE artifact # None /\ artifact.id = req[w].id
  <2>1. PICK r : r = [req[w] EXCEPT !.pc = "select", !.rule = artifact.rule]
    OBVIOUS
  <2>2. r \in Requests /\ r.id <= lastId /\ r.pc # "reapply"
    BY <1>1, <1>2, <2>1, Artifact DEF Requests
  <2>3. Request(w, r)
    BY <1>2, <2>1 DEF Reread
  <2>4. QED
    BY <2>2, <2>3, Elsewhere DEF Reread, store
<1>3. CASE ~ (artifact # None /\ artifact.id = req[w].id)
  BY <1>3, IdleRequest, Elsewhere DEF Reread, Ends, store
<1>4. QED
  BY <1>2, <1>3

LEMMA UndoInv == ASSUME IInv, NEW w \in Workers, Undo(w) PROVE IInv'
<1>1. /\ req' \in [Workers -> Requests] /\ Known'
      /\ \A v \in Workers : req'[v] = req[v] \/ req'[v].pc # "reapply"
  <2>1. Shapes /\ Known /\ lastId' \in Nat /\ lastId <= lastId' /\ Request(w, Idle)
    BY DEF IInv, Shapes, Undo, Ends
  <2>2. /\ req' \in [Workers -> Requests] /\ Known' /\ req'[w] = Idle
        /\ \A v \in Workers : v # w => req'[v] = req[v]
    BY <2>1, IdleRequest, Goes
  <2>3. QED
    BY <2>2, IdleRequest
<1>2. CASE req[w].made /\ artifact # None /\ artifact.id = req[w].id /\ artifact.mod = None
  <2>1. artifact' = None /\ rows' = NoRows /\ Forget
    BY <1>2 DEF Undo
  <2>2. QED
    BY <1>1, <2>1, ArtifactGoes DEF Undo
<1>3. CASE ~ (req[w].made /\ artifact # None /\ artifact.id = req[w].id /\ artifact.mod = None)
  BY <1>3, IdleRequest, Elsewhere DEF Undo, Ends
<1>4. QED
  BY <1>2, <1>3

LEMMA DeleteModInv == ASSUME IInv, DeleteMod PROVE IInv'
<1>1. req' \in [Workers -> Requests] /\ Known' /\ published' \subseteq Upstream
  BY DEF DeleteMod, IInv, Shapes, Known
<1>2. CASE artifact # None /\ artifact.mod = mod
  <2>1. artifact' = None /\ rows' = NoRows /\ Forget
    BY <1>2 DEF DeleteMod
  <2>2. QED
    BY <1>1, <2>1, ArtifactGoes DEF DeleteMod
<1>3. CASE ~ (artifact # None /\ artifact.mod = mod)
  BY <1>1, <1>3, Apart DEF DeleteMod
<1>4. QED
  BY <1>2, <1>3

LEMMA NewArtifactInv == ASSUME IInv, NEW w \in Workers, NewArtifact(w) PROVE IInv'
<1>1. /\ artifact = None /\ lastId \in Nat /\ lastId' = lastId + 1
      /\ rows' = NoRows /\ Forget /\ published' = published
  BY DEF NewArtifact, IInv, Shapes
<1>2. /\ \A u \in Upstream : rows'[u] = None /\ chosen'[u] = None
      /\ DOMAIN chosen' = Upstream
  BY <1>1 DEF Forget, NoRows
<1>3. PICK rule \in Rules :
        /\ artifact' = [id |-> lastId + 1, rule |-> rule, mod |-> None]
        /\ Request(w, [pc |-> "fetch", id |-> lastId + 1, rule |-> rule, creates |-> TRUE])
  BY DEF NewArtifact
<1>4. PICK r : r = [pc |-> "fetch", id |-> lastId + 1, rule |-> rule, creates |-> TRUE]
  OBVIOUS
<1>5. /\ artifact' \in Artifacts /\ artifact' # None /\ artifact'.id = lastId + 1
      /\ artifact'.rule \in Rules /\ artifact'.mod = None
  BY <1>1, <1>3 DEF Artifacts
<1>6. /\ req' \in [Workers -> Requests] /\ Known'
      /\ req'[w] = r
      /\ \A v \in Workers : v # w => req'[v] = req[v]
  <2>1. Shapes /\ Known /\ lastId' \in Nat /\ lastId <= lastId'
    BY <1>1 DEF IInv
  <2>2. r \in Requests /\ r.id <= lastId' /\ Request(w, r)
    BY <1>1, <1>3, <1>4 DEF Requests
  <2>3. QED
    BY <2>1, <2>2, Goes
<1>7. TypeOK'
  BY <1>1, <1>2, <1>5 DEF TypeOK, NoRows
<1>8. Shapes'
  BY <1>1, <1>2, <1>5, <1>6 DEF IInv, Shapes
<1>9. ASSUME NEW v \in Workers
      PROVE  Target(req[v], artifact, rows, chosen, overtaken)'
  <2>1. CASE v = w
    BY <1>4, <1>6, <2>1 DEF Target
  <2>2. CASE v # w
    <3>1. Target(req[v], artifact, rows, chosen, overtaken) /\ req'[v] = req[v]
      BY <1>6, <2>2 DEF IInv, Targets
    <3>2. req[v].pc = "reapply" => /\ req[v].ids \subseteq Upstream
                                   /\ req[v].id # lastId + 1
      BY <1>1, Holding
    <3>3. QED
      BY <1>2, <1>5, <3>1, <3>2 DEF Target
  <2>3. QED
    BY <2>1, <2>2
<1>10. ManualKept' /\ RuleFollowed'
  BY <1>2 DEF ManualKept, RuleFollowed
<1>11. QED
  BY <1>6, <1>7, <1>8, <1>9, <1>10 DEF IInv, Targets

\* Every other request is idle after the step, or what it was.
LEMMA Ending ==
  ASSUME IInv, NEW w \in Workers, Ends(w), lastId' = lastId
  PROVE  /\ req' \in [Workers -> Requests] /\ Known'
         /\ req'[w].pc = "idle"
         /\ \A v \in Workers : v # w => req'[v] = req[v]
<1>1. Shapes /\ Known /\ lastId' \in Nat /\ lastId <= lastId' /\ Request(w, Idle)
  BY DEF IInv, Shapes, Ends
<1>2. QED
  BY <1>1, IdleRequest, Goes

LEMMA AttachInv == ASSUME IInv, NEW w \in Workers, Attach(w) PROVE IInv'
<1>1. CASE artifact # None /\ artifact.id = req[w].id
  <2>1. /\ artifact' = [artifact EXCEPT !.mod = req[w].id]
        /\ artifact \in Artifacts /\ artifact.id = req[w].id
        /\ artifact.id \in Nat /\ artifact.id <= lastId
    BY <1>1, Artifact DEF Attach
  <2>2. /\ artifact' \in Artifacts /\ artifact' # None
        /\ artifact'.id = artifact.id /\ artifact'.rule = artifact.rule
        /\ artifact'.mod = artifact.id
    BY <2>1 DEF Artifacts
  <2>3. /\ published' = published /\ rows' = rows /\ lastId' = lastId
        /\ chosen' = chosen /\ overtaken' = overtaken /\ behind' = behind
    BY DEF Attach, history
  <2>4. /\ req' \in [Workers -> Requests] /\ Known'
        /\ req'[w].pc = "idle"
        /\ \A v \in Workers : v # w => req'[v] = req[v]
    BY <2>3, Ending DEF Attach
  <2>5. TypeOK' /\ ManualKept' /\ RuleFollowed'
    BY <1>1, <2>2, <2>3 DEF IInv, TypeOK, ManualKept, RuleFollowed
  <2>6. Shapes'
    BY <2>2, <2>3, <2>4 DEF IInv, Shapes
  <2>7. ASSUME NEW v \in Workers
        PROVE  Target(req[v], artifact, rows, chosen, overtaken)'
    <3>1. Target(req[v], artifact, rows, chosen, overtaken)
      BY DEF IInv, Targets
    <3>2. CASE v = w
      BY <2>4, <3>2 DEF Target
    <3>3. CASE v # w
      BY <1>1, <2>2, <2>3, <2>4, <3>1, <3>3 DEF Target
    <3>4. QED
      BY <3>2, <3>3
  <2>8. QED
    BY <2>4, <2>5, <2>6, <2>7 DEF IInv, Targets
<1>2. CASE ~ (artifact # None /\ artifact.id = req[w].id)
  BY <1>2, IdleRequest, Elsewhere DEF Attach, Ends
<1>3. QED
  BY <1>1, <1>2

LEMMA SaveRuleInv == ASSUME IInv, NEW w \in Workers, SaveRule(w) PROVE IInv'
<1>1. CASE artifact # None /\ artifact.id = req[w].id
  <2>1. /\ artifact' = [artifact EXCEPT !.rule = req[w].rule]
        /\ artifact \in Artifacts /\ artifact.id <= lastId
        /\ req[w].rule \in Rules /\ req[w] \in Requests /\ req[w].id <= lastId
        /\ req[w].pc = "rule"
    BY <1>1, Artifact, Holding DEF SaveRule
  <2>2. /\ artifact' \in Artifacts /\ artifact' # None
        /\ artifact'.id = artifact.id /\ artifact'.rule \in Rules
        /\ artifact'.mod = artifact.mod
    BY <2>1 DEF Artifacts
  <2>3. /\ published' = published /\ rows' = rows /\ lastId' = lastId
        /\ chosen' = chosen /\ overtaken' = overtaken
        /\ behind' = {u \in Upstream : rows[u] # None}
    BY <1>1 DEF SaveRule
  <2>4. PICK r : r = [req[w] EXCEPT !.pc = "reread"]
    OBVIOUS
  <2>5. /\ req' \in [Workers -> Requests] /\ Known'
        /\ req'[w] = r /\ r.pc = "reread"
        /\ \A v \in Workers : v # w => req'[v] = req[v]
    <3>1. Shapes /\ Known /\ lastId' \in Nat /\ lastId <= lastId'
      BY <2>3 DEF IInv, Shapes
    <3>2. r \in Requests /\ r.id <= lastId' /\ r.pc = "reread"
      BY <2>1, <2>3, <2>4 DEF Requests
    <3>3. Request(w, r)
      BY <1>1, <2>4 DEF SaveRule
    <3>4. QED
      BY <3>1, <3>2, <3>3, Goes
  <2>6. TypeOK' /\ ManualKept' /\ RuleFollowed'
    BY <1>1, <2>2, <2>3 DEF IInv, TypeOK, ManualKept, RuleFollowed
  <2>7. Shapes'
    BY <2>2, <2>3, <2>5 DEF IInv, Shapes
  <2>8. ASSUME NEW v \in Workers
        PROVE  Target(req[v], artifact, rows, chosen, overtaken)'
    <3>1. Target(req[v], artifact, rows, chosen, overtaken)
      BY DEF IInv, Targets
    <3>2. CASE v = w
      BY <2>5, <3>2 DEF Target
    <3>3. CASE v # w
      BY <1>1, <2>2, <2>3, <2>5, <3>1, <3>3 DEF Target
    <3>4. QED
      BY <3>2, <3>3
  <2>9. QED
    BY <2>5, <2>6, <2>7, <2>8 DEF IInv, Targets
<1>2. CASE ~ (artifact # None /\ artifact.id = req[w].id)
  <2>1. artifact' = artifact /\ behind' = behind /\ Request(w, Idle)
    BY <1>2 DEF SaveRule, Ends
  <2>2. QED
    BY <2>1, IdleRequest, Elsewhere DEF SaveRule, history
<1>3. QED
  BY <1>1, <1>2

\* A row, or its absence, that the invariant allows.
Fine(row) == row \in Row \cup {None} /\ (row # None /\ row.enabled => row.map # None)

LEMMA FineRows ==
  ASSUME IInv, NEW u \in Upstream
  PROVE  Fine(rows[u]) /\ rows[u] \in Row \cup {None}
BY DEF IInv, TypeOK, Fine

\* What a refresh does to a row.
LEMMA SyncedRow ==
  ASSUME NEW u \in Upstream, NEW row, Fine(row), NEW r, r.rule \in Rules
  PROVE  /\ Fine(Synced(u, row, r))
         /\ row # None => Synced(u, row, r) # None
         /\ row # None /\ row.source = "MANUAL" =>
              Says(Synced(u, row, r)) = Says(row)
         /\ u \in r.list /\ Synced(u, row, r).source # "MANUAL" =>
              Says(Synced(u, row, r)) = Ruled(u, r.rule)
         /\ u \notin r.list /\ Synced(u, row, r) # None =>
              /\ row # None /\ Says(Synced(u, row, r)) = Says(row)
              /\ Synced(u, row, r).source = row.source
<1>1. CASE row = None /\ u \notin r.list
  <2>1. Synced(u, row, r) = None
    BY <1>1 DEF Synced
  <2>2. QED
    BY <1>1, <2>1 DEF Fine
<1>2. CASE row # None /\ (u \in r.list => row.source = "MANUAL")
  <2>1. PICK b \in BOOLEAN : Synced(u, row, r) = [row EXCEPT !.available = b]
    BY <1>2 DEF Synced
  <2>2. row \in Row
    BY <1>2 DEF Fine
  <2>3. /\ Synced(u, row, r) \in Row
        /\ Synced(u, row, r) # None
        /\ Says(Synced(u, row, r)) = Says(row)
        /\ Synced(u, row, r).enabled = row.enabled
        /\ Synced(u, row, r).map = row.map
        /\ Synced(u, row, r).source = row.source
    BY <2>1, <2>2, OnlyAvailable
  <2>4. QED
    BY <1>2, <2>3 DEF Fine
<1>3. CASE u \in r.list /\ ~ (row # None /\ row.source = "MANUAL")
  <2>1. PICK said : said = Ruled(u, r.rule)
    OBVIOUS
  <2>2. PICK new : new = [available |-> TRUE] /\ Synced(u, row, r) = With(new, said)
    BY <1>3, <2>1 DEF Synced
  <2>3. said \in Said /\ (said.enabled => said.map # None)
    BY <2>1, RuledSays
  <2>4. new.available \in BOOLEAN
    BY <2>2
  <2>5. /\ Synced(u, row, r) \in Row
        /\ Synced(u, row, r) # None
        /\ Says(Synced(u, row, r)) = said
        /\ Synced(u, row, r).enabled = said.enabled
        /\ Synced(u, row, r).map = said.map
    <3>1. /\ With(new, said) \in Row
          /\ With(new, said) # None
          /\ Says(With(new, said)) = said
          /\ With(new, said).enabled = said.enabled
          /\ With(new, said).map = said.map
      BY <2>3, <2>4, WithSays
    <3>2. QED
      BY <2>2, <3>1
  <2>6. QED
    BY <1>3, <2>1, <2>3, <2>5 DEF Fine
<1>4. QED
  BY <1>1, <1>2, <1>3

LEMMA SyncInv == ASSUME IInv, NEW w \in Workers, Sync(w) PROVE IInv'
<1>. DEFINE r == req[w]
<1>1. /\ r.pc = "sync" /\ r.id \in Nat /\ r.id <= lastId /\ r.rule \in Rules
      /\ r.list \subseteq Upstream /\ r.creates \in BOOLEAN
  BY Holding DEF Sync
<1>2. PICK q : q = IF r.creates THEN [pc |-> "import", id |-> r.id, made |-> TRUE] ELSE Idle
  OBVIOUS
<1>3. q \in Requests /\ (q.pc # "idle" => q.id <= lastId) /\ q.pc # "reapply"
  <2>1. CASE r.creates
    BY <1>1, <1>2, <2>1 DEF Requests
  <2>2. CASE ~ r.creates
    BY <1>2, <2>2, IdleRequest
  <2>3. QED
    BY <2>1, <2>2
<1>4. Request(w, q)
  BY <1>2 DEF Sync
<1>5. CASE ~ (artifact # None /\ artifact.id = r.id)
  <2>1. rows' = rows /\ behind' = behind
    BY <1>5 DEF Sync
  <2>2. QED
    BY <1>3, <1>4, <2>1, Elsewhere DEF Sync, history
<1>6. CASE artifact # None /\ artifact.id = r.id
  <2>1. /\ rows' = [u \in Upstream |-> Synced(u, rows[u], r)]
        /\ behind' = IF r.rule = artifact.rule THEN behind \ r.list ELSE behind \cup r.list
        /\ published' = published /\ artifact' = artifact /\ lastId' = lastId
        /\ chosen' = chosen /\ overtaken' = overtaken
    BY <1>6 DEF Sync
  <2>2. /\ req' \in [Workers -> Requests] /\ Known'
        /\ req'[w].pc # "reapply"
        /\ \A v \in Workers : v # w => req'[v] = req[v]
    <3>1. Shapes /\ Known /\ lastId' \in Nat /\ lastId <= lastId'
      BY <2>1 DEF IInv, Shapes
    <3>2. q.pc # "idle" => q.id <= lastId'
      BY <1>3, <2>1
    <3>3. QED
      BY <1>3, <1>4, <3>1, <3>2, Goes
  <2>. HIDE DEF r
  <2>3. ASSUME NEW u \in Upstream
        PROVE  /\ rows'[u] = Synced(u, rows[u], r)
               /\ Fine(rows'[u])
               /\ rows[u] # None => rows'[u] # None
               /\ rows[u] # None /\ rows[u].source = "MANUAL" => Says(rows'[u]) = Says(rows[u])
               /\ u \in r.list /\ rows'[u].source # "MANUAL" =>
                    Says(rows'[u]) = Ruled(u, r.rule)
               /\ u \notin r.list /\ rows'[u] # None =>
                    /\ rows[u] # None /\ Says(rows'[u]) = Says(rows[u])
                    /\ rows'[u].source = rows[u].source
    <3>1. rows'[u] = Synced(u, rows[u], r) /\ Fine(rows[u])
      BY <2>1, FineRows
    <3>2. QED
      BY <1>1, <3>1, SyncedRow
  <2>4. TypeOK'
    <3>1. rows' \in [Upstream -> Row \cup {None}]
      BY <2>1, <2>3 DEF Fine
    <3>2. \A u \in Upstream : rows'[u] # None /\ rows'[u].enabled => rows'[u].map # None
      BY <2>3 DEF Fine
    <3>3. QED
      BY <1>6, <2>1, <3>1, <3>2 DEF IInv, TypeOK
  <2>5. Shapes'
    BY <2>1, <2>2 DEF IInv, Shapes
  <2>6. ASSUME NEW v \in Workers
        PROVE  Target(req[v], artifact, rows, chosen, overtaken)'
    <3>1. Target(req[v], artifact, rows, chosen, overtaken)
      BY DEF IInv, Targets
    <3>2. CASE v = w
      BY <2>2, <3>2 DEF Target
    <3>3. CASE v # w
      <4>1. req[v].pc = "reapply" => req[v].ids \subseteq Upstream
        BY Holding
      <4>2. QED
        BY <2>1, <2>2, <2>3, <3>1, <3>3, <4>1 DEF Target
    <3>4. QED
      BY <3>2, <3>3
  <2>7. ManualKept'
    <3>. SUFFICES ASSUME NEW u \in Upstream, chosen[u] # None, u \notin overtaken
                  PROVE  rows'[u] # None /\ Says(rows'[u]) = chosen[u]
      BY <2>1 DEF ManualKept
    <3>1. rows[u] # None /\ Says(rows[u]) = chosen[u] /\ chosen[u].source = "MANUAL"
      BY DEF IInv, ManualKept, Shapes
    <3>2. rows[u].source = "MANUAL"
      BY <3>1 DEF Says
    <3>3. QED
      BY <2>3, <3>1, <3>2
  <2>8. RuleFollowed'
    <3>. SUFFICES ASSUME NEW u \in Upstream, rows'[u] # None,
                         rows'[u].source # "MANUAL", u \notin behind'
                  PROVE  Says(rows'[u]) = Ruled(u, artifact.rule)
      BY <2>1 DEF RuleFollowed
    <3>1. CASE u \in r.list
      BY <2>1, <2>3, <3>1
    <3>2. CASE u \notin r.list
      <4>1. /\ rows[u] # None /\ rows[u].source # "MANUAL" /\ u \notin behind
            /\ Says(rows'[u]) = Says(rows[u])
        BY <2>1, <2>3, <3>2
      <4>2. QED
        BY <4>1 DEF IInv, RuleFollowed
    <3>3. QED
      BY <3>1, <3>2
  <2>9. QED
    BY <2>2, <2>4, <2>5, <2>6, <2>7, <2>8 DEF IInv, Targets
<1>7. QED
  BY <1>5, <1>6

LEMMA SelectInv == ASSUME IInv, NEW w \in Workers, Select(w) PROVE IInv'
<1>1. /\ req[w].pc = "select" /\ req[w].id \in Nat /\ req[w].id <= lastId
      /\ req[w].rule \in Rules
  BY Holding DEF Select
<1>2. PICK ids : ids = IF artifact # None /\ artifact.id = req[w].id
                         THEN Reappliable ELSE {}
  OBVIOUS
<1>3. PICK r : r = [pc |-> "reapply", id |-> req[w].id, rule |-> req[w].rule,
                    ids |-> ids, seen |-> ids]
  OBVIOUS
<1>4. Request(w, r)
  BY <1>2, <1>3 DEF Select, Reappliable, Uncorrected
<1>5. ids \subseteq Upstream
  BY <1>2 DEF Reappliable
<1>6. /\ published' = published /\ artifact' = artifact /\ lastId' = lastId
      /\ rows' = rows /\ chosen' = chosen /\ overtaken' = overtaken /\ behind' = behind
  BY DEF Select, store, history
<1>7. /\ req' \in [Workers -> Requests] /\ Known'
      /\ req'[w] = r
      /\ \A v \in Workers : v # w => req'[v] = req[v]
  <2>1. Shapes /\ Known /\ lastId' \in Nat /\ lastId <= lastId'
    BY <1>6 DEF IInv, Shapes
  <2>2. r \in Requests /\ r.id <= lastId'
    BY <1>1, <1>3, <1>5, <1>6 DEF Requests
  <2>3. QED
    BY <1>4, <2>1, <2>2, Goes
<1>8. TypeOK' /\ ManualKept' /\ RuleFollowed'
  BY <1>6 DEF IInv, TypeOK, ManualKept, RuleFollowed
<1>9. Shapes'
  BY <1>6, <1>7 DEF IInv, Shapes
<1>10. ASSUME NEW v \in Workers
       PROVE  Target(req'[v], artifact, rows, chosen, overtaken)
  <2>1. CASE v = w
    <3>1. ASSUME NEW u \in ids
          PROVE  rows[u] # None /\ (chosen[u] # None => u \in overtaken)
      <4>1. u \in Upstream /\ rows[u] # None /\ rows[u].source # "MANUAL"
        BY <1>2, <3>1 DEF Reappliable
      <4>2. ASSUME chosen[u] # None, u \notin overtaken PROVE FALSE
        <5>1. Says(rows[u]) = chosen[u] /\ chosen[u].source = "MANUAL"
          BY <4>1, <4>2 DEF IInv, ManualKept, Shapes
        <5>2. QED
          BY <4>1, <5>1 DEF Says
      <4>3. QED
        BY <4>1, <4>2
    <3>2. r.ids = ids /\ r.seen = ids
      BY <1>3
    <3>3. QED
      BY <1>7, <2>1, <3>1, <3>2 DEF Target
  <2>2. CASE v # w
    BY <1>7, <2>2 DEF IInv, Targets
  <2>3. QED
    BY <2>1, <2>2
<1>11. QED
  BY <1>6, <1>7, <1>8, <1>9, <1>10 DEF IInv, Targets

LEMMA ReapplyInv == ASSUME IInv, NEW w \in Workers, Reapply(w) PROVE IInv'
<1>. DEFINE r == req[w]
<1>1. /\ r.pc = "reapply" /\ r.rule \in Rules /\ r.ids \subseteq Upstream
  BY Holding DEF Reapply
<1>2. CASE ~ (artifact # None /\ artifact.id = r.id)
  <2>1. rows' = rows /\ behind' = behind
    BY <1>2 DEF Reapply
  <2>2. QED
    BY <2>1, IdleRequest, Elsewhere DEF Reapply, Ends, history
<1>3. CASE artifact # None /\ artifact.id = r.id
  <2>1. /\ rows' = [u \in Upstream |-> IF u \in r.ids
                      THEN With(rows[u], Ruled(u, r.rule)) ELSE rows[u]]
        /\ behind' = IF r.rule = artifact.rule THEN behind \ r.seen ELSE behind \cup r.seen
        /\ published' = published /\ artifact' = artifact /\ lastId' = lastId
        /\ chosen' = chosen /\ overtaken' = overtaken
    BY <1>3 DEF Reapply
  <2>2. /\ req' \in [Workers -> Requests] /\ Known'
        /\ req'[w].pc = "idle"
        /\ \A v \in Workers : v # w => req'[v] = req[v]
    BY <2>1, Ending DEF Reapply
  <2>3. /\ r.seen = r.ids
        /\ \A u \in r.ids : rows[u] # None /\ (chosen[u] # None => u \in overtaken)
    BY <1>1, <1>3 DEF IInv, Targets, Target
  <2>. HIDE DEF r
  <2>4. ASSUME NEW u \in Upstream
        PROVE  /\ Fine(rows'[u])
               /\ rows[u] # None => rows'[u] # None
               /\ u \in r.ids => Says(rows'[u]) = Ruled(u, r.rule)
               /\ u \notin r.ids => rows'[u] = rows[u]
    <3>1. CASE u \in r.ids
      <4>1. PICK said : said = Ruled(u, r.rule)
        OBVIOUS
      <4>2. rows'[u] = With(rows[u], said)
        BY <2>1, <3>1, <4>1
      <4>3. said \in Said /\ (said.enabled => said.map # None)
        BY <1>1, <4>1, RuledSays
      <4>4. rows[u].available \in BOOLEAN
        BY <2>3, <3>1, FineRows DEF Row
      <4>5. /\ rows'[u] \in Row
            /\ rows'[u] # None
            /\ Says(rows'[u]) = said
            /\ rows'[u].enabled = said.enabled
            /\ rows'[u].map = said.map
        BY <4>2, <4>3, <4>4, WithSays
      <4>6. QED
        BY <3>1, <4>1, <4>3, <4>5 DEF Fine
    <3>2. CASE u \notin r.ids
      BY <2>1, <3>2, FineRows
    <3>3. QED
      BY <3>1, <3>2
  <2>5. TypeOK'
    <3>1. rows' \in [Upstream -> Row \cup {None}]
      BY <2>1, <2>4 DEF Fine
    <3>2. \A u \in Upstream : rows'[u] # None /\ rows'[u].enabled => rows'[u].map # None
      BY <2>4 DEF Fine
    <3>3. QED
      BY <1>3, <2>1, <3>1, <3>2 DEF IInv, TypeOK
  <2>6. Shapes'
    BY <2>1, <2>2 DEF IInv, Shapes
  <2>7. ASSUME NEW v \in Workers
        PROVE  Target(req[v], artifact, rows, chosen, overtaken)'
    <3>1. Target(req[v], artifact, rows, chosen, overtaken)
      BY DEF IInv, Targets
    <3>2. CASE v = w
      BY <2>2, <3>2 DEF Target
    <3>3. CASE v # w
      <4>1. req[v].pc = "reapply" => req[v].ids \subseteq Upstream
        BY Holding
      <4>2. QED
        BY <2>1, <2>2, <2>4, <3>1, <3>3, <4>1 DEF Target
    <3>4. QED
      BY <3>2, <3>3
  <2>8. ManualKept'
    <3>. SUFFICES ASSUME NEW u \in Upstream, chosen[u] # None, u \notin overtaken
                  PROVE  rows'[u] # None /\ Says(rows'[u]) = chosen[u]
      BY <2>1 DEF ManualKept
    <3>1. rows[u] # None /\ Says(rows[u]) = chosen[u]
      BY DEF IInv, ManualKept
    <3>2. u \notin r.ids
      BY <2>3
    <3>3. QED
      BY <2>4, <3>1, <3>2
  <2>9. RuleFollowed'
    <3>. SUFFICES ASSUME NEW u \in Upstream, rows'[u] # None,
                         rows'[u].source # "MANUAL", u \notin behind'
                  PROVE  Says(rows'[u]) = Ruled(u, artifact.rule)
      BY <2>1 DEF RuleFollowed
    <3>1. CASE u \in r.ids
      BY <2>1, <2>3, <2>4, <3>1
    <3>2. CASE u \notin r.ids
      <4>1. rows'[u] = rows[u] /\ u \notin behind
        BY <2>1, <2>3, <2>4, <3>2
      <4>2. QED
        BY <4>1 DEF IInv, RuleFollowed
    <3>3. QED
      BY <3>1, <3>2
  <2>10. QED
    BY <2>2, <2>5, <2>6, <2>7, <2>8, <2>9 DEF IInv, Targets
<1>4. QED
  BY <1>2, <1>3

LEMMA SaveMappingInv == ASSUME IInv, SaveMapping PROVE IInv'
<1>0. PICK u \in Upstream, m \in Corrections \cup {None}, loader \in Loaders,
           enabled \in BOOLEAN :
        LET said == [map |-> m, loader |-> loader, enabled |-> enabled,
                     source |-> "MANUAL"]
        IN /\ Saves
           /\ enabled => m # None
           /\ rows[u] # None /\ Says(rows[u]) # said
           /\ rows' = [rows EXCEPT ![u] = With(@, said)]
           /\ chosen' = [chosen EXCEPT ![u] = said]
           /\ overtaken' = IF \E w \in Workers : req[w].pc = "reapply" /\ u \in req[w].ids
                             THEN overtaken \cup {u} ELSE overtaken \ {u}
           /\ UNCHANGED <<published, repo, artifact, mod, lastId, req, news, behind>>
  BY Zenon DEF SaveMapping
<1>. DEFINE said == [map |-> m, loader |-> loader, enabled |-> enabled, source |-> "MANUAL"]
<1>1. /\ enabled => m # None
      /\ rows[u] # None
      /\ rows' = [rows EXCEPT ![u] = With(@, said)]
      /\ chosen' = [chosen EXCEPT ![u] = said]
      /\ overtaken' = IF \E w \in Workers : req[w].pc = "reapply" /\ u \in req[w].ids
                        THEN overtaken \cup {u} ELSE overtaken \ {u}
      /\ published' = published /\ artifact' = artifact /\ lastId' = lastId
      /\ req' = req /\ behind' = behind
  BY <1>0
<1>2. said \in Said /\ said.source = "MANUAL" /\ (said.enabled => said.map # None)
  <2>1. m \in Mappings
    BY DEF Mappings
  <2>2. QED
    BY <1>1, <2>1 DEF Said, Sources
<1>. HIDE DEF said
<1>3. /\ rows'[u] = With(rows[u], said) /\ chosen'[u] = said
      /\ \A x \in Upstream : x # u => rows'[x] = rows[x] /\ chosen'[x] = chosen[x]
      /\ DOMAIN rows' = Upstream /\ DOMAIN chosen' = Upstream
      /\ \A x : x # u => (x \in overtaken' <=> x \in overtaken)
  BY <1>1 DEF IInv, TypeOK, Shapes
<1>4. /\ rows'[u] \in Row
      /\ rows'[u] # None
      /\ Says(rows'[u]) = said
      /\ rows'[u].enabled = said.enabled
      /\ rows'[u].map = said.map
      /\ rows'[u].source = "MANUAL"
  <2>1. rows[u].available \in BOOLEAN
    BY <1>1, FineRows DEF Row
  <2>2. QED
    BY <1>2, <1>3, <2>1, WithSays
<1>5. TypeOK'
  <2>1. rows' \in [Upstream -> Row \cup {None}]
    BY <1>1, <1>4 DEF IInv, TypeOK
  <2>2. \A x \in Upstream : rows'[x] # None /\ rows'[x].enabled => rows'[x].map # None
    BY <1>2, <1>3, <1>4 DEF IInv, TypeOK
  <2>3. artifact # None
    BY <1>1 DEF IInv, TypeOK, NoRows
  <2>4. QED
    BY <1>1, <2>1, <2>2, <2>3 DEF IInv, TypeOK
<1>6. Shapes' /\ Known'
  <2>1. \A x \in Upstream : chosen'[x] # None => chosen'[x] \in Said
                                                   /\ chosen'[x].source = "MANUAL"
    BY <1>2, <1>3 DEF IInv, Shapes
  <2>2. QED
    BY <1>1, <1>3, <2>1 DEF IInv, Shapes, Known
<1>7. ASSUME NEW v \in Workers
      PROVE  Target(req[v], artifact, rows, chosen, overtaken)'
  <2>1. Target(req[v], artifact, rows, chosen, overtaken)
    BY DEF IInv, Targets
  <2>2. CASE req[v].pc = "reapply"
    <3>1. req[v].ids \subseteq Upstream
      BY <2>2, Holding
    <3>2. \A x \in req[v].ids : rows[x] # None => rows'[x] # None
      BY <1>3, <1>4, <3>1
    <3>3. \A x \in req[v].ids : chosen'[x] # None => x \in overtaken'
      <4>. SUFFICES ASSUME NEW x \in req[v].ids, chosen'[x] # None PROVE x \in overtaken'
        OBVIOUS
      <4>1. CASE x = u
        BY <1>1, <2>2, <4>1
      <4>2. CASE x # u
        BY <1>3, <2>1, <2>2, <3>1, <4>2 DEF Target
      <4>3. QED
        BY <4>1, <4>2
    <3>4. QED
      BY <1>1, <2>1, <2>2, <3>2, <3>3 DEF Target
  <2>3. CASE req[v].pc # "reapply"
    BY <1>1, <2>3 DEF Target
  <2>4. QED
    BY <2>2, <2>3
<1>8. ManualKept'
  BY <1>3, <1>4 DEF IInv, ManualKept
<1>9. RuleFollowed'
  BY <1>1, <1>3, <1>4 DEF IInv, RuleFollowed
<1>10. QED
  BY <1>5, <1>6, <1>7, <1>8, <1>9 DEF IInv, Targets

-----------------------------------------------------------------------------
(* The theorems                                                            *)

LEMMA NextInv == IInv /\ [Next]_vars => IInv'
<1>. SUFFICES ASSUME IInv, [Next]_vars PROVE IInv'
  OBVIOUS
<1>1. CASE News
  <2>1. published' \subseteq Upstream
    BY <1>1 DEF News, IInv, Shapes
  <2>2. QED
    BY <1>1, <2>1, Apart DEF News, store
<1>2. CASE DeleteMod
  BY <1>2, DeleteModInv
<1>3. CASE DeleteRepository \/ NewRepository
  <2>1. published' \subseteq Upstream
    BY <1>3 DEF DeleteRepository, NewRepository, IInv, Shapes
  <2>2. QED
    BY <1>3, <2>1, Apart DEF DeleteRepository, NewRepository
<1>4. CASE SaveMapping
  BY <1>4, SaveMappingInv
<1>5. ASSUME NEW w \in Workers,
             \/ NewArtifact(w) \/ ResumeArtifact(w) \/ ImportMod(w) \/ Attach(w)
             \/ CreationFails(w) \/ Undo(w)
             \/ Refresh(w) \/ Fetch(w) \/ FetchFails(w) \/ Sync(w)
             \/ ReadRule(w) \/ SaveRule(w) \/ Reread(w) \/ Select(w) \/ Reapply(w)
             \/ Crash(w)
      PROVE  IInv'
  BY <1>5, NewArtifactInv, ResumeArtifactInv, ImportModInv, AttachInv, CreationFailsInv,
     UndoInv, RefreshInv, FetchInv, FetchFailsInv, SyncInv, ReadRuleInv, SaveRuleInv,
     RereadInv, SelectInv, ReapplyInv, CrashInv
<1>6. CASE UNCHANGED vars
  <2>1. published' \subseteq Upstream
    BY <1>6 DEF vars, IInv, Shapes
  <2>2. QED
    BY <1>6, <2>1, Apart DEF vars, store
<1>7. QED
  BY <1>1, <1>2, <1>3, <1>4, <1>5, <1>6 DEF Next

LEMMA Invariance == Spec => []IInv
  BY InitInv, NextInv, PTL DEF Spec

\* The rows are well formed, an enabled version has a mapping, an artifact is
\* attached to no mod but the one that names it, and the rows of an artifact go
\* with it, for any number of workers, versions and rules (models/maven.py).
THEOREM TypeCorrect == Spec => []TypeOK
<1>1. IInv => TypeOK
  BY DEF IInv
<1>2. QED
  BY <1>1, Invariance, PTL

\* A correction stays as it was saved, unless a new rule that had looked for its
\* row before the correction writes it (sync and reapply_rule against
\* update_manual).
THEOREM CorrectionsStay == Spec => []ManualKept
<1>1. IInv => ManualKept
  BY DEF IInv
<1>2. QED
  BY <1>1, Invariance, PTL

\* Every row that is no correction says what the current rule says, unless a
\* request with an older rule wrote it last or the saving request has not
\* reached it (update_rule and reapply_rule against sync).
THEOREM RulesApply == Spec => []RuleFollowed
<1>1. IInv => RuleFollowed
  BY DEF IInv
<1>2. QED
  BY <1>1, Invariance, PTL

=============================================================================
