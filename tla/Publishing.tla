----------------------------- MODULE Publishing -----------------------------
(***************************************************************************)
(* Direct publication of a build to Modrinth or CurseForge                 *)
(* (models/platform_publishing.py and publish_build in asite.py).          *)
(*                                                                         *)
(* Request workers render an archive of a build, claim a row of            *)
(* modpack_publication_runs under the target's row lock, upload the        *)
(* archive over HTTP outside every transaction, and record the outcome in  *)
(* a second transaction.  In between, the user edits the build, disables   *)
(* or deletes the target and releases an attempt for a retry; a worker may *)
(* die at any point; and the provider may take an upload late, lose it, or *)
(* have its acceptance hidden behind an error of an intermediary.          *)
(***************************************************************************)
EXTENDS Naturals, Sequences, FiniteSets

CONSTANTS
  Targets,    \* ids of modpack_publication_targets rows (never reused)
  Builds,     \* builds of the modpack
  Bases,      \* values of builds.version: sequences, see Release
  Contents,   \* what the archive of a build is rendered from
  Workers,    \* request workers of the web server
  MaxRuns,    \* bound: rows of modpack_publication_runs
  OwnerCare,  \* what the owner does before "Allow retry", see MayRelease
  None

ASSUME PublishingAssumption ==
  /\ MaxRuns \in Nat \ {0}
  /\ OwnerCare \in {"none", "checks_remote", "waits"}
  /\ None \notin Targets \cup Builds \cup Contents \cup Bases \cup Nat

VARIABLES
  targets,     \* row of each target: absent, disabled, enabled or deleted
  builds,      \* version and content of each build
  runs,        \* rows of modpack_publication_runs
  lastRun,     \* AUTO_INCREMENT of that table
  workers,     \* local state of each request worker
  requests,    \* the upload request of each run, as the provider sees it
  released,    \* history: runs released for a retry
  misreported  \* history: runs answered with an error by an intermediary

vars == <<targets, builds, runs, lastRun, workers, requests, released,
          misreported>>

RunIds == 1 .. MaxRuns
ActiveStatus == {"PENDING", "UNKNOWN"}

\* The version of release number n of a build: "2.9.9", "2.9.9-Patch-1", ...
\* A version is a sequence of parts, so a base may itself look like a patch.
Release(base, n) == IF n <= 0 THEN base ELSE Append(base, n)

\* The manifest inside the archive holds the version (versionId of
\* modrinth.index.json, version of manifest.json), so the digest of the
\* archive depends on it.
Digest(content, version) == <<content, version>>

\* The UPDATE of a row's status and deduplication key.
SetOutcome(run, status, key) == [run EXCEPT !.status = status, !.key = key]

RunsOf(t, b) == {r \in RunIds : runs[r].target = t /\ runs[r].build = b}
Active(t, b) == {r \in RunsOf(t, b) : runs[r].status \in ActiveStatus}
Succeeded(t, b) == {r \in RunsOf(t, b) : runs[r].status = "SUCCEEDED"}
LatestSuccess(t, b) ==
  CHOOSE r \in Succeeded(t, b) : \A s \in Succeeded(t, b) : s <= r

Idle ==
  [pc |-> "idle", target |-> None, build |-> None, base |-> None,
   patch |-> 0, content |-> None, run |-> 0, status |-> None]
NoRun ==
  [target |-> None, build |-> None, version |-> None, patch |-> 0,
   digest |-> None, status |-> "none", key |-> None]

Init ==
  /\ targets = [t \in Targets |-> "absent"]
  /\ builds \in [Builds -> [version : Bases, content : Contents]]
  /\ runs = [r \in RunIds |-> NoRun]
  /\ lastRun = 0
  /\ workers = [w \in Workers |-> Idle]
  /\ requests = [r \in RunIds |-> "none"]
  /\ released = {}
  /\ misreported = {}

-----------------------------------------------------------------------------
(* The request worker: publish_build and PlatformPublishing.publish        *)

\* publish_build: the build and its packages are loaded, the target must be
\* enabled, and get_build_publication_states must not report it locked.  It
\* also yields the version the archive is going to be rendered with.
Open(w, t, b) ==
  /\ workers[w].pc = "idle"
  /\ targets[t] = "enabled"
  /\ Active(t, b) = {}
  /\ workers' = [workers EXCEPT ![w] =
       [Idle EXCEPT !.pc = "render", !.target = t, !.build = b,
                    !.base = builds[b].version,
                    !.patch = Cardinality(Succeeded(t, b)),
                    !.content = builds[b].content]]
  /\ UNCHANGED <<targets, builds, runs, lastRun, requests, released,
                 misreported>>

\* The archive is rendered and _target_for_publish reads the target and the
\* account's token; a disabled or deleted target ends the request.
Resolve(w) ==
  LET j == workers[w] IN
  /\ j.pc = "render"
  /\ workers' = [workers EXCEPT ![w] =
       IF targets[j.target] = "enabled" THEN [j EXCEPT !.pc = "claim"]
                                        ELSE Idle]
  /\ UNCHANGED <<targets, builds, runs, lastRun, requests, released,
                 misreported>>

\* The unique key (target_id, deduplication_key): the key stands for a build
\* and a version, and is NULL (None) for a run that gave it back.
KeyTaken(t, b, version) ==
  \E r \in RunsOf(t, b) : runs[r].key = version

\* A slip: a claim that looks only for an upload in progress, forgets the
\* attempts whose outcome is unknown, and has no unique key behind it.
BeginRefusedPendingOnly(j) ==
  \/ targets[j.target] \notin {"enabled", "disabled"}
  \/ \E r \in RunsOf(j.target, j.build) : runs[r].status = "PENDING"

\* A slip: a claim that trusts the lock state read before the archive was
\* rendered.
BeginRefusedUnlocked(j) == targets[j.target] \notin {"enabled", "disabled"}

\* The refusals of _begin_run, in the order of the code: no target row, an
\* active attempt, an archive identical to the last success, another version
\* than the one rendered, and the IntegrityError of the unique key.
BeginRefused(j) ==
  LET n == Cardinality(Succeeded(j.target, j.build))
      version == Release(j.base, n)
  IN \/ targets[j.target] \notin {"enabled", "disabled"}
     \/ Active(j.target, j.build) # {}
     \/ /\ n > 0
        /\ runs[LatestSuccess(j.target, j.build)].digest
             = Digest(j.content, Release(j.base, j.patch))
     \/ version # Release(j.base, j.patch)
     \/ KeyTaken(j.target, j.build, version)

\* _begin_run refuses: everything is rolled back and the request ends.
Refuse(w) ==
  /\ workers[w].pc = "claim"
  /\ BeginRefused(workers[w])
  /\ workers' = [workers EXCEPT ![w] = Idle]
  /\ UNCHANGED <<targets, builds, runs, lastRun, requests, released,
                 misreported>>

\* _begin_run inserts the PENDING row that holds the lock, and the upload
\* request is on its way.
Begin(w) ==
  LET j == workers[w]
      r == lastRun + 1
      n == Cardinality(Succeeded(j.target, j.build))
      version == Release(j.base, n)
  IN
  /\ j.pc = "claim"
  /\ lastRun < MaxRuns
  /\ ~BeginRefused(j)
  /\ lastRun' = r
  /\ runs' = [runs EXCEPT ![r] =
       [target |-> j.target, build |-> j.build, version |-> version,
        patch |-> n, digest |-> Digest(j.content, Release(j.base, j.patch)),
        status |-> "PENDING", key |-> version]]
  /\ requests' = [requests EXCEPT ![r] = "sent"]
  /\ workers' = [workers EXCEPT ![w] = [@ EXCEPT !.pc = "upload", !.run = r]]
  /\ UNCHANGED <<targets, builds, released, misreported>>

-----------------------------------------------------------------------------
(* The provider and the network                                            *)

\* The provider creates the remote version, maybe long after the client gave
\* up on the request.
Accept(r) ==
  /\ requests[r] = "sent"
  /\ requests' = [requests EXCEPT ![r] = "accepted"]
  /\ UNCHANGED <<targets, builds, runs, lastRun, workers, released,
                 misreported>>

\* The request is lost on its way.
Lose(r) ==
  /\ requests[r] = "sent"
  /\ requests' = [requests EXCEPT ![r] = "lost"]
  /\ UNCHANGED <<targets, builds, runs, lastRun, workers, released,
                 misreported>>

Answered(w, status) ==
  workers' = [workers EXCEPT ![w] =
    [@ EXCEPT !.pc = "finish", !.status = status]]

\* 200 or 201 with a readable body.
AnswerAccepted(w) ==
  /\ workers[w].pc = "upload"
  /\ requests[workers[w].run] = "accepted"
  /\ Answered(w, "SUCCEEDED")
  /\ UNCHANGED <<targets, builds, runs, lastRun, requests, released,
                 misreported>>

\* The provider refuses the upload: any other status code.
AnswerRejected(w) ==
  /\ workers[w].pc = "upload"
  /\ requests[workers[w].run] = "sent"
  /\ requests' = [requests EXCEPT ![workers[w].run] = "rejected"]
  /\ Answered(w, "FAILED")
  /\ UNCHANGED <<targets, builds, runs, lastRun, released, misreported>>

\* An intermediary answers with an error status (a gateway's timeout, say)
\* while the upload goes on or is done: the code cannot tell it from a refusal.
AnswerGatewayError(w) ==
  /\ workers[w].pc = "upload"
  /\ requests[workers[w].run] \in {"sent", "accepted"}
  /\ misreported' = misreported \cup {workers[w].run}
  /\ Answered(w, "FAILED")
  /\ UNCHANGED <<targets, builds, runs, lastRun, requests, released>>

\* A slip: an upload without a timeout waits for a lost request forever.
AnswerUnknownLive(w) ==
  /\ workers[w].pc = "upload"
  /\ requests[workers[w].run] # "lost"
  /\ Answered(w, "UNKNOWN")
  /\ UNCHANGED <<targets, builds, runs, lastRun, requests, released,
                 misreported>>

\* The request ends without an answer (requests.RequestException), with an
\* unreadable success (PublishingOutcomeUnknownError) or with any other
\* exception.
AnswerUnknown(w) ==
  /\ workers[w].pc = "upload"
  /\ Answered(w, "UNKNOWN")
  /\ UNCHANGED <<targets, builds, runs, lastRun, requests, released,
                 misreported>>

\* A slip: the row keeps the provider's word for the outcome.
OutcomeRowRaw(run, status) == [run EXCEPT !.status = "listed"]

\* A slip: an unknown outcome gives its key and lock back, as a failure does.
OutcomeRowUnlocked(run, status) ==
  IF run.status = "deleted" THEN run
  ELSE IF status = "SUCCEEDED" THEN SetOutcome(run, status, run.key)
  ELSE SetOutcome(run, "FAILED", None)

\* The row _finish_run's UPDATE leaves: the key stays for SUCCEEDED and
\* UNKNOWN.  The WHERE clause tests nothing but the id: the row may have been
\* released in the meantime, or deleted with its target.
OutcomeRow(run, status) ==
  IF run.status = "deleted" THEN run
  ELSE IF status \in {"SUCCEEDED", "UNKNOWN"}
         THEN SetOutcome(run, status, run.key)
  ELSE SetOutcome(run, status, None)

\* _finish_run records the outcome.
Finish(w) ==
  LET j == workers[w] IN
  /\ j.pc = "finish"
  /\ runs' = [runs EXCEPT ![j.run] = OutcomeRow(@, j.status)]
  /\ workers' = [workers EXCEPT ![w] = Idle]
  /\ UNCHANGED <<targets, builds, lastRun, requests, released, misreported>>

\* The worker process dies, or the database refuses _finish_run: nothing but
\* the claimed row is left of the request.
Crash(w) ==
  /\ workers[w].pc # "idle"
  /\ workers' = [workers EXCEPT ![w] = Idle]
  /\ UNCHANGED <<targets, builds, runs, lastRun, requests, released,
                 misreported>>

-----------------------------------------------------------------------------
(* The user who owns the publishing account                                *)

\* The owner may release any attempt the page shows as PENDING or UNKNOWN.
\* docs/distribution-formats.md asks to look at the remote project first; a
\* more careful owner also waits until no request or worker holds the attempt.
MayRelease(r) ==
  /\ OwnerCare \in {"checks_remote", "waits"} => requests[r] # "accepted"
  /\ OwnerCare = "waits" =>
       /\ requests[r] # "sent"
       /\ \A w \in Workers : workers[w].run # r

\* A slip: a retry that is allowed whatever became of the attempt.
ReleaseAnyForRetry(r) ==
  /\ runs[r].status \notin {"none", "deleted"}
  /\ runs' = [runs EXCEPT ![r] = SetOutcome(@, "FAILED", None)]
  /\ released' = released \cup {r}
  /\ UNCHANGED <<targets, builds, lastRun, workers, requests, misreported>>

\* release_run_for_retry ("Allow retry").
ReleaseForRetry(r) ==
  /\ runs[r].status \in ActiveStatus
  /\ MayRelease(r)
  /\ runs' = [runs EXCEPT ![r] = SetOutcome(@, "FAILED", None)]
  /\ released' = released \cup {r}
  /\ UNCHANGED <<targets, builds, lastRun, workers, requests, misreported>>

\* Build.update and every change of the build's contents.
EditBuild(b, version, content) ==
  /\ builds' = [builds EXCEPT ![b] = [version |-> version, content |-> content]]
  /\ UNCHANGED <<targets, runs, lastRun, workers, requests, released,
                 misreported>>

\* save_target creates a target or changes its enabled flag (an account that
\* is disabled disables its targets).
SaveTarget(t, enabled) ==
  /\ targets[t] # "deleted"
  /\ targets' = [targets EXCEPT ![t] = IF enabled THEN "enabled" ELSE "disabled"]
  /\ UNCHANGED <<builds, runs, lastRun, workers, requests, released,
                 misreported>>

\* delete_target deletes the target's runs and the target in one transaction.
DeleteTarget(t) ==
  /\ targets[t] \in {"enabled", "disabled"}
  /\ targets' = [targets EXCEPT ![t] = "deleted"]
  /\ runs' = [r \in RunIds |->
       IF runs[r].target = t
         THEN SetOutcome(runs[r], "deleted", None)
         ELSE runs[r]]
  /\ UNCHANGED <<builds, lastRun, workers, requests, released, misreported>>

-----------------------------------------------------------------------------
WorkerStep(w) ==
  \/ \E t \in Targets, b \in Builds : Open(w, t, b)
  \/ Resolve(w)
  \/ Refuse(w)
  \/ Begin(w)
  \/ AnswerAccepted(w)
  \/ AnswerRejected(w)
  \/ AnswerGatewayError(w)
  \/ AnswerUnknown(w)
  \/ Finish(w)

OwnerStep ==
  \/ \E r \in RunIds : ReleaseForRetry(r)
  \/ \E b \in Builds, v \in Bases, c \in Contents : EditBuild(b, v, c)
  \/ \E t \in Targets, e \in BOOLEAN : SaveTarget(t, e)
  \/ \E t \in Targets : DeleteTarget(t)

Next ==
  \/ \E w \in Workers : WorkerStep(w) \/ Crash(w)
  \/ \E r \in RunIds : Accept(r) \/ Lose(r)
  \/ OwnerStep

Spec == Init /\ [][Next]_vars

-----------------------------------------------------------------------------
Versions == {Release(v, n) : v \in Bases, n \in 0 .. MaxRuns}
Digests ==
  {Digest(c, Release(v, n)) : c \in Contents, v \in Bases, n \in 0 .. MaxRuns}
Run ==
  [target : Targets \cup {None}, build : Builds \cup {None},
   version : Versions \cup {None}, patch : 0 .. MaxRuns,
   digest : Digests \cup {None},
   status : {"none", "PENDING", "UNKNOWN", "SUCCEEDED", "FAILED", "deleted"},
   key : Versions \cup {None}]
Job ==
  [pc : {"idle", "render", "claim", "upload", "finish"},
   target : Targets \cup {None}, build : Builds \cup {None},
   base : Bases \cup {None}, patch : 0 .. MaxRuns,
   content : Contents \cup {None}, run : 0 .. MaxRuns,
   status : {None, "SUCCEEDED", "UNKNOWN", "FAILED"}]

\* The rows and the workers hold values of the kinds the schema and the code
\* give them.
TypeOK ==
  /\ targets \in [Targets -> {"absent", "enabled", "disabled", "deleted"}]
  /\ builds \in [Builds -> [version : Bases, content : Contents]]
  /\ runs \in [RunIds -> Run]
  /\ lastRun \in 0 .. MaxRuns
  /\ workers \in [Workers -> Job]
  /\ requests \in
       [RunIds -> {"none", "sent", "accepted", "lost", "rejected"}]
  /\ released \subseteq RunIds
  /\ misreported \subseteq RunIds

SamePair(r, s) ==
  runs[r].target = runs[s].target /\ runs[r].build = runs[s].build

\* The duplicate lock: two attempts for one build and target are active
\* (PENDING or UNKNOWN) together only after "Allow retry" was used on one.
OneActiveAttempt ==
  \A r, s \in RunIds :
    /\ r # s
    /\ SamePair(r, s)
    /\ runs[r].status \in ActiveStatus
    /\ runs[s].status \in ActiveStatus
    => {r, s} \cap released # {}

\* No duplicate remote version: the provider accepts one version of a build
\* twice on a target only if one of the two attempts was released for a retry
\* or was answered with an error that hid its acceptance.
NoDuplicateRelease ==
  \A r, s \in RunIds :
    /\ r # s
    /\ requests[r] = "accepted"
    /\ requests[s] = "accepted"
    /\ SamePair(r, s)
    /\ runs[r].version = runs[s].version
    => {r, s} \cap (released \cup misreported) # {}

\* As long as no attempt of a build and target was released, its successes are
\* numbered 0, 1, 2, ... without a gap or a repetition.
PatchesInSequence ==
  \A t \in Targets, b \in Builds :
    released \cap RunsOf(t, b) = {} =>
      \A r \in Succeeded(t, b) :
        runs[r].patch = Cardinality({s \in Succeeded(t, b) : s < r})

\* The record never claims more than the provider holds: a SUCCEEDED attempt
\* has its remote version, and stays SUCCEEDED until its target is deleted,
\* whatever answers, retries and crashes come later.
SuccessIsFinal ==
  [][\A r \in RunIds :
       /\ runs[r].status = "SUCCEEDED" =>
            runs'[r].status \in {"SUCCEEDED", "deleted"}
       /\ runs'[r].status = "SUCCEEDED" => requests'[r] = "accepted"]_vars

-----------------------------------------------------------------------------
(* Two claims of the documentation and the error messages that the code does *)
(* not keep                                                                  *)

\* "The generated archive is identical to the last successful upload. Change
\* the build before sending a patch.": two successes of a build that follow
\* each other were rendered from different contents.
PatchesChangeTheBuild ==
  \A t \in Targets, b \in Builds :
    \A r, s \in Succeeded(t, b) :
      /\ r < s
      /\ \A q \in Succeeded(t, b) : ~(r < q /\ q < s)
      => runs[r].digest[1] # runs[s].digest[1]

\* "Check the remote project first; the user who owns the publishing account
\* can then use Allow retry [...] if the version was not created": an owner who
\* does so never gets one version twice from answers that tell the truth.
CheckedRetryIsSafe ==
  \A r, s \in RunIds :
    /\ r # s
    /\ requests[r] = "accepted"
    /\ requests[s] = "accepted"
    /\ SamePair(r, s)
    /\ runs[r].version = runs[s].version
    => {r, s} \cap misreported # {}

-----------------------------------------------------------------------------
(* Progress, and the ledger that direct publication implements             *)

\* Progress of a request that was opened: the render ends, the database
\* answers, and the HTTP timeout ends an upload nobody answers.
WorkerProgress(w) ==
  \/ Resolve(w) \/ Refuse(w) \/ Begin(w)
  \/ AnswerAccepted(w) \/ AnswerRejected(w) \/ AnswerGatewayError(w)
  \/ AnswerUnknown(w) \/ Finish(w)

FairSpec == Spec /\ \A w \in Workers : WF_vars(WorkerProgress(w))

\* An upload cannot hold its attempt forever: as long as its worker lives, the
\* attempt of an upload leaves PENDING, even when the request was lost.
UploadsSettle ==
  \A w \in Workers, r \in RunIds :
    /\ workers[w].run = r
    /\ runs[r].status = "PENDING"
    ~> \/ runs[r].status # "PENDING"
       \/ workers[w].run # r

\* The ledger this module implements when owners release only attempts that
\* ended without a remote version.
Ledger == INSTANCE ReleaseLedger WITH
  attempt <- [p \in Targets \X Builds |->
                IF Active(p[1], p[2]) = {} THEN None
                ELSE runs[CHOOSE r \in Active(p[1], p[2]) : TRUE].patch],
  releases <- [p \in Targets \X Builds |-> Cardinality(Succeeded(p[1], p[2]))]

\* Every step of the workers, the network and the user is a step of the ledger
\* or leaves it alone.
ImplementsLedger == Ledger!Spec
=============================================================================
