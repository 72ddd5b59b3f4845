------------------------- MODULE DistributionProofs --------------------------
(***************************************************************************)
(* Proofs about the two ways a build leaves the server as a pack:          *)
(* published at Modrinth and CurseForge (Publishing, ReleaseLedger), and   *)
(* exported or delivered through Technic (Exports). One module has the     *)
(* proofs of both, so the names of Exports have a prefix.                  *)
(***************************************************************************)
EXTENDS Publishing, Exports, FiniteSetTheorems, TLAPS

-----------------------------------------------------------------------------
(***************************************************************************)
(* Machine-checked facts about Publishing, for every set of targets,       *)
(* builds, versions, contents and workers and every bound on the runs.     *)
(***************************************************************************)

\* A worker between its claim and the record of its outcome.
Holds(w, r) == workers[w].pc \in {"upload", "finish"} /\ workers[w].run = r

\* A run nobody released, and whose answer, if it came, told the truth.
Clean(r) == r \notin released /\ r \notin misreported

\* The provider holds the upload of a run, or may still come to.
Possible(r) == requests[r] \in {"sent", "accepted"}

\* Rows that the AUTO_INCREMENT has not reached are untouched; the others have
\* a target and a build.
RowsUsed ==
  \A r \in RunIds :
    IF r > lastRun
      THEN /\ runs[r] = NoRun
           /\ requests[r] = "none"
           /\ Clean(r)
      ELSE /\ runs[r].target \in Targets
           /\ runs[r].build \in Builds
           /\ runs[r].status # "none"

\* A worker holds a row it inserted, no other worker holds it, and its answer
\* agrees with what became of the request.
RowsHeld ==
  \A w \in Workers :
    /\ workers[w].pc # "idle" =>
         /\ workers[w].target \in Targets
         /\ workers[w].build \in Builds
         /\ workers[w].base \in Bases
         /\ workers[w].content \in Contents
    /\ workers[w].pc \in {"upload", "finish"} =>
         /\ workers[w].run \in 1 .. lastRun
         /\ \A v \in Workers \ {w} : ~Holds(v, workers[w].run)
         /\ runs[workers[w].run].status \in {"PENDING", "FAILED", "deleted"}
         /\ workers[w].run \notin released =>
              runs[workers[w].run].status # "FAILED"
    /\ workers[w].pc = "finish" =>
         /\ workers[w].status \in {"SUCCEEDED", "UNKNOWN", "FAILED"}
         /\ workers[w].status = "SUCCEEDED" =>
              requests[workers[w].run] = "accepted"
         /\ workers[w].status = "FAILED" =>
              \/ ~Possible(workers[w].run)
              \/ workers[w].run \in misreported

\* Only the deletion of a target marks its runs deleted.
DeletedRows ==
  \A r \in RunIds :
    runs[r].status = "deleted" => targets[runs[r].target] = "deleted"

\* A row that stands for a remote version, or may come to, keeps its key.
KeysKept ==
  \A r \in RunIds :
    Clean(r) /\ Possible(r) =>
      \/ runs[r].status = "deleted"
      \/ runs[r].status \in {"PENDING", "UNKNOWN", "SUCCEEDED"} /\ runs[r].key = runs[r].version

\* No two such rows are for one version of a build on a target.
VersionsApart ==
  \A r, s \in RunIds :
    r # s /\ Clean(r) /\ Possible(r) /\ Clean(s) /\ Possible(s) /\ SamePair(r, s)
      => runs[r].version # runs[s].version

\* A success was confirmed by the provider.
SuccessConfirmed ==
  \A r \in RunIds :
    runs[r].status = "SUCCEEDED" => requests[r] = "accepted"

IInv ==
  /\ TypeOK
  /\ RowsUsed
  /\ RowsHeld
  /\ DeletedRows
  /\ KeysKept
  /\ VersionsApart
  /\ SuccessConfirmed
  /\ OneActiveAttempt

\* While no attempt of a build and target was released, its successes are
\* numbered in the order of their ids, and an active attempt is newer than all
\* of them and carries the next number.
Numbered(t, b) ==
  released \cap RunsOf(t, b) = {} =>
    /\ \A r \in Succeeded(t, b) :
         runs[r].patch = Cardinality({s \in Succeeded(t, b) : s < r})
    /\ \A r \in Active(t, b) :
         /\ runs[r].patch = Cardinality(Succeeded(t, b))
         /\ \A s \in Succeeded(t, b) : s < r

AllNumbered == \A t \in Targets, b \in Builds : Numbered(t, b)

NInv == IInv /\ AllNumbered

-----------------------------------------------------------------------------
\* The confirmed releases of a build on a target are finitely many.
LEMMA SuccessesFinite ==
  ASSUME NEW t, NEW b
  PROVE  IsFiniteSet(Succeeded(t, b))
<1>1. 1 \in Int /\ MaxRuns \in Int
  BY PublishingAssumption
<1>2. IsFiniteSet(1 .. MaxRuns)
  BY <1>1, FS_Interval
<1>3. IsFiniteSet(RunIds)
  BY <1>2 DEF RunIds
<1>4. Succeeded(t, b) \in SUBSET RunIds
  BY DEF Succeeded, RunsOf
<1>5. QED
  BY <1>3, <1>4, FS_Subset

\* The number of confirmed releases is a natural number that the bound on the
\* rows bounds.
LEMMA SuccessCount ==
  ASSUME NEW t, NEW b
  PROVE  Cardinality(Succeeded(t, b)) \in 0 .. MaxRuns
<1>1. IsFiniteSet(RunIds) /\ Cardinality(RunIds) = MaxRuns
  BY FS_Interval, PublishingAssumption DEF RunIds
<1>2. Succeeded(t, b) \in SUBSET RunIds
  BY DEF Succeeded, RunsOf
<1>3. Cardinality(Succeeded(t, b)) \in Nat
  BY <1>1, <1>2, FS_Subset, FS_CardinalityType
<1>4. Cardinality(Succeeded(t, b)) <= MaxRuns
  BY <1>1, <1>2, FS_Subset
<1>5. QED
  BY <1>3, <1>4, PublishingAssumption

\* The update of a row's status and key leaves the rest of the row alone.
LEMMA RowUpdate ==
  ASSUME NEW run \in Run, NEW key \in Versions \cup {None},
         NEW status \in
           {"PENDING", "UNKNOWN", "SUCCEEDED", "FAILED", "deleted"}
  PROVE  /\ SetOutcome(run, status, key) \in Run
         /\ SetOutcome(run, status, key).target = run.target
         /\ SetOutcome(run, status, key).build = run.build
         /\ SetOutcome(run, status, key).version = run.version
         /\ SetOutcome(run, status, key).status = status
         /\ SetOutcome(run, status, key).key = key
<1> DEFINE mid == [run EXCEPT !.status = status]
<1>1. /\ mid \in Run /\ mid.status = status
      /\ mid.target = run.target /\ mid.build = run.build
      /\ mid.version = run.version
  BY DEF Run
<1>2. SetOutcome(run, status, key) = [mid EXCEPT !.key = key]
  BY DEF SetOutcome
<1> HIDE DEF mid
<1>3. QED
  BY <1>1, <1>2 DEF Run

\* The row _finish_run leaves names the same release; only its status and, for
\* a failure, its key are new.
LEMMA OutcomeUpdate ==
  ASSUME NEW run \in Run, NEW status \in {"SUCCEEDED", "UNKNOWN", "FAILED"}
  PROVE  /\ OutcomeRow(run, status) \in Run
         /\ OutcomeRow(run, status).target = run.target
         /\ OutcomeRow(run, status).build = run.build
         /\ OutcomeRow(run, status).version = run.version
         /\ OutcomeRow(run, status).status =
              IF run.status = "deleted" THEN "deleted" ELSE status
         /\ run.status # "deleted" /\ status # "FAILED" =>
              OutcomeRow(run, status).key = run.key
<1>1. CASE run.status = "deleted"
  BY <1>1 DEF OutcomeRow
<1>2. CASE run.status # "deleted"
  <2>1. PICK key \in Versions \cup {None} :
          /\ OutcomeRow(run, status) = SetOutcome(run, status, key)
          /\ status # "FAILED" => key = run.key
    <3>1. run.key \in Versions \cup {None}
      BY DEF Run
    <3>2. QED
      BY <1>2, <3>1 DEF OutcomeRow
  <2>2. status \in {"PENDING", "UNKNOWN", "SUCCEEDED", "FAILED", "deleted"}
    OBVIOUS
  <2>3. /\ SetOutcome(run, status, key) \in Run
        /\ SetOutcome(run, status, key).target = run.target
        /\ SetOutcome(run, status, key).build = run.build
        /\ SetOutcome(run, status, key).version = run.version
        /\ SetOutcome(run, status, key).status = status
        /\ SetOutcome(run, status, key).key = key
    BY Zenon, <2>2, RowUpdate
  <2>4. QED
    BY <1>2, <2>1, <2>3
<1>3. QED
  BY <1>1, <1>2

LEMMA InitIInv == Init => IInv
<1> SUFFICES ASSUME Init PROVE IInv
  OBVIOUS
<1> USE PublishingAssumption DEF Init, RunIds
<1>1. TypeOK
  BY DEF TypeOK, Run, Job, Idle, NoRun
<1>2. RowsUsed
  BY DEF RowsUsed, Clean
<1>3. RowsHeld
  BY DEF RowsHeld, Idle
<1>4. DeletedRows /\ KeysKept /\ VersionsApart /\ SuccessConfirmed
  BY DEF DeletedRows, KeysKept, VersionsApart, SuccessConfirmed, Possible, NoRun
<1>5. OneActiveAttempt
  BY DEF OneActiveAttempt, ActiveStatus, NoRun
<1>6. QED
  BY <1>1, <1>2, <1>3, <1>4, <1>5 DEF IInv

\* A step that moves one worker outside its upload and leaves the tables alone
\* keeps the invariant if the worker's new state is well formed.
LEMMA WorkerOnlyStep ==
  ASSUME IInv, NEW w \in Workers, NEW j \in Job,
         workers' = [workers EXCEPT ![w] = j],
         UNCHANGED <<targets, builds, runs, lastRun, requests, released,
                     misreported>>,
         j.pc \notin {"upload", "finish"},
         j.pc # "idle" => /\ j.target \in Targets
                          /\ j.build \in Builds
                          /\ j.base \in Bases
                          /\ j.content \in Contents
  PROVE  IInv'
<1> USE DEF IInv
<1>1. TypeOK'
  BY DEF TypeOK
<1>2. RowsUsed'
  BY DEF RowsUsed, Clean
<1>3. RowsHeld'
  <2> SUFFICES ASSUME NEW v \in Workers
               PROVE  RowsHeld!(v)'
    BY DEF RowsHeld
  <2>1. CASE v = w
    BY <2>1 DEF TypeOK
  <2>2. CASE v # w
    BY <2>2 DEF TypeOK, RowsHeld, Holds, Possible
  <2>3. QED
    BY <2>1, <2>2
<1>4. DeletedRows' /\ SuccessConfirmed'
  BY DEF DeletedRows, SuccessConfirmed
<1>5. KeysKept' /\ VersionsApart'
  BY DEF KeysKept, VersionsApart, Clean, Possible, SamePair
<1>6. OneActiveAttempt'
  BY DEF OneActiveAttempt, SamePair
<1>7. QED
  BY <1>1, <1>2, <1>3, <1>4, <1>5, <1>6

\* Open, Resolve, Refuse and Crash are such steps.
LEMMA RequestSteps ==
  ASSUME IInv, NEW w \in Workers,
         \/ \E t \in Targets, b \in Builds : Open(w, t, b)
         \/ Resolve(w)
         \/ Refuse(w)
         \/ Crash(w)
  PROVE  IInv'
<1> USE DEF IInv
<1>i. /\ Idle \in Job
      /\ Idle.pc = "idle"
  BY PublishingAssumption DEF Idle, Job
<1>1. ASSUME NEW t \in Targets, NEW b \in Builds, Open(w, t, b)
      PROVE  IInv'
  <2> DEFINE j == [Idle EXCEPT !.pc = "render", !.target = t, !.build = b,
                     !.base = builds[b].version,
                     !.patch = Cardinality(Succeeded(t, b)),
                     !.content = builds[b].content]
  <2>1. /\ j.pc = "render" /\ j.target = t /\ j.build = b
        /\ j.base \in Bases /\ j.content \in Contents
    BY DEF Idle, TypeOK
  <2>2. j \in Job
    BY <2>1, <1>i, SuccessCount DEF Job, Idle
  <2>3. workers' = [workers EXCEPT ![w] = j]
    BY <1>1 DEF Open
  <2> HIDE DEF j
  <2>4. QED
    BY <1>1, <2>1, <2>2, <2>3, WorkerOnlyStep DEF Open
<1>2. CASE Resolve(w)
  <2> DEFINE j == IF targets[workers[w].target] = "enabled"
                    THEN [workers[w] EXCEPT !.pc = "claim"] ELSE Idle
  <2>1. workers[w] \in Job /\ workers[w].pc = "render"
    BY <1>2 DEF Resolve, TypeOK
  <2>2. /\ j \in Job
        /\ j.pc \in {"claim", "idle"}
        /\ j.pc # "idle" => /\ j.target = workers[w].target
                            /\ j.build = workers[w].build
                            /\ j.base = workers[w].base
                            /\ j.content = workers[w].content
    BY <2>1, <1>i DEF Job
  <2>3. workers' = [workers EXCEPT ![w] = j]
    BY <1>2 DEF Resolve
  <2>4. /\ workers[w].target \in Targets /\ workers[w].build \in Builds
        /\ workers[w].base \in Bases /\ workers[w].content \in Contents
    BY <2>1 DEF RowsHeld
  <2> HIDE DEF j
  <2>5. QED
    BY <1>2, <2>2, <2>3, <2>4, WorkerOnlyStep DEF Resolve
<1>3. CASE Refuse(w)
  BY <1>3, <1>i, WorkerOnlyStep DEF Refuse
<1>4. CASE Crash(w)
  BY <1>4, <1>i, WorkerOnlyStep DEF Crash
<1>5. QED
  BY <1>1, <1>2, <1>3, <1>4

\* A claim inserts the first unused row.  _begin_run's refusals make it the
\* only active attempt, with a version nobody else stands for.
LEMMA BeginStep ==
  ASSUME IInv, NEW w \in Workers, Begin(w)
  PROVE  IInv'
<1> DEFINE j == workers[w]
           n == Cardinality(Succeeded(j.target, j.build))
           version == Release(j.base, n)
           row == [target |-> j.target, build |-> j.build, version |-> version,
                   patch |-> n,
                   digest |-> Digest(j.content, Release(j.base, j.patch)),
                   status |-> "PENDING", key |-> version]
<1> USE DEF IInv
<1>1. /\ j \in Job /\ j.pc = "claim"
      /\ j.target \in Targets /\ j.build \in Builds
      /\ j.base \in Bases /\ j.content \in Contents
  BY DEF Begin, TypeOK, RowsHeld
<1>2. PICK k \in RunIds : lastRun \in Nat /\ k = lastRun + 1
  BY PublishingAssumption DEF Begin, TypeOK, RunIds
<1>3. n \in 0 .. MaxRuns
  BY SuccessCount
<1>4. /\ version \in Versions
      /\ Digest(j.content, Release(j.base, j.patch)) \in Digests
  BY <1>1, <1>3 DEF Job, Versions, Digests
<1>5. row \in Run
  BY <1>1, <1>3, <1>4 DEF Run
<1>6. /\ runs' = [runs EXCEPT ![k] = row]
      /\ lastRun' = k
      /\ requests' = [requests EXCEPT ![k] = "sent"]
      /\ workers' = [workers EXCEPT ![w] = [j EXCEPT !.pc = "upload", !.run = k]]
      /\ UNCHANGED <<targets, builds, released, misreported>>
      /\ targets[j.target] \in {"enabled", "disabled"}
      /\ Active(j.target, j.build) = {}
      /\ ~KeyTaken(j.target, j.build, version)
  BY <1>2 DEF Begin, BeginRefused
<1>7. /\ row.target = j.target /\ row.build = j.build
      /\ row.version = version /\ row.status = "PENDING" /\ row.key = version
  OBVIOUS
<1> HIDE DEF row, version, n, j
<1>8. \A r \in RunIds : runs'[r] = IF r = k THEN row ELSE runs[r]
  BY <1>6 DEF TypeOK
<1>9. \A r \in RunIds : requests'[r] = IF r = k THEN "sent" ELSE requests[r]
  BY <1>6 DEF TypeOK
<1>10. Clean(k) /\ k > lastRun /\ runs[k] = NoRun
  BY <1>2 DEF RowsUsed
<1>11. \A v \in Workers : v # w => workers'[v] = workers[v]
  BY <1>6 DEF TypeOK
<1>12. /\ workers'[w] \in Job
       /\ workers'[w].pc = "upload" /\ workers'[w].run = k
       /\ workers'[w].target = j.target /\ workers'[w].build = j.build
       /\ workers'[w].base = j.base /\ workers'[w].content = j.content
  <2>1. workers'[w] = [j EXCEPT !.pc = "upload", !.run = k]
    BY <1>6 DEF TypeOK, j
  <2>2. j \in Job /\ k \in 0 .. MaxRuns
    BY <1>1, <1>2 DEF RunIds
  <2>3. QED
    BY <2>1, <2>2 DEF Job
<1>t. TypeOK'
  <2>1. runs' \in [RunIds -> Run]
    BY <1>5, <1>6 DEF TypeOK
  <2>2. lastRun' \in 0 .. MaxRuns
    BY <1>2, <1>6 DEF RunIds
  <2>3. workers' \in [Workers -> Job]
    BY <1>6, <1>12 DEF TypeOK
  <2>4. QED
    BY <1>6, <2>1, <2>2, <2>3 DEF TypeOK
<1>u. RowsUsed'
  BY <1>1, <1>2, <1>6, <1>7, <1>8, <1>9 DEF RowsUsed, Clean, RunIds
<1>h. RowsHeld'
  <2> SUFFICES ASSUME NEW v \in Workers
               PROVE  RowsHeld!(v)'
    BY DEF RowsHeld
  <2>1. \A x \in Workers : ~Holds(x, k)
    BY <1>2 DEF RowsHeld, Holds
  <2>2. CASE v = w
    <3>1. \A x \in Workers \ {w} : ~Holds(x, k)'
      BY <2>1, <1>11, <1>6 DEF Holds
    <3>2. k \in 1 .. lastRun' /\ runs'[k].status = "PENDING"
      BY <1>2, <1>6, <1>7, <1>8
    <3>3. QED
      BY <2>2, <3>1, <3>2, <1>1, <1>12
  <2>3. CASE v # w
    <3>1. workers'[v] = workers[v]
      BY <2>3, <1>11
    <3>2. workers[v].pc \in {"upload", "finish"} =>
            /\ workers[v].run \in 1 .. lastRun
            /\ workers[v].run # k
            /\ workers[v].run \in RunIds
      BY <1>2, PublishingAssumption DEF RowsHeld, RunIds, TypeOK
    <3>3. workers[v].pc \in {"upload", "finish"} =>
            \A x \in Workers \ {v} : ~Holds(x, workers[v].run)'
      BY <3>1, <3>2, <1>11, <1>12 DEF RowsHeld, Holds
    <3>4. workers[v].pc \in {"upload", "finish"} =>
            workers[v].run \in 1 .. lastRun'
      BY <3>2, <1>2, <1>6
    <3>5. workers[v].pc \in {"upload", "finish"} =>
            /\ runs'[workers[v].run] = runs[workers[v].run]
            /\ requests'[workers[v].run] = requests[workers[v].run]
      BY <3>2, <1>8, <1>9
    <3>6. QED
      BY <3>1, <3>3, <3>4, <3>5, <1>6 DEF RowsHeld, Possible
  <2>4. QED
    BY <2>2, <2>3
<1>d. DeletedRows' /\ SuccessConfirmed'
  BY <1>6, <1>7, <1>8, <1>9 DEF DeletedRows, SuccessConfirmed, RowsUsed, NoRun
<1>k. KeysKept'
  BY <1>6, <1>7, <1>8, <1>9 DEF KeysKept, Clean, Possible
<1>v. VersionsApart'
  <2>1. ASSUME NEW r \in RunIds, r # k, Clean(r), Possible(r),
               runs[r].target = j.target, runs[r].build = j.build
        PROVE  runs[r].version # version
    <3>1. runs[r].status # "deleted"
      BY <2>1, <1>6 DEF DeletedRows
    <3>2. runs[r].key = runs[r].version
      BY <2>1, <3>1 DEF KeysKept
    <3>3. QED
      BY <2>1, <3>2, <1>6 DEF KeyTaken, RunsOf
  <2>2. QED
    BY <2>1, <1>6, <1>7, <1>8, <1>9 DEF VersionsApart, Clean, Possible, SamePair
<1>a. OneActiveAttempt'
  <2>1. ASSUME NEW r \in RunIds, runs[r].target = j.target,
               runs[r].build = j.build
        PROVE  runs[r].status \notin ActiveStatus
    BY <2>1, <1>6 DEF Active, RunsOf
  <2>2. QED
    BY <2>1, <1>6, <1>7, <1>8 DEF OneActiveAttempt, SamePair
<1>q. QED
  BY <1>t, <1>u, <1>h, <1>d, <1>k, <1>v, <1>a

\* The network moves one request; only a request that is on its way moves.
LEMMA NetworkSteps ==
  ASSUME IInv, NEW r \in RunIds, Accept(r) \/ Lose(r)
  PROVE  IInv'
<1> USE DEF IInv
<1>1. PICK q \in {"accepted", "lost"} :
        /\ requests[r] = "sent"
        /\ requests' = [requests EXCEPT ![r] = q]
        /\ UNCHANGED <<targets, builds, runs, lastRun, workers, released,
                       misreported>>
  BY DEF Accept, Lose
<1>2. \A s \in RunIds : requests'[s] = IF s = r THEN q ELSE requests[s]
  BY <1>1 DEF TypeOK
<1>3. \A s \in RunIds : Possible(s)' => Possible(s)
  BY <1>1, <1>2 DEF Possible
<1>4. TypeOK'
  BY <1>1 DEF TypeOK
<1>5. RowsUsed'
  BY <1>1, <1>2 DEF RowsUsed, Clean
<1>6. RowsHeld'
  <2> SUFFICES ASSUME NEW w \in Workers
               PROVE  RowsHeld!(w)'
    BY DEF RowsHeld
  <2>1. workers[w].pc \in {"upload", "finish"} => workers[w].run \in RunIds
    BY PublishingAssumption DEF RowsHeld, TypeOK, RunIds
  <2>2. QED
    BY <2>1, <1>1, <1>2, <1>3 DEF RowsHeld, Holds
<1>7. DeletedRows' /\ SuccessConfirmed'
  BY <1>1, <1>2 DEF DeletedRows, SuccessConfirmed
<1>8. KeysKept' /\ VersionsApart'
  BY <1>1, <1>3 DEF KeysKept, VersionsApart, Clean, SamePair
<1>9. OneActiveAttempt'
  BY <1>1 DEF OneActiveAttempt, SamePair
<1>10. QED
  BY <1>4, <1>5, <1>6, <1>7, <1>8, <1>9

\* The end of an upload moves a worker to its record, with a status that
\* agrees with the request or a run marked misreported.
LEMMA AnswerSteps ==
  ASSUME IInv, NEW w \in Workers,
         \/ AnswerAccepted(w)
         \/ AnswerRejected(w)
         \/ AnswerGatewayError(w)
         \/ AnswerUnknown(w)
  PROVE  IInv'
<1> USE DEF IInv
<1>1. PICK k \in RunIds :
        /\ k = workers[w].run
        /\ k \in 1 .. lastRun
        /\ Holds(w, k)
        /\ workers[w].pc = "upload"
  BY PublishingAssumption
     DEF AnswerAccepted, AnswerRejected, AnswerGatewayError, AnswerUnknown,
         RowsHeld, Holds, RunIds, TypeOK
<1>2. PICK status \in {"SUCCEEDED", "UNKNOWN", "FAILED"} :
        /\ workers' = [workers EXCEPT ![w] =
             [workers[w] EXCEPT !.pc = "finish", !.status = status]]
        /\ UNCHANGED <<targets, builds, runs, lastRun, released>>
        /\ requests' \in {requests, [requests EXCEPT ![k] = "rejected"]}
        /\ requests' # requests => requests[k] = "sent"
        /\ misreported \subseteq misreported'
        /\ misreported' \subseteq misreported \cup {k}
        /\ status = "SUCCEEDED" => requests'[k] = "accepted"
        /\ status = "FAILED" => requests'[k] = "rejected" \/ k \in misreported'
  <2>1. CASE AnswerAccepted(w)
    BY <2>1, <1>1 DEF AnswerAccepted, Answered
  <2>2. CASE AnswerRejected(w)
    BY <2>2, <1>1 DEF AnswerRejected, Answered, TypeOK
  <2>3. CASE AnswerGatewayError(w)
    BY <2>3, <1>1 DEF AnswerGatewayError, Answered
  <2>4. CASE AnswerUnknown(w)
    BY <2>4, <1>1 DEF AnswerUnknown, Answered
  <2>5. QED
    BY <2>1, <2>2, <2>3, <2>4
<1> DEFINE j == [workers[w] EXCEPT !.pc = "finish", !.status = status]
<1>3. /\ j \in Job /\ j.pc = "finish" /\ j.status = status
      /\ j.run = k /\ j.target = workers[w].target
      /\ j.build = workers[w].build /\ j.base = workers[w].base
      /\ j.content = workers[w].content
  BY <1>1 DEF TypeOK, Job
<1>4. workers' = [workers EXCEPT ![w] = j]
  BY <1>2
<1> HIDE DEF j
<1>5. \A v \in Workers : workers'[v] = IF v = w THEN j ELSE workers[v]
  BY <1>4 DEF TypeOK
<1>6. \A r \in RunIds :
        /\ Possible(r)' => Possible(r)
        /\ r # k => requests'[r] = requests[r]
        /\ requests[r] = "accepted" => requests'[r] = "accepted"
        /\ requests[r] \in {"none", "lost", "rejected"} =>
             requests'[r] = requests[r]
        /\ Clean(r)' => Clean(r)
        /\ r # k => Clean(r)' = Clean(r)
  BY <1>1, <1>2 DEF TypeOK, Possible, Clean
<1>t. TypeOK'
  BY <1>1, <1>2, <1>3, <1>4 DEF TypeOK
<1>u. RowsUsed'
  BY <1>1, <1>2, <1>6 DEF RowsUsed, RunIds, TypeOK
<1>h. RowsHeld'
  <2> SUFFICES ASSUME NEW v \in Workers
               PROVE  RowsHeld!(v)'
    BY DEF RowsHeld
  <2>1. \A x \in Workers, r \in RunIds :
          /\ workers'[x].pc \in {"upload", "finish"}
          /\ workers'[x].run = r
          => Holds(x, r)
    BY <1>1, <1>3, <1>5 DEF Holds
  <2>2. CASE v = w
    <3>1. \A x \in Workers \ {w} :
            ~(/\ workers'[x].pc \in {"upload", "finish"}
              /\ workers'[x].run = k)
      BY <1>1, <2>1 DEF RowsHeld, Holds
    <3>2. status = "FAILED" => ~Possible(k)' \/ k \in misreported'
      BY <1>2 DEF Possible
    <3>3. QED
      BY <2>2, <3>1, <3>2, <1>1, <1>2, <1>3, <1>5 DEF RowsHeld, Holds
  <2>3. CASE v # w
    <3>1. workers'[v] = workers[v]
      BY <2>3, <1>5
    <3>2. workers[v].pc \in {"upload", "finish"} =>
            /\ workers[v].run \in RunIds
            /\ workers[v].run # k
      BY <1>1, <2>3, PublishingAssumption DEF RowsHeld, Holds, RunIds, TypeOK
    <3>3. \A x \in Workers \ {v} :
            workers[v].pc \in {"upload", "finish"} =>
              ~(/\ workers'[x].pc \in {"upload", "finish"}
                /\ workers'[x].run = workers[v].run)
      BY <2>1, <3>2 DEF RowsHeld
    <3>4. QED
      BY <3>1, <3>2, <3>3, <1>2, <1>6 DEF RowsHeld, Holds, Possible
  <2>4. QED
    BY <2>2, <2>3
<1>d. DeletedRows' /\ SuccessConfirmed'
  BY <1>2, <1>6 DEF DeletedRows, SuccessConfirmed
<1>k. KeysKept' /\ VersionsApart'
  BY <1>2, <1>6 DEF KeysKept, VersionsApart, SamePair
<1>a. OneActiveAttempt'
  BY <1>2 DEF OneActiveAttempt, SamePair
<1>q. QED
  BY <1>t, <1>u, <1>h, <1>d, <1>k, <1>a

\* The record of an outcome: a row nobody released was PENDING, so its key is
\* kept exactly when a remote version exists or may exist.
LEMMA FinishStep ==
  ASSUME IInv, NEW w \in Workers, Finish(w)
  PROVE  IInv'
<1> USE DEF IInv
<1>1. PICK k \in RunIds :
        /\ k = workers[w].run
        /\ k \in 1 .. lastRun
        /\ Holds(w, k)
        /\ workers[w].pc = "finish"
  BY PublishingAssumption DEF Finish, RowsHeld, Holds, RunIds, TypeOK
<1> DEFINE status == workers[w].status
           row == OutcomeRow(runs[k], status)
<1>2. /\ runs' = [runs EXCEPT ![k] = row]
      /\ workers' = [workers EXCEPT ![w] = Idle]
      /\ UNCHANGED <<targets, builds, lastRun, requests, released, misreported>>
  BY <1>1 DEF Finish
<1>3. /\ status \in {"SUCCEEDED", "UNKNOWN", "FAILED"}
      /\ status = "SUCCEEDED" => requests[k] = "accepted"
      /\ status = "FAILED" => ~Possible(k) \/ k \in misreported
      /\ runs[k].status \in {"PENDING", "FAILED", "deleted"}
      /\ k \notin released => runs[k].status # "FAILED"
      /\ runs[k] \in Run
  BY <1>1 DEF RowsHeld, TypeOK
<1>4. /\ row \in Run
      /\ row.target = runs[k].target /\ row.build = runs[k].build
      /\ row.version = runs[k].version
      /\ row.status = IF runs[k].status = "deleted" THEN "deleted" ELSE status
      /\ runs[k].status # "deleted" /\ status # "FAILED" => row.key = runs[k].key
  BY <1>3, OutcomeUpdate
<1> HIDE DEF row, status
<1>5. \A r \in RunIds : runs'[r] = IF r = k THEN row ELSE runs[r]
  BY <1>2 DEF TypeOK
<1>6. \A v \in Workers : workers'[v] = IF v = w THEN Idle ELSE workers[v]
  BY <1>2 DEF TypeOK
<1>7. \A r, s \in RunIds : SamePair(r, s)' <=> SamePair(r, s)
  BY <1>4, <1>5 DEF SamePair
<1>t. TypeOK'
  <2>1. Idle \in Job
    BY PublishingAssumption DEF Idle, Job
  <2>2. QED
    BY <2>1, <1>2, <1>4 DEF TypeOK
<1>u. RowsUsed'
  BY <1>1, <1>2, <1>3, <1>4, <1>5, PublishingAssumption
     DEF RowsUsed, Clean, RunIds, TypeOK
<1>h. RowsHeld'
  <2> SUFFICES ASSUME NEW v \in Workers
               PROVE  RowsHeld!(v)'
    BY DEF RowsHeld
  <2>1. CASE v = w
    BY <2>1, <1>6 DEF Idle
  <2>2. CASE v # w
    <3>1. workers'[v] = workers[v]
      BY <2>2, <1>6
    <3>2. workers[v].pc \in {"upload", "finish"} =>
            /\ workers[v].run \in RunIds
            /\ workers[v].run # k
      BY <1>1, <2>2, PublishingAssumption DEF RowsHeld, Holds, RunIds, TypeOK
    <3>3. \A x \in Workers, r \in RunIds :
            /\ workers'[x].pc \in {"upload", "finish"}
            /\ workers'[x].run = r
            => Holds(x, r)
      BY <1>6 DEF Holds, Idle
    <3>4. QED
      BY <3>1, <3>2, <3>3, <1>2, <1>5 DEF RowsHeld, Holds, Possible
  <2>3. QED
    BY <2>1, <2>2
<1>d. DeletedRows'
  BY <1>2, <1>3, <1>4, <1>5 DEF DeletedRows
<1>s. SuccessConfirmed'
  BY <1>2, <1>3, <1>4, <1>5 DEF SuccessConfirmed
<1>k. KeysKept'
  <2> SUFFICES ASSUME NEW r \in RunIds, Clean(r)', Possible(r)'
               PROVE  \/ runs'[r].status = "deleted"
                      \/ /\ runs'[r].status \in
                              {"PENDING", "UNKNOWN", "SUCCEEDED"}
                         /\ runs'[r].key = runs'[r].version
    BY DEF KeysKept
  <2>1. Clean(r) /\ Possible(r)
    BY <1>2 DEF Clean, Possible
  <2>2. CASE r = k
    BY <2>1, <2>2, <1>3, <1>4, <1>5 DEF KeysKept, Clean
  <2>3. CASE r # k
    BY <2>1, <2>3, <1>5 DEF KeysKept
  <2>4. QED
    BY <2>2, <2>3
<1>v. VersionsApart'
  BY <1>2, <1>4, <1>5, <1>7 DEF VersionsApart, Clean, Possible
<1>a. OneActiveAttempt'
  <2>1. \A r \in RunIds : r \notin released /\ runs'[r].status \in ActiveStatus
          => runs[r].status \in ActiveStatus
    BY <1>3, <1>4, <1>5 DEF ActiveStatus
  <2>2. QED
    BY <2>1, <1>2, <1>7 DEF OneActiveAttempt
<1>q. QED
  BY <1>t, <1>u, <1>h, <1>d, <1>s, <1>k, <1>v, <1>a

\* A release for a retry puts its run out of the reach of the promises.
LEMMA ReleaseStep ==
  ASSUME IInv, NEW k \in RunIds, ReleaseForRetry(k)
  PROVE  IInv'
<1> USE DEF IInv
<1> DEFINE row == SetOutcome(runs[k], "FAILED", None)
<1>1. /\ runs[k].status \in ActiveStatus
      /\ runs' = [runs EXCEPT ![k] = row]
      /\ released' = released \cup {k}
      /\ UNCHANGED <<targets, builds, lastRun, workers, requests, misreported>>
  BY DEF ReleaseForRetry, TypeOK
<1>2. /\ row \in Run /\ row.status = "FAILED" /\ row.key = None
      /\ row.target = runs[k].target /\ row.build = runs[k].build
      /\ row.version = runs[k].version
  BY RowUpdate DEF TypeOK
<1> HIDE DEF row
<1>3. \A r \in RunIds : runs'[r] = IF r = k THEN row ELSE runs[r]
  BY <1>1 DEF TypeOK
<1>4. \A r, s \in RunIds : SamePair(r, s)' <=> SamePair(r, s)
  BY <1>2, <1>3 DEF SamePair
<1>5. k <= lastRun
  BY <1>1 DEF RowsUsed, ActiveStatus, NoRun, TypeOK, RunIds
<1>t. TypeOK'
  BY <1>1, <1>2 DEF TypeOK
<1>u. RowsUsed'
  BY <1>1, <1>2, <1>3, <1>5, PublishingAssumption
     DEF RowsUsed, Clean, RunIds, TypeOK
<1>h. RowsHeld'
  <2> SUFFICES ASSUME NEW v \in Workers
               PROVE  RowsHeld!(v)'
    BY DEF RowsHeld
  <2>1. workers[v].pc \in {"upload", "finish"} => workers[v].run \in RunIds
    BY PublishingAssumption DEF RowsHeld, RunIds, TypeOK
  <2>2. QED
    BY <2>1, <1>1, <1>2, <1>3 DEF RowsHeld, Holds, Possible
<1>d. DeletedRows' /\ SuccessConfirmed'
  BY <1>1, <1>2, <1>3 DEF DeletedRows, SuccessConfirmed
<1>k. KeysKept'
  BY <1>1, <1>3 DEF KeysKept, Clean, Possible
<1>v. VersionsApart'
  BY <1>1, <1>2, <1>3, <1>4 DEF VersionsApart, Clean, Possible
<1>a. OneActiveAttempt'
  BY <1>1, <1>2, <1>3, <1>4 DEF OneActiveAttempt
<1>q. QED
  BY <1>t, <1>u, <1>h, <1>d, <1>k, <1>v, <1>a

\* Edits of builds and targets do not touch the rows; a deleted target is
\* never saved again.
LEMMA EditSteps ==
  ASSUME IInv,
         \/ \E b \in Builds, v \in Bases, c \in Contents : EditBuild(b, v, c)
         \/ \E t \in Targets, e \in BOOLEAN : SaveTarget(t, e)
  PROVE  IInv'
<1> USE DEF IInv
<1>1. /\ UNCHANGED <<runs, lastRun, workers, requests, released, misreported>>
      /\ targets' \in [Targets -> {"absent", "enabled", "disabled", "deleted"}]
      /\ builds' \in [Builds -> [version : Bases, content : Contents]]
      /\ \A t \in Targets : targets[t] = "deleted" => targets'[t] = "deleted"
  BY DEF EditBuild, SaveTarget, TypeOK
<1>2. TypeOK' /\ RowsUsed' /\ RowsHeld'
  BY <1>1 DEF TypeOK, RowsUsed, RowsHeld, Clean, Holds, Possible
<1>3. DeletedRows'
  <2>1. \A r \in RunIds : runs[r].status = "deleted" => runs[r].target \in Targets
    BY DEF RowsUsed, NoRun
  <2>2. QED
    BY <2>1, <1>1 DEF DeletedRows
<1>4. SuccessConfirmed' /\ KeysKept' /\ VersionsApart' /\ OneActiveAttempt'
  BY <1>1 DEF SuccessConfirmed, KeysKept, VersionsApart, OneActiveAttempt,
              Clean, Possible, SamePair
<1>5. QED
  BY <1>2, <1>3, <1>4

\* The deletion of a target marks all its runs, so none of them is active.
LEMMA DeleteTargetStep ==
  ASSUME IInv, NEW t \in Targets, DeleteTarget(t)
  PROVE  IInv'
<1> USE DEF IInv
<1>1. /\ targets' = [targets EXCEPT ![t] = "deleted"]
      /\ UNCHANGED <<builds, lastRun, workers, requests, released, misreported>>
  BY DEF DeleteTarget
<1>2. \A r \in RunIds :
        /\ runs'[r] \in Run
        /\ runs'[r].target = runs[r].target
        /\ runs'[r].build = runs[r].build
        /\ runs'[r].version = runs[r].version
        /\ runs[r].target = t => runs'[r].status = "deleted"
        /\ runs[r].target # t => runs'[r] = runs[r]
  <2> SUFFICES ASSUME NEW r \in RunIds
               PROVE  <1>2!(r)
    OBVIOUS
  <2> DEFINE row == SetOutcome(runs[r], "deleted", None)
  <2>1. runs'[r] = IF runs[r].target = t THEN row ELSE runs[r]
    BY DEF DeleteTarget
  <2>2. runs[r] \in Run
    BY DEF TypeOK
  <2>3. /\ row \in Run
        /\ row.target = runs[r].target /\ row.build = runs[r].build
        /\ row.version = runs[r].version /\ row.status = "deleted"
    BY <2>2, RowUpdate
  <2> HIDE DEF row
  <2>4. QED
    BY <2>1, <2>2, <2>3
<1>3. \A r, s \in RunIds : SamePair(r, s)' <=> SamePair(r, s)
  BY <1>2 DEF SamePair
<1>t. TypeOK'
  BY <1>1, <1>2 DEF TypeOK, DeleteTarget
<1>4. \A r \in RunIds : runs[r].target = t => r <= lastRun
  BY PublishingAssumption DEF RowsUsed, NoRun, TypeOK, RunIds
<1>u. RowsUsed'
  BY <1>1, <1>2, <1>4, PublishingAssumption DEF RowsUsed, Clean, RunIds, TypeOK
<1>h. RowsHeld'
  <2> SUFFICES ASSUME NEW v \in Workers
               PROVE  RowsHeld!(v)'
    BY DEF RowsHeld
  <2>1. workers[v].pc \in {"upload", "finish"} => workers[v].run \in RunIds
    BY PublishingAssumption DEF RowsHeld, RunIds, TypeOK
  <2>2. QED
    BY <2>1, <1>1, <1>2 DEF RowsHeld, Holds, Possible
<1>d. DeletedRows' /\ SuccessConfirmed'
  BY <1>1, <1>2 DEF DeletedRows, SuccessConfirmed, TypeOK
<1>k. KeysKept'
  BY <1>1, <1>2 DEF KeysKept, Clean, Possible
<1>v. VersionsApart'
  BY <1>1, <1>2, <1>3 DEF VersionsApart, Clean, Possible
<1>a. OneActiveAttempt'
  BY <1>1, <1>2, <1>3 DEF OneActiveAttempt, ActiveStatus, SamePair
<1>q. QED
  BY <1>t, <1>u, <1>h, <1>d, <1>k, <1>v, <1>a

LEMMA Unchanged == IInv /\ UNCHANGED vars => IInv'
  BY DEF IInv, vars, TypeOK, RowsUsed, RowsHeld, DeletedRows, KeysKept,
         VersionsApart, SuccessConfirmed, OneActiveAttempt, Clean, Holds,
         Possible, SamePair

\* Every step of every actor keeps the invariant.
LEMMA InductiveStep == IInv /\ [Next]_vars => IInv'
<1> SUFFICES ASSUME IInv, [Next]_vars PROVE IInv'
  OBVIOUS
<1>1. ASSUME NEW w \in Workers, WorkerStep(w) \/ Crash(w)
      PROVE  IInv'
  BY <1>1, RequestSteps, BeginStep, AnswerSteps, FinishStep DEF WorkerStep
<1>2. ASSUME NEW r \in RunIds, Accept(r) \/ Lose(r)
      PROVE  IInv'
  BY <1>2, NetworkSteps
<1>3. CASE OwnerStep
  BY <1>3, ReleaseStep, EditSteps, DeleteTargetStep DEF OwnerStep
<1>4. QED
  BY <1>1, <1>2, <1>3, Unchanged DEF Next

\* The invariant holds in every reachable state.
THEOREM Inductive == Spec => []IInv
  BY InitIInv, InductiveStep, PTL DEF Spec

\* The rows and the workers always hold values of their kinds.
THEOREM TypeCorrect == Spec => []TypeOK
<1>1. IInv => TypeOK
  BY DEF IInv
<1>2. QED
  BY <1>1, Inductive, PTL

\* The duplicate lock holds for any number of workers, targets and builds: two
\* attempts of one build and target are active together only after a retry.
THEOREM DuplicateLock == Spec => []OneActiveAttempt
<1>1. IInv => OneActiveAttempt
  BY DEF IInv
<1>2. QED
  BY <1>1, Inductive, PTL

\* No version of a build is created twice on a target, unless a retry was
\* allowed for one of the attempts or an error hid its acceptance.
THEOREM NoDuplicates == Spec => []NoDuplicateRelease
<1>1. IInv => NoDuplicateRelease
  BY DEF IInv, VersionsApart, NoDuplicateRelease, Clean, Possible
<1>2. QED
  BY <1>1, Inductive, PTL

\* A success is backed by the provider and is never taken back.
THEOREM SuccessStays == Spec => SuccessIsFinal
<1>1. IInv /\ [Next]_vars =>
        [\A r \in RunIds :
           /\ runs[r].status = "SUCCEEDED" =>
                runs'[r].status \in {"SUCCEEDED", "deleted"}
           /\ runs'[r].status = "SUCCEEDED" => requests'[r] = "accepted"]_vars
  <2> SUFFICES ASSUME IInv, [Next]_vars, NEW r \in RunIds
               PROVE  /\ runs[r].status = "SUCCEEDED" =>
                           runs'[r].status \in {"SUCCEEDED", "deleted"}
                      /\ runs'[r].status = "SUCCEEDED" =>
                           requests'[r] = "accepted"
    OBVIOUS
  <2>1. IInv'
    BY InductiveStep
  <2>2. runs'[r].status = "SUCCEEDED" => requests'[r] = "accepted"
    BY <2>1 DEF IInv, SuccessConfirmed
  <2>3. ASSUME runs[r].status = "SUCCEEDED"
        PROVE  runs'[r].status \in {"SUCCEEDED", "deleted"}
    <3>1. ASSUME NEW w \in Workers, WorkerStep(w) \/ Crash(w)
          PROVE  runs'[r] = runs[r]
      <4>1. CASE Begin(w)
        BY <4>1, <2>3, PublishingAssumption
           DEF Begin, IInv, RowsUsed, NoRun, TypeOK, RunIds
      <4>2. CASE Finish(w)
        BY <4>2, <2>3 DEF Finish, IInv, RowsHeld, TypeOK
      <4>3. QED
        BY <3>1, <4>1, <4>2
           DEF WorkerStep, Open, Resolve, Refuse, Crash, AnswerAccepted,
               AnswerRejected, AnswerGatewayError, AnswerUnknown
    <3>2. ASSUME NEW q \in RunIds, Accept(q) \/ Lose(q)
          PROVE  runs'[r] = runs[r]
      BY <3>2 DEF Accept, Lose
    <3>3. ASSUME NEW q \in RunIds, ReleaseForRetry(q)
          PROVE  runs'[r] = runs[r]
      BY <3>3, <2>3 DEF ReleaseForRetry, ActiveStatus, IInv, TypeOK
    <3>4. ASSUME NEW t \in Targets, DeleteTarget(t)
          PROVE  runs'[r].status \in {"SUCCEEDED", "deleted"}
      <4>1. CASE runs[r].target = t
        BY <3>4, <4>1, RowUpdate DEF DeleteTarget, IInv, TypeOK
      <4>2. CASE runs[r].target # t
        BY <3>4, <4>2, <2>3 DEF DeleteTarget
      <4>3. QED
        BY <4>1, <4>2
    <3>5. QED
      BY <2>3, <3>1, <3>2, <3>3, <3>4
         DEF Next, OwnerStep, EditBuild, SaveTarget, vars
  <2>4. QED
    BY <2>2, <2>3
<1>2. QED
  BY <1>1, Inductive, PTL DEF Spec, SuccessIsFinal

-----------------------------------------------------------------------------
(* The numbering of the successes                                          *)

\* Between the two states of a step the rows of a build and target stay the
\* same rows, keep their numbers, and no other becomes a success or active.
RowsKeep(t, b) ==
  \A r \in RunIds :
    /\ r \in RunsOf(t, b)' <=> r \in RunsOf(t, b)
    /\ r \in Succeeded(t, b)' <=> r \in Succeeded(t, b)
    /\ r \in Active(t, b)' => r \in Active(t, b)
    /\ r \in RunsOf(t, b) => runs'[r].patch = runs[r].patch

\* Such a step keeps the numbers of the pair in order.
LEMMA PairKept ==
  ASSUME NEW t, NEW b, Numbered(t, b), RowsKeep(t, b),
         released \subseteq released'
  PROVE  Numbered(t, b)'
<1>1. /\ RunsOf(t, b)' = RunsOf(t, b)
      /\ Succeeded(t, b)' = Succeeded(t, b)
      /\ Active(t, b)' \subseteq Active(t, b)
  BY DEF RowsKeep, RunsOf, Succeeded, Active
<1>2. \A r \in RunsOf(t, b) : runs'[r].patch = runs[r].patch
  BY DEF RowsKeep, RunsOf
<1>3. Succeeded(t, b) \cup Active(t, b) \subseteq RunsOf(t, b)
  BY DEF Succeeded, Active
<1> SUFFICES ASSUME released' \cap RunsOf(t, b)' = {}
             PROVE  /\ \A r \in Succeeded(t, b)' :
                         runs'[r].patch =
                           Cardinality({s \in Succeeded(t, b)' : s < r})
                    /\ \A r \in Active(t, b)' :
                         /\ runs'[r].patch = Cardinality(Succeeded(t, b)')
                         /\ \A s \in Succeeded(t, b)' : s < r
  BY DEF Numbered
<1>4. released \cap RunsOf(t, b) = {}
  BY <1>1
<1>5. QED
  BY <1>1, <1>2, <1>3, <1>4 DEF Numbered

\* Rows that a step leaves alone, except for the outcome of those that do not
\* succeed, keep their pairs.
LEMMA RowsKept ==
  ASSUME NEW t, NEW b,
         \A r \in RunIds :
           r \in RunsOf(t, b) \/ r \in RunsOf(t, b)' =>
             /\ runs'[r].target = runs[r].target
             /\ runs'[r].build = runs[r].build
             /\ runs'[r].patch = runs[r].patch
             /\ runs'[r].status = "SUCCEEDED" <=> runs[r].status = "SUCCEEDED"
             /\ runs'[r].status \in ActiveStatus =>
                  runs[r].status \in ActiveStatus
  PROVE  RowsKeep(t, b)
<1> SUFFICES ASSUME NEW r \in RunIds
             PROVE  RowsKeep(t, b)!(r)
  BY DEF RowsKeep
<1>1. r \in RunsOf(t, b)' <=> r \in RunsOf(t, b)
  BY DEF RunsOf
<1>2. QED
  BY <1>1 DEF Succeeded, Active, RunsOf

\* A step that leaves the table alone keeps the numbers.
LEMMA TableKept ==
  ASSUME AllNumbered, UNCHANGED <<runs, released>>
  PROVE  AllNumbered'
  BY DEF AllNumbered, Numbered, RunsOf, Succeeded, Active

\* The outcome of an attempt leaves its place in the numbering alone.
LEMMA PatchKept ==
  ASSUME NEW run \in Run, NEW status, NEW key
  PROVE  /\ SetOutcome(run, status, key).patch = run.patch
         /\ OutcomeRow(run, status).patch = run.patch
<1>1. \A s, x : SetOutcome(run, s, x).patch = run.patch
  BY DEF SetOutcome, Run
<1>2. QED
  BY <1>1 DEF OutcomeRow

\* A claim gives the new attempt, which is newer than every other, the number
\* of the successes: there is no other active attempt.
LEMMA BeginNumbers ==
  ASSUME NInv, NEW w \in Workers, Begin(w)
  PROVE  AllNumbered'
<1> USE DEF NInv, IInv
<1> DEFINE k == lastRun + 1
<1>1. PICK j \in Job :
        /\ j = workers[w]
        /\ j.pc = "claim"
  BY DEF Begin, TypeOK
<1>2. /\ k \in RunIds /\ k > lastRun
      /\ j.target \in Targets /\ j.build \in Builds
  BY <1>1, PublishingAssumption DEF Begin, TypeOK, RunIds, RowsHeld
<1>3. /\ runs' = [runs EXCEPT ![k] = runs'[k]]
      /\ runs'[k].target = j.target /\ runs'[k].build = j.build
      /\ runs'[k].patch = Cardinality(Succeeded(j.target, j.build))
      /\ runs'[k].status = "PENDING"
      /\ released' = released
      /\ Active(j.target, j.build) = {}
  BY <1>1, <1>2 DEF Begin, BeginRefused, TypeOK
<1>4. \A r \in RunIds : r # k => runs'[r] = runs[r]
  BY <1>3 DEF TypeOK
<1>5. \A r \in RunIds : runs[r].target \in Targets => r < k
  <2> SUFFICES ASSUME NEW r \in RunIds, runs[r].target \in Targets
               PROVE  r < k
    OBVIOUS
  <2>1. runs[r] # NoRun
    BY PublishingAssumption DEF NoRun
  <2>2. ~(r > lastRun)
    BY <2>1 DEF RowsUsed
  <2>3. r \in Nat /\ lastRun \in Nat
    BY PublishingAssumption DEF RunIds, TypeOK
  <2>4. QED
    BY <2>2, <2>3
<1> HIDE DEF k
<1> SUFFICES ASSUME NEW t \in Targets, NEW b \in Builds
             PROVE  Numbered(t, b)'
  BY DEF AllNumbered
<1>6. Numbered(t, b)
  BY DEF AllNumbered
<1>7. CASE t = j.target /\ b = j.build
  <2>1. RunsOf(t, b) \subseteq RunsOf(t, b)'
    BY <1>4, <1>5, <1>2 DEF RunsOf, RunIds
  <2>2. Succeeded(t, b)' = Succeeded(t, b)
    <3>1. \A r \in RunIds : r \in Succeeded(t, b)' <=> r \in Succeeded(t, b)
      BY <1>3, <1>4, <1>5, <1>2 DEF Succeeded, RunsOf, RunIds
    <3>2. QED
      BY <3>1 DEF Succeeded, RunsOf
  <2>3. Active(t, b)' \subseteq {k}
    BY <1>3, <1>4, <1>7 DEF Active, RunsOf
  <2>4. \A s \in Succeeded(t, b) : s < k /\ runs'[s] = runs[s]
    BY <1>4, <1>5, <1>2 DEF Succeeded, RunsOf, RunIds
  <2>5. released' \cap RunsOf(t, b)' = {} => released \cap RunsOf(t, b) = {}
    BY <1>3, <2>1
  <2>6. QED
    BY <1>3, <1>6, <1>7, <2>2, <2>3, <2>4, <2>5 DEF Numbered
<1>8. CASE ~(t = j.target /\ b = j.build)
  <2>1. k \notin RunsOf(t, b)' /\ k \notin RunsOf(t, b)
    BY <1>2, <1>3, <1>5, <1>8 DEF RunsOf, RunIds
  <2>2. RowsKeep(t, b)
    BY <2>1, <1>4, RowsKept
  <2>3. QED
    BY <2>2, <1>3, <1>6, PairKept
<1>9. QED
  BY <1>7, <1>8

\* The record of an outcome: a success was the one active attempt of its build
\* and target, unless an attempt of the pair was released.
LEMMA FinishNumbers ==
  ASSUME NInv, NEW w \in Workers, Finish(w)
  PROVE  AllNumbered'
<1> USE DEF NInv, IInv
<1>1. PICK k \in RunIds : k = workers[w].run
  BY PublishingAssumption DEF Finish, RowsHeld, RunIds, TypeOK
<1>2. PICK status \in {"SUCCEEDED", "UNKNOWN", "FAILED"} :
        status = workers[w].status
  BY DEF Finish, RowsHeld
<1>3. /\ runs' = [runs EXCEPT ![k] = OutcomeRow(runs[k], status)]
      /\ released' = released
      /\ runs[k] \in Run
      /\ runs[k].status \in {"PENDING", "FAILED", "deleted"}
      /\ k \notin released => runs[k].status # "FAILED"
  BY <1>1, <1>2 DEF Finish, RowsHeld, TypeOK
<1>4. \A r \in RunIds : r # k => runs'[r] = runs[r]
  BY <1>3 DEF TypeOK
<1>5. /\ runs'[k].target = runs[k].target /\ runs'[k].build = runs[k].build
      /\ runs'[k].patch = runs[k].patch
      /\ runs'[k].status =
           IF runs[k].status = "deleted" THEN "deleted" ELSE status
  BY ZenonT(30), <1>3, OutcomeUpdate, PatchKept DEF TypeOK
<1> SUFFICES ASSUME NEW t \in Targets, NEW b \in Builds
             PROVE  Numbered(t, b)'
  BY DEF AllNumbered
<1>6. Numbered(t, b)
  BY DEF AllNumbered
<1>7. \A r \in RunIds : r \in RunsOf(t, b)' <=> r \in RunsOf(t, b)
  BY <1>4, <1>5 DEF RunsOf
<1>8. CASE k \notin RunsOf(t, b)
  <2>1. RowsKeep(t, b)
    BY <1>4, <1>7, <1>8, RowsKept
  <2>2. QED
    BY <2>1, <1>3, <1>6, PairKept
<1>9. CASE k \in RunsOf(t, b) /\ k \in released
  BY <1>3, <1>7, <1>9 DEF Numbered
<1>10. CASE /\ k \in RunsOf(t, b)
            /\ k \notin released
            /\ runs'[k].status # "SUCCEEDED"
  <2>1. /\ runs[k].status # "SUCCEEDED"
        /\ runs'[k].status \in ActiveStatus => runs[k].status \in ActiveStatus
    BY <1>3, <1>5, <1>10 DEF ActiveStatus
  <2>2. RowsKeep(t, b)
    BY <2>1, <1>4, <1>5, <1>10, RowsKept
  <2>3. QED
    BY <2>2, <1>3, <1>6, PairKept
<1>11. CASE /\ k \in RunsOf(t, b)
            /\ k \notin released
            /\ runs'[k].status = "SUCCEEDED"
  <2> SUFFICES ASSUME released \cap RunsOf(t, b) = {}
               PROVE  Numbered(t, b)'
    BY <1>3, <1>7 DEF Numbered, RunsOf
  <2> DEFINE S == Succeeded(t, b)
  <2>1. runs[k].status = "PENDING"
    BY <1>3, <1>5, <1>11
  <2>2. k \in Active(t, b) /\ k \notin S
    BY <2>1, <1>11 DEF Active, Succeeded, ActiveStatus
  <2>3. Active(t, b) \subseteq {k}
    BY <2>2 DEF OneActiveAttempt, SamePair, Active, RunsOf
  <2>4. \A r \in RunIds : r \in Succeeded(t, b)' <=> r \in S \cup {k}
    BY <1>4, <1>7, <1>11 DEF Succeeded, RunsOf
  <2>5. Succeeded(t, b)' = S \cup {k}
    BY <2>4 DEF Succeeded, RunsOf
  <2>6. Active(t, b)' = {}
    BY <2>3, <1>4, <1>5, <1>7, <1>11 DEF Active, RunsOf, ActiveStatus
  <2>7. /\ runs[k].patch = Cardinality(S)
        /\ \A s \in S : s < k
        /\ \A r \in S : runs[r].patch = Cardinality({s \in S : s < r})
    BY <2>2, <1>6 DEF Numbered
  <2>8. S \subseteq RunIds /\ \A r \in S : r \in Nat
    BY DEF Succeeded, RunsOf, RunIds
  <2> HIDE DEF S
  <2>9. k \in Nat
    BY DEF RunIds
  <2>10. {s \in S \cup {k} : s < k} = S
    <3>1. ~(k < k)
      BY <2>9
    <3>2. \A s \in S : s < k
      BY <2>7
    <3>3. \A s : s \in {x \in S \cup {k} : x < k} <=> s \in S
      BY <3>1, <3>2
    <3>4. QED
      BY <3>3
  <2>11. \A r \in S : {s \in S \cup {k} : s < r} = {s \in S : s < r}
    <3> SUFFICES ASSUME NEW r \in S
                 PROVE  {s \in S \cup {k} : s < r} = {s \in S : s < r}
      OBVIOUS
    <3>1. ~(k < r)
      BY <2>7, <2>8, <2>9
    <3>2. QED
      BY <3>1
  <2>12. \A r \in S \cup {k} :
           runs'[r].patch = Cardinality({s \in S \cup {k} : s < r})
    BY <2>2, <2>7, <2>8, <2>10, <2>11, <1>4, <1>5
  <2>13. QED
    BY <2>5, <2>6, <2>12 DEF Numbered
<1>12. QED
  BY <1>8, <1>9, <1>10, <1>11

\* A release ends the promise for its build and target, and is none of
\* another's business.
LEMMA ReleaseNumbers ==
  ASSUME NInv, NEW k \in RunIds, ReleaseForRetry(k)
  PROVE  AllNumbered'
<1> USE DEF NInv, IInv
<1>1. /\ runs' = [runs EXCEPT ![k] = SetOutcome(runs[k], "FAILED", None)]
      /\ released' = released \cup {k}
      /\ runs[k] \in Run
  BY DEF ReleaseForRetry, TypeOK
<1>2. \A r \in RunIds : r # k => runs'[r] = runs[r]
  BY <1>1 DEF TypeOK
<1>3. runs'[k].target = runs[k].target /\ runs'[k].build = runs[k].build
  BY <1>1, RowUpdate DEF TypeOK
<1> SUFFICES ASSUME NEW t \in Targets, NEW b \in Builds
             PROVE  Numbered(t, b)'
  BY DEF AllNumbered
<1>4. Numbered(t, b)
  BY DEF AllNumbered
<1>5. k \in RunsOf(t, b)' <=> k \in RunsOf(t, b)
  BY <1>3 DEF RunsOf
<1>6. CASE k \in RunsOf(t, b)
  BY <1>1, <1>5, <1>6 DEF Numbered
<1>7. CASE k \notin RunsOf(t, b)
  <2>1. RowsKeep(t, b)
    BY <1>2, <1>5, <1>7, RowsKept
  <2>2. QED
    BY <2>1, <1>1, <1>4, PairKept
<1>8. QED
  BY <1>6, <1>7

\* The deletion of a target leaves it no success and no active attempt.
LEMMA DeleteNumbers ==
  ASSUME NInv, NEW d \in Targets, DeleteTarget(d)
  PROVE  AllNumbered'
<1> USE DEF NInv, IInv
<1>1. \A r \in RunIds :
        /\ runs[r].target = d =>
             runs'[r].target = d /\ runs'[r].status = "deleted"
        /\ runs[r].target # d => runs'[r] = runs[r]
  <2> SUFFICES ASSUME NEW r \in RunIds
               PROVE  <1>1!(r)
    OBVIOUS
  <2>1. runs'[r] = IF runs[r].target = d
                     THEN SetOutcome(runs[r], "deleted", None)
                     ELSE runs[r]
    BY DEF DeleteTarget
  <2>2. QED
    BY <2>1, RowUpdate DEF TypeOK
<1>2. released' = released
  BY DEF DeleteTarget
<1> SUFFICES ASSUME NEW t \in Targets, NEW b \in Builds
             PROVE  Numbered(t, b)'
  BY DEF AllNumbered
<1>3. Numbered(t, b)
  BY DEF AllNumbered
<1>4. CASE t = d
  <2>1. Succeeded(t, b)' = {} /\ Active(t, b)' = {}
    BY <1>1, <1>4 DEF Succeeded, Active, RunsOf, ActiveStatus
  <2>2. QED
    BY <2>1 DEF Numbered
<1>5. CASE t # d
  <2>1. \A r \in RunIds :
          r \in RunsOf(t, b) \/ r \in RunsOf(t, b)' => runs'[r] = runs[r]
    BY <1>1, <1>5 DEF RunsOf
  <2>2. RowsKeep(t, b)
    BY <2>1, RowsKept
  <2>3. QED
    BY <2>2, <1>2, <1>3, PairKept
<1>6. QED
  BY <1>4, <1>5

\* Every step keeps the numbers in order.
LEMMA NumberingStep == NInv /\ [Next]_vars => NInv'
<1> SUFFICES ASSUME NInv, [Next]_vars PROVE NInv'
  OBVIOUS
<1>i. IInv'
  BY InductiveStep DEF NInv
<1>1. ASSUME NEW w \in Workers, WorkerStep(w) \/ Crash(w)
      PROVE  AllNumbered'
  <2>1. CASE Begin(w)
    BY <2>1, BeginNumbers
  <2>2. CASE Finish(w)
    BY <2>2, FinishNumbers
  <2>3. CASE ~Begin(w) /\ ~Finish(w)
    <3>1. UNCHANGED <<runs, released>>
      BY <1>1, <2>3
         DEF WorkerStep, Open, Resolve, Refuse, Crash, AnswerAccepted,
             AnswerRejected, AnswerGatewayError, AnswerUnknown
    <3>2. QED
      BY <3>1, TableKept DEF NInv
  <2>4. QED
    BY <2>1, <2>2, <2>3
<1>2. ASSUME NEW r \in RunIds, Accept(r) \/ Lose(r)
      PROVE  AllNumbered'
  BY <1>2, TableKept DEF Accept, Lose, NInv
<1>3. ASSUME OwnerStep
      PROVE  AllNumbered'
  <2>1. ASSUME NEW b \in Builds, NEW v \in Bases, NEW c \in Contents,
               EditBuild(b, v, c)
        PROVE  AllNumbered'
    BY <2>1, TableKept DEF EditBuild, NInv
  <2>2. ASSUME NEW t \in Targets, NEW e \in BOOLEAN, SaveTarget(t, e)
        PROVE  AllNumbered'
    BY <2>2, TableKept DEF SaveTarget, NInv
  <2>3. QED
    BY <1>3, <2>1, <2>2, ReleaseNumbers, DeleteNumbers DEF OwnerStep
<1>4. ASSUME UNCHANGED vars
      PROVE  AllNumbered'
  BY <1>4, TableKept DEF vars, NInv
<1>5. QED
  BY <1>i, <1>1, <1>2, <1>3, <1>4 DEF Next, NInv

\* The successes of a build on a target are numbered 0, 1, 2, ... in the order
\* of their attempts, whatever fails, crashes or is deleted in between, until
\* an attempt of the pair is released for a retry.
THEOREM NumbersInSequence == Spec => []PatchesInSequence
<1>1. Init => NInv
  <2>1. Init => AllNumbered
    BY DEF Init, AllNumbered, Numbered, RunsOf, Succeeded, Active,
           ActiveStatus, NoRun
  <2>2. QED
    BY <2>1, InitIInv DEF NInv
<1>2. NInv => PatchesInSequence
  BY DEF NInv, AllNumbered, Numbered, PatchesInSequence
<1>3. QED
  BY <1>1, <1>2, NumberingStep, PTL DEF Spec

-----------------------------------------------------------------------------
(* The ledger that direct publication implements when owners release only  *)
(* attempts that ended without a remote version                            *)

\* A released attempt is over: no worker is left that could still record an
\* outcome for it.
ReleasedGone ==
  \A r \in released :
    /\ runs[r].status \in {"FAILED", "deleted"}
    /\ \A w \in Workers : ~Holds(w, r)

\* An active attempt is for the next release.
ActiveNext ==
  \A t \in Targets, b \in Builds :
    \A r \in Active(t, b) : runs[r].patch = Cardinality(Succeeded(t, b))

WInv == IInv /\ ReleasedGone /\ ActiveNext

\* What the ledger shows of a build and target.
AttemptOf(t, b) ==
  IF Active(t, b) = {} THEN None
  ELSE runs[CHOOSE r \in Active(t, b) : TRUE].patch
ReleasesOf(t, b) == Cardinality(Succeeded(t, b))
Attempts == [p \in Targets \X Builds |-> AttemptOf(p[1], p[2])]
Releases == [p \in Targets \X Builds |-> ReleasesOf(p[1], p[2])]

\* The actions of the ledger, read with the refinement mapping.
LEMMA LedgerActions ==
  /\ \A p : Ledger!Claim(p) <=>
       /\ Attempts[p] = None
       /\ Attempts' = [Attempts EXCEPT ![p] = Releases[p]]
       /\ Releases' = Releases
  /\ \A p : Ledger!Confirm(p) <=>
       /\ Attempts[p] = Releases[p]
       /\ Attempts' = [Attempts EXCEPT ![p] = None]
       /\ Releases' = [Releases EXCEPT ![p] = @ + 1]
  /\ \A p : Ledger!Abandon(p) <=>
       /\ Attempts[p] # None
       /\ Attempts' = [Attempts EXCEPT ![p] = None]
       /\ Releases' = Releases
  /\ \A t : Ledger!Forget(t) <=>
       /\ Attempts' = [p \in Targets \X Builds |->
                         IF p[1] = t THEN None ELSE Attempts[p]]
       /\ Releases' = [p \in Targets \X Builds |->
                         IF p[1] = t THEN 0 ELSE Releases[p]]
  /\ UNCHANGED Ledger!vars <=> Attempts' = Attempts /\ Releases' = Releases
  BY DEF Ledger!Claim, Ledger!Confirm, Ledger!Abandon, Ledger!Forget,
         Ledger!vars, Ledger!Pairs, Attempts, Releases, AttemptOf, ReleasesOf

LEMMA SingleChoice == \A A, k : A = {k} => (CHOOSE r \in A : TRUE) = k
  OBVIOUS

\* A build and target whose rows a step leaves alone keep what the ledger
\* shows of them, and their active attempt keeps its number.
LEMMA PairSame ==
  ASSUME NEW t, NEW b,
         \A r \in RunIds :
           r \in RunsOf(t, b) \/ r \in RunsOf(t, b)' => runs'[r] = runs[r]
  PROVE  /\ Succeeded(t, b)' = Succeeded(t, b)
         /\ Active(t, b)' = Active(t, b)
         /\ \A r \in Active(t, b) : runs'[r] = runs[r]
         /\ AttemptOf(t, b)' = AttemptOf(t, b)
         /\ ReleasesOf(t, b)' = ReleasesOf(t, b)
<1>1. \A r \in RunIds : r \in RunsOf(t, b)' <=> r \in RunsOf(t, b)
  BY DEF RunsOf
<1>2. RunsOf(t, b)' = RunsOf(t, b)
  BY <1>1 DEF RunsOf
<1>3. /\ Succeeded(t, b)' = Succeeded(t, b)
      /\ Active(t, b)' = Active(t, b)
  BY <1>1, <1>2 DEF Succeeded, Active, RunsOf
<1>4. \A r \in Active(t, b) : runs'[r] = runs[r]
  BY DEF Active, RunsOf
<1>5. AttemptOf(t, b)' = AttemptOf(t, b)
  <2>1. CASE Active(t, b) = {}
    BY <2>1, <1>3 DEF AttemptOf
  <2>2. CASE Active(t, b) # {}
    <3>1. (CHOOSE r \in Active(t, b) : TRUE) \in Active(t, b)
      BY <2>2
    <3>2. QED
      BY <2>2, <3>1, <1>3, <1>4 DEF AttemptOf
  <2>3. QED
    BY <2>1, <2>2
<1>6. QED
  BY <1>3, <1>4, <1>5 DEF ReleasesOf

\* The active attempt of a build and target is alone, was not released, and is
\* what the ledger shows.
LEMMA Alone ==
  ASSUME WInv, NEW t, NEW b, NEW k \in Active(t, b)
  PROVE  /\ Active(t, b) = {k}
         /\ AttemptOf(t, b) = runs[k].patch
<1>1. \A r \in Active(t, b) : r \notin released
  BY DEF WInv, ReleasedGone, Active, ActiveStatus
<1>2. Active(t, b) = {k}
  BY <1>1 DEF WInv, IInv, OneActiveAttempt, SamePair, Active, RunsOf
<1>3. QED
  BY <1>2, SingleChoice DEF AttemptOf

\* The number of successes is never the empty entry of the ledger.
LEMMA CountsAreNumbers ==
  \A t, b : ReleasesOf(t, b) \in Nat /\ ReleasesOf(t, b) # None
<1> SUFFICES ASSUME NEW t, NEW b
             PROVE  ReleasesOf(t, b) \in Nat /\ ReleasesOf(t, b) # None
  OBVIOUS
<1>1. ReleasesOf(t, b) \in Nat
  BY SuccessCount, PublishingAssumption DEF ReleasesOf
<1>2. QED
  BY <1>1, PublishingAssumption

\* A step that touches the rows of one build and target shows in the ledger
\* what it does to that pair, and nothing else.
LEMMA OnePairStep ==
  ASSUME NEW t \in Targets, NEW b \in Builds,
         \A u \in Targets, c \in Builds :
           ~(u = t /\ c = b) =>
             /\ AttemptOf(u, c)' = AttemptOf(u, c)
             /\ ReleasesOf(u, c)' = ReleasesOf(u, c),
         \/ /\ AttemptOf(t, b) = None
            /\ AttemptOf(t, b)' = ReleasesOf(t, b)
            /\ ReleasesOf(t, b)' = ReleasesOf(t, b)
         \/ /\ AttemptOf(t, b) = ReleasesOf(t, b)
            /\ AttemptOf(t, b)' = None
            /\ ReleasesOf(t, b)' = ReleasesOf(t, b) + 1
         \/ /\ AttemptOf(t, b) # None
            /\ AttemptOf(t, b)' = None
            /\ ReleasesOf(t, b)' = ReleasesOf(t, b)
  PROVE  Ledger!Next
<1> DEFINE p == <<t, b>>
<1>1. p \in Targets \X Builds /\ p[1] = t /\ p[2] = b
  OBVIOUS
<1>2. /\ Attempts[p] = AttemptOf(t, b)
      /\ Releases[p] = ReleasesOf(t, b)
  BY <1>1 DEF Attempts, Releases
<1>3. \A q \in Targets \X Builds :
        q # p =>
          /\ AttemptOf(q[1], q[2])' = AttemptOf(q[1], q[2])
          /\ ReleasesOf(q[1], q[2])' = ReleasesOf(q[1], q[2])
  OBVIOUS
<1>4. Attempts' = [Attempts EXCEPT ![p] = AttemptOf(t, b)']
  BY <1>1, <1>3 DEF Attempts
<1>5. Releases' = [Releases EXCEPT ![p] = ReleasesOf(t, b)']
  BY <1>1, <1>3 DEF Releases
<1>6. ReleasesOf(t, b)' = ReleasesOf(t, b) => Releases' = Releases
  BY <1>1, <1>3, <1>5 DEF Releases
<1> HIDE DEF p
<1>7. Ledger!Claim(p) \/ Ledger!Confirm(p) \/ Ledger!Abandon(p)
  BY <1>2, <1>4, <1>5, <1>6, LedgerActions
<1>8. QED
  BY <1>1, <1>7 DEF Ledger!Next, Ledger!Pairs

\* A step that leaves the rows alone leaves the ledger alone.
LEMMA LedgerStutters ==
  ASSUME UNCHANGED runs
  PROVE  UNCHANGED Ledger!vars
  BY SMTT(30), LedgerActions
     DEF Attempts, Releases, AttemptOf, ReleasesOf, Active, Succeeded, RunsOf

\* A step that touches neither the rows nor the released attempts, and hands
\* no worker an attempt it did not hold.
LEMMA QuietStep ==
  ASSUME WInv, UNCHANGED <<runs, released>>,
         \A v \in Workers, r \in RunIds : Holds(v, r)' => Holds(v, r)
  PROVE  ReleasedGone' /\ ActiveNext' /\ UNCHANGED Ledger!vars
<1>1. ReleasedGone'
  BY DEF WInv, IInv, TypeOK, ReleasedGone
<1>2. ActiveNext'
  BY DEF WInv, ActiveNext, Active, Succeeded, RunsOf
<1>3. QED
  BY <1>1, <1>2, LedgerStutters

\* A claim is the ledger's claim.
LEMMA BeginClaims ==
  ASSUME WInv, NEW w \in Workers, Begin(w)
  PROVE  ReleasedGone' /\ ActiveNext' /\ Ledger!Next
<1> USE DEF WInv, IInv
<1> DEFINE k == lastRun + 1
<1>1. PICK j \in Job :
        /\ j = workers[w]
        /\ j.pc = "claim"
  BY DEF Begin, TypeOK
<1>2. /\ k \in RunIds /\ k > lastRun
      /\ j.target \in Targets /\ j.build \in Builds
  BY <1>1, PublishingAssumption DEF Begin, TypeOK, RunIds, RowsHeld
<1>3. /\ runs' = [runs EXCEPT ![k] = runs'[k]]
      /\ runs'[k].target = j.target /\ runs'[k].build = j.build
      /\ runs'[k].patch = Cardinality(Succeeded(j.target, j.build))
      /\ runs'[k].status = "PENDING"
      /\ released' = released
      /\ Active(j.target, j.build) = {}
  BY <1>1, <1>2 DEF Begin, BeginRefused, TypeOK
<1>4. \A r \in RunIds : r # k => runs'[r] = runs[r]
  BY <1>3 DEF TypeOK
<1>5. /\ runs[k] = NoRun
      /\ k \notin released
      /\ runs[k].target \notin Targets /\ runs[k].status = "none"
  BY <1>2, PublishingAssumption DEF RowsUsed, NoRun, Clean
<1>6. /\ workers' = [workers EXCEPT ![w] = workers'[w]]
      /\ workers'[w].run = k
  BY <1>1 DEF Begin, TypeOK, Job
<1> HIDE DEF k
<1>7. \A v \in Workers, r \in RunIds :
        r # k /\ Holds(v, r)' => Holds(v, r)
  BY <1>6 DEF Holds, TypeOK
<1>8. ReleasedGone'
  BY <1>3, <1>4, <1>5, <1>7 DEF ReleasedGone, TypeOK
<1>9. PICK t \in Targets, b \in Builds : t = j.target /\ b = j.build
  BY <1>2
<1>10. Succeeded(t, b)' = Succeeded(t, b)
  <2>1. \A r \in RunIds : r \in Succeeded(t, b)' <=> r \in Succeeded(t, b)
    BY <1>3, <1>4, <1>5 DEF Succeeded, RunsOf
  <2>2. QED
    BY <2>1 DEF Succeeded, RunsOf
<1>11. Active(t, b)' = {k}
  <2>1. \A r \in RunIds : r \in Active(t, b)' <=> r = k
    BY <1>2, <1>3, <1>4, <1>9 DEF Active, RunsOf, ActiveStatus
  <2>2. QED
    BY <2>1, <1>2 DEF Active, RunsOf
<1>12. ASSUME NEW u \in Targets, NEW c \in Builds, ~(u = t /\ c = b)
       PROVE  /\ Succeeded(u, c)' = Succeeded(u, c)
              /\ Active(u, c)' = Active(u, c)
              /\ \A r \in Active(u, c) : runs'[r] = runs[r]
              /\ AttemptOf(u, c)' = AttemptOf(u, c)
              /\ ReleasesOf(u, c)' = ReleasesOf(u, c)
  <2>1. k \notin RunsOf(u, c)' /\ k \notin RunsOf(u, c)
    BY <1>3, <1>5, <1>9, <1>12 DEF RunsOf
  <2>2. QED
    BY <2>1, <1>4, PairSame
<1>13. ActiveNext'
  <2> SUFFICES ASSUME NEW u \in Targets, NEW c \in Builds,
                      NEW r \in Active(u, c)'
               PROVE  runs'[r].patch = Cardinality(Succeeded(u, c)')
    BY DEF ActiveNext
  <2>1. CASE u = t /\ c = b
    BY <2>1, <1>3, <1>9, <1>10, <1>11
  <2>2. CASE ~(u = t /\ c = b)
    BY <2>2, <1>12 DEF ActiveNext
  <2>3. QED
    BY <2>1, <2>2
<1>14. /\ AttemptOf(t, b) = None
       /\ AttemptOf(t, b)' = ReleasesOf(t, b)
       /\ ReleasesOf(t, b)' = ReleasesOf(t, b)
  <2>1. AttemptOf(t, b) = None
    BY <1>3, <1>9 DEF AttemptOf
  <2>2. AttemptOf(t, b)' = runs'[k].patch
    BY <1>11, SingleChoice DEF AttemptOf
  <2>3. QED
    BY <2>1, <2>2, <1>3, <1>9, <1>10 DEF ReleasesOf
<1>15. \A u \in Targets, c \in Builds :
         ~(u = t /\ c = b) =>
           /\ AttemptOf(u, c)' = AttemptOf(u, c)
           /\ ReleasesOf(u, c)' = ReleasesOf(u, c)
  BY <1>12
<1>16. Ledger!Next
  BY <1>14, <1>15, OnePairStep
<1>17. QED
  BY <1>8, <1>13, <1>16

\* What a step makes of one attempt that was active: it ends, successfully or
\* not, or goes on with its number.
LEMMA AttemptEnds ==
  ASSUME WInv, NEW k \in RunIds,
         runs' = [runs EXCEPT ![k] = runs'[k]],
         runs[k].target \in Targets, runs[k].build \in Builds,
         runs[k].status \in ActiveStatus,
         runs'[k].target = runs[k].target, runs'[k].build = runs[k].build,
         runs'[k].patch = runs[k].patch,
         runs'[k].status \in {"SUCCEEDED", "UNKNOWN", "FAILED"}
  PROVE  ActiveNext' /\ (Ledger!Next \/ UNCHANGED Ledger!vars)
<1> USE DEF WInv, IInv
<1>1. \A r \in RunIds : r # k => runs'[r] = runs[r]
  BY DEF TypeOK
<1>2. PICK t \in Targets, b \in Builds :
        t = runs[k].target /\ b = runs[k].build
  OBVIOUS
<1>3. k \in Active(t, b) /\ k \notin Succeeded(t, b)
  BY <1>2 DEF Active, RunsOf, ActiveStatus, Succeeded
<1>4. /\ Active(t, b) = {k}
      /\ AttemptOf(t, b) = runs[k].patch
      /\ runs[k].patch = Cardinality(Succeeded(t, b))
  BY <1>3, Alone DEF ActiveNext
<1>5. ASSUME NEW u \in Targets, NEW c \in Builds, ~(u = t /\ c = b)
      PROVE  /\ Succeeded(u, c)' = Succeeded(u, c)
             /\ Active(u, c)' = Active(u, c)
             /\ \A r \in Active(u, c) : runs'[r] = runs[r]
             /\ AttemptOf(u, c)' = AttemptOf(u, c)
             /\ ReleasesOf(u, c)' = ReleasesOf(u, c)
  <2>1. k \notin RunsOf(u, c)' /\ k \notin RunsOf(u, c)
    BY <1>2, <1>5 DEF RunsOf
  <2>2. QED
    BY <2>1, <1>1, PairSame
<1>6. \A u \in Targets, c \in Builds :
        ~(u = t /\ c = b) =>
          /\ AttemptOf(u, c)' = AttemptOf(u, c)
          /\ ReleasesOf(u, c)' = ReleasesOf(u, c)
  BY <1>5
<1>7. \A r \in RunIds : r # k =>
        /\ r \in Active(t, b)' <=> r \in Active(t, b)
        /\ r \in Succeeded(t, b)' <=> r \in Succeeded(t, b)
  BY <1>1 DEF Active, Succeeded, RunsOf
<1>8. ASSUME \A r \in Active(t, b)' :
               runs'[r].patch = Cardinality(Succeeded(t, b)')
      PROVE  ActiveNext'
  <2> SUFFICES ASSUME NEW u \in Targets, NEW c \in Builds,
                      NEW r \in Active(u, c)'
               PROVE  runs'[r].patch = Cardinality(Succeeded(u, c)')
    BY DEF ActiveNext
  <2>1. CASE u = t /\ c = b
    BY <2>1, <1>8
  <2>2. CASE ~(u = t /\ c = b)
    BY <2>2, <1>5 DEF ActiveNext
  <2>3. QED
    BY <2>1, <2>2
<1>9. CASE runs'[k].status = "UNKNOWN"
  <2>1. k \in Active(t, b)' /\ k \notin Succeeded(t, b)'
    BY <1>2, <1>9 DEF Active, Succeeded, RunsOf, ActiveStatus
  <2>2. Active(t, b)' = {k} /\ Succeeded(t, b)' = Succeeded(t, b)
    BY <2>1, <1>3, <1>4, <1>7 DEF Active, Succeeded, RunsOf
  <2>3. AttemptOf(t, b)' = runs'[k].patch
    BY <2>2, SingleChoice DEF AttemptOf
  <2>4. \A u \in Targets, c \in Builds :
          /\ AttemptOf(u, c)' = AttemptOf(u, c)
          /\ ReleasesOf(u, c)' = ReleasesOf(u, c)
    BY <2>2, <2>3, <1>4, <1>6 DEF ReleasesOf
  <2>5. UNCHANGED Ledger!vars
    BY <2>4, LedgerActions DEF Attempts, Releases
  <2>6. ActiveNext'
    BY <2>2, <1>4, <1>8
  <2>7. QED
    BY <2>5, <2>6
<1>10. CASE runs'[k].status = "FAILED"
  <2>1. k \notin Active(t, b)' /\ k \notin Succeeded(t, b)'
    BY <1>10 DEF Active, Succeeded, RunsOf, ActiveStatus
  <2>2. Active(t, b)' = {} /\ Succeeded(t, b)' = Succeeded(t, b)
    BY <2>1, <1>3, <1>4, <1>7 DEF Active, Succeeded, RunsOf
  <2>3. /\ AttemptOf(t, b) # None
        /\ AttemptOf(t, b)' = None
        /\ ReleasesOf(t, b)' = ReleasesOf(t, b)
    BY <2>2, <1>4, CountsAreNumbers DEF AttemptOf, ReleasesOf
  <2>4. Ledger!Next
    BY <2>3, <1>6, OnePairStep
  <2>5. ActiveNext'
    BY <2>2, <1>8
  <2>6. QED
    BY <2>4, <2>5
<1>11. CASE runs'[k].status = "SUCCEEDED"
  <2>1. k \notin Active(t, b)' /\ k \in Succeeded(t, b)'
    BY <1>2, <1>11 DEF Active, Succeeded, RunsOf, ActiveStatus
  <2>2. Active(t, b)' = {} /\ Succeeded(t, b)' = Succeeded(t, b) \cup {k}
    BY <2>1, <1>3, <1>4, <1>7 DEF Active, Succeeded, RunsOf
  <2>3. IsFiniteSet(Succeeded(t, b))
    BY SuccessesFinite
  <2>4. Cardinality(Succeeded(t, b) \cup {k}) = Cardinality(Succeeded(t, b)) + 1
    BY <2>3, <1>3, FS_AddElement
  <2>5. /\ AttemptOf(t, b) = ReleasesOf(t, b)
        /\ AttemptOf(t, b)' = None
        /\ ReleasesOf(t, b)' = ReleasesOf(t, b) + 1
    BY <2>2, <2>4, <1>4 DEF AttemptOf, ReleasesOf
  <2>6. Ledger!Next
    BY <2>5, <1>6, OnePairStep
  <2>7. ActiveNext'
    BY <2>2, <1>8
  <2>8. QED
    BY <2>6, <2>7
<1>12. QED
  BY <1>9, <1>10, <1>11

\* The record of an outcome is the ledger's confirmation or abandonment of the
\* attempt; an unknown outcome, or one that comes after the deletion of the
\* target, changes nothing.
LEMMA FinishSettles ==
  ASSUME WInv, NEW w \in Workers, Finish(w)
  PROVE  /\ ReleasedGone' /\ ActiveNext'
         /\ Ledger!Next \/ UNCHANGED Ledger!vars
<1> USE DEF WInv, IInv
<1>1. PICK k \in RunIds :
        /\ k = workers[w].run
        /\ k <= lastRun
        /\ Holds(w, k)
  BY PublishingAssumption DEF Finish, RowsHeld, RunIds, TypeOK, Holds
<1>2. PICK status \in {"SUCCEEDED", "UNKNOWN", "FAILED"} :
        status = workers[w].status
  BY DEF Finish, RowsHeld
<1>3. /\ runs' = [runs EXCEPT ![k] = OutcomeRow(runs[k], status)]
      /\ released' = released
      /\ workers' = [workers EXCEPT ![w] = Idle]
      /\ runs[k] \in Run
      /\ k \notin released
      /\ runs[k].status \in {"PENDING", "deleted"}
  BY <1>1, <1>2 DEF Finish, RowsHeld, TypeOK, ReleasedGone
<1>4. \A r \in RunIds : r # k => runs'[r] = runs[r]
  BY <1>3 DEF TypeOK
<1>5. /\ runs'[k].target = runs[k].target /\ runs'[k].build = runs[k].build
      /\ runs'[k].patch = runs[k].patch
      /\ runs'[k].status =
           IF runs[k].status = "deleted" THEN "deleted" ELSE status
  BY ZenonT(30), <1>3, OutcomeUpdate, PatchKept DEF TypeOK
<1>6. \A v \in Workers, r \in RunIds : Holds(v, r)' => Holds(v, r)
  BY <1>3 DEF Holds, TypeOK, Idle
<1>7. ReleasedGone'
  BY <1>3, <1>4, <1>6 DEF ReleasedGone, TypeOK
<1>8. CASE runs[k].status = "deleted"
  <2>1. runs' = runs
    BY <1>3, <1>8 DEF OutcomeRow, TypeOK
  <2>2. QED
    BY <2>1, <1>3, <1>6, QuietStep
<1>9. CASE runs[k].status = "PENDING"
  <2>1. runs[k].target \in Targets /\ runs[k].build \in Builds
    <3>1. runs[k] # NoRun
      BY <1>9 DEF NoRun
    <3>2. QED
      BY <3>1 DEF RowsUsed
  <2>2. /\ runs' = [runs EXCEPT ![k] = runs'[k]]
        /\ runs[k].status \in ActiveStatus
        /\ runs'[k].status \in {"SUCCEEDED", "UNKNOWN", "FAILED"}
    BY <1>3, <1>5, <1>9 DEF ActiveStatus, TypeOK
  <2>3. ActiveNext' /\ (Ledger!Next \/ UNCHANGED Ledger!vars)
    BY <2>1, <2>2, <1>5, AttemptEnds
  <2>4. QED
    BY <2>3, <1>7
<1>10. QED
  BY <1>3, <1>8, <1>9

\* A release for a retry abandons the attempt.
LEMMA ReleaseAbandons ==
  ASSUME WInv, OwnerCare = "waits", NEW k \in RunIds, ReleaseForRetry(k)
  PROVE  /\ ReleasedGone' /\ ActiveNext'
         /\ Ledger!Next \/ UNCHANGED Ledger!vars
<1> USE DEF WInv, IInv
<1>1. /\ runs' = [runs EXCEPT ![k] = SetOutcome(runs[k], "FAILED", None)]
      /\ released' = released \cup {k}
      /\ runs[k] \in Run
      /\ runs[k].status \in ActiveStatus
      /\ \A v \in Workers : workers[v].run # k
      /\ workers' = workers
  BY DEF ReleaseForRetry, MayRelease, TypeOK
<1>2. \A r \in RunIds : r # k => runs'[r] = runs[r]
  BY <1>1 DEF TypeOK
<1>3. /\ runs'[k].target = runs[k].target /\ runs'[k].build = runs[k].build
      /\ runs'[k].status = "FAILED"
      /\ runs'[k].patch = runs[k].patch
  BY <1>1, RowUpdate, PatchKept DEF TypeOK
<1>4. ReleasedGone'
  BY <1>1, <1>2, <1>3 DEF ReleasedGone, Holds, TypeOK
<1>5. runs[k].target \in Targets /\ runs[k].build \in Builds
  <2>1. runs[k] # NoRun
    BY <1>1 DEF NoRun, ActiveStatus
  <2>2. QED
    BY <2>1 DEF RowsUsed
<1>6. runs' = [runs EXCEPT ![k] = runs'[k]]
  BY <1>1 DEF TypeOK
<1>7. ActiveNext' /\ (Ledger!Next \/ UNCHANGED Ledger!vars)
  BY <1>1, <1>3, <1>5, <1>6, AttemptEnds
<1>8. QED
  BY <1>4, <1>7

\* The deletion of a target is the ledger's.
LEMMA DeleteForgets ==
  ASSUME WInv, NEW d \in Targets, DeleteTarget(d)
  PROVE  ReleasedGone' /\ ActiveNext' /\ Ledger!Next
<1> USE DEF WInv, IInv
<1>1. \A r \in RunIds :
        /\ runs[r].target = d =>
             runs'[r].target = d /\ runs'[r].status = "deleted"
        /\ runs[r].target # d => runs'[r] = runs[r]
  <2> SUFFICES ASSUME NEW r \in RunIds
               PROVE  <1>1!(r)
    OBVIOUS
  <2>1. runs'[r] = IF runs[r].target = d
                     THEN SetOutcome(runs[r], "deleted", None)
                     ELSE runs[r]
    BY DEF DeleteTarget
  <2>2. QED
    BY <2>1, RowUpdate DEF TypeOK
<1>2. released' = released /\ workers' = workers
  BY DEF DeleteTarget
<1>3. ReleasedGone'
  BY <1>1, <1>2 DEF ReleasedGone, Holds, TypeOK
<1>4. ASSUME NEW u \in Targets, NEW c \in Builds, u # d
      PROVE  /\ Succeeded(u, c)' = Succeeded(u, c)
             /\ Active(u, c)' = Active(u, c)
             /\ \A r \in Active(u, c) : runs'[r] = runs[r]
             /\ AttemptOf(u, c)' = AttemptOf(u, c)
             /\ ReleasesOf(u, c)' = ReleasesOf(u, c)
  <2>1. \A r \in RunIds :
          r \in RunsOf(u, c) \/ r \in RunsOf(u, c)' => runs'[r] = runs[r]
    BY <1>1, <1>4 DEF RunsOf
  <2>2. QED
    BY <2>1, PairSame
<1>5. ASSUME NEW c \in Builds
      PROVE  /\ Active(d, c)' = {}
             /\ AttemptOf(d, c)' = None
             /\ ReleasesOf(d, c)' = 0
  <2>1. Succeeded(d, c)' = {} /\ Active(d, c)' = {}
    BY <1>1 DEF Succeeded, Active, RunsOf, ActiveStatus
  <2>2. QED
    BY <2>1, FS_EmptySet DEF AttemptOf, ReleasesOf
<1>6. ActiveNext'
  <2> SUFFICES ASSUME NEW u \in Targets, NEW c \in Builds,
                      NEW r \in Active(u, c)'
               PROVE  runs'[r].patch = Cardinality(Succeeded(u, c)')
    BY DEF ActiveNext
  <2>1. u # d
    BY <1>5
  <2>2. QED
    BY <2>1, <1>4 DEF ActiveNext
<1>7. \A p \in Targets \X Builds :
        /\ AttemptOf(p[1], p[2])' =
             IF p[1] = d THEN None ELSE AttemptOf(p[1], p[2])
        /\ ReleasesOf(p[1], p[2])' =
             IF p[1] = d THEN 0 ELSE ReleasesOf(p[1], p[2])
  BY <1>4, <1>5
<1>8. /\ Attempts' = [p \in Targets \X Builds |->
                        IF p[1] = d THEN None ELSE Attempts[p]]
      /\ Releases' = [p \in Targets \X Builds |->
                        IF p[1] = d THEN 0 ELSE Releases[p]]
  BY <1>7 DEF Attempts, Releases
<1>9. Ledger!Forget(d)
  BY <1>8, LedgerActions
<1>10. QED
  BY <1>3, <1>6, <1>9 DEF Ledger!Next

\* Every step keeps the invariant and is a step of the ledger or leaves it
\* alone.
LEMMA LedgerStep ==
  ASSUME OwnerCare = "waits", WInv, [Next]_vars
  PROVE  WInv' /\ (Ledger!Next \/ UNCHANGED Ledger!vars)
<1>i. IInv'
  BY InductiveStep DEF WInv
<1> DEFINE Goal == /\ ReleasedGone' /\ ActiveNext'
                   /\ Ledger!Next \/ UNCHANGED Ledger!vars
<1>1. ASSUME NEW w \in Workers, WorkerStep(w) \/ Crash(w)
      PROVE  Goal
  <2>1. CASE Begin(w)
    BY <2>1, BeginClaims
  <2>2. CASE Finish(w)
    BY <2>2, FinishSettles
  <2>3. CASE ~Begin(w) /\ ~Finish(w)
    <3>1. UNCHANGED <<runs, released>>
      BY <1>1, <2>3
         DEF WorkerStep, Open, Resolve, Refuse, Crash, AnswerAccepted,
             AnswerRejected, AnswerGatewayError, AnswerUnknown
    <3> DEFINE Stays ==
                 /\ \A v \in Workers : v # w => workers'[v] = workers[v]
                 /\ workers'[w].pc \in {"upload", "finish"} =>
                      /\ workers[w].pc = "upload"
                      /\ workers'[w].run = workers[w].run
    <3>2. Stays
      <4>1. ASSUME NEW t \in Targets, NEW b \in Builds, Open(w, t, b)
            PROVE  Stays
        BY <4>1 DEF Open, Idle, WInv, IInv, TypeOK
      <4>2. ASSUME Resolve(w) \/ Refuse(w) \/ Crash(w)
            PROVE  Stays
        BY <4>2 DEF Resolve, Refuse, Crash, Idle, WInv, IInv, TypeOK, Job
      <4>3. ASSUME \/ AnswerAccepted(w) \/ AnswerRejected(w)
                   \/ AnswerGatewayError(w) \/ AnswerUnknown(w)
            PROVE  Stays
        <5>1. PICK status :
                /\ workers[w].pc = "upload"
                /\ workers' = [workers EXCEPT ![w] =
                     [workers[w] EXCEPT !.pc = "finish", !.status = status]]
          BY <4>3 DEF AnswerAccepted, AnswerRejected, AnswerGatewayError,
                      AnswerUnknown, Answered
        <5>2. workers[w] \in Job /\ workers \in [Workers -> Job]
          BY DEF WInv, IInv, TypeOK
        <5>3. workers'[w].run = workers[w].run
          BY <5>1, <5>2 DEF Job
        <5>4. QED
          BY <5>1, <5>2, <5>3
      <4> HIDE DEF Stays
      <4>4. QED
        BY <1>1, <2>3, <4>1, <4>2, <4>3 DEF WorkerStep
    <3>3. \A v \in Workers, r \in RunIds : Holds(v, r)' => Holds(v, r)
      BY <3>2 DEF Holds, WInv, IInv, TypeOK
    <3>4. QED
      BY <3>1, <3>3, QuietStep
  <2>4. QED
    BY <2>1, <2>2, <2>3
<1>2. ASSUME UNCHANGED <<runs, released, workers>>
      PROVE  Goal
  BY <1>2, QuietStep DEF Holds
<1>3. ASSUME NEW r \in RunIds, Accept(r) \/ Lose(r)
      PROVE  Goal
  BY <1>3, <1>2 DEF Accept, Lose
<1>4. ASSUME OwnerStep
      PROVE  Goal
  <2>1. ASSUME NEW b \in Builds, NEW v \in Bases, NEW c \in Contents,
               EditBuild(b, v, c)
        PROVE  Goal
    BY <2>1, <1>2 DEF EditBuild
  <2>2. ASSUME NEW t \in Targets, NEW e \in BOOLEAN, SaveTarget(t, e)
        PROVE  Goal
    BY <2>2, <1>2 DEF SaveTarget
  <2>3. ASSUME NEW r \in RunIds, ReleaseForRetry(r)
        PROVE  Goal
    BY <2>3, ReleaseAbandons
  <2>4. ASSUME NEW t \in Targets, DeleteTarget(t)
        PROVE  Goal
    BY <2>4, DeleteForgets
  <2> HIDE DEF Goal
  <2>5. QED
    BY <1>4, <2>1, <2>2, <2>3, <2>4 DEF OwnerStep
<1>5. ASSUME UNCHANGED vars
      PROVE  Goal
  BY <1>5, <1>2 DEF vars
<1>6. Goal
  <2> HIDE DEF Goal
  <2>1. QED
    BY <1>1, <1>3, <1>4, <1>5 DEF Next
<1>7. QED
  BY <1>i, <1>6 DEF WInv

LEMMA LedgerInit == Init => WInv /\ Ledger!Init
<1> SUFFICES ASSUME Init PROVE WInv /\ Ledger!Init
  OBVIOUS
<1>1. ReleasedGone
  BY DEF Init, ReleasedGone
<1>2. \A t \in Targets, b \in Builds :
        Active(t, b) = {} /\ Succeeded(t, b) = {}
  BY DEF Init, Active, Succeeded, RunsOf, NoRun, ActiveStatus
<1>3. ActiveNext
  BY <1>2 DEF ActiveNext
<1>4. Ledger!Init
  BY <1>2, FS_EmptySet DEF Ledger!Init, Ledger!Pairs
<1>5. QED
  BY <1>1, <1>3, <1>4, InitIInv DEF WInv

\* Direct publication implements the release ledger for any number of workers,
\* targets, builds and runs, when owners release only attempts that ended
\* without a remote version: one attempt at a time, each for the next number,
\* and only a confirmed one uses its number up.
THEOREM LedgerImplemented ==
  ASSUME OwnerCare = "waits"
  PROVE  Spec => ImplementsLedger
<1>1. Init => WInv /\ Ledger!Init
  BY LedgerInit
<1>2. WInv /\ [Next]_vars => WInv' /\ [Ledger!Next]_(Ledger!vars)
  BY LedgerStep
<1>3. QED
  BY <1>1, <1>2, PTL DEF Spec, ImplementsLedger, Ledger!Spec

-----------------------------------------------------------------------------
(***************************************************************************)
(* Proofs about Exports: the type invariant, and that every package comes  *)
(* to the player once.  What an archive holds is a function of what the    *)
(* export has read; ExportInv says it in terms of the packages it read,    *)
(* the groups as they were, and what was edited since.                     *)
(***************************************************************************)

Packs == [Mods -> Rows \cup {Absent}]

\* Only packages of a group are excluded, and loader packages are in none.
Plain(packages) ==
  \A m \in In(packages) : packages[m].state = EXCLUDED => m \notin Ignored

Archives ==
  [format : Formats, launcher : SUBSET Mods,
   listed : SUBSET (Mods \X (0 .. MaxEdits)), bundle : SUBSET Mods,
   mapped : SUBSET Mapped]

LoadedJobs == [stage : {"loaded"}, packages : Packs, public : {"yes", "no"},
               touched : SUBSET Mods]
MappedJobs == [stage : {"mapped"}, packages : Packs, public : {"yes", "no"},
               touched : SUBSET Mods, mapped : SUBSET Mapped]
ExportedJobs == [stage : {"exported"}, packages : Packs, grouped : SUBSET Mods,
                 touched : SUBSET Mods, archive : Archives]

JobOK == \/ job \in {[stage |-> "idle"], [stage |-> "refused"]}
         \/ job \in LoadedJobs \cup MappedJobs \cup ExportedJobs

MembersOK ==
  /\ members \in Packs
  /\ \A m \in In(members) : Legal(m, members[m], mode)
  /\ mode \in {"BASIC", "ADVANCED"}
  /\ enabled \subseteq Mapped
  /\ public \in {"yes", "no"}
  /\ technic \in {"loader", "technic", Absent}
  /\ edits \in 0 .. MaxEdits

\* What the export has read is what the build has, but for what was touched.
PackagesKnown ==
  job.stage \in {"loaded", "mapped", "exported"} =>
    /\ Plain(job.packages)
    /\ \A m \in Mods \ job.touched : members[m] = job.packages[m]

GroupsKnown ==
  job.stage = "exported" =>
    /\ job.grouped \cap Ignored = {}
    /\ \A m \in Mods \ job.touched : m \in job.grouped <=> m \in NowGrouped

ForProvider(format) == format.to \in {"modrinth", "curseforge"}

\* L is what the launcher was given of the packages P, when those of G were
\* in groups and those outside of T had their defaults.
GivenTo(L, P, G, a) ==
  /\ L \subseteq (Actual(P) \ a.mapped) \ G
  /\ \A m \in L : ModrinthOf[m] = "version" /\ P[m].state # EXCLUDED
  /\ L # {} => a.format.to = "modrinth" /\ a.format.source = "hybrid"
  /\ a.format.to = "modrinth" /\ a.format.by = "none" => Actual(P) \ a.mapped \subseteq L

Owned(L, P, a) ==
  /\ a.launcher = L \cup a.mapped
                    \cup IF a.format.to = "server" THEN ServerLoaders(P) ELSE {}
  /\ a.listed = IF ForProvider(a.format) /\ a.format.by = "loader"
                  THEN {<<m, P[m].id>> : m \in L \cup (a.mapped \cap Actual(P))}
                  ELSE {}
  /\ ~ ForProvider(a.format) => a.mapped = {}

\* The required packages and the defaults of the choices.
Chosen(m, P, G) ==
  /\ m \in Actual(P)
  /\ SideOf[m] # "SERVER"
  /\ IF m \in G THEN P[m].default = 1 ELSE P[m].state = REQUIRED

Brought(L, P, G, T, a) ==
  CASE a.format.to = "prism" /\ a.format.by = "none" ->
         /\ a.bundle \subseteq Actual(P)
         /\ \A m \in Mods \ T : m \in a.bundle <=> Chosen(m, P, G)
    [] a.format.to = "packwiz" ->
         a.bundle = {m \in Actual(P) : m \in Jars /\ P[m].state # EXCLUDED}
    [] a.format.by \in {"mcil", "bundled"} ->
         a.bundle = {m \in (Actual(P) \ a.mapped) \ L :
                       P[m].state # EXCLUDED \/ m \in G}
    [] OTHER -> a.bundle = {}

ArchiveKnown ==
  job.stage = "exported" =>
    \E L \in SUBSET Mods :
      /\ GivenTo(L, job.packages, job.grouped, job.archive)
      /\ Owned(L, job.packages, job.archive)
      /\ Brought(L, job.packages, job.grouped, job.touched, job.archive)

ExportInv ==
  MembersOK /\ JobOK /\ PackagesKnown /\ GroupsKnown /\ ArchiveKnown

-----------------------------------------------------------------------------
(* Groups and jobs                                                         *)

\* Groups know a package that was read by the id of its membership.
LEMMA ReadGrouped ==
  ASSUME NEW P, NEW m
  PROVE  m \in GroupedIn(P, ActiveGroups) <=>
           /\ m \in In(P) /\ m \in In(members)
           /\ mode = "ADVANCED"
           /\ members[m].grouped = 1
           /\ members[m].id = P[m].id
<1>1. ASSUME NEW i \in ActiveGroups, i.id = <<m, P[m].id>>
      PROVE  /\ m \in In(members) /\ mode = "ADVANCED"
             /\ members[m].grouped = 1 /\ members[m].id = P[m].id
  <2>1. PICK x \in {y \in In(members) : mode = "ADVANCED" /\ members[y].grouped = 1} :
          i = [id |-> <<x, members[x].id>>, default |-> members[x].default]
    BY <1>1 DEF ActiveGroups
  <2>2. x = m /\ members[x].id = P[m].id
    BY <1>1, <2>1
  <2>3. QED
    BY <2>1, <2>2
<1>2. ASSUME m \in In(members), mode = "ADVANCED", members[m].grouped = 1,
             members[m].id = P[m].id
      PROVE  \E i \in ActiveGroups : i.id = <<m, P[m].id>>
  <2>1. [id |-> <<m, members[m].id>>, default |-> members[m].default] \in ActiveGroups
    BY <1>2 DEF ActiveGroups
  <2>2. QED
    BY <2>1, <1>2
<1>3. QED
  BY <1>1, <1>2 DEF GroupedIn

GroupedNow ==
  \A m : m \in NowGrouped <=>
    /\ m \in In(members)
    /\ mode = "ADVANCED"
    /\ members[m].grouped = 1

LEMMA GroupedMeans == GroupedNow
<1>1. PICK P \in {members} : P = members
  OBVIOUS
<1>2. QED
  BY <1>1, ReadGrouped DEF NowGrouped, GroupedNow

\* The job of every stage has the fields of its stage.
LEMMA JobShapes ==
  ASSUME JobOK
  PROVE  /\ job.stage \in {"idle", "refused", "loaded", "mapped", "exported"}
         /\ job.stage = "idle" => job = [stage |-> "idle"]
         /\ job.stage = "refused" => job = [stage |-> "refused"]
         /\ job.stage = "loaded" => job \in LoadedJobs
         /\ job.stage = "mapped" => job \in MappedJobs
         /\ job.stage = "exported" => job \in ExportedJobs
BY DEF JobOK, LoadedJobs, MappedJobs, ExportedJobs

\* What an edit does to the job: it notes the memberships it touches.
LEMMA EditNotes ==
  ASSUME JobOK, NEW T \in SUBSET Mods, Edit(T)
  PROVE  /\ JobOK'
         /\ job'.stage = job.stage
         /\ job.stage \in {"loaded", "mapped", "exported"} =>
              /\ job'.packages = job.packages
              /\ job'.touched = job.touched \cup T
         /\ job.stage = "exported" =>
              /\ job'.grouped = job.grouped
              /\ job'.archive = job.archive
<1>1. CASE job.stage \in {"idle", "refused"}
  BY <1>1 DEF Edit, JobOK
<1>2. CASE job.stage = "loaded"
  <2>1. job \in LoadedJobs
    BY <1>2, JobShapes
  <2>2. job' = [job EXCEPT !.touched = job.touched \cup T]
    BY <1>2 DEF Edit
  <2>3. job' \in LoadedJobs /\ job'.stage = job.stage /\ job'.packages = job.packages
          /\ job'.touched = job.touched \cup T
    BY <2>1, <2>2 DEF LoadedJobs
  <2>4. QED
    BY <1>2, <2>3 DEF JobOK
<1>3. CASE job.stage = "mapped"
  <2>1. job \in MappedJobs
    BY <1>3, JobShapes
  <2>2. job' = [job EXCEPT !.touched = job.touched \cup T]
    BY <1>3 DEF Edit
  <2>3. job' \in MappedJobs /\ job'.stage = job.stage /\ job'.packages = job.packages
          /\ job'.touched = job.touched \cup T
    BY <2>1, <2>2 DEF MappedJobs
  <2>4. QED
    BY <1>3, <2>3 DEF JobOK
<1>4. CASE job.stage = "exported"
  <2>1. job \in ExportedJobs
    BY <1>4, JobShapes
  <2>2. job' = [job EXCEPT !.touched = job.touched \cup T]
    BY <1>4 DEF Edit
  <2>3. job' \in ExportedJobs /\ job'.stage = job.stage /\ job'.packages = job.packages
          /\ job'.touched = job.touched \cup T /\ job'.grouped = job.grouped
          /\ job'.archive = job.archive
    BY <2>1, <2>2 DEF ExportedJobs
  <2>4. QED
    BY <1>4, <2>3 DEF JobOK
<1>5. QED
  BY <1>1, <1>2, <1>3, <1>4, JobShapes

\* An edit keeps what the invariant says of the job, when it touches every
\* membership it changes and every one that enters or leaves the groups.
LEMMA EditKeeps ==
  ASSUME ExportInv, NEW T \in SUBSET Mods, Edit(T), MembersOK',
         \A m \in Mods \ T : members'[m] = members[m],
         \A m \in Mods \ T : m \in NowGrouped <=> m \in NowGrouped'
  PROVE  ExportInv'
<1>1. JobOK' /\ job'.stage = job.stage
  BY EditNotes DEF ExportInv
<1>2. PackagesKnown'
  BY <1>1, EditNotes DEF ExportInv, PackagesKnown
<1>3. GroupsKnown'
  BY <1>1, EditNotes DEF ExportInv, GroupsKnown
<1>4. ArchiveKnown'
  <2>1. SUFFICES ASSUME job.stage = "exported"
                 PROVE  \E L \in SUBSET Mods :
                          /\ GivenTo(L, job.packages, job.grouped, job.archive)
                          /\ Owned(L, job.packages, job.archive)
                          /\ Brought(L, job.packages, job.grouped,
                                     job.touched \cup T, job.archive)
    BY <1>1, EditNotes DEF ExportInv, ArchiveKnown
  <2>2. PICK L \in SUBSET Mods :
          /\ GivenTo(L, job.packages, job.grouped, job.archive)
          /\ Owned(L, job.packages, job.archive)
          /\ Brought(L, job.packages, job.grouped, job.touched, job.archive)
    BY <2>1 DEF ExportInv, ArchiveKnown
  <2>3. Brought(L, job.packages, job.grouped, job.touched \cup T, job.archive)
    BY <2>2 DEF Brought
  <2>4. QED
    BY <2>2, <2>3
<1>5. QED
  BY <1>1, <1>2, <1>3, <1>4 DEF ExportInv

LEMMA GroupedMeansNext ==
  \A m : m \in NowGrouped' <=>
    /\ m \in In(members')
    /\ mode' = "ADVANCED"
    /\ members'[m].grouped = 1
<1>1. GroupedNow'
  BY GroupedMeans, PTL
<1>2. QED
  BY <1>1 DEF GroupedNow, In

-----------------------------------------------------------------------------
(* The steps                                                               *)

LEMMA InitKeeps == ExportInit => ExportInv
<1>1. ASSUME ExportInit PROVE MembersOK
  <2>0. PICK S \in SUBSET Mods : \E f \in [S -> {r \in Rows : r.id = 0}] :
          /\ \A m \in S : Legal(m, f[m], mode)
          /\ members = [m \in Mods |-> IF m \in S THEN f[m] ELSE Absent]
    BY <1>1 DEF ExportInit
  <2>1. PICK f \in [S -> {r \in Rows : r.id = 0}] :
          /\ \A m \in S : Legal(m, f[m], mode)
          /\ members = [m \in Mods |-> IF m \in S THEN f[m] ELSE Absent]
    BY <2>0
  <2>2. members \in Packs
    BY <2>1 DEF Packs
  <2>3. \A m \in In(members) : Legal(m, members[m], mode)
    BY <2>1 DEF In
  <2>4. QED
    BY <1>1, <2>2, <2>3, ExportsAssumption DEF ExportInit, MembersOK
<1>2. ASSUME ExportInit PROVE JobOK /\ PackagesKnown /\ GroupsKnown /\ ArchiveKnown
  BY <1>2 DEF ExportInit, JobOK, PackagesKnown, GroupsKnown, ArchiveKnown
<1>3. QED
  BY <1>1, <1>2 DEF ExportInv

LEMMA LoadKeeps == ASSUME ExportInv, Load PROVE ExportInv'
<1>1. MembersOK' /\ UNCHANGED members
  BY DEF ExportInv, MembersOK, Load
<1>2. job' \in LoadedJobs /\ job'.stage = "loaded" /\ job'.packages = members
        /\ job'.touched = {}
  BY DEF ExportInv, MembersOK, Load, LoadedJobs
<1>3. Plain(members)
  BY ExportsAssumption DEF ExportInv, MembersOK, Plain, Legal
<1>4. PackagesKnown'
  BY <1>1, <1>2, <1>3 DEF PackagesKnown, Plain, In
<1>5. QED
  BY <1>1, <1>2, <1>4 DEF ExportInv, JobOK, GroupsKnown, ArchiveKnown

LEMMA ReadMappingsKeeps == ASSUME ExportInv, ReadMappings PROVE ExportInv'
<1>1. MembersOK' /\ UNCHANGED members
  BY DEF ExportInv, MembersOK, ReadMappings
<1>2. job \in LoadedJobs /\ job.stage = "loaded"
  BY JobShapes DEF ExportInv, ReadMappings
<1>3. job' \in MappedJobs /\ job'.stage = "mapped" /\ job'.packages = job.packages
        /\ job'.touched = job.touched
  BY <1>2 DEF ExportInv, MembersOK, ReadMappings, LoadedJobs, MappedJobs
<1>4. PackagesKnown'
  BY <1>1, <1>2, <1>3 DEF ExportInv, PackagesKnown, Plain, In
<1>5. QED
  BY <1>1, <1>3, <1>4 DEF ExportInv, JobOK, GroupsKnown, ArchiveKnown

LEMMA EditMemberKeeps ==
  ASSUME ExportInv, NEW m \in Mods, EditMember(m) PROVE ExportInv'
<1>1. PICK row \in Rows \cup {Absent} :
        /\ row # Absent => Legal(m, row, mode)
        /\ members' = [members EXCEPT ![m] = row]
  BY DEF EditMember
<1>2. Edit({m}) /\ UNCHANGED <<mode, enabled, public, technic>>
  BY DEF EditMember
<1>3. MembersOK'
  <2>1. members' \in Packs
    BY <1>1 DEF ExportInv, MembersOK, Packs
  <2>2. \A x \in In(members') : Legal(x, members'[x], mode)
    BY <1>1 DEF ExportInv, MembersOK, Packs, In
  <2>3. edits' \in 0 .. MaxEdits
    BY <1>2, ExportsAssumption DEF Edit, ExportInv, MembersOK
  <2>4. QED
    BY <1>2, <2>1, <2>2, <2>3 DEF ExportInv, MembersOK, In
<1>4. \A x \in Mods \ {m} : members'[x] = members[x]
  BY <1>1 DEF ExportInv, MembersOK, Packs
<1>5. \A x \in Mods \ {m} : x \in NowGrouped <=> x \in NowGrouped'
  BY <1>2, <1>4, GroupedMeans, GroupedMeansNext DEF GroupedNow, In
<1>6. QED
  BY <1>2, <1>3, <1>4, <1>5, EditKeeps

LEMMA SwitchModeKeeps == ASSUME ExportInv, SwitchMode PROVE ExportInv'
<1>1. PICK T \in SUBSET Mods :
        T = {m \in In(members) : members[m].grouped = 1} /\ Edit(T)
  BY DEF SwitchMode, In
<1>2. UNCHANGED <<members, enabled, public, technic>>
  BY DEF SwitchMode
<1>3. MembersOK'
  <2>1. edits' \in 0 .. MaxEdits /\ mode' \in {"BASIC", "ADVANCED"}
    BY <1>1, ExportsAssumption DEF Edit, ExportInv, MembersOK, SwitchMode
  <2>2. \A m \in In(members) : Legal(m, members[m], mode')
    BY DEF SwitchMode, Legal, ExportInv, MembersOK
  <2>3. QED
    BY <1>2, <2>1, <2>2 DEF ExportInv, MembersOK, In
<1>4. \A m \in Mods \ T : m \in NowGrouped <=> m \in NowGrouped'
  BY <1>1, <1>2, GroupedMeans, GroupedMeansNext DEF GroupedNow, In
<1>5. QED
  BY <1>1, <1>2, <1>3, <1>4, EditKeeps

LEMMA OtherEditsKeep ==
  ASSUME ExportInv, SetPublic \/ \E m \in Mapped : SetMapping(m)
  PROVE  ExportInv'
<1>1. Edit({}) /\ UNCHANGED <<members, mode, technic>>
  BY DEF SetPublic, SetMapping
<1>2. MembersOK'
  <2>1. edits' \in 0 .. MaxEdits
    BY <1>1, ExportsAssumption DEF Edit, ExportInv, MembersOK
  <2>2. enabled' \subseteq Mapped /\ public' \in {"yes", "no"}
    BY DEF ExportInv, MembersOK, SetPublic, SetMapping
  <2>3. QED
    BY <1>1, <2>1, <2>2 DEF ExportInv, MembersOK, In
<1>3. \A m \in Mods : m \in NowGrouped <=> m \in NowGrouped'
  BY <1>1, GroupedMeans, GroupedMeansNext DEF GroupedNow
<1>4. QED
  BY <1>1, <1>2, <1>3, EditKeeps

\* Configuring Technic and disabling it leave the export alone.
LEMMA TechnicKeeps ==
  ASSUME ExportInv, UNCHANGED <<members, mode, enabled, public, job, edits>>,
         technic' \in {"loader", "technic", Absent}
  PROVE  ExportInv'
<1>1. MembersOK'
  BY DEF ExportInv, MembersOK, In
<1>2. \A m : m \in NowGrouped <=> m \in NowGrouped'
  BY GroupedMeans, GroupedMeansNext DEF GroupedNow
<1>3. JobOK' /\ PackagesKnown' /\ ArchiveKnown'
  BY DEF ExportInv, JobOK, PackagesKnown, Plain, In, ArchiveKnown
<1>4. GroupsKnown'
  BY <1>2 DEF ExportInv, GroupsKnown
<1>5. QED
  BY <1>1, <1>3, <1>4 DEF ExportInv

\* What Archive makes of the packages it has read.
LEMMA ArchiveSays ==
  ASSUME ExportInv, job.stage = "mapped", NEW format \in Formats,
         NEW answered \in SUBSET {m \in Mods \ Stored : ModrinthOf[m] = "version"},
         NEW a, a = Archive(format, ActiveGroups, answered), a # Absent
  PROVE  /\ a \in Archives /\ a.format = format
         /\ \E L \in SUBSET Mods :
              /\ GivenTo(L, job.packages, GroupedIn(job.packages, ActiveGroups), a)
              /\ Owned(L, job.packages, a)
              /\ Brought(L, job.packages, GroupedIn(job.packages, ActiveGroups),
                         job.touched, a)
<1> DEFINE P == job.packages
           native == format.to \in {"modrinth", "curseforge"}
           handles == format.to = "modrinth"
           M == IF native THEN ActiveMappings(job.mapped, format.source) ELSE {}
           G == GroupedIn(P, ActiveGroups)
           plan == Plan(P, ActiveGroups, format.source, handles, M, answered)
           L == plan.launcher
<1>1. job \in MappedJobs /\ P \in Packs /\ job.mapped \subseteq Mapped
        /\ job.touched \subseteq Mods
  BY JobShapes DEF ExportInv, MappedJobs
<1>2. /\ ~ Refused(format, P, ActiveGroups, plan, M)
      /\ a = [format |-> format,
              launcher |-> Files(format, P, plan, M),
              listed |-> IF native /\ format.by = "loader"
                           THEN Listed(P, L, M) ELSE {},
              bundle |-> Carried(format, P, ActiveGroups, plan),
              mapped |-> M]
  BY DEF Archive
<1>3. M \subseteq Mapped /\ Mapped \subseteq Mods
  BY <1>1, ExportsAssumption DEF ActiveMappings
<1>4. /\ plan.kept = Actual(P) \ M
      /\ L \subseteq Actual(P) \ M
      /\ plan.downloader = (Actual(P) \ M) \ L
      /\ \A m \in L : /\ handles /\ format.source = "hybrid"
                      /\ m \notin G
                      /\ ModrinthOf[m] = "version" /\ P[m].state # EXCLUDED
  <2>1. DEFINE kept == Actual(P) \ M
               grouped == IF handles THEN G ELSE {}
               nat == {m \in kept \ grouped : ModrinthOf[m] = "version"}
               files == {m \in NativeFiles(nat, answered) :
                           handles /\ format.source = "hybrid" /\ P[m].state # EXCLUDED}
  <2>2. plan = [kept |-> kept, launcher |-> files, downloader |-> kept \ files]
    BY DEF Plan
  <2>3. files \subseteq nat
    BY DEF NativeFiles
  <2>4. plan.kept = kept /\ L = files /\ plan.downloader = kept \ files
    BY <2>2
  <2>5. \A m \in files : /\ handles /\ format.source = "hybrid"
                         /\ P[m].state # EXCLUDED
                         /\ m \in kept /\ m \notin grouped
                         /\ ModrinthOf[m] = "version"
    BY <2>3
  <2>6. handles => grouped = G
    OBVIOUS
  <2> HIDE DEF files, grouped, plan, L, G
  <2>7. L \subseteq kept /\ \A m \in L : m \notin G
    BY <2>4, <2>5, <2>6
  <2>8. QED
    BY <2>4, <2>5, <2>7
<1>5. Actual(P) \subseteq In(P) /\ In(P) \subseteq Mods /\ G \subseteq In(P)
        /\ Actual(P) \cap Ignored = {}
  BY DEF Actual, In, GroupedIn
<1>6. /\ a.format = format /\ a.mapped = M /\ a.launcher = Files(format, P, plan, M)
      /\ a.listed = IF native /\ format.by = "loader" THEN Listed(P, L, M) ELSE {}
      /\ a.bundle = Carried(format, P, ActiveGroups, plan)
  BY <1>2
<1> HIDE DEF plan, L, M
<1>7. Files(format, P, plan, M) =
        L \cup M \cup IF format.to = "server" THEN ServerLoaders(P) ELSE {}
  BY DEF Files, L
<1>8. Listed(P, L, M) = {<<m, P[m].id>> : m \in L \cup (M \cap Actual(P))}
  BY DEF Listed
<1>9. GivenTo(L, P, G, a)
  <2>1. format.to = "modrinth" /\ format.by = "none" => plan.downloader = {}
    BY <1>2 DEF Refused
  <2>2. QED
    BY <1>4, <1>6, <2>1 DEF GivenTo
<1>10. Owned(L, P, a)
  <2>1. ~ native => M = {}
    BY DEF M
  <2>2. QED
    BY <1>6, <1>7, <1>8, <2>1 DEF Owned, ForProvider
<1>11. Brought(L, P, G, job.touched, a)
  <2>0. format.to = "packwiz" => format.by = "none"
    BY DEF Formats
  <2>1. CASE format.to = "prism" /\ format.by = "none"
    <3>1. a.bundle = Defaults(P, ActiveGroups)
      BY <1>6, <2>1 DEF Carried
    <3>2. \A m \in Mods \ job.touched : members[m] = P[m]
      BY DEF ExportInv, PackagesKnown
    <3>3. ASSUME NEW m \in Mods \ job.touched, m \in G
          PROVE  [id |-> <<m, P[m].id>>, default |-> 1] \in ActiveGroups
                   <=> P[m].default = 1
      <4>1. m \in In(members) /\ mode = "ADVANCED" /\ members[m].grouped = 1
        BY <3>3, ReadGrouped
      <4>2. P[m].default = 1
              => [id |-> <<m, P[m].id>>, default |-> 1] \in ActiveGroups
        BY <4>1, <3>2 DEF ActiveGroups
      <4>3. ASSUME [id |-> <<m, P[m].id>>, default |-> 1] \in ActiveGroups
            PROVE  P[m].default = 1
        <5>1. PICK x \in In(members) :
                [id |-> <<m, P[m].id>>, default |-> 1]
                  = [id |-> <<x, members[x].id>>, default |-> members[x].default]
          BY <4>3 DEF ActiveGroups
        <5>2. x = m /\ members[x].default = 1
          BY <5>1
        <5>3. QED
          BY <5>2, <3>2
      <4>4. QED
        BY <4>2, <4>3
    <3>4. \A m \in Mods \ job.touched : m \in a.bundle <=> Chosen(m, P, G)
      BY <3>1, <3>3 DEF Defaults, Chosen
    <3>5. QED
      BY <2>1, <3>1, <3>4, <1>6 DEF Brought, Defaults
  <2>2. CASE format.to = "packwiz"
    <3>1. M = {}
      BY <2>2 DEF M
    <3>2. a.bundle = {m \in plan.kept : m \in Jars /\ P[m].state # EXCLUDED}
      BY <1>6, <2>0, <2>2 DEF Carried
    <3>3. QED
      BY <2>0, <2>2, <3>1, <3>2, <1>4, <1>6 DEF Brought
  <2>3. CASE /\ ~ (format.to = "prism" /\ format.by = "none")
             /\ ~ (format.to = "packwiz")
    <3>1. CASE format.by \in {"mcil", "bundled"}
      <4>1. a.bundle = Bundle(P, ActiveGroups, plan.downloader)
        BY <1>6, <2>3, <3>1 DEF Carried
      <4>2. Bundle(P, ActiveGroups, plan.downloader) =
              {m \in (Actual(P) \ M) \ L : P[m].state # EXCLUDED \/ m \in G}
        BY <1>4, <1>5 DEF Bundle
      <4>3. QED
        BY <2>3, <3>1, <4>1, <4>2, <1>6 DEF Brought
    <3>2. CASE format.by \notin {"mcil", "bundled"}
      BY <2>3, <3>2, <1>6 DEF Brought, Carried
    <3>3. QED
      BY <3>1, <3>2
  <2>4. QED
    BY <2>1, <2>2, <2>3
<1>12. a \in Archives
  <2>1. L \subseteq Mods /\ ServerLoaders(P) \subseteq Mods
    BY <1>4, <1>5 DEF ServerLoaders
  <2>2. a.launcher \subseteq Mods
    BY <2>1, <1>3, <1>6, <1>7
  <2>3. a.listed \subseteq Mods \X (0 .. MaxEdits)
    <3>1. \A m \in In(P) : P[m].id \in 0 .. MaxEdits
      BY <1>1 DEF Packs, Rows, In
    <3>2. QED
      BY <3>1, <1>4, <1>5, <1>6, <1>8
  <2>4. a.bundle \subseteq Mods
    BY <1>4, <1>5, <1>11, <1>6 DEF Brought
  <2>5. QED
    BY <1>2, <1>3, <1>6, <2>2, <2>3, <2>4 DEF Archives
<1>13. QED
  BY <1>4, <1>5, <1>6, <1>9, <1>10, <1>11, <1>12

LEMMA ExportKeeps ==
  ASSUME ExportInv, NEW format \in Formats, Export(format) PROVE ExportInv'
<1>1. UNCHANGED <<members, mode, enabled, public, technic, edits>>
        /\ job.stage = "mapped"
  BY DEF Export
<1>2. MembersOK'
  BY <1>1 DEF ExportInv, MembersOK, In
<1>3. PICK answered \in SUBSET {m \in Mods \ Stored : ModrinthOf[m] = "version"} :
        job' = IF Archive(format, ActiveGroups, answered) = Absent
                 THEN [stage |-> "refused"]
               ELSE [stage |-> "exported", packages |-> job.packages,
                     grouped |-> GroupedIn(job.packages, ActiveGroups),
                     touched |-> job.touched,
                     archive |-> Archive(format, ActiveGroups, answered)]
  BY DEF Export
<1>4. CASE Archive(format, ActiveGroups, answered) = Absent
  BY <1>2, <1>3, <1>4
  DEF ExportInv, JobOK, PackagesKnown, GroupsKnown, ArchiveKnown
<1>5. CASE Archive(format, ActiveGroups, answered) # Absent
  <2> DEFINE G == GroupedIn(job.packages, ActiveGroups)
  <2>1. job \in MappedJobs
    BY <1>1, JobShapes DEF ExportInv
  <2>2. PICK a \in {Archive(format, ActiveGroups, answered)} :
          a = Archive(format, ActiveGroups, answered)
    OBVIOUS
  <2>3. /\ a \in Archives
        /\ \E L \in SUBSET Mods :
             /\ GivenTo(L, job.packages, G, a)
             /\ Owned(L, job.packages, a)
             /\ Brought(L, job.packages, G, job.touched, a)
    BY <1>1, <1>5, <2>2, ArchiveSays
  <2>4. G \subseteq Mods
    BY DEF GroupedIn, In
  <2>5. /\ job' = [stage |-> "exported", packages |-> job.packages, grouped |-> G,
                   touched |-> job.touched, archive |-> a]
    BY <1>3, <1>5, <2>2
  <2> HIDE DEF G
  <2>6. /\ job'.stage = "exported" /\ job'.packages = job.packages /\ job'.grouped = G
        /\ job'.touched = job.touched /\ job'.archive = a /\ job' \in ExportedJobs
    BY <2>1, <2>3, <2>4, <2>5 DEF MappedJobs, ExportedJobs
  <2>7. PackagesKnown'
    BY <1>1, <2>6 DEF ExportInv, PackagesKnown, Plain, In
  <2>8. GroupsKnown'
    <3>1. \A m \in G : m \in In(members) /\ mode = "ADVANCED" /\ members[m].grouped = 1
      BY ReadGrouped DEF G
    <3>2. G \cap Ignored = {}
      BY <3>1 DEF ExportInv, MembersOK, Legal
    <3>3. \A m \in Mods \ job.touched : m \in G <=> m \in NowGrouped
      <4>1. \A m \in Mods \ job.touched : members[m] = job.packages[m]
        BY <1>1 DEF ExportInv, PackagesKnown
      <4>2. QED
        BY <4>1, ReadGrouped, GroupedMeans DEF G, GroupedNow, In
    <3>4. \A m : m \in NowGrouped' <=> m \in NowGrouped
      BY <1>1, GroupedMeans, GroupedMeansNext DEF GroupedNow
    <3>5. QED
      BY <2>6, <3>2, <3>3, <3>4 DEF GroupsKnown
  <2>9. ArchiveKnown'
    BY <2>3, <2>6 DEF ArchiveKnown
  <2>10. QED
    BY <1>2, <2>6, <2>7, <2>8, <2>9 DEF ExportInv, JobOK
<1>6. QED
  BY <1>4, <1>5

LEMMA ExportNextKeeps == ExportInv /\ [ExportNext]_exportVars => ExportInv'
<1> SUFFICES ASSUME ExportInv, [ExportNext]_exportVars PROVE ExportInv'
  OBVIOUS
<1>1. CASE Load
  BY <1>1, LoadKeeps
<1>2. CASE ReadMappings
  BY <1>2, ReadMappingsKeeps
<1>3. CASE SwitchMode
  BY <1>3, SwitchModeKeeps
<1>4. CASE SetPublic \/ \E m \in Mapped : SetMapping(m)
  BY <1>4, OtherEditsKeep
<1>5. CASE \E format \in Formats : Export(format)
  BY <1>5, ExportKeeps
<1>6. CASE \E m \in Mods : EditMember(m)
  BY <1>6, EditMemberKeeps
<1>7. CASE DisableTechnic \/ \E delivery \in {"loader", "technic"} : ConfigureTechnic(delivery)
  BY <1>7, TechnicKeeps DEF DisableTechnic, ConfigureTechnic
<1>8. CASE UNCHANGED exportVars
  <2>1. technic' \in {"loader", "technic", Absent}
    BY <1>8 DEF exportVars, ExportInv, MembersOK
  <2>2. QED
    BY <1>8, <2>1, TechnicKeeps DEF exportVars
<1>9. QED
  BY <1>1, <1>2, <1>3, <1>4, <1>5, <1>6, <1>7, <1>8 DEF ExportNext

\* Every reachable state satisfies the invariant.
THEOREM ExportInvariant == ExportSpec => []ExportInv
<1>1. QED
  BY InitKeeps, ExportNextKeeps, PTL DEF ExportSpec

-----------------------------------------------------------------------------
(* Types and delivery                                                      *)

LEMMA BundleListed ==
  ASSUME NEW L, NEW P, NEW G, NEW T, NEW a, Brought(L, P, G, T, a)
  PROVE  a.bundle \subseteq Actual(P)
<1>1. CASE a.format.to = "prism" /\ a.format.by = "none"
  BY <1>1 DEF Brought
<1>2. CASE ~ (a.format.to = "prism" /\ a.format.by = "none") /\ a.format.to = "packwiz"
                /\ a.format.by \notin {"mcil", "bundled"}
  BY <1>2 DEF Brought
<1>3. CASE /\ ~ (a.format.to = "prism" /\ a.format.by = "none") /\ a.format.to # "packwiz"
           /\ a.format.by \in {"mcil", "bundled"}
  BY <1>3 DEF Brought
<1>4. CASE /\ ~ (a.format.to = "prism" /\ a.format.by = "none") /\ a.format.to # "packwiz"
           /\ a.format.by \notin {"mcil", "bundled"}
  BY <1>4 DEF Brought
<1>5. CASE a.format.to = "packwiz" /\ a.format.by \in {"mcil", "bundled"}
  BY <1>5 DEF Brought
<1>6. QED
  BY <1>1, <1>2, <1>3, <1>4, <1>5

\* The variables have their types, and an archive lists mods of the build it
\* was made from or mapped ones.
THEOREM ExportTypes == ExportSpec => []ExportTypeOK
<1>1. ExportInv => ExportTypeOK
  <2> SUFFICES ASSUME ExportInv PROVE ExportTypeOK
    OBVIOUS
  <2>1. /\ members \in [Mods -> Rows \cup {Absent}]
        /\ \A m \in In(members) : Legal(m, members[m], mode)
        /\ mode \in {"BASIC", "ADVANCED"}
        /\ enabled \subseteq Mapped
        /\ public \in {"yes", "no"}
        /\ technic \in {"loader", "technic", Absent}
        /\ edits \in 0 .. MaxEdits
    BY DEF ExportInv, MembersOK, Packs
  <2>2. job.stage \in {"idle", "loaded", "mapped", "refused", "exported"}
    BY JobShapes DEF ExportInv
  <2>3. ASSUME job.stage = "exported"
        PROVE  /\ job.archive.format \in Formats
               /\ job.archive.bundle \subseteq Actual(job.packages)
               /\ job.archive.launcher \subseteq In(job.packages) \cup Mapped
    <3>1. PICK P \in {job.packages}, G \in {job.grouped}, T \in {job.touched},
               a \in {job.archive}, L \in SUBSET Mods :
            /\ P = job.packages /\ a = job.archive
            /\ GivenTo(L, P, G, a) /\ Owned(L, P, a) /\ Brought(L, P, G, T, a)
      BY <2>3 DEF ExportInv, ArchiveKnown
    <3>2. a \in Archives
      BY <2>3, <3>1, JobShapes DEF ExportInv, ExportedJobs
    <3>3. L \subseteq In(P) /\ ServerLoaders(P) \subseteq In(P)
      BY <3>1 DEF GivenTo, Actual, ServerLoaders
    <3>4. QED
      BY <3>1, <3>2, <3>3, BundleListed DEF Owned, Archives
  <2>4. QED
    BY <2>1, <2>2, <2>3 DEF ExportTypeOK
<1>2. QED
  BY <1>1, ExportInvariant, PTL

\* A group never says anything of packages that are not in it.
LEMMA HostedHas ==
  ASSUME ExportInv
  PROVE  /\ HostedBundle("mods") = Offered(In(members) \ Ignored)
         /\ HostedBundle("modrinth-fallback") =
              {m \in Offered(In(members) \ Ignored) :
                 ModrinthOf[m] # "version" \/ members[m].state = EXCLUDED}
<1>1. GroupedIn(members, ActiveGroups) = NowGrouped
  BY DEF NowGrouped
<1>2. QED
  BY <1>1 DEF HostedBundle, Bundle, Offered

\* The exports never ask for the ownership Technic has.
LEMMA LoaderHas ==
  ASSUME NEW target, NEW platform, platform # "technic"
  PROVE  LoaderOwned(target, platform) = (In(members) \cap Sides(target)) \ Ignored
BY DEF LoaderOwned

\* What the build offers a client or a server that the launcher has not.
OnOffer(m) ==
  /\ m \in In(members) /\ m \in Sides(Target) /\ m \notin Ignored
  /\ members[m].state # EXCLUDED \/ m \in NowGrouped

Delivered(m) ==
  IF m \in Wanted
    THEN (m \in ByLauncher) # (m \in ByDownloader)
    ELSE Untouched(m) /\ m \notin job.archive.mapped =>
           m \notin ByLauncher \cup ByDownloader

\* What the archive says of one membership.
Sourced(L) ==
  /\ job.stage = "exported"
  /\ GivenTo(L, job.packages, job.grouped, job.archive)
  /\ Owned(L, job.packages, job.archive)
  /\ Brought(L, job.packages, job.grouped, job.touched, job.archive)

LEMMA UntouchedMeans ==
  ASSUME ExportInv, job.stage = "exported", NEW m \in Mods, Untouched(m)
  PROVE  /\ members[m] = job.packages[m]
         /\ m \in In(job.packages) /\ m \in In(members)
         /\ m \in job.grouped <=> m \in NowGrouped
BY DEF ExportInv, PackagesKnown, GroupsKnown, Untouched, Same, In

\* A package on offer is the launcher's when it is a native of the plan or of
\* a mapped project.
LEMMA LaunchersOwn ==
  ASSUME ExportInv, NEW L, Sourced(L), NEW m \in Mods
  PROVE  /\ m \notin Ignored =>
              (m \in ByLauncher <=>
                 m \in Sides(Target) /\ m \in L \cup job.archive.mapped)
         /\ m \in L => /\ m \in Actual(job.packages) /\ m \notin job.archive.mapped
                       /\ m \notin job.grouped /\ m \notin Ignored
                       /\ ModrinthOf[m] = "version"
                       /\ job.packages[m].state # EXCLUDED
                       /\ job.archive.format.to = "modrinth"
                       /\ job.archive.format.source = "hybrid"
         /\ job.archive.format \in Formats
<1>1. job.archive \in Archives
  BY JobShapes DEF ExportInv, Sourced, ExportedJobs
<1>2. \A x \in ServerLoaders(job.packages) : x \in Ignored
  BY DEF ServerLoaders
<1>3. job.archive.launcher = L \cup job.archive.mapped
        \cup IF job.archive.format.to = "server" THEN ServerLoaders(job.packages) ELSE {}
  BY DEF Sourced, Owned
<1>4. QED
  BY <1>1, <1>2, <1>3 DEF ByLauncher, Sourced, GivenTo, Actual, Archives

\* A loader leaves out what its config lists.
LEMMA LoaderDelivers ==
  ASSUME ExportInv, NEW L, Sourced(L), job.archive.format.by = "loader",
         NEW m \in In(members), Same(m)
  PROVE  Delivered(m)
<1> DEFINE a == job.archive
           P == job.packages
<1>1. m \in Mods /\ m \in In(P) /\ members[m].id = P[m].id
  BY DEF In, Same
<1>2. a.format \in Formats
  BY <1>1, LaunchersOwn
<1>3. a.format.to \in {"modrinth", "curseforge", "prism", "loader", "server"}
        /\ (a.format.to = "server" <=> Target = "server")
  BY <1>2 DEF Formats, Target
<1>4. m \in ByDownloader <=> OnOffer(m) /\ <<m, members[m].id>> \notin a.listed
  <2>1. ByDownloader = {x \in Offered(LoaderOwned(Target, a.format.to)) :
                          <<x, members[x].id>> \notin a.listed}
    BY DEF ByDownloader
  <2>2. LoaderOwned(Target, a.format.to) = (In(members) \cap Sides(Target)) \ Ignored
    BY <1>3 DEF LoaderOwned
  <2>3. QED
    BY <2>1, <2>2 DEF Offered, OnOffer
<1>5. m \in Wanted <=> \/ OnOffer(m)
                       \/ a.format.to = "server" /\ m \in ServerLoaders(members)
  <2>1. CASE a.format.to = "server"
    BY <2>1 DEF Wanted, Offered, OnOffer
  <2>2. CASE a.format.to # "server"
    BY <1>3, <2>2 DEF Wanted, Offered, OnOffer
  <2>3. QED
    BY <2>1, <2>2
<1>6. CASE m \notin Ignored
  <2>1. m \in ByLauncher <=> m \in Sides(Target) /\ m \in L \cup a.mapped
    BY <1>1, <1>6, LaunchersOwn
  <2>2. <<m, members[m].id>> \in a.listed <=> m \in L \cup a.mapped
    <3>1. CASE ForProvider(a.format)
      <4>1. a.listed = {<<x, P[x].id>> : x \in L \cup (a.mapped \cap Actual(P))}
        BY <3>1 DEF Sourced, Owned
      <4>2. m \in Actual(P)
        BY <1>1, <1>6 DEF Actual
      <4>3. QED
        BY <1>1, <4>1, <4>2
    <3>2. CASE ~ ForProvider(a.format)
      BY <1>1, <3>2, LaunchersOwn DEF Sourced, Owned, ForProvider
    <3>3. QED
      BY <3>1, <3>2
  <2>3. m \notin ServerLoaders(members)
    BY <1>6 DEF ServerLoaders
  <2>4. CASE OnOffer(m)
    <3>1. m \in Sides(Target)
      BY <2>4 DEF OnOffer
    <3>2. QED
      BY <1>4, <1>5, <2>1, <2>2, <2>4, <3>1 DEF Delivered
  <2>5. CASE ~ OnOffer(m)
    <3>1. SUFFICES ASSUME Untouched(m), m \notin a.mapped PROVE m \notin ByLauncher
      BY <1>4, <1>5, <2>3, <2>5 DEF Delivered
    <3>2. QED
      BY <1>1, <1>6, <2>1, <2>5, <3>1, UntouchedMeans, LaunchersOwn DEF OnOffer, Sourced
  <2>6. QED
    BY <2>4, <2>5
<1>7. CASE m \in Ignored
  <2>1. ~ OnOffer(m) /\ m \notin ByDownloader
    BY <1>4, <1>7 DEF OnOffer
  <2>2. m \notin L
    BY <1>1, <1>7, LaunchersOwn
  <2>3. m \in ServerLoaders(P) <=> SideOf[m] = "SERVER"
    BY <1>1, <1>7 DEF ServerLoaders, ExportInv, PackagesKnown, Plain, Sourced
  <2>4. m \in ServerLoaders(members) <=> SideOf[m] = "SERVER"
    BY <1>1, <1>7, ExportsAssumption DEF ServerLoaders, ExportInv, MembersOK, Legal
  <2>5. CASE a.format.to = "server"
    <3>1. a.mapped = {}
      BY <2>5 DEF Sourced, Owned, ForProvider
    <3>2. m \in ByLauncher <=> m \in Sides(Target) /\ m \in ServerLoaders(P)
      BY <2>2, <2>5, <3>1 DEF ByLauncher, Sourced, Owned
    <3>3. SideOf[m] = "SERVER" => m \in Sides(Target)
      BY <1>1, <1>3, <2>5 DEF Sides
    <3>4. QED
      BY <1>5, <2>1, <2>3, <2>4, <2>5, <3>2, <3>3 DEF Delivered
  <2>6. CASE a.format.to # "server"
    <3>1. m \in ByLauncher => m \in a.mapped
      BY <2>2, <2>6 DEF ByLauncher, Sourced, Owned
    <3>2. QED
      BY <1>5, <2>1, <2>6, <3>1 DEF Delivered
  <2>7. QED
    BY <2>5, <2>6
<1>8. QED
  BY <1>6, <1>7

\* A hosted bundle has what is on offer, but for the natives of a fallback.
LEMMA HostedDelivers ==
  ASSUME ExportInv, NEW L, Sourced(L), job.archive.format.by = "hosted",
         NEW m \in In(members), Same(m), ~ HostedAmiss(m)
  PROVE  Delivered(m)
<1> DEFINE a == job.archive
           P == job.packages
<1>1. m \in Mods /\ m \in In(P) /\ job.stage = "exported"
  BY DEF In, Same, Sourced
<1>2. a.format.to \in {"modrinth", "curseforge", "prism"} /\ Target = "client"
  <2>1. a.format \in Formats
    BY <1>1, LaunchersOwn
  <2>2. QED
    BY <2>1 DEF Formats, Target
<1>3. m \in Wanted <=> OnOffer(m)
  BY <1>2 DEF Wanted, Offered, OnOffer
<1>4. m \in ByDownloader <=>
        OnOffer(m) /\ (Fallback(a.format) =>
                         ModrinthOf[m] # "version" \/ members[m].state = EXCLUDED)
  <2>1. ByDownloader =
          HostedBundle(IF Fallback(a.format) THEN "modrinth-fallback" ELSE "mods")
            \cap Sides(Target)
    BY DEF ByDownloader
  <2>2. m \in ByDownloader <=>
          /\ m \in Offered(In(members) \ Ignored) /\ m \in Sides(Target)
          /\ Fallback(a.format) => ModrinthOf[m] # "version" \/ members[m].state = EXCLUDED
    BY <2>1, HostedHas
  <2>3. QED
    BY <2>2 DEF Offered, OnOffer
<1>5. m \notin a.mapped
  BY DEF HostedAmiss
<1>6. m \notin Ignored => (m \in ByLauncher <=> m \in Sides(Target) /\ m \in L)
  BY <1>1, <1>5, LaunchersOwn
<1>7. CASE m \in L
  <2>1. /\ m \in Actual(P) /\ m \notin Ignored /\ Fallback(a.format)
        /\ ModrinthOf[m] = "version" /\ P[m].state # EXCLUDED
    BY <1>1, <1>7, LaunchersOwn DEF Fallback
  <2>2. Untouched(m)
    BY <2>1 DEF HostedAmiss
  <2>3. members[m] = P[m]
    BY <1>1, <2>2, UntouchedMeans
  <2>4. m \notin ByDownloader
    BY <1>4, <2>1, <2>3
  <2>5. m \in Wanted <=> m \in ByLauncher
    BY <1>3, <1>6, <1>7, <2>1, <2>3 DEF OnOffer
  <2>6. QED
    BY <2>4, <2>5 DEF Delivered
<1>8. CASE m \notin L
  <2>1. OnOffer(m) => m \in ByDownloader /\ m \notin ByLauncher
    <3>1. SUFFICES ASSUME OnOffer(m) PROVE m \in ByDownloader /\ m \notin ByLauncher
      OBVIOUS
    <3>2. m \notin Ignored
      BY <3>1 DEF OnOffer
    <3>3. m \notin a.launcher
      <4>1. m \notin ServerLoaders(P)
        BY <3>2 DEF ServerLoaders
      <4>2. QED
        BY <4>1, <1>5, <1>8 DEF Sourced, Owned
    <3>4. ~ (Fallback(a.format) /\ ModrinthOf[m] = "version")
      BY <3>3 DEF HostedAmiss
    <3>5. QED
      BY <1>4, <1>6, <1>8, <3>1, <3>2, <3>4
  <2>2. ~ OnOffer(m) => m \notin ByDownloader /\ m \notin ByLauncher
    <3>1. m \notin a.launcher
      <4>1. a.format.to # "server"
        BY <1>2
      <4>2. QED
        BY <4>1, <1>5, <1>8 DEF Sourced, Owned
    <3>2. QED
      BY <3>1, <1>4 DEF ByLauncher
  <2>3. QED
    BY <1>3, <2>1, <2>2 DEF Delivered
<1>9. QED
  BY <1>7, <1>8

\* A list in the archive has what the launcher was not given.
LEMMA BundleDelivers ==
  ASSUME ExportInv, NEW L, Sourced(L),
         job.archive.format.by \in {"mcil", "bundled", "none"},
         NEW m \in In(members), Untouched(m)
  PROVE  Delivered(m)
<1> DEFINE a == job.archive
           P == job.packages
           G == job.grouped
<1>1. m \in Mods /\ job.stage = "exported" /\ members[m] = P[m] /\ m \in In(P)
        /\ (m \in G <=> m \in NowGrouped) /\ m \notin job.touched
  BY UntouchedMeans DEF In, Sourced, Untouched
<1>2. /\ a.format.to \in {"modrinth", "curseforge", "prism", "packwiz", "filedirector",
                          "mcinstance"}
      /\ Target = "client"
      /\ a.format.to = "packwiz" => a.format.by = "none"
      /\ a.format.by = "none" => a.format.to \in {"modrinth", "prism", "packwiz"}
  <2>1. a.format \in Formats
    BY <1>1, LaunchersOwn
  <2>2. QED
    BY <2>1 DEF Formats, Target
<1>3. m \in ByDownloader <=> m \in a.bundle /\ m \in Sides(Target)
  BY DEF ByDownloader
<1>4. m \in Ignored => m \notin L
  BY <1>1, LaunchersOwn
<1>5. m \in a.bundle => m \in Actual(P)
  BY BundleListed DEF Sourced
<1>6. m \in Actual(P) <=> m \notin Ignored
  BY <1>1 DEF Actual
<1>7. m \in ByLauncher <=> m \in Sides(Target) /\ m \in L \cup a.mapped
  BY <1>2 DEF ByLauncher, Sourced, Owned
<1>8. CASE a.format.to = "prism" /\ a.format.by = "none"
  <2>1. m \in a.bundle <=> Chosen(m, P, G)
    BY <1>1, <1>8 DEF Sourced, Brought
  <2>2. a.mapped = {} /\ m \notin L
    BY <1>1, <1>8, LaunchersOwn DEF Sourced, Owned, ForProvider
  <2>3. m \in Wanted <=> m \in Defaults(members, ActiveGroups)
    BY <1>8 DEF Wanted
  <2>4. m \in GroupedIn(members, ActiveGroups) <=> m \in G
    BY <1>1 DEF NowGrouped
  <2>5. m \in G => ([id |-> <<m, members[m].id>>, default |-> 1] \in ActiveGroups
                      <=> members[m].default = 1)
    <3>1. SUFFICES ASSUME m \in G
                   PROVE  [id |-> <<m, members[m].id>>, default |-> 1] \in ActiveGroups
                            <=> members[m].default = 1
      OBVIOUS
    <3>2. m \in In(members) /\ mode = "ADVANCED" /\ members[m].grouped = 1
      BY <1>1, <3>1, GroupedMeans DEF GroupedNow
    <3>3. ASSUME [id |-> <<m, members[m].id>>, default |-> 1] \in ActiveGroups
          PROVE  members[m].default = 1
      <4>1. PICK x \in In(members) :
              [id |-> <<m, members[m].id>>, default |-> 1]
                = [id |-> <<x, members[x].id>>, default |-> members[x].default]
        BY <3>3 DEF ActiveGroups
      <4>2. x = m /\ members[x].default = 1
        BY <4>1
      <4>3. QED
        BY <4>2
    <3>4. ASSUME members[m].default = 1
          PROVE  [id |-> <<m, members[m].id>>, default |-> 1] \in ActiveGroups
      BY <3>2, <3>4 DEF ActiveGroups
    <3>5. QED
      BY <3>3, <3>4
  <2>6. m \in Actual(members) <=> m \in Actual(P)
    BY <1>1 DEF Actual
  <2>7. m \in Defaults(members, ActiveGroups) <=> Chosen(m, P, G)
    BY <1>1, <2>4, <2>5, <2>6 DEF Defaults, Chosen
  <2>8. Chosen(m, P, G) => m \in Sides(Target)
    BY <1>1, <1>2, ExportsAssumption DEF Chosen, Sides
  <2>9. QED
    BY <1>3, <1>7, <2>1, <2>2, <2>3, <2>7, <2>8 DEF Delivered
<1>9. CASE a.format.to = "packwiz"
  <2>1. a.bundle = {x \in Actual(P) : x \in Jars /\ P[x].state # EXCLUDED}
    BY <1>2, <1>9 DEF Sourced, Brought
  <2>2. a.mapped = {} /\ m \notin L
    BY <1>1, <1>9, LaunchersOwn DEF Sourced, Owned, ForProvider
  <2>3. m \in Wanted <=> OnOffer(m) /\ m \in Jars /\ members[m].state # EXCLUDED
    BY <1>2, <1>9 DEF Wanted, Offered, OnOffer
  <2>4. QED
    BY <1>1, <1>3, <1>6, <1>7, <2>1, <2>2, <2>3 DEF Delivered, OnOffer
<1>10. CASE ~ (a.format.to = "prism" /\ a.format.by = "none") /\ a.format.to # "packwiz"
  <2>1. m \in Wanted <=> OnOffer(m)
    <3>1. a.format.to # "server"
      BY <1>2
    <3>2. QED
      BY <1>10, <3>1 DEF Wanted, Offered, OnOffer
  <2>2. m \in a.bundle <=>
          m \in (Actual(P) \ a.mapped) \ L /\ (P[m].state # EXCLUDED \/ m \in G)
    <3>1. CASE a.format.by = "none"
      <4>1. a.bundle = {} /\ Actual(P) \ a.mapped \subseteq L
        BY <1>2, <1>10, <3>1 DEF Sourced, Brought, GivenTo
      <4>2. QED
        BY <4>1
    <3>2. CASE a.format.by \in {"mcil", "bundled"}
      BY <1>10, <3>2 DEF Sourced, Brought
    <3>3. QED
      BY <3>1, <3>2
  <2>3. m \in L => P[m].state # EXCLUDED /\ m \in Actual(P)
    BY <1>1, LaunchersOwn
  <2>4. OnOffer(m) <=> /\ m \in Sides(Target) /\ m \notin Ignored
                       /\ P[m].state # EXCLUDED \/ m \in G
    BY <1>1 DEF OnOffer
  <2>5. QED
    BY <1>3, <1>6, <1>7, <2>1, <2>2, <2>3, <2>4 DEF Delivered
<1>11. QED
  BY <1>8, <1>9, <1>10

LEMMA ExportsOnce == ExportInv => ExportsDeliverOnce
<1> SUFFICES ASSUME ExportInv, job.stage = "exported", NEW m \in In(members),
                    IF Live(job.archive.format) THEN Same(m) ELSE Untouched(m),
                    ~ HostedAmiss(m)
             PROVE  Delivered(m)
  BY DEF ExportsDeliverOnce, Delivered
<1>1. PICK L \in SUBSET Mods : Sourced(L)
  BY DEF ExportInv, ArchiveKnown, Sourced
<1>2. job.archive.format.by \in {"loader", "mcil", "bundled", "hosted", "none"}
  <2>1. m \in Mods
    BY DEF In
  <2>2. job.archive.format \in Formats
    BY <1>1, <2>1, LaunchersOwn
  <2>3. QED
    BY <2>2 DEF Formats
<1>3. QED
  BY <1>1, <1>2, LoaderDelivers, HostedDelivers, BundleDelivers DEF Live

LEMMA ChoicesStay == ExportInv => ChoicesStayChoices
<1> SUFFICES ASSUME ExportInv, job.stage = "exported", NEW m \in In(members),
                    Untouched(m), m \in job.grouped, m \notin job.archive.mapped
             PROVE  m \notin ByLauncher
  BY DEF ChoicesStayChoices
<1>1. PICK L \in SUBSET Mods : Sourced(L)
  BY DEF ExportInv, ArchiveKnown, Sourced
<1>2. m \in Mods /\ m \notin Ignored
  BY DEF ExportInv, GroupsKnown, In
<1>3. QED
  BY <1>1, <1>2, LaunchersOwn

LEMMA TechnicOnce == ExportInv => TechnicDeliversOnce
<1> SUFFICES ASSUME ExportInv PROVE TechnicDeliversOnce
  OBVIOUS
<1> DEFINE loader == IF ActiveTechnic = Absent THEN {}
                     ELSE Offered(LoaderOwned("client", technic))
<1>1. ActiveTechnic \in {"loader", "technic", Absent}
        /\ (ActiveTechnic # Absent => technic = ActiveTechnic)
        /\ Absent \notin {"loader", "technic"}
  BY ExportsAssumption DEF ActiveTechnic, ExportInv, MembersOK
<1>2. ASSUME NEW m \in In(members) \cap Sides("client")
      PROVE  LET required == members[m].state = REQUIRED IN
             IF m \in Ignored \/ ActiveTechnic = Absent
               THEN (m \in TechnicManifest <=> required) /\ m \notin loader
               ELSE \/ m \in Offered({m}) /\ (m \in TechnicManifest) # (m \in loader)
                    \/ ActiveTechnic = "technic" /\ required /\ m \in NowGrouped
                    \/ m \notin Offered({m}) \cup TechnicManifest \cup loader
  <2> DEFINE required == members[m].state = REQUIRED
  <2>1. m \in TechnicManifest <=>
          required /\ (ActiveTechnic = "loader" => m \in Ignored)
    BY DEF TechnicManifest
  <2>2. m \in loader <=>
          /\ ActiveTechnic # Absent
          /\ m \notin Ignored
          /\ members[m].state # EXCLUDED \/ m \in NowGrouped
          /\ m \in NowGrouped \/ ~ (technic = "technic" /\ ActiveTechnic = "technic" /\ required)
    BY DEF Offered, LoaderOwned
  <2>3. required => members[m].state # EXCLUDED
    BY DEF REQUIRED, EXCLUDED
  <2>4. m \in Offered({m}) <=> members[m].state # EXCLUDED \/ m \in NowGrouped
    BY DEF Offered
  <2> HIDE DEF loader, required
  <2>5. QED
    BY <1>1, <2>1, <2>2, <2>3, <2>4 DEF required
<1>3. QED
  BY <1>2 DEF TechnicDeliversOnce

\* Every package comes to the player once: from the launcher or from the
\* downloader of an exported pack, whatever is edited during the export and
\* after it, choices never from a launcher; and through Technic from Technic
\* or from the loader.
THEOREM OneWayToThePlayer == ExportSpec => []DeliveredOnce
<1>1. ExportInv => DeliveredOnce
  BY ExportsOnce, ChoicesStay, TechnicOnce DEF DeliveredOnce
<1>2. QED
  BY <1>1, ExportInvariant, PTL
=============================================================================
