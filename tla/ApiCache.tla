------------------------------ MODULE ApiCache ------------------------------
(***************************************************************************)
(* The response caches of the read API (_api_cached and _cache_key in      *)
(* api.py, models/cache_revision.py) and the requests and threads that     *)
(* change what the responses show.                                         *)
(*                                                                         *)
(* Every server process keeps its own caches.  A key starts with the value *)
(* of solder_settings.api_cache_revision, which a writer increments after  *)
(* its changes are committed, so that responses of earlier revisions are   *)
(* never found again, in any process.                                      *)
(*                                                                         *)
(* The model follows one response (one route and set of arguments).  What  *)
(* it shows is the number of the last change committed when its first      *)
(* query ran: its later queries, which run on connections of their own,    *)
(* can only show more.                                                     *)
(***************************************************************************)
EXTENDS Integers, FiniteSets

CONSTANTS
  Procs,    \* server processes
  Readers,  \* threads that serve read requests
  Writers,  \* requests and jobs that make a change, each of them once
  ProcOf,   \* the process of each reader and writer
  KindOf    \* of each writer: a management "site" request, a write "api"
            \* request or a "job" (the thread that hashes a new version)

ASSUME ApiCacheAssumption ==
  /\ \A x \in Readers \cup Writers : ProcOf[x] \in Procs
  /\ \A w \in Writers : KindOf[w] \in {"site", "api", "job"}

VARIABLES
  content,    \* number of the last committed change
  revision,   \* the revision row; no row reads as 0
  cache,      \* entries of all processes: [proc, rev, seen]
  readers,    \* of each reader: the revision of its key, what it has seen, and
              \* the change its answer must not miss (none if the look-up failed)
  writers,    \* local state of each writer
  announced   \* history: the last change followed by an increment

cacheVars == <<content, revision, cache, readers, writers, announced>>

Entries(p, r) == {e \in cache : e.proc = p /\ e.rev = r}

CacheInit ==
  /\ content = 0
  /\ revision = 0
  /\ cache = {}
  /\ readers = [d \in Readers |->
       [pc |-> "idle", rev |-> 0, seen |-> 0, floor |-> 0]]
  /\ writers = [w \in Writers |-> [pc |-> "new", made |-> 0]]
  /\ announced = 0

-----------------------------------------------------------------------------
(* A read request                                                          *)

\* _cache_key asks for the revision.
AskRevision(d) ==
  /\ readers[d].pc \in {"idle", "done"}
  /\ readers' = [readers EXCEPT ![d] =
       [pc |-> "keyed", rev |-> revision, seen |-> 0, floor |-> announced]]
  /\ UNCHANGED <<content, revision, cache, writers, announced>>

\* A slip: without a connection there is no revision.
AskFailsNegative(d) ==
  /\ readers[d].pc \in {"idle", "done"}
  /\ readers' = [readers EXCEPT ![d] =
       [pc |-> "keyed", rev |-> -1, seen |-> 0, floor |-> 0]]
  /\ UNCHANGED <<content, revision, cache, writers, announced>>

\* CacheRevision.current has no connection and answers 0.
AskFails(d) ==
  /\ readers[d].pc \in {"idle", "done"}
  /\ readers' = [readers EXCEPT ![d] =
       [pc |-> "keyed", rev |-> 0, seen |-> 0, floor |-> 0]]
  /\ UNCHANGED <<content, revision, cache, writers, announced>>

\* The request ends with a response that shows the changes up to seen.
Responds(d, seen) ==
  readers' = [readers EXCEPT ![d] =
    [pc |-> "done", rev |-> 0, seen |-> seen, floor |-> readers[d].floor]]

\* The process has a response of this key.
Hit(d) ==
  /\ readers[d].pc = "keyed"
  /\ \E e \in Entries(ProcOf[d], readers[d].rev) : Responds(d, e.seen)
  /\ UNCHANGED <<content, revision, cache, writers, announced>>

\* It has none: the handler computes it, outside the lock of the cache.
Compute(d) ==
  /\ readers[d].pc = "keyed"
  /\ Entries(ProcOf[d], readers[d].rev) = {}
  /\ readers' = [readers EXCEPT ![d] = 
       [pc |-> "computed", rev |-> readers[d].rev, seen |-> content,
        floor |-> readers[d].floor]]
  /\ UNCHANGED <<content, revision, cache, writers, announced>>

\* A slip: the response is stored under the revision it finds afterwards.
StoreKeyedLate(d) ==
  LET p == ProcOf[d] IN
  /\ readers[d].pc = "computed"
  /\ cache' = (cache \ Entries(p, revision)) \cup
                {[proc |-> p, rev |-> revision, seen |-> readers[d].seen]}
  /\ Responds(d, readers[d].seen)
  /\ UNCHANGED <<content, revision, writers, announced>>

\* A response that another thread stored under the key is kept and returned
\* (setdefault of cachetools).
Store(d) ==
  LET found == Entries(ProcOf[d], readers[d].rev)
      new == [proc |-> ProcOf[d], rev |-> readers[d].rev,
              seen |-> readers[d].seen]
  IN
  /\ readers[d].pc = "computed"
  /\ cache' = IF found = {} THEN cache \cup {new} ELSE cache
  /\ \E e \in IF found = {} THEN {new} ELSE found : Responds(d, e.seen)
  /\ UNCHANGED <<content, revision, writers, announced>>

\* A slip: only entries of earlier revisions are dropped.
EvictSuperseded(e) ==
  /\ e \in cache
  /\ e.rev < revision
  /\ cache' = cache \ {e}
  /\ UNCHANGED <<content, revision, readers, writers, announced>>

\* CACHE_TTL seconds after it was stored, or for lack of space, an entry goes.
Evict(e) ==
  /\ e \in cache
  /\ cache' = cache \ {e}
  /\ UNCHANGED <<content, revision, readers, writers, announced>>

-----------------------------------------------------------------------------
(* A change                                                                *)

Writer(w, pc) ==
  writers' = [writers EXCEPT ![w] = [pc |-> pc, made |-> writers[w].made]]

\* The handler commits its transaction.
Commit(w) ==
  /\ writers[w].pc = "new"
  /\ content' = content + 1
  /\ writers' = [writers EXCEPT ![w] =
       [pc |-> "committed", made |-> content + 1]]
  /\ UNCHANGED <<revision, cache, readers, announced>>

\* clear_api_caches: some handlers of the management site call it before the
\* response is finished, _written of the write API after the increment.
Clear(w) ==
  /\ \/ KindOf[w] = "site" /\ writers[w].pc = "committed" /\ Writer(w, "cleared")
     \/ KindOf[w] = "api" /\ writers[w].pc = "bumped" /\ Writer(w, "done")
  /\ cache' = {e \in cache : e.proc # ProcOf[w]}
  /\ UNCHANGED <<content, revision, readers, announced>>

\* CacheRevision.bump: after_request of the management site, _written of the
\* write API, _rehash_and_invalidate of the thread.
Bump(w) ==
  /\ writers[w].pc \in {"committed", "cleared"}
  /\ revision' = revision + 1
  /\ announced' =
       IF announced < writers[w].made THEN writers[w].made ELSE announced
  /\ Writer(w, IF KindOf[w] = "api" THEN "bumped" ELSE "done")
  /\ UNCHANGED <<content, cache, readers>>

\* No increment follows the commit: the handler fails in between or answers
\* with an error, or the database refuses the increment, which the site logs.
Fail(w) ==
  /\ writers[w].pc \in {"committed", "cleared"}
  /\ Writer(w, "done")
  /\ UNCHANGED <<content, revision, cache, readers, announced>>

-----------------------------------------------------------------------------
ReadRequest(d) == AskRevision(d) \/ AskFails(d) \/ Hit(d) \/ Compute(d) \/ Store(d)
Write(w) == Commit(w) \/ Clear(w) \/ Bump(w) \/ Fail(w)

CacheNext ==
  \/ \E d \in Readers : ReadRequest(d)
  \/ \E e \in cache : Evict(e)
  \/ \E w \in Writers : Write(w)

CacheSpec == CacheInit /\ [][CacheNext]_cacheVars

-----------------------------------------------------------------------------
\* Revisions, changes and entries have their types.
CacheTypeOK ==
  /\ content \in Nat
  /\ revision \in Nat
  /\ cache \subseteq [proc : Procs, rev : Nat, seen : Nat]
  /\ readers \in
       [Readers -> [pc : {"idle", "keyed", "computed", "done"}, rev : Nat,
                    seen : Nat, floor : Nat]]
  /\ writers \in
       [Writers -> [pc : {"new", "committed", "cleared", "bumped", "done"},
                    made : Nat]]
  /\ announced \in Nat

\* A change reaches every process as soon as the revision is incremented: a
\* read that asks for the revision afterwards is never answered with a response
\* from before the change, whatever reads were under way, whichever process
\* stores their responses, and whatever else is changed meanwhile.  Only a
\* read whose own look-up of the revision failed may be.
FreshAfterBump ==
  \A d \in Readers :
    readers[d].pc = "done" => readers[d].seen >= readers[d].floor

\* What a thread computes is stored and answered, and an entry expires.
CacheFairSpec ==
  /\ CacheSpec
  /\ \A d \in Readers : WF_cacheVars(Hit(d) \/ Compute(d) \/ Store(d))
  /\ \A p \in Procs, r, s \in 0 .. Cardinality(Writers) :
       WF_cacheVars(Evict([proc |-> p, rev |-> r, seen |-> s]))

\* A change whose increment failed is shown at last too: once nothing changes
\* any more, old responses expire and no thread brings one back.
StaleHeals ==
  \A c \in 0 .. Cardinality(Writers) :
    <>[](content = c) => <>[](\A e \in cache : e.seen = c)
=============================================================================
