---------------------------- MODULE ReadApiProofs ----------------------------
(***************************************************************************)
(* Proofs about what a read of the public API is answered: Serving,        *)
(* which build, and ApiCache, how old a response may be. One module has    *)
(* the proofs of both, so the names of ApiCache have a prefix.             *)
(***************************************************************************)
EXTENDS Serving, ApiCache, FiniteSetTheorems, TLAPS

-----------------------------------------------------------------------------
(***************************************************************************)
(* Proofs about Serving: for any library, any number of clients, callers   *)
(* and requests, whatever is edited while a read runs, every build that it *)
(* answers with was right at some moment of it; and in every state what    *)
(* the listings show is what the manifests serve.                          *)
(*                                                                         *)
(* The history of a read holds what is true now of what it asks for        *)
(* (Now \subseteq was), so whatever a query returns is in it, and it only  *)
(* grows.  What the read has in hand between two queries is in it too      *)
(* (InHand): the packs that its key and its token opened, the packs it has *)
(* still to list, the builds collected so far, the pack that was found by  *)
(* its slug and the versions that the name stands for in it.               *)
(***************************************************************************)

\* What is right about an answer, in a history h.
Right(a, kind, name, h) ==
  /\ \/ <<"open", a.id>> \in h
     \/ {<<"published", a.id>>, <<"opens", a.pack>>} \subseteq h
  /\ kind = "list" => {<<"listed", a.pack>>, <<"opens", a.pack>>} \cap h # {}
  /\ kind \notin {"list", "mod"} => <<"slug", a.pack>> \in h
  /\ kind \in Named => <<"means", <<a.pack, a.ver>>>> \in h
  /\ kind \in {"build", "bootstrap"} /\ a.ver # name => <<"unnamed", a.pack>> \in h

\* What a read q has in hand, in a history h.
InHand(q, h) ==
  /\ \A p \in q.mine : <<"opens", p>> \in h /\ (q.k \/ q.t)
  /\ q.pc = "token" => q.t
  /\ q.pc # "builds" => q.out = {}
  /\ q.kind \in Named => q.name \in Versions
  /\ q.pc = "builds" =>
       /\ q.kind \in {"list", "pack"}
       /\ \A p \in q.left :
            /\ q.kind = "list" => {<<"listed", p>>, <<"opens", p>>} \cap h # {}
            /\ q.kind = "pack" => <<"slug", p>> \in h
       /\ \A a \in q.out : Right(a, q.kind, q.name, h)
  /\ q.pc = "name" =>
       /\ q.kind \in Named /\ q.pack \in PackIds /\ <<"slug", q.pack>> \in h
       /\ \A i \in 1..Len(q.tries) : <<"means", <<q.pack, q.tries[i]>>>> \in h
       /\ q.kind \in {"build", "bootstrap"} =>
            \/ q.tries # <<>> /\ q.tries[1] = q.name
            \/ <<"unnamed", q.pack>> \in h

\* The rows of the database.
Rows ==
  /\ packs \in [PackIds -> PackRows \cup {None}]
  /\ builds \in [BuildIds -> BuildRows \cup {None}]
  /\ \A p, q \in Packs : packs[p].slug = packs[q].slug => p = q
  /\ \A b \in Builds \ late : builds[b].pack \in Packs
  /\ clients \subseteq Clients /\ grants \subseteq Clients \X PackIds
  /\ user \in Owners /\ user.csv \subseteq Packs
  /\ lastPack \in 0..MaxPack /\ lastBuild \in 0..MaxBuild /\ begun \in 0..MaxBegun

Working == job \in [Workers -> Jobs]

\* The read and its history.
Watched ==
  /\ read \in {Idle} \cup Reading \cup Done
  /\ read \in Reading => Now \subseteq was /\ InHand(read, was)
  /\ AnswersWereRight

IInv == Rows /\ Working /\ Watched

LEMMA Types == IInv => TypeOK
  BY DEF IInv, Rows, Working, Watched, TypeOK

-----------------------------------------------------------------------------
(* The history                                                             *)

LEMMA Bounds ==
  /\ MaxPack \in Nat /\ MaxBuild \in Nat /\ MaxBegun \in Nat
  /\ Channels \subseteq Versions /\ Versions \subseteq Seq(STRING)
  /\ None \notin PackRows
  BY ServingAssumption, LibrariesAssumption

\* What is right stays right as the history grows.
LEMMA RightStays ==
  ASSUME NEW a, NEW kind, NEW name, NEW h, NEW g, h \subseteq g,
         Right(a, kind, name, h)
  PROVE  Right(a, kind, name, g)
  BY DEF Right

LEMMA InHandStays ==
  ASSUME NEW q, NEW h, NEW g, h \subseteq g, InHand(q, h)
  PROVE  InHand(q, g)
  BY RightStays DEF InHand

LEMMA ReadingIsActive ==
  /\ \A q \in Reading : q.pc \notin {"idle", "done"} /\ q # Idle /\ q \notin Done
  /\ Idle.pc = "idle" /\ Idle \notin Reading /\ Idle \notin Done
  /\ \A q \in Done : q.pc = "done" /\ q \notin Reading
  BY DEF Reading, Done, Idle

LEMMA WatchGrows ==
  ASSUME Watch, read' \in Reading
  PROVE  Now' \subseteq was' /\ was \subseteq was'
  BY ReadingIsActive DEF Watch

\* A step of somebody else: the read goes on with what it has.
LEMMA OthersKeep ==
  ASSUME Watched, read' = read, Watch
  PROVE  Watched'
<1>1. CASE read \in Reading
  <2>1. Now' \subseteq was' /\ was \subseteq was'
    BY <1>1, WatchGrows
  <2>2. InHand(read, was)
    BY <1>1 DEF Watched
  <2>3. PICK q \in {read}, h \in {was} : q = read /\ h = was
    OBVIOUS
  <2>4. PICK g \in {was'} : g = was'
    OBVIOUS
  <2>5. InHand(q, g)
    BY <2>1, <2>2, <2>3, <2>4, InHandStays
  <2>6. InHand(read, was)'
    BY <2>3, <2>4, <2>5 DEF InHand
  <2> QED
    BY <1>1, <2>1, <2>6, ReadingIsActive DEF Watched, AnswersWereRight
<1>2. CASE read \in Done
  BY <1>2, ReadingIsActive DEF Watched, AnswersWereRight, Watch
<1>3. CASE read = Idle
  BY <1>3, ReadingIsActive DEF Watched, AnswersWereRight, Watch
<1> QED
  BY <1>1, <1>2, <1>3 DEF Watched

-----------------------------------------------------------------------------
(* What is true now                                                        *)

LEMMA OpenNow ==
  ASSUME NEW b \in Builds, builds[b].published, Readable(b, read.cid)
  PROVE  <<"open", b>> \in Now
  BY DEF Now

LEMMA ListedNow ==
  ASSUME NEW p \in Packs,
         (~packs[p].hidden /\ ~packs[p].private) \/ Associated(read.cid, p)
  PROVE  <<"listed", p>> \in Now
  BY DEF Now

LEMMA SlugNow ==
  ASSUME NEW p \in BySlug(read.slug)
  PROVE  <<"slug", p>> \in Now
  BY DEF Now

LEMMA PublishedNow ==
  ASSUME NEW b \in Builds, builds[b].published, read.k \/ read.t
  PROVE  <<"published", b>> \in Now
  BY DEF Now

LEMMA OpensNow ==
  ASSUME NEW p \in KeyOpens(read.k) \cup TokenOpens(read.t)
  PROVE  <<"opens", p>> \in Now
  BY DEF Now

LEMMA UnnamedNow ==
  ASSUME NEW p \in PackIds,
         \A b \in Builds : builds[b].published /\ Readable(b, read.cid)
                             /\ builds[b].ver = read.name => builds[b].pack # p
  PROVE  <<"unnamed", p>> \in Now
<1> DEFINE open == {b \in Builds : builds[b].published /\ Readable(b, read.cid)}
           named == {builds[b].pack : b \in {b \in open : builds[b].ver = read.name}}
<1>1. p \in PackIds \ named
  OBVIOUS
<1>2. {"unnamed"} \X (PackIds \ named) \subseteq Now
  BY DEF Now
<1> HIDE DEF named
<1> QED
  BY <1>1, <1>2

LEMMA MeansNow ==
  ASSUME NEW p \in BySlug(read.slug), read.kind \in Named,
         NEW v \in Meanings(p, read.name)
  PROVE  <<"means", <<p, v>>>> \in Now
<1> DEFINE meant == UNION {{x} \X Meanings(x, read.name) : x \in BySlug(read.slug)}
<1>1. <<p, v>> \in meant
  OBVIOUS
<1>2. {"means"} \X meant \subseteq Now
  BY DEF Now
<1> HIDE DEF meant
<1> QED
  BY <1>1, <1>2

LEMMA Joined ==
  ASSUME NEW S, NEW M, NEW s \in Seq(S), NEW t \in Seq(S), s # <<>>,
         \A i \in 1..Len(s) : s[i] \in M, \A i \in 1..Len(t) : t[i] \in M
  PROVE  /\ s \o t \in Seq(S) /\ s \o t # <<>> /\ (s \o t)[1] = s[1]
         /\ \A i \in 1..Len(s \o t) : (s \o t)[i] \in M
<1>1. s \o t \in Seq(S) /\ Len(s \o t) = Len(s) + Len(t) /\ Len(s) \in Nat /\ Len(s) > 0
  OBVIOUS
<1>2. \A i \in 1..Len(s \o t) :
        (s \o t)[i] = IF i <= Len(s) THEN s[i] ELSE t[i - Len(s)]
  OBVIOUS
<1> QED
  BY <1>1, <1>2

\* The versions that a read tries are meanings of its name, and a real build of
\* the name is tried first.
LEMMA TriesMean ==
  ASSUME Rows, NEW p \in Packs, NEW name \in Versions, NEW kind \in Named
  PROVE  LET tries == NamesTried(kind, packs[p], name)
         IN  /\ tries \in Seq(Seq(STRING))
             /\ \A i \in 1..Len(tries) : tries[i] \in Meanings(p, name)
             /\ kind \in {"build", "bootstrap"} => tries # <<>> /\ tries[1] = name
<1> DEFINE row == packs[p]
           means == Meanings(p, name)
           bare == IF Len(name) > 1 /\ Last(name) \in row.variants THEN {name, Front(name)}
                   ELSE {name}
           Good(x) == /\ x \in Seq(Seq(STRING))
                      /\ \A i \in 1..Len(x) : x[i] \in means
                      /\ kind \in {"build", "bootstrap"} => x # <<>> /\ x[1] = name
<1> SUFFICES Good(NamesTried(kind, row, name))
  OBVIOUS
<1>1. row \in PackRows /\ \A c \in Channels : row.channel[c] # None => row.channel[c] \in Versions
  BY DEF Rows, Packs, PackRows
<1>2. name \in Seq(STRING) /\ name # <<>>
  BY ServingAssumption
<1>3. Len(name) > 1 => Front(name) \in Seq(STRING)
  BY <1>2 DEF Front
<1>4. name \in bare /\ bare \subseteq means /\ bare \subseteq Seq(STRING)
  BY <1>2, <1>3 DEF Meanings
<1>5. ASSUME NEW c \in bare \cap Channels, row.channel[c] # None
      PROVE  row.channel[c] \in means /\ row.channel[c] \in Seq(STRING)
  BY <1>1, <1>5, Bounds DEF Meanings
<1> HIDE DEF means
<1>6. ASSUME NEW n \in bare
      PROVE  /\ Tries(row, n) \in Seq(Seq(STRING)) /\ Tries(row, n) # <<>>
             /\ \A i \in 1..Len(Tries(row, n)) : Tries(row, n)[i] \in means
             /\ Tries(row, n)[1] = n
  <2>1. n \in Seq(STRING) /\ n \in means
    BY <1>4
  <2>2. CASE n \in Channels /\ row.channel[n] # None
    <3>1. row.channel[n] \in means /\ row.channel[n] \in Seq(STRING)
      BY <1>5, <2>2
    <3>2. Tries(row, n) = <<n, row.channel[n]>>
      BY <2>2 DEF Tries
    <3> HIDE DEF row
    <3> QED
      BY <2>1, <3>1, <3>2
  <2>3. CASE ~(n \in Channels /\ row.channel[n] # None)
    <3>1. Tries(row, n) = <<n>>
      BY <2>3 DEF Tries
    <3> QED
      BY <2>1, <3>1
  <2> QED
    BY <2>2, <2>3
<1>7. CASE kind = "build"
  <2>1. CASE Len(name) > 1 /\ Last(name) \in row.variants
    <3>1. NamesTried(kind, row, name) = Tries(row, name) \o Tries(row, Front(name))
      BY <1>7, <2>1 DEF NamesTried, Candidates
    <3>2. name \in bare /\ Front(name) \in bare
      BY <2>1
    <3> HIDE DEF row, bare
    <3> QED
      BY <1>6, <3>1, <3>2, Joined
  <2>2. CASE ~(Len(name) > 1 /\ Last(name) \in row.variants)
    <3>1. NamesTried(kind, row, name) = Tries(row, name)
      BY <1>7, <2>2 DEF NamesTried, Candidates
    <3> HIDE DEF row, bare
    <3> QED
      BY <1>4, <1>6, <3>1
  <2> QED
    BY <2>1, <2>2
<1>8. CASE kind = "bootstrap"
  <2>1. NamesTried(kind, row, name) = Tries(row, name)
    BY <1>8 DEF NamesTried
  <2> HIDE DEF row, bare
  <2> QED
    BY <1>4, <1>6, <2>1
<1>9. CASE kind = "hosted"
  <2>1. NamesTried(kind, row, name) = Selected(row, name)
    BY <1>9 DEF NamesTried
  <2>2. CASE name \notin Channels
    <3>1. NamesTried(kind, row, name) = <<name>>
      BY <2>1, <2>2 DEF Selected
    <3>2. Good(<<name>>)
      BY <1>2, <1>4
    <3> HIDE DEF Good
    <3> QED
      BY <3>1, <3>2
  <2>3. CASE name \in Channels /\ row.channel[name] = None
    <3>1. NamesTried(kind, row, name) = <<>>
      BY <2>1, <2>3 DEF Selected
    <3>2. Good(<<>>)
      BY <1>9
    <3> HIDE DEF Good
    <3> QED
      BY <3>1, <3>2
  <2>4. CASE name \in Channels /\ row.channel[name] # None
    <3>1. NamesTried(kind, row, name) = <<row.channel[name]>>
      BY <2>1, <2>4 DEF Selected
    <3>2. row.channel[name] \in means /\ row.channel[name] \in Seq(STRING)
      BY <1>4, <1>5, <2>4
    <3>3. Good(<<row.channel[name]>>)
      BY <1>9, <3>2
    <3> HIDE DEF Good
    <3> QED
      BY <3>1, <3>3
  <2> QED
    BY <2>2, <2>3, <2>4
<1> QED
  BY <1>7, <1>8, <1>9 DEF Named

-----------------------------------------------------------------------------
(* Steps of the read                                                       *)

LEMMA RowsStay ==
  ASSUME Rows, UNCHANGED <<store, begun>>
  PROVE  Rows'
  BY DEF store, Rows, Packs, Builds

LEMMA GoesOn ==
  ASSUME IInv, UNCHANGED <<store, job, begun>>, Watch,
         read' \in Reading, InHand(read', was)
  PROVE  IInv'
<1>1. Rows' /\ Working'
  BY RowsStay DEF IInv, Working, store
<1>2. Now' \subseteq was' /\ was \subseteq was'
  BY WatchGrows
<1>3. PICK q \in {read'}, h \in {was}, g \in {was'} : q = read' /\ h = was /\ g = was'
  OBVIOUS
<1>4. InHand(q, g)
  BY <1>2, <1>3, InHandStays
<1>5. InHand(read, was)'
  BY <1>3, <1>4 DEF InHand
<1>6. AnswersWereRight'
  BY ReadingIsActive DEF AnswersWereRight
<1> QED
  BY <1>1, <1>2, <1>5, <1>6 DEF IInv, Watched

LEMMA IsAnswered ==
  ASSUME IInv, UNCHANGED <<store, job, begun>>, Watch, read \in Reading,
         NEW out \in SUBSET AnswerRows, Answers(out),
         \A a \in out : Right(a, read.kind, read.name, was)
  PROVE  IInv'
<1>1. Rows' /\ Working'
  BY RowsStay DEF IInv, Working, store
<1>2. read' \in Done /\ read'.kind = read.kind /\ read'.name = read.name /\ read'.out = out
  BY DEF Answers, Done, Reading
<1>3. was' = was
  BY <1>2, ReadingIsActive DEF Watch
<1>4. AnswersWereRight'
  BY <1>2, <1>3 DEF AnswersWereRight, Right
<1> QED
  BY <1>1, <1>2, <1>4, ReadingIsActive DEF IInv, Watched

\* A read that has not been answered.
LEMMA InCourse ==
  ASSUME IInv, read.pc \notin {"idle", "done"}
  PROVE  read \in Reading /\ Now \subseteq was /\ InHand(read, was)
  BY ReadingIsActive DEF IInv, Watched

LEMMA BeginReadKeeps ==
  ASSUME IInv, NEW caller \in Callers, NEW route \in Routes, BeginRead(caller, route)
  PROVE  IInv'
<1>1. caller.cid \in Clients \cup {None} /\ caller.k \in BOOLEAN /\ caller.t \in BOOLEAN
  BY ServingAssumption
<1>2. /\ route[1] \in Kinds /\ route[2] \in Slugs \cup {None}
      /\ route[3] \in Versions \cup {None} /\ (route[1] \in Named => route[3] \in Versions)
  BY DEF Routes, Kinds, Named
<1>3. KeyOpens(caller.k) \in SUBSET PackIds
  BY DEF KeyOpens
<1>4. /\ read' \in Reading /\ read'.mine = KeyOpens(caller.k) /\ read'.k = caller.k
      /\ read'.t = caller.t /\ read'.pc = (IF caller.t THEN "token" ELSE "pack")
      /\ read'.kind = route[1] /\ read'.name = route[3] /\ read'.out = {}
  BY <1>1, <1>2, <1>3 DEF BeginRead, Reading
<1>5. Now' \subseteq was' /\ key' = key
  BY <1>4, WatchGrows DEF BeginRead, store
<1>6. ASSUME NEW p \in read'.mine
      PROVE  <<"opens", p>> \in was' /\ (read'.k \/ read'.t)
  <2>1. KeyOpens(read.k)' = KeyOpens(caller.k) /\ caller.k
    BY <1>4, <1>5, <1>6 DEF KeyOpens
  <2>2. p \in KeyOpens(read.k)'
    BY <1>4, <1>6, <2>1
  <2>3. ({"opens"} \X KeyOpens(read.k))' \subseteq Now'
    BY DEF Now
  <2>4. <<"opens", p>> \in Now'
    BY <2>2, <2>3
  <2> QED
    BY <1>4, <1>5, <2>1, <2>4
<1>7. InHand(read, was)'
  BY <1>2, <1>4, <1>6 DEF InHand
<1>8. Rows' /\ Working'
  BY RowsStay DEF BeginRead, IInv, Working, store
<1>9. AnswersWereRight'
  BY <1>4, ReadingIsActive DEF AnswersWereRight
<1> QED
  BY <1>4, <1>5, <1>7, <1>8, <1>9 DEF IInv, Watched

LEMMA AuthenticateKeeps ==
  ASSUME IInv, Authenticate
  PROVE  IInv'
<1>1. /\ read \in Reading /\ Now \subseteq was /\ InHand(read, was)
      /\ read.t /\ read.out = {}
  BY InCourse DEF Authenticate, InHand
<1>2. PICK mine \in {read.mine \cup TokenOpens(TRUE)} : mine = read.mine \cup TokenOpens(TRUE)
  OBVIOUS
<1>3. TokenOpens(TRUE) \in SUBSET PackIds /\ read.mine \in SUBSET PackIds
  BY <1>1 DEF TokenOpens, IInv, Rows, Owners, Reading
<1>4. PICK q \in {read}, r \in {read'} : q = read /\ r = read'
  OBVIOUS
<1>5. /\ r \in Reading /\ r.pc = "pack" /\ r.mine = mine
      /\ r.kind = q.kind /\ r.name = q.name /\ r.k = q.k /\ r.t = q.t /\ r.out = q.out
  <2>1. r = [q EXCEPT !.pc = "pack", !.mine = mine]
    BY <1>2, <1>4 DEF Authenticate
  <2>2. q \in Reading /\ mine \in SUBSET PackIds
    BY <1>1, <1>2, <1>3, <1>4
  <2> QED
    BY <2>1, <2>2 DEF Reading
<1>6. \A p \in mine : <<"opens", p>> \in was
  <2>1. \A p \in TokenOpens(TRUE) : p \in TokenOpens(read.t)
    BY <1>1 DEF TokenOpens
  <2> QED
    BY <1>1, <1>2, <2>1, OpensNow DEF InHand
<1>7. InHand(read', was)
  BY <1>1, <1>4, <1>5, <1>6 DEF InHand
<1> QED
  BY <1>4, <1>5, <1>7, GoesOn DEF Authenticate

\* A build that a query returned was open to the caller, or published in a pack
\* that a key or a token opened.
LEMMA Returned ==
  ASSUME Rows, read \in Reading, Now \subseteq was, InHand(read, was),
         NEW b \in Builds, builds[b].published,
         Readable(b, read.cid) \/ builds[b].pack \in read.mine
  PROVE  /\ Answered(b) \in AnswerRows
         /\ Answered(b).id = b /\ Answered(b).pack = builds[b].pack
         /\ Answered(b).ver = builds[b].ver
         /\ \/ <<"open", b>> \in was
            \/ {<<"published", b>>, <<"opens", builds[b].pack>>} \subseteq was
<1>1. b \in BuildIds /\ builds[b] \in BuildRows
  BY DEF Builds, Rows
<1>2. CASE Readable(b, read.cid)
  BY <1>1, <1>2, OpenNow DEF Answered, AnswerRows, BuildRows
<1>3. CASE builds[b].pack \in read.mine
  BY <1>1, <1>3, PublishedNow DEF Answered, AnswerRows, BuildRows, InHand
<1> QED
  BY <1>2, <1>3

LEMMA FindPacksKeeps ==
  ASSUME IInv, FindPacks
  PROVE  IInv'
<1>1. read \in Reading /\ Now \subseteq was /\ InHand(read, was) /\ read.kind = "list"
  BY InCourse DEF FindPacks
<1>2. PICK left \in {ListedPacks(read.cid, read.mine)} : left = ListedPacks(read.cid, read.mine)
  OBVIOUS
<1>3. \A p \in left : {<<"listed", p>>, <<"opens", p>>} \cap was # {}
  <2>1. ASSUME NEW p \in left, (~packs[p].hidden /\ ~packs[p].private) \/ Associated(read.cid, p)
        PROVE  <<"listed", p>> \in was
    BY <1>1, <1>2, <2>1, ListedNow DEF ListedPacks
  <2>2. ASSUME NEW p \in left, p \in read.mine
        PROVE  <<"opens", p>> \in was
    BY <1>1, <2>2 DEF InHand
  <2> QED
    BY <1>2, <2>1, <2>2 DEF ListedPacks
<1>4. left \in SUBSET PackIds
  BY <1>2 DEF ListedPacks, Packs
<1>5. PICK q \in {read}, r \in {read'} : q = read /\ r = read'
  OBVIOUS
<1>6. /\ r \in Reading /\ r.pc = "builds" /\ r.left = left /\ r.mine = q.mine
      /\ r.kind = q.kind /\ r.name = q.name /\ r.k = q.k /\ r.t = q.t /\ r.out = q.out
  <2>1. r = [q EXCEPT !.pc = "builds", !.left = left]
    BY <1>2, <1>5 DEF FindPacks
  <2>2. q \in Reading
    BY <1>1, <1>5
  <2> QED
    BY <1>4, <2>1, <2>2 DEF Reading
<1>7. q.out = {}
  BY <1>1, <1>5 DEF InHand, FindPacks
<1>8. InHand(read', was)
  BY <1>1, <1>3, <1>5, <1>6, <1>7 DEF InHand
<1> QED
  BY <1>5, <1>6, <1>8, GoesOn DEF FindPacks

LEMMA ReadModKeeps ==
  ASSUME IInv, ReadMod
  PROVE  IInv'
<1>1. read \in Reading /\ Now \subseteq was /\ InHand(read, was) /\ read.kind = "mod"
  BY InCourse DEF ReadMod
<1>2. PICK out \in {{Answered(b) : b \in OfMod(read.cid, read.mine)}} :
        out = {Answered(b) : b \in OfMod(read.cid, read.mine)}
  OBVIOUS
<1>3. \A b \in OfMod(read.cid, read.mine) :
        b \in Builds /\ builds[b].published /\ (Readable(b, read.cid) \/ builds[b].pack \in read.mine)
  BY DEF OfMod
<1>4. ASSUME NEW b \in OfMod(read.cid, read.mine)
      PROVE  Answered(b) \in AnswerRows /\ Right(Answered(b), "mod", read.name, was)
  BY <1>1, <1>3, Returned DEF Right, IInv, Named
<1>5. out \in SUBSET AnswerRows /\ \A a \in out : Right(a, read.kind, read.name, was)
  BY <1>1, <1>2, <1>4
<1>6. Answers(out)
  BY <1>2 DEF ReadMod
<1> QED
  BY <1>1, <1>5, <1>6, IsAnswered DEF ReadMod

LEMMA FindPackKeeps ==
  ASSUME IInv, FindPack
  PROVE  IInv'
<1>1. /\ read \in Reading /\ Now \subseteq was /\ InHand(read, was)
      /\ read.kind \in {"pack"} \cup Named /\ read.out = {}
  BY InCourse DEF FindPack, Reading, Kinds, InHand
<1>2. UNCHANGED <<store, job, begun>> /\ Watch
  BY DEF FindPack
<1>3. CASE Answers({})
  BY <1>1, <1>2, <1>3, IsAnswered
<1>4. ASSUME NEW p \in Accessible(read.slug, read.cid, read.mine), read.kind = "pack",
             read' = [read EXCEPT !.pc = "builds", !.left = {p}]
      PROVE  IInv'
  <2>1. p \in BySlug(read.slug) /\ p \in PackIds
    BY DEF Accessible, BySlug, Packs
  <2>2. <<"slug", p>> \in was
    BY <1>1, <2>1, SlugNow
  <2>3. PICK q \in {read}, r \in {read'} : q = read /\ r = read'
    OBVIOUS
  <2>4. /\ r \in Reading /\ r.pc = "builds" /\ r.left = {p} /\ r.mine = q.mine
        /\ r.kind = q.kind /\ r.name = q.name /\ r.k = q.k /\ r.t = q.t /\ r.out = q.out
    <3>1. r = [q EXCEPT !.pc = "builds", !.left = {p}] /\ q \in Reading
      BY <1>1, <1>4, <2>3
    <3> QED
      BY <2>1, <3>1 DEF Reading
  <2>5. InHand(read', was)
    BY <1>1, <1>4, <2>2, <2>3, <2>4 DEF InHand, Named
  <2> QED
    BY <1>2, <2>3, <2>4, <2>5, GoesOn
<1>5. ASSUME NEW p \in Accessible(read.slug, read.cid, read.mine), read.kind # "pack",
             read' = [read EXCEPT !.pc = "name", !.pack = p,
                        !.tries = NamesTried(read.kind, packs[p], read.name)]
      PROVE  IInv'
  <2>1. p \in BySlug(read.slug) /\ p \in Packs /\ p \in PackIds
    BY DEF Accessible, BySlug, Packs
  <2>2. <<"slug", p>> \in was
    BY <1>1, <2>1, SlugNow
  <2>3. read.kind \in Named /\ read.name \in Versions /\ Rows
    BY <1>1, <1>5 DEF InHand, IInv
  <2>4. PICK tries \in {NamesTried(read.kind, packs[p], read.name)} :
          tries = NamesTried(read.kind, packs[p], read.name)
    OBVIOUS
  <2>5. /\ tries \in Seq(Seq(STRING))
        /\ \A i \in 1..Len(tries) : tries[i] \in Meanings(p, read.name)
        /\ read.kind \in {"build", "bootstrap"} => tries # <<>> /\ tries[1] = read.name
    <3>1. PICK kind \in {read.kind}, name \in {read.name} : kind = read.kind /\ name = read.name
      OBVIOUS
    <3> QED
      BY <2>1, <2>3, <2>4, <3>1, TriesMean
  <2>6. \A i \in 1..Len(tries) : <<"means", <<p, tries[i]>>>> \in was
    BY <1>1, <2>1, <2>3, <2>5, MeansNow
  <2>7. PICK q \in {read}, r \in {read'} : q = read /\ r = read'
    OBVIOUS
  <2>8. /\ r \in Reading /\ r.pc = "name" /\ r.pack = p /\ r.tries = tries /\ r.mine = q.mine
        /\ r.kind = q.kind /\ r.name = q.name /\ r.k = q.k /\ r.t = q.t /\ r.out = q.out
    <3>1. r = [q EXCEPT !.pc = "name", !.pack = p, !.tries = tries] /\ q \in Reading
      BY <1>1, <1>5, <2>4, <2>7
    <3> QED
      BY <2>1, <2>5, <3>1 DEF Reading
  <2>9. InHand(read', was)
    BY <1>1, <2>1, <2>2, <2>3, <2>5, <2>6, <2>7, <2>8 DEF InHand
  <2> QED
    BY <1>2, <2>7, <2>8, <2>9, GoesOn
<1> QED
  BY <1>3, <1>4, <1>5 DEF FindPack

LEMMA ListBuildsKeeps ==
  ASSUME IInv, ListBuilds
  PROVE  IInv'
<1>1. /\ read \in Reading /\ Now \subseteq was /\ InHand(read, was)
      /\ read.kind \in {"list", "pack"} /\ read.left \in SUBSET PackIds
      /\ read.out \in SUBSET AnswerRows /\ read.pc = "builds"
      /\ \A a \in read.out : Right(a, read.kind, read.name, was)
  BY InCourse DEF ListBuilds, Reading, InHand
<1>2. UNCHANGED <<store, job, begun>> /\ Watch
  BY DEF ListBuilds
<1>3. CASE Answers(read.out)
  <2>1. PICK out \in {read.out} : out = read.out
    OBVIOUS
  <2> QED
    BY <1>1, <1>2, <1>3, <2>1, IsAnswered
<1>4. ASSUME NEW p \in read.left,
             read' = [read EXCEPT !.left = @ \ {p},
               !.out = @ \cup {Answered(b) : b \in OfPack(p, read.cid, p \in read.mine)}]
      PROVE  IInv'
  <2>1. PICK more \in {{Answered(b) : b \in OfPack(p, read.cid, p \in read.mine)}} :
          more = {Answered(b) : b \in OfPack(p, read.cid, p \in read.mine)}
    OBVIOUS
  <2>2. ASSUME NEW b \in OfPack(p, read.cid, p \in read.mine)
        PROVE  Answered(b) \in AnswerRows /\ Right(Answered(b), read.kind, read.name, was)
    <3>1. /\ b \in Builds /\ builds[b].published /\ builds[b].pack = p
          /\ Readable(b, read.cid) \/ builds[b].pack \in read.mine
      BY DEF OfPack
    <3>2. /\ read.kind = "list" => {<<"listed", p>>, <<"opens", p>>} \cap was # {}
          /\ read.kind = "pack" => <<"slug", p>> \in was
      BY <1>1 DEF InHand
    <3>3. PICK a \in {Answered(b)} : a = Answered(b)
      OBVIOUS
    <3>4. /\ a \in AnswerRows /\ a.id = b /\ a.pack = p
          /\ \/ <<"open", b>> \in was
             \/ {<<"published", b>>, <<"opens", p>>} \subseteq was
      BY <1>1, <3>1, <3>3, Returned DEF IInv
    <3>5. Right(a, read.kind, read.name, was)
      BY <1>1, <3>2, <3>4 DEF Right, Named
    <3> QED
      BY <3>3, <3>4, <3>5
  <2>3. more \in SUBSET AnswerRows /\ \A a \in more : Right(a, read.kind, read.name, was)
    BY <2>1, <2>2
  <2>4. PICK q \in {read}, r \in {read'} : q = read /\ r = read'
    OBVIOUS
  <2>5. /\ r \in Reading /\ r.pc = q.pc /\ r.left = q.left \ {p} /\ r.mine = q.mine
        /\ r.kind = q.kind /\ r.name = q.name /\ r.k = q.k /\ r.t = q.t
        /\ r.out = q.out \cup more
    <3>1. r = [q EXCEPT !.left = @ \ {p}, !.out = @ \cup more] /\ q \in Reading
      BY <1>1, <1>4, <2>1, <2>4
    <3> QED
      BY <2>3, <3>1 DEF Reading
  <2>6. InHand(read', was)
    BY <1>1, <2>3, <2>4, <2>5 DEF InHand
  <2> QED
    BY <1>2, <2>4, <2>5, <2>6, GoesOn
<1> QED
  BY <1>3, <1>4 DEF ListBuilds

LEMMA TailHas ==
  ASSUME NEW S, NEW s \in Seq(S), s # <<>>
  PROVE  /\ Tail(s) \in Seq(S) /\ Len(Tail(s)) = Len(s) - 1 /\ Head(s) = s[1]
         /\ \A i \in 1..Len(Tail(s)) : i + 1 \in 1..Len(s) /\ Tail(s)[i] = s[i + 1]
  OBVIOUS

LEMMA LookUpKeeps ==
  ASSUME IInv, LookUp
  PROVE  IInv'
<1>1. /\ read \in Reading /\ Now \subseteq was /\ InHand(read, was) /\ read.pc = "name"
      /\ read.kind \in Named /\ read.pack \in PackIds /\ <<"slug", read.pack>> \in was
      /\ read.tries \in Seq(Seq(STRING)) /\ read.out = {} /\ Rows
  BY InCourse DEF LookUp, Reading, InHand, IInv
<1>2. UNCHANGED <<store, job, begun>> /\ Watch
  BY DEF LookUp
<1> DEFINE found == OfVersion(read.pack, read.cid, read.pack \in read.mine, Head(read.tries))
<1>3. CASE Answers({})
  BY <1>1, <1>2, <1>3, IsAnswered
<1>4. CASE read.tries # <<>> /\ found = {} /\ read' = [read EXCEPT !.tries = Tail(@)]
  <2>1. PICK tries \in {Tail(read.tries)} : tries = Tail(read.tries)
    OBVIOUS
  <2>2. /\ tries \in Seq(Seq(STRING)) /\ Len(tries) = Len(read.tries) - 1
        /\ \A i \in 1..Len(tries) : i + 1 \in 1..Len(read.tries) /\ tries[i] = read.tries[i + 1]
        /\ Head(read.tries) = read.tries[1]
    <3>1. PICK s \in {read.tries} : s = read.tries
      OBVIOUS
    <3> QED
      BY <1>1, <1>4, <2>1, <3>1, TailHas
  <2>3. PICK q \in {read}, r \in {read'} : q = read /\ r = read'
    OBVIOUS
  <2>4. /\ r \in Reading /\ r.pc = q.pc /\ r.pack = q.pack /\ r.tries = tries /\ r.mine = q.mine
        /\ r.kind = q.kind /\ r.name = q.name /\ r.k = q.k /\ r.t = q.t /\ r.out = q.out
    <3>1. r = [q EXCEPT !.tries = tries] /\ q \in Reading
      BY <1>1, <1>4, <2>1, <2>3
    <3> QED
      BY <2>2, <3>1 DEF Reading
  <2>5. ASSUME read.kind \in {"build", "bootstrap"}
        PROVE  <<"unnamed", read.pack>> \in was
    <3>1. CASE read.tries[1] = read.name
      <4>1. \A b \in Builds : builds[b].published /\ Readable(b, read.cid)
                               /\ builds[b].ver = read.name => builds[b].pack # read.pack
        BY <1>4, <2>2, <3>1 DEF OfVersion
      <4>2. PICK p \in {read.pack} : p = read.pack
        OBVIOUS
      <4> QED
        BY <1>1, <4>1, <4>2, UnnamedNow
    <3> QED
      BY <1>1, <2>5, <3>1 DEF InHand
  <2>6. \A i \in 1..Len(tries) : <<"means", <<read.pack, tries[i]>>>> \in was
    BY <1>1, <2>2 DEF InHand
  <2>7. InHand(read', was)
    BY <1>1, <2>3, <2>4, <2>5, <2>6 DEF InHand
  <2> QED
    BY <1>2, <2>3, <2>4, <2>7, GoesOn
<1>5. ASSUME NEW b \in found, read.tries # <<>>, Answers({Answered(b)})
      PROVE  IInv'
  <2>1. /\ b \in Builds /\ builds[b].published /\ builds[b].pack = read.pack
        /\ builds[b].ver = Head(read.tries)
        /\ Readable(b, read.cid) \/ builds[b].pack \in read.mine
    BY DEF OfVersion
  <2>2. Head(read.tries) = read.tries[1] /\ 1 \in 1..Len(read.tries)
    BY <1>1, <1>5
  <2>3. /\ <<"means", <<read.pack, Head(read.tries)>>>> \in was
        /\ read.kind \in {"build", "bootstrap"} =>
             Head(read.tries) = read.name \/ <<"unnamed", read.pack>> \in was
    BY <1>1, <2>2 DEF InHand
  <2>4. PICK a \in {Answered(b)} : a = Answered(b)
    OBVIOUS
  <2>5. /\ a \in AnswerRows /\ a.id = b /\ a.pack = read.pack /\ a.ver = Head(read.tries)
        /\ \/ <<"open", b>> \in was
           \/ {<<"published", b>>, <<"opens", read.pack>>} \subseteq was
    BY <1>1, <2>1, <2>4, Returned
  <2>6. Right(a, read.kind, read.name, was)
    BY <1>1, <2>3, <2>5 DEF Right, Named
  <2>7. Answers({a})
    BY <1>5, <2>4
  <2> QED
    BY <1>1, <1>2, <2>5, <2>6, <2>7, IsAnswered
<1>6. ASSUME NEW b \in found, read' = [read EXCEPT !.pc = "pack", !.name = builds[b].ver]
      PROVE  IInv'
  <2>1. PICK name \in {builds[b].ver} : name = builds[b].ver
    OBVIOUS
  <2>2. name \in Versions
    BY <1>1, <2>1 DEF OfVersion, Builds, Rows, BuildRows
  <2>3. PICK q \in {read}, r \in {read'} : q = read /\ r = read'
    OBVIOUS
  <2>4. /\ r \in Reading /\ r.pc = "pack" /\ r.name = name /\ r.mine = q.mine
        /\ r.kind = q.kind /\ r.k = q.k /\ r.t = q.t /\ r.out = q.out
    <3>1. r = [q EXCEPT !.pc = "pack", !.name = name] /\ q \in Reading
      BY <1>1, <1>6, <2>1, <2>3
    <3> QED
      BY <2>2, <3>1 DEF Reading
  <2>5. InHand(read', was)
    BY <1>1, <2>2, <2>3, <2>4 DEF InHand
  <2> QED
    BY <1>2, <2>3, <2>4, <2>5, GoesOn
<1> QED
  BY <1>3, <1>4, <1>5, <1>6 DEF LookUp

-----------------------------------------------------------------------------
(* Steps of others                                                         *)

LEMMA Others ==
  ASSUME IInv, Rows', Working', read' = read, Watch
  PROVE  IInv'
  BY OthersKeep DEF IInv

LEMMA BeginsCounts ==
  ASSUME Rows, Begins
  PROVE  begun' \in 0..MaxBegun
  BY Bounds DEF Rows, Begins

LEMMA PackChanges ==
  ASSUME Rows, NEW p \in Packs, NEW row \in PackRows,
         row.slug = packs[p].slug \/ BySlug(row.slug) = {},
         packs' = [packs EXCEPT ![p] = row], begun' \in 0..MaxBegun,
         UNCHANGED <<builds, clients, grants, user, lastPack, lastBuild, late>>
  PROVE  Rows'
<1>1. p \in PackIds /\ row # None
  BY Bounds DEF Packs
<1>2. /\ packs' \in [PackIds -> PackRows \cup {None}] /\ Packs' = Packs /\ packs'[p] = row
      /\ \A x \in Packs \ {p} : packs'[x] = packs[x]
  BY <1>1 DEF Rows, Packs
<1>3. ASSUME NEW x \in Packs \ {p}
      PROVE  packs[x].slug # row.slug
  BY <1>1 DEF Rows, BySlug
<1>4. \A x, y \in Packs : packs'[x].slug = packs'[y].slug => x = y
  BY <1>2, <1>3 DEF Rows
<1>5. Builds' = Builds
  BY DEF Builds
<1> QED
  BY <1>2, <1>4, <1>5 DEF Rows

LEMMA UpdatePackKeeps ==
  ASSUME IInv, NEW p \in PackIds, UpdatePack(p)
  PROVE  IInv'
<1>1. Rows /\ p \in Packs /\ packs[p] \in PackRows /\ begun' \in 0..MaxBegun
  BY BeginsCounts DEF IInv, UpdatePack, Rows, Packs
<1>2. packs \in [PackIds -> PackRows \cup {None}]
  BY <1>1 DEF Rows
<1>3. UNCHANGED <<builds, clients, grants, user, lastPack, lastBuild, late>>
  BY DEF UpdatePack
<1>4. ASSUME packs' = [packs EXCEPT ![p].hidden = ~@]
      PROVE  Rows'
  <2>1. PICK row \in {[packs[p] EXCEPT !.hidden = ~@]} : row = [packs[p] EXCEPT !.hidden = ~@]
    OBVIOUS
  <2>2. row \in PackRows /\ row.slug = packs[p].slug
    BY <1>1, <2>1 DEF PackRows
  <2>3. packs' = [packs EXCEPT ![p] = row]
    BY <1>4, <2>1
  <2> QED
    BY <1>1, <1>3, <2>2, <2>3, PackChanges
<1>5. ASSUME packs' = [packs EXCEPT ![p].private = ~@]
      PROVE  Rows'
  <2>1. PICK row \in {[packs[p] EXCEPT !.private = ~@]} : row = [packs[p] EXCEPT !.private = ~@]
    OBVIOUS
  <2>2. row \in PackRows /\ row.slug = packs[p].slug
    BY <1>1, <2>1 DEF PackRows
  <2>3. packs' = [packs EXCEPT ![p] = row]
    BY <1>5, <2>1
  <2> QED
    BY <1>1, <1>3, <2>2, <2>3, PackChanges
<1>6. ASSUME NEW s \in Variants, packs' = [packs EXCEPT ![p].variants = SymDiff(@, {s})]
      PROVE  Rows'
  <2>1. PICK row \in {[packs[p] EXCEPT !.variants = SymDiff(@, {s})]} :
          row = [packs[p] EXCEPT !.variants = SymDiff(@, {s})]
    OBVIOUS
  <2>2. row \in PackRows /\ row.slug = packs[p].slug
    BY <1>1, <2>1 DEF PackRows, SymDiff
  <2>3. packs' = [packs EXCEPT ![p] = row]
    BY <1>6, <2>1
  <2> QED
    BY <1>1, <1>3, <2>2, <2>3, PackChanges
<1>7. ASSUME NEW c \in Channels, NEW v \in Versions \cup {None},
             packs' = [packs EXCEPT ![p].channel[c] = v]
      PROVE  Rows'
  <2>1. PICK row \in {[packs[p] EXCEPT !.channel[c] = v]} :
          row = [packs[p] EXCEPT !.channel[c] = v]
    OBVIOUS
  <2>2. row \in PackRows /\ row.slug = packs[p].slug
    BY <1>1, <2>1 DEF PackRows
  <2>3. packs' = [packs EXCEPT ![p] = row]
    BY <1>7, <2>1
  <2> QED
    BY <1>1, <1>3, <2>2, <2>3, PackChanges
<1>8. ASSUME NEW s \in Slugs, BySlug(s) = {}, packs' = [packs EXCEPT ![p].slug = s]
      PROVE  Rows'
  <2>1. PICK row \in {[packs[p] EXCEPT !.slug = s]} : row = [packs[p] EXCEPT !.slug = s]
    OBVIOUS
  <2>2. row \in PackRows /\ row.slug = s
    BY <1>1, <2>1 DEF PackRows
  <2>3. packs' = [packs EXCEPT ![p] = row]
    BY <1>8, <2>1
  <2> QED
    BY <1>1, <1>3, <1>8, <2>2, <2>3, PackChanges
<1>9. Rows'
  BY <1>4, <1>5, <1>6, <1>7, <1>8 DEF UpdatePack
<1> QED
  BY <1>9, Others DEF UpdatePack, IInv, Working

\* A new modpack, with or without builds.
LEMMA PackAdded ==
  ASSUME Rows, NEW row \in PackRows, NEW own \in BOOLEAN, Inserts(row, own)
  PROVE  /\ packs' \in [PackIds -> PackRows \cup {None}]
         /\ \A p, q \in Packs' : packs'[p].slug = packs'[q].slug => p = q
         /\ Packs \subseteq Packs' /\ lastPack + 1 \in Packs'
         /\ user' \in Owners /\ user'.csv \subseteq Packs' /\ lastPack' \in 0..MaxPack
<1>1. /\ lastPack \in 0..MaxPack /\ lastPack < MaxPack /\ lastPack' = lastPack + 1
      /\ BySlug(row.slug) = {} /\ packs' = [packs EXCEPT ![lastPack + 1] = row]
      /\ packs \in [PackIds -> PackRows \cup {None}] /\ row # None
  BY Bounds DEF Inserts, Rows
<1>2. lastPack + 1 \in PackIds /\ lastPack' \in 0..MaxPack
  BY <1>1, Bounds DEF PackIds
<1>3. PICK n \in PackIds : n = lastPack + 1
  BY <1>2
<1>4. /\ packs' \in [PackIds -> PackRows \cup {None}] /\ packs'[n] = row
      /\ \A x \in PackIds \ {n} : packs'[x] = packs[x]
      /\ Packs' = Packs \cup {n}
  BY <1>1, <1>3 DEF Packs
<1>5. \A x \in Packs \ {n} : packs'[x].slug = packs[x].slug /\ packs[x].slug # row.slug
  BY <1>1, <1>4 DEF BySlug, Packs
<1>6. \A p, q \in Packs' : packs'[p].slug = packs'[q].slug => p = q
  BY <1>4, <1>5 DEF Rows
<1>7. user' \in Owners /\ user'.csv \subseteq Packs'
  <2>1. user \in Owners /\ user.csv \subseteq Packs
    BY DEF Rows
  <2>2. CASE own
    <3>1. user' = [user EXCEPT !.csv = @ \cup {n}, !.assigned = @ \cup {n}]
      BY <1>3, <2>2 DEF Inserts
    <3> QED
      BY <1>4, <2>1, <3>1 DEF Owners
  <2>3. CASE ~own
    BY <1>4, <2>1, <2>3 DEF Inserts
  <2> QED
    BY <2>2, <2>3
<1> QED
  BY <1>2, <1>3, <1>4, <1>6, <1>7

LEMMA CreatePackKeeps ==
  ASSUME IInv, NEW slug \in Slugs, NEW hidden \in BOOLEAN, NEW private \in BOOLEAN,
         NEW own \in BOOLEAN, CreatePack(slug, hidden, private, own)
  PROVE  IInv'
<1> DEFINE row == [slug |-> slug, hidden |-> hidden, private |-> private,
                   channel |-> [c \in Channels |-> None], variants |-> {}]
<1>1. row \in PackRows
  BY DEF PackRows
<1>2. Rows /\ Inserts(row, own) /\ begun' \in 0..MaxBegun
  BY BeginsCounts DEF CreatePack, IInv
<1> HIDE DEF row
<1>3. /\ packs' \in [PackIds -> PackRows \cup {None}]
      /\ \A p, q \in Packs' : packs'[p].slug = packs'[q].slug => p = q
      /\ Packs \subseteq Packs'
      /\ user' \in Owners /\ user'.csv \subseteq Packs' /\ lastPack' \in 0..MaxPack
  BY <1>1, <1>2, PackAdded
<1>4. UNCHANGED <<builds, clients, grants, lastBuild, late, job, read>> /\ Builds' = Builds /\ Watch
  BY DEF CreatePack, Builds
<1>5. Rows' /\ Working'
  BY <1>2, <1>3, <1>4 DEF Rows, IInv, Working
<1> QED
  BY <1>4, <1>5, Others

\* A worker begins or ends a request.
LEMMA DoesOne ==
  ASSUME Working, NEW w \in Workers, NEW j \in Jobs, job' = [job EXCEPT ![w] = j]
  PROVE  Working'
  BY DEF Working

LEMMA IdleIsJob == Idle \in Jobs
  BY DEF Jobs

LEMMA JobsAre ==
  ASSUME NEW r \in Jobs
  PROVE  /\ r.pc = "channel" => r.pack \in PackIds /\ r.allowed \subseteq Versions
         /\ r.pc = "clone" => r.pack \in PackIds /\ r.row \in PackRows /\ r.slug \in Slugs
         /\ r.pc = "build" => r.pack \in PackIds
  BY DEF Jobs, Idle

LEMMA BeginChannelKeeps ==
  ASSUME IInv, NEW w \in Workers, NEW p \in PackIds, BeginChannel(w, p)
  PROVE  IInv'
<1> DEFINE r == [pc |-> "channel", pack |-> p, allowed |-> VersionsOf(p)]
<1>1. VersionsOf(p) \subseteq Versions
  BY DEF VersionsOf, Builds, IInv, Rows, BuildRows
<1>2. PICK j \in Jobs : j = r
  BY <1>1 DEF Jobs
<1>3. job' = [job EXCEPT ![w] = j] /\ Begins
  BY <1>2 DEF BeginChannel, Does
<1>4. Working'
  BY <1>3, DoesOne DEF IInv
<1>5. Rows'
  BY <1>3, BeginsCounts DEF IInv, BeginChannel, store, Rows, Packs, Builds
<1> QED
  BY <1>4, <1>5, Others DEF BeginChannel

LEMMA BeginCloneKeeps ==
  ASSUME IInv, NEW w \in Workers, NEW p \in PackIds, NEW slug \in Slugs,
         BeginClone(w, p, slug)
  PROVE  IInv'
<1> DEFINE r == [pc |-> "clone", pack |-> p, row |-> packs[p], slug |-> slug]
<1>1. packs[p] \in PackRows
  BY DEF BeginClone, Packs, IInv, Rows
<1>2. PICK j \in Jobs : j = r
  BY <1>1 DEF Jobs
<1>3. job' = [job EXCEPT ![w] = j] /\ Begins
  BY <1>2 DEF BeginClone, Does
<1>4. Working'
  BY <1>3, DoesOne DEF IInv
<1>5. Rows'
  BY <1>3, BeginsCounts DEF IInv, BeginClone, store, Rows, Packs, Builds
<1> QED
  BY <1>4, <1>5, Others DEF BeginClone

LEMMA BeginBuildKeeps ==
  ASSUME IInv, NEW w \in Workers, NEW p \in PackIds, BeginBuild(w, p)
  PROVE  IInv'
<1>1. PICK j \in Jobs : j = [pc |-> "build", pack |-> p]
  BY DEF Jobs
<1>2. job' = [job EXCEPT ![w] = j] /\ Begins
  BY <1>1 DEF BeginBuild, Does
<1>3. Working'
  BY <1>2, DoesOne DEF IInv
<1>4. Rows'
  BY <1>2, BeginsCounts DEF IInv, BeginBuild, store, Rows, Packs, Builds
<1> QED
  BY <1>3, <1>4, Others DEF BeginBuild

LEMMA ChooseChannelKeeps ==
  ASSUME IInv, NEW w \in Workers, NEW c \in Channels, ChooseChannel(w, c)
  PROVE  IInv'
<1>1. PICK r \in Jobs : r = job[w]
  BY DEF IInv, Working
<1>2. r.pack \in PackIds /\ r.allowed \subseteq Versions /\ Rows
  BY <1>1, JobsAre DEF ChooseChannel, IInv
<1>3. Working'
  BY IdleIsJob, DoesOne DEF ChooseChannel, Ends, IInv
<1>4. /\ UNCHANGED <<builds, clients, grants, user, lastPack, lastBuild, late, begun, read>>
      /\ Watch
  BY DEF ChooseChannel
<1>5. ASSUME UNCHANGED packs
      PROVE  Rows'
  BY <1>2, <1>4, <1>5 DEF Rows, Packs, Builds
<1>6. ASSUME r.pack \in Packs, NEW v \in r.allowed,
             packs' = [packs EXCEPT ![r.pack].channel[c] = v]
      PROVE  Rows'
  <2>1. PICK p \in Packs : p = r.pack
    BY <1>6
  <2>2. packs[p] \in PackRows /\ v \in Versions /\ p \in PackIds
    BY <1>2 DEF Packs, Rows
  <2>3. PICK row \in {[packs[p] EXCEPT !.channel[c] = v]} :
          row = [packs[p] EXCEPT !.channel[c] = v]
    OBVIOUS
  <2>4. row \in PackRows /\ row.slug = packs[p].slug
    BY <2>2, <2>3 DEF PackRows
  <2>5. packs' = [packs EXCEPT ![p] = row] /\ begun' \in 0..MaxBegun
    BY <1>2, <1>4, <1>6, <2>1, <2>2, <2>3 DEF Rows
  <2> QED
    BY <1>2, <1>4, <2>4, <2>5, PackChanges
<1>7. Rows'
  BY <1>1, <1>5, <1>6 DEF ChooseChannel
<1> QED
  BY <1>3, <1>4, <1>7, Others

LEMMA CopiedRow ==
  ASSUME NEW row \in PackRows, NEW slug \in Slugs, NEW private \in BOOLEAN
  PROVE  [row EXCEPT !.slug = slug, !.hidden = FALSE, !.private = private] \in PackRows
  BY DEF PackRows

LEMMA CopiedCount ==
  ASSUME NEW S \in SUBSET BuildIds
  PROVE  Cardinality(S) \in Nat
<1>1. IsFiniteSet(BuildIds)
  BY Bounds, FS_Interval DEF BuildIds
<1> QED
  BY <1>1, FS_Subset, FS_CardinalityType

LEMMA ClonePackKeeps ==
  ASSUME IInv, NEW w \in Workers, NEW private \in BOOLEAN, NEW own \in BOOLEAN,
         ClonePack(w, private, own)
  PROVE  IInv'
<1>1. PICK r \in Jobs : r = job[w]
  BY DEF IInv, Working
<1>2. r.pack \in PackIds /\ r.row \in PackRows /\ r.slug \in Slugs /\ Rows
  BY <1>1, JobsAre DEF ClonePack, IInv
<1>3. Working'
  BY IdleIsJob, DoesOne DEF ClonePack, Ends, IInv
<1>4. UNCHANGED <<clients, grants, key, late, begun, read>> /\ Watch
  BY DEF ClonePack
<1>5. ASSUME UNCHANGED <<packs, builds, user, lastPack, lastBuild>>
      PROVE  Rows'
  BY <1>2, <1>4, <1>5 DEF Rows, Packs, Builds
<1> DEFINE C == Copied(r.pack)
<1>6. ASSUME NEW n \in {Cardinality(C)}, lastBuild + n <= MaxBuild,
             Inserts([r.row EXCEPT !.slug = r.slug, !.hidden = FALSE, !.private = private], own),
             NEW copied \in [1..n -> C],
             builds' = [b \in BuildIds |->
               IF b \in lastBuild + 1..lastBuild + n
               THEN [builds[copied[b - lastBuild]] EXCEPT !.pack = lastPack + 1]
               ELSE builds[b]],
             lastBuild' = lastBuild + n
      PROVE  Rows'
  <2>1. PICK row \in PackRows :
          row = [r.row EXCEPT !.slug = r.slug, !.hidden = FALSE, !.private = private]
    BY <1>2, CopiedRow
  <2>2. /\ packs' \in [PackIds -> PackRows \cup {None}]
        /\ \A p, q \in Packs' : packs'[p].slug = packs'[q].slug => p = q
        /\ Packs \subseteq Packs' /\ lastPack + 1 \in Packs'
        /\ user' \in Owners /\ user'.csv \subseteq Packs' /\ lastPack' \in 0..MaxPack
    BY <1>2, <1>6, <2>1, PackAdded
  <2>3. n \in Nat /\ C \subseteq Builds
    BY <1>6, CopiedCount DEF Copied, Builds
  <2>4. lastBuild' \in 0..MaxBuild /\ lastBuild \in Nat
    BY <1>2, <1>6, <2>3, Bounds DEF Rows
  <2>5. lastPack + 1 \in PackIds
    BY <2>2 DEF Packs
  <2>6. ASSUME NEW b \in BuildIds, b \in lastBuild + 1..lastBuild + n
        PROVE  builds'[b] \in BuildRows /\ builds'[b].pack = lastPack + 1
    <3>1. b - lastBuild \in 1..n
      BY <2>3, <2>4, <2>6
    <3>2. PICK c \in C : c = copied[b - lastBuild]
      BY <1>6, <3>1
    <3>3. builds[c] \in BuildRows
      BY <1>2, <2>3 DEF Rows, Builds
    <3>4. builds'[b] = [builds[c] EXCEPT !.pack = lastPack + 1]
      BY <1>6, <2>6, <3>2
    <3> QED
      BY <2>5, <3>3, <3>4 DEF BuildRows
  <2>7. ASSUME NEW b \in BuildIds, b \notin lastBuild + 1..lastBuild + n
        PROVE  builds'[b] = builds[b]
    BY <1>6, <2>7
  <2>8. builds' \in [BuildIds -> BuildRows \cup {None}]
    BY <1>2, <1>6, <2>6, <2>7 DEF Rows
  <2>9. ASSUME NEW b \in Builds' \ late
        PROVE  builds'[b].pack \in Packs'
    BY <1>2, <2>2, <2>6, <2>7 DEF Rows, Builds
  <2> QED
    BY <1>2, <1>4, <2>2, <2>4, <2>8, <2>9 DEF Rows
<1>7. Rows'
  BY <1>1, <1>5, <1>6 DEF ClonePack
<1> QED
  BY <1>3, <1>4, <1>7, Others

LEMMA DeletePackKeeps ==
  ASSUME IInv, NEW p \in PackIds, DeletePack(p)
  PROVE  IInv'
<1>1. Rows /\ p \in Packs /\ begun' \in 0..MaxBegun
  BY BeginsCounts DEF DeletePack, IInv
<1>2. /\ packs' = [packs EXCEPT ![p] = None]
      /\ builds' = [b \in BuildIds |-> IF b \in Copied(p) THEN None ELSE builds[b]]
      /\ grants' \subseteq grants
      /\ user' = [user EXCEPT !.csv = @ \ {p}, !.assigned = @ \ {p}]
      /\ UNCHANGED <<clients, lastPack, lastBuild, late, job, read>> /\ Watch
  BY DEF DeletePack
<1>3. /\ packs' \in [PackIds -> PackRows \cup {None}] /\ Packs' = Packs \ {p}
      /\ \A x \in Packs' : packs'[x] = packs[x]
  BY <1>1, <1>2 DEF Rows, Packs
<1>4. builds' \in [BuildIds -> BuildRows \cup {None}]
  BY <1>1, <1>2 DEF Rows
<1>5. ASSUME NEW b \in Builds' \ late
      PROVE  builds'[b].pack \in Packs'
  <2>1. b \in Builds \ late /\ b \notin Copied(p) /\ builds'[b] = builds[b]
    BY <1>2 DEF Builds
  <2> QED
    BY <1>1, <1>3, <2>1 DEF Rows, Copied
<1>6. user' \in Owners /\ user'.csv \subseteq Packs'
  BY <1>1, <1>2, <1>3 DEF Rows, Owners
<1>7. Rows' /\ Working'
  BY <1>1, <1>2, <1>3, <1>4, <1>5, <1>6 DEF Rows, IInv, Working
<1> QED
  BY <1>2, <1>7, Others

LEMMA CreateBuildKeeps ==
  ASSUME IInv, NEW w \in Workers, NEW v \in Versions, NEW published \in BOOLEAN,
         NEW private \in BOOLEAN, CreateBuild(w, v, published, private)
  PROVE  IInv'
<1>1. PICK r \in Jobs : r = job[w]
  BY DEF IInv, Working
<1>2. r.pack \in PackIds /\ Rows
  BY <1>1, JobsAre DEF CreateBuild, IInv
<1>3. Working'
  BY IdleIsJob, DoesOne DEF CreateBuild, Ends, IInv
<1>4. UNCHANGED <<packs, clients, grants, user, lastPack, begun, read>> /\ Packs' = Packs /\ Watch
  BY DEF CreateBuild, Packs
<1>5. ASSUME UNCHANGED <<builds, lastBuild, late>>
      PROVE  Rows'
  BY <1>2, <1>4, <1>5 DEF Rows, Builds
<1>6. ASSUME lastBuild < MaxBuild, lastBuild' = lastBuild + 1,
             builds' = [builds EXCEPT ![lastBuild + 1] =
               [pack |-> r.pack, ver |-> v, published |-> published, private |-> private]],
             late' = IF r.pack \in Packs THEN late ELSE late \cup {lastBuild + 1}
      PROVE  Rows'
  <2>1. lastBuild' \in 0..MaxBuild /\ lastBuild + 1 \in BuildIds
    BY <1>2, <1>6, Bounds DEF Rows, BuildIds
  <2>2. PICK n \in BuildIds : n = lastBuild + 1
    BY <2>1
  <2>3. PICK row \in BuildRows :
          row = [pack |-> r.pack, ver |-> v, published |-> published, private |-> private]
    BY <1>2 DEF BuildRows
  <2>4. /\ builds' \in [BuildIds -> BuildRows \cup {None}] /\ builds'[n] = row
        /\ \A b \in BuildIds \ {n} : builds'[b] = builds[b]
    BY <1>2, <1>6, <2>2, <2>3 DEF Rows
  <2>5. ASSUME NEW b \in Builds' \ late'
        PROVE  builds'[b].pack \in Packs
    <3>1. b \in BuildIds /\ builds'[b] # None
      BY DEF Builds
    <3>2. CASE b = n
      BY <1>6, <2>2, <2>3, <2>4, <3>2
    <3>3. CASE b # n
      BY <1>2, <1>6, <2>2, <2>4, <3>1, <3>3 DEF Rows, Builds
    <3> QED
      BY <3>2, <3>3
  <2> QED
    BY <1>2, <1>4, <2>1, <2>4, <2>5 DEF Rows
<1>7. Rows'
  BY <1>1, <1>5, <1>6 DEF CreateBuild
<1> QED
  BY <1>3, <1>4, <1>7, Others

\* A build changes, and not its modpack.
LEMMA BuildChanges ==
  ASSUME Rows, NEW b \in Builds, NEW row \in BuildRows, row.pack = builds[b].pack,
         builds' = [builds EXCEPT ![b] = row], begun' \in 0..MaxBegun,
         UNCHANGED <<packs, clients, grants, user, lastPack, lastBuild, late>>
  PROVE  Rows'
<1>1. b \in BuildIds /\ builds[b] # None
  BY DEF Builds
<1>2. /\ builds' \in [BuildIds -> BuildRows \cup {None}] /\ builds'[b] = row
      /\ \A x \in BuildIds \ {b} : builds'[x] = builds[x]
  BY <1>1 DEF Rows
<1>3. Packs' = Packs
  BY DEF Packs
<1>4. \A x \in Builds' \ late : x \in Builds \ late /\ builds'[x].pack = builds[x].pack
  BY <1>1, <1>2 DEF Builds
<1> QED
  BY <1>2, <1>3, <1>4 DEF Rows

LEMMA UpdateBuildKeeps ==
  ASSUME IInv, NEW b \in BuildIds, UpdateBuild(b)
  PROVE  IInv'
<1>1. Rows /\ b \in Builds /\ builds[b] \in BuildRows /\ begun' \in 0..MaxBegun
  BY BeginsCounts DEF IInv, UpdateBuild, Rows, Builds
<1>2. builds \in [BuildIds -> BuildRows \cup {None}]
  BY <1>1 DEF Rows
<1>3. UNCHANGED <<packs, clients, grants, user, lastPack, lastBuild, late>>
  BY DEF UpdateBuild
<1>4. ASSUME builds' = [builds EXCEPT ![b].published = ~@]
      PROVE  Rows'
  <2>1. PICK row \in {[builds[b] EXCEPT !.published = ~@]} :
          row = [builds[b] EXCEPT !.published = ~@]
    OBVIOUS
  <2>2. row \in BuildRows /\ row.pack = builds[b].pack
    BY <1>1, <2>1 DEF BuildRows
  <2>3. builds' = [builds EXCEPT ![b] = row]
    BY <1>4, <2>1
  <2> QED
    BY <1>1, <1>3, <2>2, <2>3, BuildChanges
<1>5. ASSUME builds' = [builds EXCEPT ![b].private = ~@]
      PROVE  Rows'
  <2>1. PICK row \in {[builds[b] EXCEPT !.private = ~@]} :
          row = [builds[b] EXCEPT !.private = ~@]
    OBVIOUS
  <2>2. row \in BuildRows /\ row.pack = builds[b].pack
    BY <1>1, <2>1 DEF BuildRows
  <2>3. builds' = [builds EXCEPT ![b] = row]
    BY <1>5, <2>1
  <2> QED
    BY <1>1, <1>3, <2>2, <2>3, BuildChanges
<1>6. ASSUME NEW v \in Versions, builds' = [builds EXCEPT ![b].ver = v]
      PROVE  Rows'
  <2>1. PICK row \in {[builds[b] EXCEPT !.ver = v]} : row = [builds[b] EXCEPT !.ver = v]
    OBVIOUS
  <2>2. row \in BuildRows /\ row.pack = builds[b].pack
    BY <1>1, <2>1 DEF BuildRows
  <2>3. builds' = [builds EXCEPT ![b] = row]
    BY <1>6, <2>1
  <2> QED
    BY <1>1, <1>3, <2>2, <2>3, BuildChanges
<1>7. Rows'
  BY <1>4, <1>5, <1>6 DEF UpdateBuild
<1> QED
  BY <1>7, Others DEF UpdateBuild, IInv, Working

LEMMA DeleteBuildKeeps ==
  ASSUME IInv, NEW b \in BuildIds, DeleteBuild(b)
  PROVE  IInv'
<1>1. Rows /\ begun' \in 0..MaxBegun
  BY BeginsCounts DEF IInv, DeleteBuild
<1>2. /\ builds' = [builds EXCEPT ![b] = None] /\ late' = late \ {b} /\ Packs' = Packs
      /\ UNCHANGED <<packs, clients, grants, user, lastPack, lastBuild>>
  BY DEF DeleteBuild, Packs
<1>3. builds' \in [BuildIds -> BuildRows \cup {None}]
  BY <1>1, <1>2 DEF Rows
<1>4. \A x \in Builds' \ late' : x \in Builds \ late /\ builds'[x] = builds[x]
  BY <1>1, <1>2 DEF Builds, Rows
<1>5. Rows'
  BY <1>1, <1>2, <1>3, <1>4 DEF Rows
<1> QED
  BY <1>5, Others DEF DeleteBuild, IInv, Working

\* Clients, grants and the key.
LEMMA GrantsChange ==
  ASSUME IInv, Begins, clients' \subseteq clients, grants' \subseteq Clients \X PackIds,
         UNCHANGED <<packs, builds, user, lastPack, lastBuild, late, job, read>>, Watch
  PROVE  IInv'
<1>1. Rows'
  BY BeginsCounts DEF IInv, Rows, Packs, Builds
<1> QED
  BY <1>1, Others DEF IInv, Working

LEMMA ClientsKeep ==
  ASSUME IInv,
         \/ \E c \in Clients : DeleteClient(c) \/ \E p \in PackIds : Grant(c, p)
         \/ \E g \in grants : Ungrant(g)
         \/ \E c \in Clients, ps \in SUBSET PackIds : SetGrants(c, ps)
         \/ SetKey
  PROVE  IInv'
<1>1. grants \subseteq Clients \X PackIds /\ clients \subseteq Clients
  BY DEF IInv, Rows
<1>2. ASSUME NEW c \in Clients, DeleteClient(c) PROVE IInv'
  BY <1>1, <1>2, GrantsChange DEF DeleteClient
<1>3. ASSUME NEW c \in Clients, NEW p \in PackIds, Grant(c, p) PROVE IInv'
  BY <1>1, <1>3, GrantsChange DEF Grant
<1>4. ASSUME NEW g \in grants, Ungrant(g) PROVE IInv'
  BY <1>1, <1>4, GrantsChange DEF Ungrant
<1>5. ASSUME NEW c \in Clients, NEW ps \in SUBSET PackIds, SetGrants(c, ps) PROVE IInv'
  BY <1>1, <1>5, GrantsChange DEF SetGrants
<1>6. CASE SetKey
  BY <1>1, <1>6, GrantsChange DEF SetKey
<1> QED
  BY <1>2, <1>3, <1>4, <1>5, <1>6

\* The owner of the token.
LEMMA UserChanges ==
  ASSUME IInv, NEW u \in Owners, u.csv = user.csv, Users(u)
  PROVE  IInv'
<1>1. Rows'
  BY BeginsCounts DEF Users, IInv, Rows, Packs, Builds
<1> QED
  BY <1>1, Others DEF Users, IInv, Working

LEMMA UsersKeep ==
  ASSUME IInv,
         \/ SetFull \/ CreateToken \/ RevokeToken \/ Migrate
         \/ \E p \in PackIds : Assign(p) \/ Unassign(p)
  PROVE  IInv'
<1>1. user \in Owners
  BY DEF IInv, Rows
<1>2. CASE SetFull
  <2>1. PICK u \in {[user EXCEPT !.full = ~@]} : u = [user EXCEPT !.full = ~@]
    OBVIOUS
  <2>2. u \in Owners /\ u.csv = user.csv
    BY <1>1, <2>1 DEF Owners
  <2> QED
    BY <1>2, <2>1, <2>2, UserChanges DEF SetFull
<1>3. CASE CreateToken
  <2>1. PICK u \in {[user EXCEPT !.token = TRUE]} : u = [user EXCEPT !.token = TRUE]
    OBVIOUS
  <2>2. u \in Owners /\ u.csv = user.csv
    BY <1>1, <2>1 DEF Owners
  <2> QED
    BY <1>3, <2>1, <2>2, UserChanges DEF CreateToken
<1>4. CASE RevokeToken
  <2>1. PICK u \in {[user EXCEPT !.token = FALSE, !.revoked = TRUE]} :
          u = [user EXCEPT !.token = FALSE, !.revoked = TRUE]
    OBVIOUS
  <2>2. u \in Owners /\ u.csv = user.csv
    BY <1>1, <2>1 DEF Owners
  <2> QED
    BY <1>4, <2>1, <2>2, UserChanges DEF RevokeToken
<1>5. CASE Migrate
  <2>1. PICK u \in {[user EXCEPT !.assigned = @ \cup (user.csv \cap Packs)]} :
          u = [user EXCEPT !.assigned = @ \cup (user.csv \cap Packs)]
    OBVIOUS
  <2>2. Packs \subseteq PackIds
    BY DEF Packs
  <2>3. u \in Owners /\ u.csv = user.csv
    BY <1>1, <2>1, <2>2 DEF Owners
  <2> QED
    BY <1>5, <2>1, <2>3, UserChanges DEF Migrate
<1>6. ASSUME NEW p \in PackIds, Assign(p) PROVE IInv'
  <2>1. PICK u \in {[user EXCEPT !.assigned = @ \cup {p}]} : u = [user EXCEPT !.assigned = @ \cup {p}]
    OBVIOUS
  <2>2. u \in Owners /\ u.csv = user.csv
    BY <1>1, <2>1 DEF Owners
  <2> QED
    BY <1>6, <2>1, <2>2, UserChanges DEF Assign
<1>7. ASSUME NEW p \in PackIds, Unassign(p) PROVE IInv'
  <2>1. PICK u \in {[user EXCEPT !.assigned = @ \ {p}]} : u = [user EXCEPT !.assigned = @ \ {p}]
    OBVIOUS
  <2>2. u \in Owners /\ u.csv = user.csv
    BY <1>1, <2>1 DEF Owners
  <2> QED
    BY <1>7, <2>1, <2>2, UserChanges DEF Unassign
<1> QED
  BY <1>2, <1>3, <1>4, <1>5, <1>6, <1>7

-----------------------------------------------------------------------------
(* The specification                                                       *)

LEMMA HowMany ==
  ASSUME NEW m \in Nat, NEW S \in SUBSET (1..m)
  PROVE  Cardinality(S) \in 0..m
<1>1. IsFiniteSet(1..m) /\ Cardinality(1..m) = m
  BY FS_Interval
<1>2. Cardinality(S) \in Nat /\ Cardinality(S) <= m
  BY <1>1, FS_Subset, FS_CardinalityType
<1> QED
  BY <1>2

LEMMA Initial == Init => IInv
<1> SUFFICES ASSUME Init PROVE IInv
  OBVIOUS
<1>1. PICK s \in Starts :
        /\ packs = s.packs /\ builds = s.builds /\ grants = s.grants /\ user = s.user
        /\ lastPack = Cardinality({p \in PackIds : s.packs[p] # None})
        /\ lastBuild = Cardinality({b \in BuildIds : s.builds[b] # None})
  BY DEF Init
<1>2. lastPack \in 0..MaxPack /\ lastBuild \in 0..MaxBuild /\ begun \in 0..MaxBegun
  <2>1. lastPack \in 0..MaxPack
    BY <1>1, HowMany, Bounds DEF PackIds
  <2>2. lastBuild \in 0..MaxBuild
    BY <1>1, HowMany, Bounds DEF BuildIds
  <2> QED
    BY <2>1, <2>2, Bounds DEF Init
<1>3. /\ packs \in [PackIds -> PackRows \cup {None}]
      /\ builds \in [BuildIds -> BuildRows \cup {None}]
      /\ grants \subseteq Clients \X PackIds
      /\ user \in Owners /\ user.csv \subseteq Packs
      /\ \A p, q \in Packs : packs[p].slug = packs[q].slug => p = q
      /\ \A b \in BuildIds : builds[b] # None => builds[b].pack \in Packs
  BY <1>1, LibrariesAssumption DEF Packs
<1>4. Rows
  BY <1>2, <1>3 DEF Init, Rows, Builds
<1>5. Working
  BY IdleIsJob DEF Init, Working
<1>6. Watched
  BY ReadingIsActive DEF Init, Watched, AnswersWereRight
<1> QED
  BY <1>4, <1>5, <1>6 DEF IInv

LEMMA ReadKeeps ==
  ASSUME IInv, Read
  PROVE  IInv'
  BY BeginReadKeeps, AuthenticateKeeps, FindPackKeeps, FindPacksKeeps, ListBuildsKeeps,
     ReadModKeeps, LookUpKeeps DEF Read

LEMMA EditKeeps ==
  ASSUME IInv, Edit
  PROVE  IInv'
  BY CreatePackKeeps, UpdatePackKeeps, DeletePackKeeps, UpdateBuildKeeps,
     DeleteBuildKeeps DEF Edit

LEMMA AdministerKeeps ==
  ASSUME IInv, Administer
  PROVE  IInv'
  BY ClientsKeep, UsersKeep DEF Administer

LEMMA ManageKeeps ==
  ASSUME IInv, NEW w \in Workers, Manage(w)
  PROVE  IInv'
  BY BeginChannelKeeps, BeginBuildKeeps, BeginCloneKeeps, ChooseChannelKeeps,
     ClonePackKeeps, CreateBuildKeeps DEF Manage

LEMMA StutterKeeps ==
  ASSUME IInv, UNCHANGED vars
  PROVE  IInv'
<1>1. Rows' /\ Working'
  BY RowsStay DEF IInv, Working, vars
<1>2. Now' = Now
  BY DEF vars, store, Now, Packs, Builds, Readable, Associated, BySlug, Meanings,
     KeyOpens, TokenOpens
<1>3. InHand(read, was) => InHand(read, was)'
  BY DEF vars, InHand
<1>4. AnswersWereRight => AnswersWereRight'
  BY DEF vars, AnswersWereRight
<1> QED
  BY <1>1, <1>2, <1>3, <1>4 DEF IInv, Watched, vars

LEMMA NextKeeps == IInv /\ [Next]_vars => IInv'
  BY ReadKeeps, EditKeeps, AdministerKeeps, ManageKeeps, StutterKeeps DEF Next

\* The invariant that is inductive: types, and what a read has in hand.
THEOREM Inductive == Spec => []IInv
  BY Initial, NextKeeps, PTL DEF Spec

\* Every modpack has its own slug, every build a modpack except the builds
\* inserted for one that was deleted meanwhile, and an owner's CSV names modpacks
\* that exist, whatever requests overlap.
THEOREM TypeCorrect == Spec => []TypeOK
  BY Types, Inductive, PTL

\* Whatever changes between the queries of a read, every build it answers with
\* was published and open to the caller, its modpack had the slug, its version
\* was what the name stood for, and no build of the name itself was to be had if
\* it is another one, at some moment of the read.
THEOREM AnswersRight == Spec => []AnswersWereRight
<1>1. IInv => AnswersWereRight
  BY DEF IInv, Watched
<1> QED
  BY <1>1, Inductive, PTL

-----------------------------------------------------------------------------
(* The listings and the manifests                                          *)

\* The first hit of a look-up.
LEMMA FirstHit ==
  ASSUME NEW p, NEW cid, NEW mine, NEW name, NEW tries, tries = Candidates(packs[p], name),
         NEW i \in DOMAIN tries, DOMAIN tries \subseteq 1..4,
         1..i \subseteq DOMAIN tries,
         OfVersion(p, cid, p \in mine, tries[i]) # {}
  PROVE  Served(p, cid, mine, name) # {}
<1> DEFINE found(k) == OfVersion(p, cid, p \in mine, tries[k])
<1>1. \E k \in DOMAIN tries : found(k) # {} /\ \A j \in 1..k - 1 : found(j) = {}
  <2> HIDE DEF found
  <2>1. found(i) # {}
    BY DEF found
  <2>2. i \in {1, 2, 3, 4}
    OBVIOUS
  <2>3. CASE found(1) # {} /\ 1 \in DOMAIN tries
    BY <2>3
  <2>4. CASE found(1) = {} /\ found(2) # {} /\ 2 \in DOMAIN tries
    BY <2>4
  <2>5. CASE found(1) = {} /\ found(2) = {} /\ found(3) # {} /\ 3 \in DOMAIN tries
    BY <2>5
  <2>6. CASE found(1) = {} /\ found(2) = {} /\ found(3) = {} /\ found(4) # {} /\ 4 \in DOMAIN tries
    BY <2>6
  <2> QED
    BY <2>1, <2>2, <2>3, <2>4, <2>5, <2>6
<1> QED
  BY <1>1 DEF Served

LEMMA TriesAre ==
  ASSUME NEW row, NEW n, NEW found, found = Tries(row, n)
  PROVE  \/ found = <<n>>
         \/ n \in Channels /\ found = <<n, row.channel[n]>>
  BY DEF Tries

LEMMA Placed ==
  ASSUME NEW S, NEW s \in Seq(S), NEW t \in Seq(S), s # <<>>, t # <<>>
  PROVE  /\ Len(s \o t) = Len(s) + Len(t) /\ DOMAIN (s \o t) = 1..Len(s \o t)
         /\ (s \o t)[1] = s[1] /\ (s \o t)[Len(s) + 1] = t[1]
<1>1. /\ s \o t \in Seq(S) /\ Len(s \o t) = Len(s) + Len(t)
      /\ Len(s) \in Nat /\ Len(s) > 0 /\ Len(t) \in Nat /\ Len(t) > 0
  OBVIOUS
<1>2. \A i \in 1..Len(s) + Len(t) :
        (s \o t)[i] = IF i <= Len(s) THEN s[i] ELSE t[i - Len(s)]
  OBVIOUS
<1>3. (s \o t)[1] = s[1]
  BY <1>1, <1>2
<1>4. (s \o t)[Len(s) + 1] = t[1]
  BY <1>1, <1>2
<1> QED
  BY <1>1, <1>3, <1>4

\* Where the real name is, and the name without its variant.
LEMMA CandidatesAre ==
  ASSUME NEW row, NEW name, NEW tries, tries = Candidates(row, name)
  PROVE  /\ DOMAIN tries \subseteq 1..4 /\ tries[1] = name /\ 1 \in DOMAIN tries
         /\ Len(name) > 1 /\ Last(name) \in row.variants =>
              \E i \in DOMAIN tries : tries[i] = Front(name) /\ 1..i \subseteq DOMAIN tries
<1>1. PICK s \in {Tries(row, name)} : s = Tries(row, name)
  OBVIOUS
<1>2. PICK t \in {Tries(row, Front(name))} : t = Tries(row, Front(name))
  OBVIOUS
<1>3. PICK v \in {row.channel[name]}, f \in {Front(name)}, fv \in {row.channel[Front(name)]} :
        /\ s = <<name>> \/ s = <<name, v>>
        /\ t = <<f>> \/ t = <<f, fv>>
        /\ f = Front(name)
  BY <1>1, <1>2, TriesAre
<1>4. CASE Len(name) > 1 /\ Last(name) \in row.variants
  <2>1. tries = s \o t
    BY <1>1, <1>2, <1>4 DEF Candidates
  <2> DEFINE X == {name, v, f, fv}
  <2>2. s \in Seq(X) /\ t \in Seq(X)
    <3>1. name \in X /\ v \in X /\ f \in X /\ fv \in X
      OBVIOUS
    <3> HIDE DEF X
    <3>2. <<name>> \in Seq(X) /\ <<name, v>> \in Seq(X) /\ <<f>> \in Seq(X) /\ <<f, fv>> \in Seq(X)
      BY <3>1
    <3> QED
      BY <1>3, <3>2
  <2> HIDE DEF X
  <2>3. Len(s) \in 1..2 /\ Len(t) \in 1..2 /\ s[1] = name /\ t[1] = f
    BY <1>3
  <2>4. /\ Len(tries) = Len(s) + Len(t) /\ DOMAIN tries = 1..Len(tries)
        /\ tries[1] = name /\ tries[Len(s) + 1] = f
    <3>1. s # <<>> /\ t # <<>>
      BY <1>3
    <3>2. /\ Len(s \o t) = Len(s) + Len(t) /\ DOMAIN (s \o t) = 1..Len(s \o t)
          /\ (s \o t)[1] = s[1] /\ (s \o t)[Len(s) + 1] = t[1]
      BY <2>2, <3>1, Placed
    <3> QED
      BY <2>1, <2>3, <3>2
  <2>5. /\ DOMAIN tries \subseteq 1..4 /\ 1 \in DOMAIN tries
        /\ Len(s) + 1 \in DOMAIN tries /\ 1..Len(s) + 1 \subseteq DOMAIN tries
    <3>1. PICK n \in 1..2, m \in 1..2 : n = Len(s) /\ m = Len(t)
      BY <2>3
    <3>2. DOMAIN tries = 1..n + m
      BY <2>4, <3>1
    <3>3. /\ 1..n + m \subseteq 1..4 /\ 1 \in 1..n + m /\ n + 1 \in 1..n + m
          /\ 1..n + 1 \subseteq 1..n + m
      OBVIOUS
    <3> QED
      BY <3>1, <3>2, <3>3
  <2> QED
    BY <1>3, <2>4, <2>5
<1>5. CASE ~(Len(name) > 1 /\ Last(name) \in row.variants)
  <2>1. tries = s
    BY <1>1, <1>5 DEF Candidates
  <2> QED
    BY <1>3, <1>5, <2>1
<1> QED
  BY <1>4, <1>5

LEMMA Extended ==
  ASSUME NEW S, NEW v \in Seq(S), v # <<>>, NEW s
  PROVE  Len(Append(v, s)) > 1 /\ Last(Append(v, s)) = s /\ Front(Append(v, s)) = v
<1>1. v \in Seq(S \cup {s}) /\ Len(v) \in Nat \ {0}
  OBVIOUS
<1>2. Append(v, s) \in Seq(S \cup {s}) /\ Len(Append(v, s)) = Len(v) + 1
      /\ Append(v, s)[Len(v) + 1] = s
      /\ \A i \in 1..Len(v) : Append(v, s)[i] = v[i]
  BY <1>1
<1>3. SubSeq(Append(v, s), 1, Len(v)) = v
  BY <1>1, <1>2
<1> QED
  BY <1>1, <1>2, <1>3 DEF Last, Front

LEMMA RowsAgree ==
  ASSUME Rows
  PROVE  ListedIsServed
<1> SUFFICES ASSUME NEW cid \in clients \cup {None}, NEW mine \in SUBSET Packs
             PROVE  LET readable == {p \in Packs : p \in Accessible(packs[p].slug, cid, mine)}
                    IN  /\ ListedPacks(cid, mine) \subseteq readable
                        /\ \A p \in readable : \A b \in OfPack(p, cid, p \in mine) :
                             /\ \A n \in Advertised(p, b) : Served(p, cid, mine, n) # {}
                             /\ b \in OfVersion(p, cid, p \in mine, builds[b].ver)
                             /\ \A a \in Served(p, cid, mine, builds[b].ver) :
                                  builds[a].ver = builds[b].ver
                        /\ \A b \in OfMod(cid, mine) :
                             LET p == builds[b].pack
                             IN  p \in readable /\ b \in OfPack(p, cid, p \in mine)
  BY DEF ListedIsServed
<1> DEFINE readable == {p \in Packs : p \in Accessible(packs[p].slug, cid, mine)}
<1>1. \A p \in Packs : p \in readable <=>
                         ~packs[p].private \/ Associated(cid, p) \/ p \in mine
  BY DEF Accessible, BySlug
<1>2. ListedPacks(cid, mine) \subseteq readable
  BY <1>1 DEF ListedPacks
<1>3. ASSUME NEW b \in OfMod(cid, mine)
      PROVE  LET p == builds[b].pack
             IN  p \in readable /\ b \in OfPack(p, cid, p \in mine)
  BY <1>1 DEF OfMod, OfPack, Readable
<1>4. ASSUME NEW p \in readable, NEW b \in OfPack(p, cid, p \in mine)
      PROVE  /\ \A n \in Advertised(p, b) : Served(p, cid, mine, n) # {}
             /\ b \in OfVersion(p, cid, p \in mine, builds[b].ver)
             /\ \A a \in Served(p, cid, mine, builds[b].ver) : builds[a].ver = builds[b].ver
  <2>1. b \in Builds /\ builds[b] \in BuildRows
    BY DEF OfPack, Builds, Rows
  <2>2. PICK v \in Versions : v = builds[b].ver
    BY <2>1 DEF BuildRows
  <2>3. b \in OfVersion(p, cid, p \in mine, v)
    BY <2>2 DEF OfPack, OfVersion
  <2>4. v \in Seq(STRING) /\ v # <<>>
    BY ServingAssumption
  <2>5. PICK tries \in {Candidates(packs[p], v)} : tries = Candidates(packs[p], v)
    OBVIOUS
  <2>6. DOMAIN tries \subseteq 1..4 /\ tries[1] = v /\ 1 \in DOMAIN tries
    <3>1. PICK row \in {packs[p]} : row = packs[p]
      OBVIOUS
    <3> QED
      BY <2>5, <3>1, CandidatesAre
  <2>7. Served(p, cid, mine, v) # {}
    <3>1. OfVersion(p, cid, p \in mine, tries[1]) # {} /\ 1..1 \subseteq DOMAIN tries
      BY <2>3, <2>6
    <3> QED
      BY <2>5, <2>6, <3>1, FirstHit
  <2>8. ASSUME NEW s \in packs[p].variants
        PROVE  Served(p, cid, mine, Append(v, s)) # {}
    <3>1. PICK n \in {Append(v, s)} : n = Append(v, s)
      OBVIOUS
    <3>2. Len(n) > 1 /\ Last(n) = s /\ Front(n) = v
      BY <2>4, <3>1, Extended
    <3>3. PICK row \in {packs[p]} : row = packs[p]
      OBVIOUS
    <3>4. PICK its \in {Candidates(packs[p], n)} : its = Candidates(packs[p], n)
      OBVIOUS
    <3>5. /\ DOMAIN its \subseteq 1..4
          /\ \E i \in DOMAIN its : its[i] = v /\ 1..i \subseteq DOMAIN its
      BY <3>2, <3>3, <3>4, CandidatesAre
    <3>6. Served(p, cid, mine, n) # {}
      BY <2>3, <3>4, <3>5, FirstHit
    <3> QED
      BY <3>1, <3>6
  <2>9. ASSUME NEW a \in Served(p, cid, mine, v)
        PROVE  builds[a].ver = v
    <3>1. PICK i \in DOMAIN tries :
            /\ a \in OfVersion(p, cid, p \in mine, tries[i])
            /\ \A j \in 1..i - 1 : OfVersion(p, cid, p \in mine, tries[j]) = {}
      BY <2>5 DEF Served
    <3>2. i = 1
      BY <2>3, <2>6, <3>1
    <3> QED
      BY <2>6, <3>1, <3>2 DEF OfVersion
  <2> QED
    BY <2>2, <2>3, <2>7, <2>8, <2>9 DEF Advertised
<1> QED
  BY <1>2, <1>3, <1>4

\* For every caller, a listed modpack is readable by its slug, every name it
\* advertises has a manifest, a build's own version leads to a build of that
\* version, and a build named for a mod version can be fetched: the six queries
\* of modpacks and builds agree, with any versions, variants and channels.
THEOREM ListingsServed == Spec => []ListedIsServed
<1>1. IInv => ListedIsServed
  BY RowsAgree DEF IInv
<1> QED
  BY <1>1, Inductive, PTL

-----------------------------------------------------------------------------
(***************************************************************************)
(* A read that asks for the revision after a change was announced is not   *)
(* answered with a response from before it, for any number of processes,   *)
(* threads and changes.                                                    *)
(*                                                                         *)
(* The invariant that is inductive says of an entry, or a response that is *)
(* about to be stored, under the current revision that it shows every      *)
(* announced change; and of any under the revision of a request's key that *)
(* it shows what that request must not miss.                               *)
(***************************************************************************)

Active(d) == readers[d].pc \in {"keyed", "computed"}
Computed(d) == readers[d].pc = "computed"

\* No change is announced before it is committed.
Announced ==
  /\ announced <= content
  /\ \A w \in Writers : writers[w].made <= content

\* The entries of the current revision show every announced change.
EntriesFresh ==
  \A e \in cache :
    /\ e.rev <= revision
    /\ e.rev = revision => e.seen >= announced

\* So do the responses about to be stored under it, and no request waits for
\* a change that is not announced.
ReadersFresh ==
  \A d \in Readers :
    /\ readers[d].floor <= announced
    /\ Active(d) => readers[d].rev <= revision
    /\ Computed(d) /\ readers[d].rev = revision => readers[d].seen >= announced

\* Whatever has, or is going to have, the key of a request shows what that
\* request must not miss.
KeysFresh ==
  /\ \A d \in Readers, e \in cache :
       Active(d) /\ e.rev = readers[d].rev => e.seen >= readers[d].floor
  /\ \A c, d \in Readers :
       Computed(c) /\ Active(d) /\ readers[c].rev = readers[d].rev =>
         readers[c].seen >= readers[d].floor

CacheInv ==
  CacheTypeOK /\ Announced /\ EntriesFresh /\ ReadersFresh /\ KeysFresh
    /\ FreshAfterBump

LEMMA CacheInitial == CacheInit => CacheInv
  BY DEF CacheInit, CacheInv, CacheTypeOK, Announced, EntriesFresh, ReadersFresh, KeysFresh,
         FreshAfterBump, Active, Computed

\* A request that gets its key finds nothing under it that it must not find.
LEMMA AskKeeps ==
  ASSUME CacheInv, NEW d \in Readers, AskRevision(d) \/ AskFails(d)
  PROVE  CacheInv'
<1>1. PICK rev \in Nat, floor \in Nat :
        /\ readers' = [readers EXCEPT ![d] =
             [pc |-> "keyed", rev |-> rev, seen |-> 0, floor |-> floor]]
        /\ rev <= revision /\ floor <= announced
        /\ floor = 0 \/ (rev = revision /\ floor = announced)
  BY DEF AskRevision, AskFails, CacheInv, CacheTypeOK
<1>2. UNCHANGED <<content, revision, cache, writers, announced>>
  BY DEF AskRevision, AskFails
<1>3. CacheTypeOK'
  BY <1>1, <1>2 DEF CacheInv, CacheTypeOK
<1>4. Announced' /\ EntriesFresh'
  BY <1>2 DEF CacheInv, Announced, EntriesFresh
<1>5. ReadersFresh' /\ FreshAfterBump'
  BY <1>1, <1>2 DEF CacheInv, CacheTypeOK, ReadersFresh, FreshAfterBump, Active, Computed
<1>6. \A c \in Readers, e \in cache' :
        Active(c)' /\ e.rev = readers'[c].rev => e.seen >= readers'[c].floor
  BY <1>1, <1>2 DEF CacheInv, CacheTypeOK, EntriesFresh, KeysFresh, Active
<1>7. \A b, c \in Readers :
        Computed(b)' /\ Active(c)' /\ readers'[b].rev = readers'[c].rev =>
          readers'[b].seen >= readers'[c].floor
  BY <1>1, <1>2 DEF CacheInv, CacheTypeOK, ReadersFresh, KeysFresh, Active, Computed
<1>8. QED
  BY <1>3, <1>4, <1>5, <1>6, <1>7 DEF CacheInv, KeysFresh

\* What is computed now shows every committed change.
LEMMA ComputeKeeps ==
  ASSUME CacheInv, NEW d \in Readers, Compute(d)
  PROVE  CacheInv'
<1>1. /\ readers' = [readers EXCEPT ![d] =
           [pc |-> "computed", rev |-> readers[d].rev, seen |-> content,
            floor |-> readers[d].floor]]
      /\ Active(d)
      /\ UNCHANGED <<content, revision, cache, writers, announced>>
  BY DEF Compute, Active
<1>2. CacheTypeOK'
  BY <1>1 DEF CacheInv, CacheTypeOK
<1>3. Announced' /\ EntriesFresh'
  BY <1>1 DEF CacheInv, Announced, EntriesFresh
<1>4. ReadersFresh' /\ FreshAfterBump'
  BY <1>1 DEF CacheInv, CacheTypeOK, Announced, ReadersFresh, FreshAfterBump, Active,
              Computed
<1>5. KeysFresh'
  BY <1>1 DEF CacheInv, CacheTypeOK, Announced, ReadersFresh, KeysFresh, Active, Computed
<1>6. QED
  BY <1>2, <1>3, <1>4, <1>5 DEF CacheInv

\* A request is answered with what it computed or with what has its key.
LEMMA HitKeeps ==
  ASSUME CacheInv, NEW d \in Readers, Hit(d)
  PROVE  CacheInv'
<1>1. PICK e \in cache :
        /\ e.rev = readers[d].rev
        /\ Active(d)
        /\ readers' = [readers EXCEPT ![d] =
             [pc |-> "done", rev |-> 0, seen |-> e.seen,
              floor |-> readers[d].floor]]
  BY DEF Hit, Entries, Responds, Active
<1>2. UNCHANGED <<content, revision, cache, writers, announced>>
  BY DEF Hit
<1>3. CacheTypeOK'
  BY <1>1, <1>2 DEF CacheInv, CacheTypeOK
<1>4. Announced' /\ EntriesFresh'
  BY <1>2 DEF CacheInv, Announced, EntriesFresh
<1>5. ReadersFresh' /\ KeysFresh' /\ FreshAfterBump'
  BY <1>1, <1>2 DEF CacheInv, CacheTypeOK, ReadersFresh, KeysFresh, FreshAfterBump,
                    Active, Computed
<1>6. QED
  BY <1>3, <1>4, <1>5 DEF CacheInv

LEMMA StoreKeeps ==
  ASSUME CacheInv, NEW d \in Readers, Store(d)
  PROVE  CacheInv'
<1> DEFINE new == [proc |-> ProcOf[d], rev |-> readers[d].rev,
                   seen |-> readers[d].seen]
<1>1. new \in [proc : Procs, rev : Nat, seen : Nat]
  BY ApiCacheAssumption DEF CacheInv, CacheTypeOK
<1>2. Active(d) /\ Computed(d)
  BY DEF Store, Active, Computed
<1>3. PICK e \in cache \cup {new} :
        /\ e.rev = readers[d].rev
        /\ readers' = [readers EXCEPT ![d] =
             [pc |-> "done", rev |-> 0, seen |-> e.seen,
              floor |-> readers[d].floor]]
  BY DEF Store, Entries, Responds
<1>4. /\ cache \subseteq cache'
      /\ cache' \subseteq cache \cup {new}
      /\ UNCHANGED <<content, revision, writers, announced>>
  BY DEF Store
<1>5. e.seen >= readers[d].floor /\ e.seen \in Nat
  BY <1>1, <1>2, <1>3 DEF CacheInv, CacheTypeOK, KeysFresh
<1>6. /\ new.rev = readers[d].rev
      /\ new.seen = readers[d].seen
  OBVIOUS
<1> HIDE DEF new
<1>7. CacheTypeOK'
  BY <1>1, <1>3, <1>4, <1>5 DEF CacheInv, CacheTypeOK
<1>8. Announced'
  BY <1>4 DEF CacheInv, Announced
<1>9. EntriesFresh'
  BY <1>2, <1>4, <1>6 DEF CacheInv, EntriesFresh, ReadersFresh
<1>10. ReadersFresh' /\ FreshAfterBump'
  BY <1>3, <1>4, <1>5 DEF CacheInv, CacheTypeOK, ReadersFresh, FreshAfterBump, Active,
                          Computed
<1>11. KeysFresh'
  BY <1>2, <1>3, <1>4, <1>6 DEF CacheInv, CacheTypeOK, KeysFresh, Active, Computed
<1>12. QED
  BY <1>7, <1>8, <1>9, <1>10, <1>11 DEF CacheInv

\* Fewer entries are no less fresh.
LEMMA FewerEntries ==
  ASSUME CacheInv, cache' \subseteq cache,
         UNCHANGED <<content, revision, readers, announced>>,
         \A w \in Writers : writers'[w].made = writers[w].made,
         CacheTypeOK'
  PROVE  CacheInv'
  BY DEF CacheInv, CacheTypeOK, Announced, EntriesFresh, ReadersFresh, KeysFresh,
         FreshAfterBump, Active, Computed

LEMMA WriterKeeps ==
  ASSUME CacheInv, NEW w \in Writers, Clear(w) \/ Fail(w)
  PROVE  CacheInv'
<1>1. /\ cache' \subseteq cache
      /\ UNCHANGED <<content, revision, readers, announced>>
      /\ \E pc \in {"cleared", "done"} : Writer(w, pc)
  BY DEF Clear, Fail
<1>2. PICK pc \in {"cleared", "done"} : Writer(w, pc)
  BY <1>1
<1>3. /\ writers' \in
           [Writers -> [pc : {"new", "committed", "cleared", "bumped", "done"},
                        made : Nat]]
      /\ \A x \in Writers : writers'[x].made = writers[x].made
  BY <1>2 DEF Writer, CacheInv, CacheTypeOK
<1>4. CacheTypeOK'
  BY <1>1, <1>3 DEF CacheInv, CacheTypeOK
<1>5. QED
  BY <1>1, <1>3, <1>4, FewerEntries

LEMMA CommitKeeps ==
  ASSUME CacheInv, NEW w \in Writers, Commit(w)
  PROVE  CacheInv'
<1>1. CacheTypeOK' /\ Announced'
  BY DEF Commit, CacheInv, CacheTypeOK, Announced
<1>2. EntriesFresh' /\ ReadersFresh' /\ KeysFresh' /\ FreshAfterBump'
  BY DEF Commit, CacheInv, EntriesFresh, ReadersFresh, KeysFresh, FreshAfterBump,
         Active, Computed
<1>3. QED
  BY <1>1, <1>2 DEF CacheInv

\* After an increment no entry and no request has the current revision.
LEMMA BumpKeeps ==
  ASSUME CacheInv, NEW w \in Writers, Bump(w)
  PROVE  CacheInv'
<1>1. PICK pc \in {"bumped", "done"} : Writer(w, pc)
  BY DEF Bump
<1>2. /\ revision' = revision + 1
      /\ announced' \in Nat
      /\ announced <= announced' /\ announced' <= content
      /\ UNCHANGED <<content, cache, readers>>
  BY DEF Bump, CacheInv, CacheTypeOK, Announced
<1>3. CacheTypeOK' /\ Announced'
  BY <1>1, <1>2 DEF Writer, CacheInv, CacheTypeOK, Announced
<1>4. EntriesFresh'
  BY <1>2 DEF CacheInv, CacheTypeOK, EntriesFresh
<1>5. ReadersFresh'
  BY <1>2 DEF CacheInv, CacheTypeOK, ReadersFresh, Active, Computed
<1>6. KeysFresh' /\ FreshAfterBump'
  BY <1>2 DEF CacheInv, KeysFresh, FreshAfterBump, Active, Computed
<1>7. QED
  BY <1>3, <1>4, <1>5, <1>6 DEF CacheInv

\* Types and freshness hold in every behaviour of the caches and the writers.
THEOREM CacheInductive == CacheSpec => []CacheInv
<1>1. CacheInv /\ [CacheNext]_cacheVars => CacheInv'
  <2> SUFFICES ASSUME CacheInv, [CacheNext]_cacheVars PROVE CacheInv'
    OBVIOUS
  <2>1. ASSUME NEW d \in Readers, ReadRequest(d) PROVE CacheInv'
    BY <2>1, AskKeeps, HitKeeps, ComputeKeeps, StoreKeeps DEF ReadRequest
  <2>2. ASSUME NEW e \in cache, Evict(e) PROVE CacheInv'
    BY <2>2, FewerEntries DEF Evict, CacheInv, CacheTypeOK
  <2>3. ASSUME NEW w \in Writers, Write(w) PROVE CacheInv'
    BY <2>3, CommitKeeps, WriterKeeps, BumpKeeps DEF Write
  <2>4. CASE UNCHANGED cacheVars
    BY <2>4 DEF cacheVars, CacheInv, CacheTypeOK, Announced, EntriesFresh, ReadersFresh,
                KeysFresh, FreshAfterBump, Active, Computed
  <2>5. QED
    BY <2>1, <2>2, <2>3, <2>4 DEF CacheNext
<1>2. QED
  BY CacheInitial, <1>1, PTL DEF CacheSpec

\* The types of ApiCache, in every behaviour.
THEOREM CacheTypes == CacheSpec => []CacheTypeOK
<1>1. CacheInv => CacheTypeOK
  BY DEF CacheInv
<1>2. QED
  BY <1>1, CacheInductive, PTL

\* A change whose revision was incremented is seen by every later read, in
\* every process.
THEOREM ReadsAreFresh == CacheSpec => []FreshAfterBump
<1>1. CacheInv => FreshAfterBump
  BY DEF CacheInv
<1>2. QED
  BY <1>1, CacheInductive, PTL
=============================================================================
