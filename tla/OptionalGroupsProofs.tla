------------------------ MODULE OptionalGroupsProofs ------------------------
(***************************************************************************)
(* Proofs about OptionalGroups, for every number of modpacks, builds, mods *)
(* and groups.                                                             *)
(*                                                                         *)
(* Whatever requests run at the same time, the columns keep their values   *)
(* and no exact-one group has two defaults.  A snapshot may be stale about *)
(* items, but never about the type of a group that is still there (IInv).  *)
(*                                                                         *)
(* When requests run one after another (Serial), a transaction commits to  *)
(* the rows that it has read (Current).  Then items stay with their        *)
(* memberships and groups, a group with choices keeps a default, and what  *)
(* is excluded is in a group and, among the builds of one modpack          *)
(* (OnePack), can be chosen (SInv).                                        *)
(***************************************************************************)
EXTENDS OptionalGroups, FiniteSetTheorems, TLAPS

Listings == GroupIds \cup {Unlisted, Ungrouped}
GroupTypes == {"none", "SINGLE", "MULTIPLE", "deleted"}

\* At most one default in group g, with the columns lst and sel.
AtMostOne(lst, sel, g) ==
  \A m, n \in MemberIds :
    lst[m] = g /\ sel[m] = 1 /\ lst[n] = g /\ sel[n] = 1 => m = n

Columns ==
  /\ listing \in [MemberIds -> Listings]
  /\ selected \in [MemberIds -> {0, 1}]
  /\ groupHome \in [GroupIds -> Builds \cup {None}]
  /\ groupType \in [GroupIds -> GroupTypes]
  /\ lastMember \in Nat
  /\ lastGroup \in Nat

\* AUTO_INCREMENT: an id it has not reached is no group and in no item.
Fresh ==
  /\ \A g \in GroupIds : g > lastGroup => groupType[g] = "none"
  /\ \A g \in GroupIds : groupType[g] = "none" => groupHome[g] = None
  /\ \A m \in MemberIds :
       listing[m] \in GroupIds => groupType[listing[m]] # "none"

\* A group keeps its type until it is deleted, so a snapshot is right about
\* the type of any group that is still there.
GoodSnap(s) ==
  /\ s.listing \in [MemberIds -> Listings]
  /\ s.groupType \in [GroupIds -> GroupTypes]
  /\ \A g \in GroupIds :
       s.groupType[g] # "none" => groupType[g] \in {s.groupType[g], "deleted"}

Reading == {"delete_group", "save", "ungroup", "unlist", "remove"}

GoodTxn(t) ==
  /\ t.op \in Reading => GoodSnap(t.snap)
  /\ t.op \in {"delete_group", "save"} =>
       /\ t.group \in GroupIds
       /\ t.snap.groupType[t.group] \in {"SINGLE", "MULTIPLE"}
  /\ t.op \in {"save", "ungroup", "unlist"} => t.member \in MemberIds
  /\ t.op = "save" => t.default \in {0, 1}
  /\ t.op = "remove" => t.members \subseteq MemberIds

Txns ==
  /\ DOMAIN txns = Workers
  /\ \A w \in Workers : GoodTxn(txns[w])

IInv == Columns /\ Fresh /\ Txns /\ AtMostOneDefault

-----------------------------------------------------------------------------
\* What is listed in g and selected after was so before.
Shrinks(lst, sel, g) ==
  \A m \in MemberIds :
    lst[m] = g /\ sel[m] = 1 => listing[m] = g /\ selected[m] = 1

\* A change that only takes defaults away keeps a group at one.
LEMMA ShrinkingKeeps ==
  ASSUME NEW lst, NEW sel, NEW g \in GroupIds,
         Shrinks(lst, sel, g), AtMostOneDefault, groupType[g] = "SINGLE"
  PROVE  AtMostOne(lst, sel, g)
BY DEF Shrinks, AtMostOneDefault, AtMostOne

\* normalize_group leaves at most one default where there was at most one,
\* whatever its snapshot shows.
LEMMA NormalizedKeeps ==
  ASSUME NEW s, NEW own, NEW lst, NEW g, NEW h,
         NEW sel \in [MemberIds -> {0, 1}],
         NEW sel2 \in Normalized(s, own, lst, sel, g)
  PROVE  /\ sel2 \in [MemberIds -> {0, 1}]
         /\ AtMostOne(lst, sel, h) => AtMostOne(lst, sel2, h)
<1>1. sel2 = sel
      \/ \E c : sel2 = [m \in MemberIds |->
                  IF lst[m] # g THEN sel[m] ELSE IF m = c THEN 1 ELSE 0]
  <2>1. CASE g \notin GroupIds \/ s.groupType[g] # "SINGLE"
             \/ {m \in MemberIds : SeenListing(s, own, lst)[m] = g} = {}
    BY <2>1 DEF Normalized
  <2>2. CASE ~(g \notin GroupIds \/ s.groupType[g] # "SINGLE"
               \/ {m \in MemberIds : SeenListing(s, own, lst)[m] = g} = {})
    BY <2>2 DEF Normalized
  <2>3. QED
    BY <2>1, <2>2
<1>2. CASE sel2 = sel
  BY <1>2
<1>3. ASSUME NEW c,
             sel2 = [m \in MemberIds |->
               IF lst[m] # g THEN sel[m] ELSE IF m = c THEN 1 ELSE 0]
      PROVE  /\ sel2 \in [MemberIds -> {0, 1}]
             /\ AtMostOne(lst, sel, h) => AtMostOne(lst, sel2, h)
  <2>1. sel2 \in [MemberIds -> {0, 1}]
    BY <1>3
  <2>2. CASE h = g
    BY <1>3, <2>2 DEF AtMostOne
  <2>3. CASE h # g
    BY <1>3, <2>3 DEF AtMostOne
  <2>4. QED
    BY <2>1, <2>2, <2>3
<1>4. QED
  BY <1>1, <1>2, <1>3

\* A step that leaves the types of groups alone, or deletes or creates groups,
\* keeps every snapshot right.
LEMMA SnapshotsStay ==
  ASSUME Txns, NEW w \in Workers, NEW t,
         groupType \in [GroupIds -> GroupTypes],
         groupType' \in [GroupIds -> GroupTypes],
         \A g \in GroupIds :
           groupType[g] # "none" => groupType'[g] \in {groupType[g], "deleted"},
         txns' = txns \/ (txns' = [txns EXCEPT ![w] = t] /\ GoodTxn(t)')
  PROVE  Txns'
<1>1. ASSUME NEW s, GoodSnap(s)
      PROVE  GoodSnap(s)'
  BY <1>1 DEF GoodSnap, GroupTypes
<1>2. ASSUME NEW v \in Workers
      PROVE  GoodTxn(txns[v])'
  <2>1. CASE txns'[v] = txns[v]
    <3>1. GoodTxn(txns[v])
      BY DEF Txns
    <3>2. QED
      BY <1>1, <2>1, <3>1 DEF GoodTxn
  <2>2. CASE txns' = [txns EXCEPT ![w] = t] /\ GoodTxn(t)' /\ v = w
    BY <2>2 DEF Txns, GoodTxn
  <2>3. QED
    BY <2>1, <2>2 DEF Txns
<1>3. QED
  BY <1>2 DEF Txns

\* What a step that commits has to show.
LEMMA CommitKeeps ==
  ASSUME IInv, NEW w \in Workers, UNCHANGED txns \/ Committed(w),
         lastMember' \in Nat, lastGroup' \in Nat, lastGroup' >= lastGroup,
         listing' \in [MemberIds -> Listings],
         selected' \in [MemberIds -> {0, 1}],
         groupHome' \in [GroupIds -> Builds \cup {None}],
         groupType' \in [GroupIds -> GroupTypes],
         \A g \in GroupIds :
           groupType[g] # "none" => groupType'[g] \in {groupType[g], "deleted"},
         \A g \in GroupIds :
           g > lastGroup' =>
             groupType'[g] = groupType[g] /\ groupHome'[g] = groupHome[g],
         \A g \in GroupIds : groupType'[g] = "none" => groupHome'[g] = None,
         \A m \in MemberIds :
           listing'[m] \in GroupIds => groupType'[listing'[m]] # "none",
         \A g \in GroupIds :
           groupType'[g] = "SINGLE" => AtMostOne(listing', selected', g)
  PROVE  IInv'
<1>1. Columns'
  BY DEF Columns
<1>2. Fresh'
  BY DEF IInv, Columns, Fresh, GroupIds
<1>3. Txns'
  <2>1. GoodTxn(Idle)'
    BY DEF GoodTxn, Idle, Reading
  <2>2. groupType \in [GroupIds -> GroupTypes]
    BY DEF IInv, Columns
  <2>3. txns' = txns \/ txns' = [txns EXCEPT ![w] = Idle]
    BY DEF Committed
  <2>4. QED
    BY <2>1, <2>2, <2>3, SnapshotsStay DEF IInv
<1>4. AtMostOneDefault'
  BY DEF AtMostOneDefault, AtMostOne
<1>5. QED
  BY <1>1, <1>2, <1>3, <1>4 DEF IInv

\* What a step that writes items only has to show.
LEMMA ItemStep ==
  ASSUME IInv, NEW w \in Workers,
         UNCHANGED <<lastMember, groups>>, UNCHANGED txns \/ Committed(w),
         listing' \in [MemberIds -> Listings],
         selected' \in [MemberIds -> {0, 1}],
         \A m \in MemberIds :
           listing'[m] \in GroupIds => groupType[listing'[m]] # "none",
         \A g \in GroupIds :
           groupType[g] = "SINGLE" => AtMostOne(listing', selected', g)
  PROVE  IInv'
BY CommitKeeps DEF IInv, Columns, Fresh, groups

\* Opening a transaction only remembers what it read.
LEMMA OpenStepKeeps ==
  ASSUME IInv, NEW w \in Workers, OpenStep(w)
  PROVE  IInv'
<1>1. GoodSnap(Snapshot)
  BY DEF GoodSnap, Snapshot, IInv, Columns
<1>2. PICK t : Begin(w, t) /\ GoodTxn(t)
  <2>1. ASSUME NEW p \in Packs, OpenBasic(w, p)
        PROVE  \E t : Begin(w, t) /\ GoodTxn(t)
    BY <2>1 DEF OpenBasic, GoodTxn, Reading
  <2>2. ASSUME NEW g \in GroupIds, OpenDeleteGroup(w, g)
        PROVE  \E t : Begin(w, t) /\ GoodTxn(t)
    <3>1. Snapshot.groupType[g] \in {"SINGLE", "MULTIPLE"}
      BY <2>2 DEF OpenDeleteGroup, Live, Snapshot
    <3>2. QED
      BY <2>2, <3>1, <1>1 DEF OpenDeleteGroup, GoodTxn, Reading
  <2>3. ASSUME NEW m \in MemberIds, NEW g \in GroupIds, NEW o \in States,
               NEW d \in 0 .. 1, OpenSave(w, m, g, o, d)
        PROVE  \E t : Begin(w, t) /\ GoodTxn(t)
    <3>1. Snapshot.groupType[g] \in {"SINGLE", "MULTIPLE"} /\ d \in {0, 1}
      BY <2>3 DEF OpenSave, Live, Snapshot
    <3> DEFINE t == [op |-> "save", member |-> m, group |-> g,
                     optional |-> o, default |-> d, snap |-> Snapshot]
    <3>2. Begin(w, t)
      BY <2>3 DEF OpenSave
    <3>3. GoodTxn(t)
      BY <1>1, <3>1 DEF GoodTxn, Reading
    <3>4. QED
      BY <3>2, <3>3
  <2>4. ASSUME NEW m \in MemberIds, NEW o \in States, OpenUngroup(w, m, o)
        PROVE  \E t : Begin(w, t) /\ GoodTxn(t)
    BY <2>4, <1>1 DEF OpenUngroup, GoodTxn, Reading
  <2>5. ASSUME NEW m \in MemberIds, OpenUnlist(w, m)
        PROVE  \E t : Begin(w, t) /\ GoodTxn(t)
    BY <2>5, <1>1 DEF OpenUnlist, GoodTxn, Reading
  <2>6. ASSUME NEW M \in SUBSET MemberIds, NEW x, OpenRemove(w, M, x)
        PROVE  \E t : Begin(w, t) /\ GoodTxn(t)
    BY <2>6, <1>1 DEF OpenRemove, GoodTxn, Reading
  <2>7. QED
    BY <2>1, <2>2, <2>3, <2>4, <2>5, <2>6 DEF OpenStep
<1>3. UNCHANGED <<lastMember, listing, selected, lastGroup, groupHome,
                  groupType>>
  BY <1>2 DEF Begin, members, items, groups
<1>4. Columns' /\ Fresh' /\ AtMostOneDefault'
  BY <1>3 DEF IInv, Columns, Fresh, AtMostOneDefault
<1>5. GoodTxn(t)'
  BY <1>2, <1>3 DEF GoodTxn, GoodSnap
<1>6. Txns'
  <2>1. txns' = [txns EXCEPT ![w] = t]
    BY <1>2 DEF Begin
  <2>2. QED
    BY <1>3, <1>5, <2>1, SnapshotsStay DEF IInv, Columns
<1>7. QED
  BY <1>4, <1>6 DEF IInv

\* The default of a group that a step creates or leaves alone.
LEMMA UntouchedItems ==
  ASSUME IInv, UNCHANGED items, NEW g \in GroupIds,
         groupType[g] \in {"none", "SINGLE"}
  PROVE  AtMostOne(listing', selected', g)
BY DEF IInv, Fresh, items, AtMostOne, AtMostOneDefault

LEMMA CreateGroupKeeps ==
  ASSUME IInv, NEW w \in Workers, NEW b \in Builds, NEW type \in Types,
         CreateGroup(w, b, type)
  PROVE  IInv'
<1>1. PICK g \in GroupIds :
        /\ g = lastGroup + 1
        /\ lastGroup' = g
        /\ groupHome' = [groupHome EXCEPT ![g] = b]
        /\ groupType' = [groupType EXCEPT ![g] = type]
        /\ UNCHANGED <<members, items, txns>>
  BY DEF CreateGroup
<1>2. type \in {"SINGLE", "MULTIPLE"}
  BY OptionalGroupsAssumption
<1>3. groupType[g] = "none" /\ g > lastGroup
  BY <1>1 DEF IInv, Fresh, Columns
<1>4. groupHome' \in [GroupIds -> Builds \cup {None}]
      /\ groupType' \in [GroupIds -> GroupTypes]
  BY <1>1, <1>2 DEF IInv, Columns, GroupTypes
<1>5. lastMember' \in Nat /\ lastGroup' \in Nat /\ lastGroup' >= lastGroup
  BY <1>1 DEF IInv, Columns, members, GroupIds
<1>6. \A h \in GroupIds :
        groupType[h] # "none" => groupType'[h] \in {groupType[h], "deleted"}
  BY <1>1, <1>3 DEF IInv, Columns
<1>7. \A h \in GroupIds :
        h > lastGroup' =>
          groupType'[h] = groupType[h] /\ groupHome'[h] = groupHome[h]
  BY <1>1 DEF IInv, Columns, GroupIds
<1>8. /\ listing' \in [MemberIds -> Listings]
      /\ selected' \in [MemberIds -> {0, 1}]
      /\ \A h \in GroupIds : groupType'[h] = "none" => groupHome'[h] = None
  BY <1>1, <1>2 DEF IInv, Columns, Fresh, items
<1>9. \A m \in MemberIds :
        listing'[m] \in GroupIds => groupType'[listing'[m]] # "none"
  BY <1>1, <1>6 DEF IInv, Columns, Fresh, items
<1>10. ASSUME NEW h \in GroupIds, groupType'[h] = "SINGLE"
       PROVE  AtMostOne(listing', selected', h)
  <2>1. groupType[h] \in {"none", "SINGLE"}
    BY <1>1, <1>3, <1>10 DEF IInv, Columns
  <2>2. QED
    BY <1>1, <2>1, UntouchedItems
<1>11. QED
  BY <1>1, <1>4, <1>5, <1>6, <1>7, <1>8, <1>9, <1>10, CommitKeeps

\* Deleting a build or a group marks groups deleted and unlists or ungroups
\* their items.
LEMMA DeleteBuildKeeps ==
  ASSUME IInv, NEW w \in Workers, NEW b \in Builds, DeleteBuild(w, b)
  PROVE  IInv'
<1>1. groupHome' \in [GroupIds -> Builds \cup {None}]
      /\ groupType' \in [GroupIds -> GroupTypes]
  BY DEF DeleteBuild, IInv, Columns, GroupTypes
<1>2. listing' \in [MemberIds -> Listings]
      /\ selected' \in [MemberIds -> {0, 1}]
  BY DEF DeleteBuild, IInv, Columns, Listings
<1>3. UNCHANGED <<lastMember, lastGroup, txns>>
  BY DEF DeleteBuild
<1>4. \A g \in GroupIds : groupType'[g] \in {groupType[g], "deleted"}
  BY DEF DeleteBuild
<1>5. \A g \in GroupIds :
        /\ g > lastGroup =>
             groupType'[g] = groupType[g] /\ groupHome'[g] = groupHome[g]
        /\ groupType'[g] = "none" => groupHome'[g] = None
  BY OptionalGroupsAssumption DEF DeleteBuild, IInv, Fresh
<1>6. \A m \in MemberIds : listing'[m] \in {listing[m], Unlisted}
                           /\ selected'[m] \in {selected[m], 0}
  BY DEF DeleteBuild
<1>7. \A m \in MemberIds :
        listing'[m] \in GroupIds => groupType'[listing'[m]] # "none"
  BY <1>4, <1>6 DEF IInv, Fresh, GroupIds, Unlisted
<1>8. ASSUME NEW g \in GroupIds, groupType'[g] = "SINGLE"
      PROVE  AtMostOne(listing', selected', g)
  <2>1. groupType[g] = "SINGLE"
    BY <1>4, <1>8
  <2>2. Shrinks(listing', selected', g)
    BY <1>6 DEF Shrinks, GroupIds, Unlisted
  <2>3. QED
    BY <2>1, <2>2, ShrinkingKeeps DEF IInv
<1>9. QED
  BY <1>1, <1>2, <1>3, <1>4, <1>5, <1>7, <1>8, CommitKeeps DEF IInv, Columns

LEMMA DeleteGroupKeeps ==
  ASSUME IInv, NEW w \in Workers, CommitDeleteGroup(w)
  PROVE  IInv'
<1>1. PICK d \in GroupIds : d = txns[w].group
  BY DEF CommitDeleteGroup, IInv, Txns, GoodTxn
<1>2. UNCHANGED <<lastMember, lastGroup>> /\ Committed(w)
  BY DEF CommitDeleteGroup
<1>3. CASE groupType[d] = "deleted"
  BY <1>1, <1>2, <1>3, CommitKeeps
     DEF CommitDeleteGroup, items, IInv, Columns, Fresh, AtMostOneDefault,
         AtMostOne
<1>4. CASE groupType[d] # "deleted" /\ groupType[d] # "none"
  <2>1. /\ listing' = [m \in MemberIds |->
             IF listing[m] = d THEN Ungrouped ELSE listing[m]]
        /\ selected' = [m \in MemberIds |->
             IF listing[m] = d THEN 0 ELSE selected[m]]
        /\ groupHome' = [groupHome EXCEPT ![d] = None]
        /\ groupType' = [groupType EXCEPT ![d] = "deleted"]
    BY <1>1, <1>4 DEF CommitDeleteGroup
  <2>2. groupHome' \in [GroupIds -> Builds \cup {None}]
        /\ groupType' \in [GroupIds -> GroupTypes]
    BY <2>1 DEF IInv, Columns, GroupTypes
  <2>3. listing' \in [MemberIds -> Listings]
        /\ selected' \in [MemberIds -> {0, 1}]
    BY <2>1 DEF IInv, Columns, Listings
  <2>4. \A g \in GroupIds : groupType'[g] \in {groupType[g], "deleted"}
    BY <2>1 DEF IInv, Columns
  <2>5. \A g \in GroupIds :
          /\ g > lastGroup =>
               groupType'[g] = groupType[g] /\ groupHome'[g] = groupHome[g]
          /\ groupType'[g] = "none" => groupHome'[g] = None
    BY <1>4, <2>1 DEF IInv, Columns, Fresh
  <2>6. \A m \in MemberIds :
          listing'[m] \in GroupIds => groupType'[listing'[m]] # "none"
    BY <2>1, <2>4 DEF IInv, Fresh, GroupIds, Ungrouped
  <2>7. ASSUME NEW g \in GroupIds, groupType'[g] = "SINGLE"
        PROVE  AtMostOne(listing', selected', g)
    <3>1. groupType[g] = "SINGLE"
      BY <2>4, <2>7
    <3>2. Shrinks(listing', selected', g)
      BY <2>1 DEF Shrinks, GroupIds, Ungrouped
    <3>3. QED
      BY <3>1, <3>2, ShrinkingKeeps DEF IInv
  <2>8. QED
    BY <1>2, <2>2, <2>3, <2>4, <2>5, <2>6, <2>7, CommitKeeps
       DEF IInv, Columns
<1>5. groupType[d] # "none"
  BY <1>1 DEF CommitDeleteGroup, IInv, Txns, GoodTxn, GoodSnap, Reading
<1>6. QED
  BY <1>3, <1>4, <1>5

\* Only a new default of a SINGLE group is set, and it clears the others.
LEMMA SaveKeeps ==
  ASSUME IInv, NEW w \in Workers, CommitSave(w)
  PROVE  IInv'
<1> DEFINE t == txns[w]
           clears == t.snap.groupType[t.group] = "SINGLE" /\ t.default = 1
           lst == [listing EXCEPT ![t.member] = t.group]
           sel == [n \in MemberIds |->
                     IF n = t.member THEN t.default
                     ELSE IF clears /\ listing[n] = t.group THEN 0
                     ELSE selected[n]]
<1>1. /\ t.member \in MemberIds
      /\ t.group \in GroupIds
      /\ t.default \in {0, 1}
      /\ t.snap.groupType[t.group] \in {"SINGLE", "MULTIPLE"}
      /\ groupType[t.group] \in {t.snap.groupType[t.group], "deleted"}
  BY DEF CommitSave, IInv, Txns, GoodTxn, GoodSnap, Reading
<1>2. lst \in [MemberIds -> Listings] /\ sel \in [MemberIds -> {0, 1}]
  BY <1>1 DEF IInv, Columns, Listings
<1>3. ASSUME NEW h \in GroupIds, groupType[h] = "SINGLE"
      PROVE  AtMostOne(lst, sel, h)
  <2>1. CASE h = t.group /\ t.default = 1
    BY <1>1, <1>3, <2>1 DEF AtMostOne, IInv, Columns
  <2>2. CASE h # t.group \/ t.default = 0
    <3>1. Shrinks(lst, sel, h)
      BY <1>1, <2>2 DEF Shrinks, IInv, Columns
    <3>2. QED
      BY <1>3, <3>1, ShrinkingKeeps DEF IInv
  <2>3. QED
    BY <1>1, <2>1, <2>2
<1>4. /\ listing' = lst
      /\ UNCHANGED <<lastMember, groups>> /\ Committed(w)
  BY DEF CommitSave
<1>5. \E own, own2, h : \E sel2 \in Normalized(t.snap, own, lst, sel, t.group) :
        selected' = sel2 \/ selected' \in Normalized(t.snap, own2, lst, sel2, h)
  BY DEF CommitSave
<1>6. PICK own, own2, prev :
        \E sel2 \in Normalized(t.snap, own, lst, sel, t.group) :
          \/ selected' = sel2
          \/ selected' \in Normalized(t.snap, own2, lst, sel2, prev)
  BY <1>5
<1>7. PICK sel2 \in Normalized(t.snap, own, lst, sel, t.group) :
        \/ selected' = sel2
        \/ selected' \in Normalized(t.snap, own2, lst, sel2, prev)
  BY <1>6
<1> HIDE DEF t, lst, sel
<1>8. /\ sel2 \in [MemberIds -> {0, 1}]
      /\ \A h : AtMostOne(lst, sel, h) => AtMostOne(lst, sel2, h)
  BY <1>2, NormalizedKeeps
<1>9. /\ selected' \in [MemberIds -> {0, 1}]
      /\ \A h : AtMostOne(lst, sel, h) => AtMostOne(lst, selected', h)
  BY <1>7, <1>8, NormalizedKeeps
<1>10. \A m \in MemberIds : lst[m] \in GroupIds => groupType[lst[m]] # "none"
  BY <1>1 DEF lst, IInv, Columns, Fresh
<1>11. QED
  BY <1>2, <1>3, <1>4, <1>9, <1>10, ItemStep

\* Taking the item of one membership out of its group, then normalizing.
LEMMA TakingOutKeeps ==
  ASSUME IInv, NEW w \in Workers, NEW M \in SUBSET MemberIds,
         NEW to \in {Unlisted, Ungrouped}, NEW s, NEW own, NEW prev,
         UNCHANGED <<lastMember, groups>>, Committed(w),
         listing' = [m \in MemberIds |-> IF m \in M THEN to ELSE listing[m]],
         \E sel :
           /\ sel = [m \in MemberIds |-> IF m \in M THEN 0 ELSE selected[m]]
           /\ selected' \in Normalized(s, own, listing', sel, prev)
  PROVE  IInv'
<1>1. PICK sel :
        /\ sel = [m \in MemberIds |-> IF m \in M THEN 0 ELSE selected[m]]
        /\ selected' \in Normalized(s, own, listing', sel, prev)
  OBVIOUS
<1>2. /\ listing' \in [MemberIds -> Listings]
      /\ sel \in [MemberIds -> {0, 1}]
  BY <1>1 DEF IInv, Columns, Listings
<1>3. ASSUME NEW h \in GroupIds, groupType[h] = "SINGLE"
      PROVE  AtMostOne(listing', sel, h)
  <2>1. Shrinks(listing', sel, h)
    BY <1>1 DEF Shrinks
  <2>2. QED
    BY <1>3, <2>1, ShrinkingKeeps DEF IInv
<1>4. /\ selected' \in [MemberIds -> {0, 1}]
      /\ \A h : AtMostOne(listing', sel, h) => AtMostOne(listing', selected', h)
  BY <1>1, <1>2, NormalizedKeeps
<1>5. \A m \in MemberIds :
        listing'[m] \in GroupIds => groupType[listing'[m]] # "none"
  BY DEF IInv, Columns, Fresh, GroupIds, Unlisted, Ungrouped
<1>6. QED
  BY <1>2, <1>3, <1>4, <1>5, ItemStep

LEMMA UngroupKeeps ==
  ASSUME IInv, NEW w \in Workers, CommitUngroup(w) \/ CommitUnlist(w)
  PROVE  IInv'
<1>1. PICK m \in MemberIds : m = txns[w].member
  BY DEF CommitUngroup, CommitUnlist, IInv, Txns, GoodTxn
<1>2. PICK to \in {Unlisted, Ungrouped} :
        \E own, prev :
          /\ UNCHANGED <<lastMember, groups>>
          /\ Committed(w)
          /\ listing' = [listing EXCEPT ![m] = to]
          /\ selected' \in Normalized(txns[w].snap, own, listing',
                                      [selected EXCEPT ![m] = 0], prev)
  <2>1. CASE CommitUngroup(w)
    <3> DEFINE own == Written([listing EXCEPT ![m] = Ungrouped],
                              [selected EXCEPT ![m] = 0])
    <3>1. /\ listing' = [listing EXCEPT ![m] = Ungrouped]
          /\ selected' \in Normalized(txns[w].snap, own, listing',
                                      [selected EXCEPT ![m] = 0],
                                      txns[w].snap.listing[m])
          /\ UNCHANGED <<lastMember, groups>> /\ Committed(w)
      BY <1>1, <2>1 DEF CommitUngroup
    <3> HIDE DEF own
    <3>2. QED
      BY <3>1
  <2>2. CASE CommitUnlist(w)
    <3> DEFINE own == Written([listing EXCEPT ![m] = Unlisted],
                              [selected EXCEPT ![m] = 0])
    <3>1. /\ listing' = [listing EXCEPT ![m] = Unlisted]
          /\ selected' \in Normalized(txns[w].snap, own, listing',
                                      [selected EXCEPT ![m] = 0],
                                      txns[w].snap.listing[m])
          /\ UNCHANGED <<lastMember, groups>> /\ Committed(w)
      BY <1>1, <2>2 DEF CommitUnlist
    <3> HIDE DEF own
    <3>2. QED
      BY <3>1
  <2>3. QED
    BY <2>1, <2>2
<1>3. /\ [listing EXCEPT ![m] = to] =
           [n \in MemberIds |-> IF n \in {m} THEN to ELSE listing[n]]
      /\ [selected EXCEPT ![m] = 0] =
           [n \in MemberIds |-> IF n \in {m} THEN 0 ELSE selected[n]]
  BY DEF IInv, Columns
<1>4. QED
  <2> DEFINE M == {m}
  <2>1. /\ M \in SUBSET MemberIds
        /\ listing' = [n \in MemberIds |-> IF n \in M THEN to ELSE listing[n]]
    BY <1>2, <1>3
  <2>2. PICK own, prev :
          selected' \in Normalized(txns[w].snap, own, listing',
                                  [n \in MemberIds |->
                                     IF n \in M THEN 0 ELSE selected[n]], prev)
    BY <1>2, <1>3
  <2> HIDE DEF M
  <2>3. QED
    BY <1>2, <2>1, <2>2, TakingOutKeeps

\* Several groups are normalized when a mod goes from several builds.
LEMMA RemoveKeeps ==
  ASSUME IInv, NEW w \in Workers, CommitRemove(w)
  PROVE  IInv'
<1> DEFINE t == txns[w]
           gone == t.members \cup
                     {m \in MemberIds : Row(m) /\ t.mod # None /\ mod[m] = t.mod}
           lst == [m \in MemberIds |->
                     IF m \in gone THEN Unlisted ELSE listing[m]]
           sel == [m \in MemberIds |-> IF m \in gone THEN 0 ELSE selected[m]]
           own == Written(lst, sel)
           left == {t.snap.listing[m] : m \in t.members}
<1>1. PICK f : /\ \A g \in left : f[g] \in Normalized(t.snap, own, lst, sel, g)
               /\ selected' = [m \in MemberIds |->
                    IF lst[m] \in left THEN f[lst[m]][m] ELSE sel[m]]
  BY DEF CommitRemove
<1>2. listing' = lst /\ UNCHANGED <<lastMember, groups>> /\ Committed(w)
  BY DEF CommitRemove
<1>3. lst \in [MemberIds -> Listings] /\ sel \in [MemberIds -> {0, 1}]
  BY DEF IInv, Columns, Listings
<1>4. ASSUME NEW h \in GroupIds, groupType[h] = "SINGLE"
      PROVE  AtMostOne(lst, sel, h)
  <2>1. Shrinks(lst, sel, h)
    BY DEF Shrinks, GroupIds, Unlisted
  <2>2. QED
    BY <1>4, <2>1, ShrinkingKeeps DEF IInv
<1>5. \A m \in MemberIds : lst[m] \in GroupIds => groupType[lst[m]] # "none"
  BY DEF IInv, Columns, Fresh, GroupIds, Unlisted
<1> HIDE DEF lst, sel, own, left
<1>6. ASSUME NEW g \in left
      PROVE  /\ f[g] \in [MemberIds -> {0, 1}]
             /\ \A h : AtMostOne(lst, sel, h) => AtMostOne(lst, f[g], h)
  BY <1>1, <1>3, NormalizedKeeps
<1>7. selected' \in [MemberIds -> {0, 1}]
  BY <1>1, <1>3, <1>6
<1>8. ASSUME NEW h \in GroupIds, groupType[h] = "SINGLE"
      PROVE  AtMostOne(lst, selected', h)
  <2>1. CASE h \in left
    <3>1. AtMostOne(lst, f[h], h)
      BY <1>4, <1>6, <1>8, <2>1
    <3>2. QED
      BY <1>1, <2>1, <3>1 DEF AtMostOne
  <2>2. CASE h \notin left
    BY <1>1, <1>4, <1>8, <2>2 DEF AtMostOne
  <2>3. QED
    BY <2>1, <2>2
<1>9. QED
  BY <1>2, <1>3, <1>5, <1>7, <1>8, ItemStep

LEMMA CopiesAre ==
  ASSUME NEW last \in Nat, NEW max \in Nat, NEW S \in SUBSET Int,
         Cardinality(S) \in Nat, NEW f \in Copies(last, max, S)
  PROVE  /\ DOMAIN f \subseteq 1 .. max /\ last + Cardinality(S) <= max
         /\ \A i \in DOMAIN f :
              i > last /\ i <= last + Cardinality(S) /\ f[i] \in S
         /\ \A i, j \in DOMAIN f : f[i] = f[j] => i = j
         /\ \A x \in S : \E i \in DOMAIN f : f[i] = x
<1> DEFINE k == Cardinality(S)
<1> HIDE DEF k
<1>1. /\ k \in Nat /\ last + k <= max
      /\ f \in [last + 1 .. last + k -> S]
      /\ \A i, j \in DOMAIN f : i < j => f[i] < f[j]
      /\ \A x \in S : \E i \in DOMAIN f : f[i] = x
  BY DEF Copies, k
<1>2. ASSUME NEW i \in DOMAIN f, NEW j \in DOMAIN f, f[i] = f[j]
      PROVE  i = j
  <2>1. i \in Int /\ j \in Int /\ f[i] \in Int
    <3>1. DOMAIN f = last + 1 .. last + k /\ f[i] \in S
      BY <1>1
    <3>2. i \in last + 1 .. last + k /\ j \in last + 1 .. last + k
      BY <1>2, <3>1
    <3>3. f[i] \in Int
      BY <3>1
    <3>4. QED
      BY <1>1, <3>2, <3>3
  <2>2. ~(i < j) /\ ~(j < i)
    <3>1. ~(f[i] < f[j]) /\ ~(f[j] < f[i])
      BY <1>2, <2>1
    <3>2. QED
      BY <1>1, <3>1
  <2>3. QED
    BY <2>1, <2>2
<1>3. /\ DOMAIN f \subseteq 1 .. max
      /\ \A i \in DOMAIN f : i > last /\ i <= last + k /\ f[i] \in S
  BY <1>1
<1>4. QED
  BY <1>1, <1>2, <1>3 DEF k

RowsOf(b) == {m \in MemberIds : home[m] = b}
MenusOf(b) == {g \in GroupIds : groupHome[g] = b /\ groupType[g] # "deleted"}

\* What the rows of a clone are: new ones, each the copy of one of the source.
ClonedMembers(source, b, f) ==
  /\ \A m \in DOMAIN f : /\ m \in MemberIds /\ m > lastMember /\ m <= lastMember'
                         /\ f[m] \in RowsOf(source)
                         /\ home'[m] = b /\ mod'[m] = mod[f[m]]
                         /\ optional'[m] = optional[f[m]]
  /\ \A m, n \in DOMAIN f : f[m] = f[n] => m = n
  /\ \A n \in RowsOf(source) : \E m \in DOMAIN f : f[m] = n
  /\ \A m \in MemberIds \ DOMAIN f :
       /\ home'[m] = home[m] /\ mod'[m] = mod[m] /\ optional'[m] = optional[m]
       /\ listing'[m] = listing[m] /\ selected'[m] = selected[m]

ClonedGroups(source, b, h) ==
  /\ \A g \in DOMAIN h : /\ g \in GroupIds /\ g > lastGroup /\ g <= lastGroup'
                         /\ h[g] \in MenusOf(source)
                         /\ groupType[h[g]] \in {"SINGLE", "MULTIPLE"}
                         /\ groupType[g] = "none"
                         /\ groupHome'[g] = b /\ groupType'[g] = groupType[h[g]]
  /\ \A g, k \in DOMAIN h : h[g] = h[k] => g = k
  /\ \A g \in GroupIds \ DOMAIN h :
       groupHome'[g] = groupHome[g] /\ groupType'[g] = groupType[g]
  /\ \A m \in MemberIds : listing[m] \notin DOMAIN h

ClonedItems(source, f, h) ==
  \A m \in DOMAIN f :
    IF listing[f[m]] \in MenusOf(source)
      THEN /\ listing'[m] \in DOMAIN h /\ h[listing'[m]] = listing[f[m]]
           /\ selected'[m] = selected[f[m]]
      ELSE listing'[m] \in {Ungrouped, Unlisted} /\ selected'[m] = 0

LEMMA Cloned ==
  ASSUME IInv, NEW w \in Workers, NEW source \in Builds, NEW b \in Builds,
         CloneBuild(w, source, b)
  PROVE  /\ lastMember' \in Nat /\ lastMember <= lastMember' /\ lastMember' <= MaxMembers
         /\ lastGroup' \in Nat /\ lastGroup <= lastGroup' /\ lastGroup' <= MaxGroups
         /\ DOMAIN home' = MemberIds /\ DOMAIN mod' = MemberIds
         /\ DOMAIN optional' = MemberIds
         /\ home' = [m \in MemberIds |-> home'[m]] /\ mod' = [m \in MemberIds |-> mod'[m]]
         /\ optional' = [m \in MemberIds |-> optional'[m]]
         /\ listing' = [m \in MemberIds |-> listing'[m]]
         /\ selected' = [m \in MemberIds |-> selected'[m]]
         /\ groupHome' = [g \in GroupIds |-> groupHome'[g]]
         /\ groupType' = [g \in GroupIds |-> groupType'[g]]
         /\ \E f, h : /\ ClonedMembers(source, b, f) /\ ClonedGroups(source, b, h)
                      /\ ClonedItems(source, f, h)
<1> DEFINE rows == {m \in MemberIds : home[m] = source}
           menus == {g \in GroupIds :
                       groupHome[g] = source /\ groupType[g] # "deleted"}
<1>1. PICK f \in Copies(lastMember, MaxMembers, rows),
           h \in Copies(lastGroup, MaxGroups, menus) :
        /\ lastMember' = lastMember + Cardinality(rows)
        /\ home' = [m \in MemberIds |-> IF m \in DOMAIN f THEN b ELSE home[m]]
        /\ mod' = [m \in MemberIds |-> IF m \in DOMAIN f THEN mod[f[m]] ELSE mod[m]]
        /\ optional' = [m \in MemberIds |->
             IF m \in DOMAIN f THEN optional[f[m]] ELSE optional[m]]
        /\ listing' = [m \in MemberIds |->
             IF m \notin DOMAIN f THEN listing[m]
             ELSE IF listing[f[m]] \in menus
               THEN CHOOSE g \in DOMAIN h : h[g] = listing[f[m]]
             ELSE IF listing[f[m]] = Ungrouped THEN Ungrouped
             ELSE Unlisted]
        /\ selected' = [m \in MemberIds |->
             IF m \notin DOMAIN f THEN selected[m]
             ELSE IF listing[f[m]] \in menus THEN selected[f[m]]
             ELSE 0]
        /\ lastGroup' = lastGroup + Cardinality(menus)
        /\ groupHome' = [g \in GroupIds |->
             IF g \in DOMAIN h THEN b ELSE groupHome[g]]
        /\ groupType' = [g \in GroupIds |->
             IF g \in DOMAIN h THEN groupType[h[g]] ELSE groupType[g]]
  BY DEF CloneBuild
<1>2. /\ rows \in SUBSET MemberIds /\ menus \in SUBSET GroupIds
      /\ rows \in SUBSET Int /\ menus \in SUBSET Int
      /\ rows = RowsOf(source) /\ menus = MenusOf(source)
  BY DEF MemberIds, GroupIds, RowsOf, MenusOf
<1>3. Cardinality(rows) \in Nat /\ Cardinality(menus) \in Nat
  <2>1. MaxMembers \in Int /\ MaxGroups \in Int /\ 1 \in Int
    BY OptionalGroupsAssumption
  <2>2. IsFiniteSet(1 .. MaxMembers) /\ IsFiniteSet(1 .. MaxGroups)
    BY ONLY <2>1, FS_Interval
  <2>3. IsFiniteSet(MemberIds) /\ IsFiniteSet(GroupIds)
    BY ONLY <2>2 DEF MemberIds, GroupIds
  <2>4. QED
    BY ONLY <1>2, <2>3, FS_Subset, FS_CardinalityType
<1> HIDE DEF rows, menus
<1>4. /\ lastMember \in Nat /\ MaxMembers \in Nat
      /\ DOMAIN f \subseteq MemberIds /\ lastMember + Cardinality(rows) <= MaxMembers
      /\ \A m \in DOMAIN f : /\ m > lastMember /\ m <= lastMember + Cardinality(rows)
                             /\ f[m] \in rows
      /\ \A m, n \in DOMAIN f : f[m] = f[n] => m = n
      /\ \A n \in rows : \E m \in DOMAIN f : f[m] = n
  <2>1. lastMember \in Nat /\ MaxMembers \in Nat
    BY OptionalGroupsAssumption DEF IInv, Columns
  <2>2. QED
    BY <1>2, <1>3, <2>1, CopiesAre DEF MemberIds
<1>5. /\ lastGroup \in Nat /\ MaxGroups \in Nat
      /\ DOMAIN h \subseteq GroupIds /\ lastGroup + Cardinality(menus) <= MaxGroups
      /\ \A g \in DOMAIN h : /\ g > lastGroup /\ g <= lastGroup + Cardinality(menus)
                             /\ h[g] \in menus
      /\ \A g, k \in DOMAIN h : h[g] = h[k] => g = k
      /\ \A k \in menus : \E g \in DOMAIN h : h[g] = k
  <2>1. lastGroup \in Nat /\ MaxGroups \in Nat
    BY OptionalGroupsAssumption DEF IInv, Columns
  <2>2. QED
    BY <1>2, <1>3, <2>1, CopiesAre DEF GroupIds
<1>6. \A k \in menus : groupType[k] \in {"SINGLE", "MULTIPLE"}
  <2>1. \A g \in GroupIds : groupType[g] = "none" => groupHome[g] = None
    BY DEF IInv, Fresh
  <2>2. QED
    BY <2>1, OptionalGroupsAssumption DEF IInv, Columns, GroupTypes, menus
<1>7. /\ \A g \in DOMAIN h : groupType[g] = "none"
      /\ \A m \in MemberIds : listing[m] \notin DOMAIN h
  BY <1>5 DEF IInv, Fresh
<1>8. ClonedMembers(source, b, f)
  BY <1>1, <1>2, <1>4 DEF ClonedMembers
<1>9. ClonedGroups(source, b, h)
  BY <1>1, <1>2, <1>5, <1>6, <1>7 DEF ClonedGroups
<1>10. ClonedItems(source, f, h)
  <2>1. ASSUME NEW m \in DOMAIN f, listing[f[m]] \in menus
        PROVE  /\ listing'[m] \in DOMAIN h /\ h[listing'[m]] = listing[f[m]]
               /\ selected'[m] = selected[f[m]]
    <3>1. PICK k : k = CHOOSE g \in DOMAIN h : h[g] = listing[f[m]]
      OBVIOUS
    <3>2. k \in DOMAIN h /\ h[k] = listing[f[m]]
      BY <1>5, <2>1, <3>1
    <3>3. m \in MemberIds
      BY <1>4
    <3>4. listing'[m] = k /\ selected'[m] = selected[f[m]]
      BY <1>1, <2>1, <3>1, <3>3
    <3>5. QED
      BY <3>2, <3>4
  <2>2. ASSUME NEW m \in DOMAIN f, listing[f[m]] \notin menus
        PROVE  listing'[m] \in {Ungrouped, Unlisted} /\ selected'[m] = 0
    BY <1>1, <1>4, <2>2
  <2>3. QED
    BY <1>2, <2>1, <2>2 DEF ClonedItems
<1>11. /\ lastMember' \in Nat /\ lastMember <= lastMember' /\ lastMember' <= MaxMembers
       /\ lastGroup' \in Nat /\ lastGroup <= lastGroup' /\ lastGroup' <= MaxGroups
  BY <1>1, <1>3, <1>4, <1>5
<1>12. /\ home' = [m \in MemberIds |-> home'[m]] /\ mod' = [m \in MemberIds |-> mod'[m]]
       /\ optional' = [m \in MemberIds |-> optional'[m]]
       /\ listing' = [m \in MemberIds |-> listing'[m]]
       /\ selected' = [m \in MemberIds |-> selected'[m]]
       /\ groupHome' = [g \in GroupIds |-> groupHome'[g]]
       /\ groupType' = [g \in GroupIds |-> groupType'[g]]
       /\ DOMAIN home' = MemberIds /\ DOMAIN mod' = MemberIds
       /\ DOMAIN optional' = MemberIds
  BY <1>1
<1>13. QED
  BY <1>8, <1>9, <1>10, <1>11, <1>12

\* A clone copies each row once, into new rows, so the copy of a group has as
\* many defaults as the group.
LEMMA CloneKeeps ==
  ASSUME IInv, NEW w \in Workers, NEW source \in Builds, NEW b \in Builds,
         CloneBuild(w, source, b)
  PROVE  IInv'
<1>1. PICK f, h : /\ ClonedMembers(source, b, f) /\ ClonedGroups(source, b, h)
                  /\ ClonedItems(source, f, h)
  BY Cloned
<1>2. RowsOf(source) \subseteq MemberIds /\ MenusOf(source) \subseteq GroupIds
  BY DEF RowsOf, MenusOf
<1>3. groupHome' \in [GroupIds -> Builds \cup {None}] /\ groupType' \in [GroupIds -> GroupTypes]
  <2>1. \A g \in GroupIds : groupHome'[g] \in Builds \cup {None} /\ groupType'[g] \in GroupTypes
    BY <1>1, <1>2 DEF ClonedGroups, IInv, Columns, GroupTypes
  <2>2. QED
    BY <2>1, Cloned
<1>4. listing' \in [MemberIds -> Listings] /\ selected' \in [MemberIds -> {0, 1}]
  <2>1. ASSUME NEW m \in MemberIds PROVE listing'[m] \in Listings /\ selected'[m] \in {0, 1}
    <3>1. CASE m \notin DOMAIN f
      BY <1>1, <3>1 DEF ClonedMembers, IInv, Columns
    <3>2. CASE m \in DOMAIN f
      BY <1>1, <1>2, <3>2 DEF ClonedMembers, ClonedGroups, ClonedItems, IInv, Columns, Listings
    <3>3. QED
      BY <3>1, <3>2
  <2>2. QED
    BY <2>1, Cloned
<1>5. \A g \in GroupIds :
        groupType[g] # "none" => groupType'[g] \in {groupType[g], "deleted"}
  BY <1>1 DEF ClonedGroups
<1>6. \A g \in GroupIds :
        /\ g > lastGroup' =>
             groupType'[g] = groupType[g] /\ groupHome'[g] = groupHome[g]
        /\ groupType'[g] = "none" => groupHome'[g] = None
  <2>1. \A g \in GroupIds : g > lastGroup' => g \notin DOMAIN h
    BY <1>1, Cloned DEF ClonedGroups, GroupIds
  <2>2. QED
    BY <1>1, <2>1 DEF ClonedGroups, IInv, Fresh
<1>7. \A m \in MemberIds :
        listing'[m] \in GroupIds => groupType'[listing'[m]] # "none"
  <2>. SUFFICES ASSUME NEW m \in MemberIds, listing'[m] \in GroupIds
                PROVE  groupType'[listing'[m]] # "none"
    OBVIOUS
  <2>1. CASE m \notin DOMAIN f
    <3>1. listing'[m] = listing[m] /\ listing[m] \notin DOMAIN h
      BY <1>1, <2>1 DEF ClonedMembers, ClonedGroups
    <3>2. QED
      BY <1>1, <3>1 DEF ClonedGroups, IInv, Fresh
  <2>2. CASE m \in DOMAIN f
    <3>1. listing'[m] \in DOMAIN h
      BY <1>1, <2>2 DEF ClonedItems, GroupIds, Ungrouped, Unlisted
    <3>2. QED
      BY <1>1, <3>1 DEF ClonedGroups
  <2>3. QED
    BY <2>1, <2>2
<1>8. ASSUME NEW g \in GroupIds, groupType'[g] = "SINGLE"
      PROVE  AtMostOne(listing', selected', g)
  <2>1. CASE g \in DOMAIN h
    <3>1. groupType[h[g]] = "SINGLE" /\ h[g] \in GroupIds
      BY <1>1, <1>2, <1>8, <2>1 DEF ClonedGroups
    <3>2. ASSUME NEW m \in MemberIds, listing'[m] = g, selected'[m] = 1
          PROVE  /\ m \in DOMAIN f /\ f[m] \in MemberIds
                 /\ listing[f[m]] = h[g] /\ selected[f[m]] = 1
      <4>1. m \in DOMAIN f
        BY <1>1, <2>1, <3>2 DEF ClonedMembers, ClonedGroups
      <4>2. QED
        BY <1>1, <1>2, <3>2, <4>1 DEF ClonedMembers, ClonedItems
    <3>3. QED
      BY <1>1, <3>1, <3>2 DEF ClonedMembers, IInv, AtMostOneDefault, AtMostOne
  <2>2. CASE g \notin DOMAIN h
    <3>1. groupType[g] = "SINGLE"
      BY <1>1, <1>8, <2>2 DEF ClonedGroups
    <3>2. ASSUME NEW m \in MemberIds, listing'[m] = g, selected'[m] = 1
          PROVE  listing[m] = g /\ selected[m] = 1
      <4>1. m \notin DOMAIN f
        BY <1>1, <2>2, <3>2 DEF ClonedItems, GroupIds, Ungrouped, Unlisted
      <4>2. QED
        BY <1>1, <3>2, <4>1 DEF ClonedMembers
    <3>3. QED
      BY <3>1, <3>2, ShrinkingKeeps DEF Shrinks, IInv
  <2>3. QED
    BY <2>1, <2>2
<1>9. lastGroup' >= lastGroup
  BY Cloned DEF IInv, Columns
<1>10. UNCHANGED txns
  BY DEF CloneBuild
<1>11. QED
  BY <1>3, <1>4, <1>5, <1>6, <1>7, <1>8, <1>9, <1>10, Cloned, CommitKeeps

-----------------------------------------------------------------------------
LEMMA InitialState == Init => IInv
BY OptionalGroupsAssumption
   DEF Init, IInv, Columns, Fresh, Txns, GoodTxn, Reading, Idle, Listings,
       GroupTypes, AtMostOneDefault, GroupIds, Unlisted

LEMMA WriteStepKeeps ==
  ASSUME IInv, NEW w \in Workers, WriteStep(w)
  PROVE  IInv'
<1>1. CASE \/ \E b \in Builds, x \in Mods, o \in States : AddMember(w, b, x, o)
           \/ \E m \in MemberIds, o \in States : UpdateOptional(w, m, o)
           \/ \E p \in Packs : SetAdvanced(w, p)
  <2>1. UNCHANGED <<listing, selected, lastGroup, groupHome, groupType, txns>>
        /\ lastMember' \in Nat
    BY <1>1 DEF AddMember, UpdateOptional, SetAdvanced, members, items, groups,
                IInv, Columns
  <2>2. QED
    BY <2>1, CommitKeeps
       DEF IInv, Columns, Fresh, AtMostOneDefault, AtMostOne
<1>2. ASSUME NEW m \in MemberIds, List(w, m)
      PROVE  IInv'
  <2>1. /\ listing' = [listing EXCEPT ![m] = Ungrouped]
        /\ UNCHANGED <<members, selected, groups, txns>>
    BY <1>2 DEF List
  <2>2. listing' \in [MemberIds -> Listings]
        /\ \A n \in MemberIds :
             listing'[n] \in GroupIds => groupType[listing'[n]] # "none"
    BY <2>1 DEF IInv, Columns, Fresh, Listings, GroupIds, Ungrouped
  <2>3. \A g \in GroupIds : Shrinks(listing', selected', g)
    BY <2>1 DEF Shrinks, IInv, Columns, GroupIds, Ungrouped
  <2>4. selected' \in [MemberIds -> {0, 1}]
    BY <2>1 DEF IInv, Columns
  <2>5. \A g \in GroupIds :
          groupType[g] = "SINGLE" => AtMostOne(listing', selected', g)
    BY <2>3, ShrinkingKeeps DEF IInv
  <2>6. QED
    BY <2>1, <2>2, <2>4, <2>5, ItemStep DEF members
<1>3. QED
  BY <1>1, <1>2, CreateGroupKeeps, DeleteBuildKeeps, CloneKeeps DEF WriteStep

LEMMA CommitStepKeeps ==
  ASSUME IInv, NEW w \in Workers, CommitStep(w)
  PROVE  IInv'
<1>1. CASE CommitBasic(w) \/ RefuseUngroup(w)
  <2>1. UNCHANGED <<lastMember, items, groups>> /\ Committed(w)
    BY <1>1 DEF CommitBasic, RefuseUngroup, members
  <2>2. QED
    BY <2>1, ItemStep
       DEF items, IInv, Columns, Fresh, AtMostOneDefault, AtMostOne
<1>2. QED
  BY <1>1, DeleteGroupKeeps, SaveKeeps, UngroupKeeps, RemoveKeeps
     DEF CommitStep

LEMMA InductiveStep == IInv /\ [Next]_vars => IInv'
<1>1. IInv /\ Next => IInv'
  BY WriteStepKeeps, OpenStepKeeps, CommitStepKeeps DEF Next
<1>2. IInv /\ UNCHANGED vars => IInv'
  BY DEF vars, members, items, groups, IInv, Columns, Fresh, Txns, GoodTxn,
         GoodSnap, AtMostOneDefault
<1>3. QED
  BY <1>1, <1>2

\* The invariant is inductive.
THEOREM Inductive == Spec => []IInv
BY InitialState, InductiveStep, PTL DEF Spec

\* No SINGLE group ever has two defaults, however many requests edit the
\* build at the same time.
THEOREM OneDefaultAtMost == Spec => []AtMostOneDefault
<1>1. IInv => AtMostOneDefault
  BY DEF IInv
<1>2. QED
  BY <1>1, Inductive, PTL

-----------------------------------------------------------------------------
(* The columns, for any number of concurrent requests                      *)

\* The columns that IInv leaves out; a membership has an id that was given.
RowTypes ==
  /\ mode \in [Packs -> {"BASIC", "ADVANCED"}]
  /\ status \in [Builds -> {"absent", "live", "deleted"}]
  /\ lastMember <= MaxMembers /\ lastGroup <= MaxGroups
  /\ home \in [MemberIds -> Builds \cup {None}]
  /\ mod \in [MemberIds -> Mods \cup {None}]
  /\ optional \in [MemberIds -> {REQUIRED, OPTIONAL, EXCLUDED}]
  /\ \A m \in MemberIds : ~Row(m) => mod[m] = None /\ optional[m] = REQUIRED
  /\ \A m \in MemberIds : Row(m) => m <= lastMember

\* The state that a request asks for is one that users choose from.
Asked(t) == t.op \in {"save", "ungroup"} => t.optional \in States

TInv == IInv /\ RowTypes /\ \A w \in Workers : Asked(txns[w])

LEMMA InitTypes == Init => TInv
<1>. SUFFICES ASSUME Init PROVE TInv
  OBVIOUS
<1>1. RowTypes
  BY OptionalGroupsAssumption DEF Init, RowTypes, Row
<1>2. \A w \in Workers : Asked(txns[w])
  BY DEF Init, Asked, Idle
<1>3. QED
  BY <1>1, <1>2, InitialState DEF TInv

LEMMA AskedStays ==
  ASSUME TInv, NEW w \in Workers, OpenStep(w) \/ UNCHANGED txns \/ Committed(w)
  PROVE  \A v \in Workers : Asked(txns[v])'
<1>1. DOMAIN txns = Workers /\ \A v \in Workers : Asked(txns[v])
  BY DEF TInv, IInv, Txns
<1>2. CASE UNCHANGED txns \/ Committed(w)
  BY <1>1, <1>2 DEF Committed, Asked, Idle
<1>3. CASE OpenStep(w)
  <2>1. PICK t : Begin(w, t) /\ Asked(t)
    <3>1. ASSUME NEW m \in MemberIds, NEW g \in GroupIds, NEW o \in States,
                 NEW d \in 0 .. 1, OpenSave(w, m, g, o, d)
          PROVE  \E t : Begin(w, t) /\ Asked(t)
      BY <3>1 DEF OpenSave, Asked
    <3>2. ASSUME NEW m \in MemberIds, NEW o \in States, OpenUngroup(w, m, o)
          PROVE  \E t : Begin(w, t) /\ Asked(t)
      BY <3>2 DEF OpenUngroup, Asked
    <3>3. ASSUME NEW p \in Packs, OpenBasic(w, p)
          PROVE  \E t : Begin(w, t) /\ Asked(t)
      BY <3>3 DEF OpenBasic, Asked
    <3>4. ASSUME NEW g \in GroupIds, OpenDeleteGroup(w, g)
          PROVE  \E t : Begin(w, t) /\ Asked(t)
      BY <3>4 DEF OpenDeleteGroup, Asked
    <3>5. ASSUME NEW m \in MemberIds, OpenUnlist(w, m)
          PROVE  \E t : Begin(w, t) /\ Asked(t)
      BY <3>5 DEF OpenUnlist, Asked
    <3>6. ASSUME NEW M, NEW x, OpenRemove(w, M, x)
          PROVE  \E t : Begin(w, t) /\ Asked(t)
      BY <3>6 DEF OpenRemove, Asked
    <3>7. QED
      BY <1>3, <3>1, <3>2, <3>3, <3>4, <3>5, <3>6 DEF OpenStep
  <2>2. txns' = [txns EXCEPT ![w] = t]
    BY <2>1 DEF Begin
  <2>3. QED
    BY <1>1, <2>1, <2>2
<1>4. QED
  BY <1>2, <1>3

LEMMA CloneTypes ==
  ASSUME TInv, NEW w \in Workers, NEW source \in Builds, NEW b \in Builds,
         CloneBuild(w, source, b)
  PROVE  RowTypes'
<1>1. PICK f, h : /\ ClonedMembers(source, b, f) /\ ClonedGroups(source, b, h)
                  /\ ClonedItems(source, f, h)
  BY Cloned DEF TInv
<1>2. \A n \in RowsOf(source) : n \in MemberIds /\ home[n] = source
  BY DEF RowsOf
<1>3. ASSUME NEW m \in MemberIds
      PROVE  /\ home'[m] \in Builds \cup {None} /\ mod'[m] \in Mods \cup {None}
             /\ optional'[m] \in {REQUIRED, OPTIONAL, EXCLUDED}
             /\ home'[m] = None => mod'[m] = None /\ optional'[m] = REQUIRED
             /\ home'[m] # None => m <= lastMember'
  <2>1. CASE m \in DOMAIN f
    BY <1>1, <1>2, <2>1, OptionalGroupsAssumption DEF ClonedMembers, TInv, RowTypes
  <2>2. CASE m \notin DOMAIN f
    <3>1. home'[m] = home[m] /\ mod'[m] = mod[m] /\ optional'[m] = optional[m]
      BY <1>1, <2>2 DEF ClonedMembers
    <3>2. lastMember <= lastMember' /\ lastMember \in Nat /\ lastMember' \in Nat
      BY Cloned DEF TInv, IInv, Columns
    <3>3. QED
      BY <3>1, <3>2 DEF TInv, RowTypes, Row, MemberIds
  <2>3. QED
    BY <2>1, <2>2
<1>4. /\ home' \in [MemberIds -> Builds \cup {None}]
      /\ mod' \in [MemberIds -> Mods \cup {None}]
      /\ optional' \in [MemberIds -> {REQUIRED, OPTIONAL, EXCLUDED}]
      /\ lastMember' <= MaxMembers /\ lastGroup' <= MaxGroups
  BY <1>3, Cloned DEF TInv
<1>5. mode' = mode /\ status' = [status EXCEPT ![b] = "live"]
  BY DEF CloneBuild
<1>6. QED
  BY <1>3, <1>4, <1>5 DEF TInv, RowTypes, Row

LEMMA DropTypes ==
  ASSUME RowTypes, \E gone : DropRows(gone), mode' = mode,
         status' \in [Builds -> {"absent", "live", "deleted"}],
         lastMember' = lastMember, lastGroup' = lastGroup
  PROVE  RowTypes'
BY DEF DropRows, RowTypes, Row, REQUIRED

LEMMA WriteTypes ==
  ASSUME TInv, NEW w \in Workers, WriteStep(w)
  PROVE  RowTypes'
<1>. USE DEF REQUIRED, OPTIONAL, EXCLUDED
<1>0. RowTypes /\ lastMember \in Nat /\ lastGroup \in Nat /\ States \subseteq {0, 1, 2}
      /\ None \notin Builds /\ None \notin Mods /\ MaxMembers \in Nat /\ MaxGroups \in Nat
  BY OptionalGroupsAssumption DEF TInv, IInv, Columns
<1>1. ASSUME NEW b \in Builds, NEW x \in Mods, NEW o \in States, AddMember(w, b, x, o)
      PROVE  RowTypes'
  <2>1. PICK m \in MemberIds :
          /\ m = lastMember + 1 /\ lastMember' = m
          /\ home' = [home EXCEPT ![m] = b] /\ mod' = [mod EXCEPT ![m] = x]
          /\ optional' = [optional EXCEPT ![m] = o]
          /\ mode' = mode /\ status' = status /\ lastGroup' = lastGroup
    BY <1>1 DEF AddMember, groups
  <2>2. QED
    BY <1>0, <2>1 DEF RowTypes, Row, MemberIds
<1>2. ASSUME NEW m \in MemberIds, NEW o \in States, UpdateOptional(w, m, o)
      PROVE  RowTypes'
  BY <1>0, <1>2 DEF UpdateOptional, RowTypes, Row, groups
<1>3. ASSUME NEW p \in Packs, SetAdvanced(w, p)
      PROVE  RowTypes'
  BY <1>0, <1>3 DEF SetAdvanced, RowTypes, Row, groups, members
<1>4. ASSUME NEW b \in Builds, NEW type \in Types, CreateGroup(w, b, type)
      PROVE  RowTypes'
  <2>1. /\ lastGroup' \in GroupIds /\ mode' = [mode EXCEPT ![PackOf[b]] = "ADVANCED"]
        /\ status' = status /\ home' = home /\ mod' = mod /\ optional' = optional
        /\ lastMember' = lastMember
    BY <1>4 DEF CreateGroup, members
  <2>2. mode' \in [Packs -> {"BASIC", "ADVANCED"}]
    BY <1>0, <2>1 DEF RowTypes
  <2>3. lastGroup' <= MaxGroups
    BY <1>0, <2>1 DEF GroupIds
  <2>4. QED
    BY <1>0, <2>1, <2>2, <2>3 DEF RowTypes, Row
<1>5. ASSUME NEW b \in Builds, DeleteBuild(w, b)
      PROVE  RowTypes'
  <2>1. /\ mode' = mode /\ status' = [status EXCEPT ![b] = "deleted"]
        /\ lastMember' = lastMember /\ lastGroup' = lastGroup
        /\ \E gone : DropRows(gone)
    BY <1>5 DEF DeleteBuild
  <2>2. status' \in [Builds -> {"absent", "live", "deleted"}]
    BY <1>0, <2>1 DEF RowTypes
  <2>3. QED
    BY <1>0, <2>1, <2>2, DropTypes
<1>6. ASSUME NEW m \in MemberIds, List(w, m)
      PROVE  RowTypes'
  BY <1>0, <1>6 DEF List, RowTypes, Row, groups, members
<1>7. QED
  BY <1>1, <1>2, <1>3, <1>4, <1>5, <1>6, CloneTypes DEF WriteStep

LEMMA CommitTypes ==
  ASSUME TInv, NEW w \in Workers, CommitStep(w)
  PROVE  RowTypes'
<1>. USE DEF REQUIRED, OPTIONAL, EXCLUDED
<1>0. RowTypes /\ States \subseteq {0, 1, 2} /\ Asked(txns[w])
  BY OptionalGroupsAssumption DEF TInv
<1>1. CASE CommitBasic(w) \/ RefuseUngroup(w)
  BY <1>0, <1>1 DEF CommitBasic, RefuseUngroup, RowTypes, Row, groups, members
<1>2. CASE CommitDeleteGroup(w)
  <2>1. /\ mode' = mode /\ status' = status /\ lastMember' = lastMember
        /\ lastGroup' = lastGroup /\ home' = home /\ mod' = mod
        /\ \/ optional' = optional
           \/ optional' = [m \in MemberIds |->
                IF txns[w].snap.listing[m] = txns[w].group /\ optional[m] = EXCLUDED
                  THEN OPTIONAL ELSE optional[m]]
    BY <1>2 DEF CommitDeleteGroup
  <2>2. QED
    BY <1>0, <2>1 DEF RowTypes, Row
<1>3. CASE CommitSave(w)
  <2>1. PICK m \in MemberIds, o \in States :
          /\ mode' = mode /\ status' = status /\ lastMember' = lastMember
          /\ lastGroup' = lastGroup /\ home' = home /\ mod' = mod
          /\ optional' = [optional EXCEPT ![m] = IF home[m] = None THEN @ ELSE o]
    BY <1>0, <1>3 DEF CommitSave, groups, Asked, TInv, IInv, Txns, GoodTxn
  <2>2. QED
    BY <1>0, <2>1 DEF RowTypes, Row
<1>4. CASE CommitUngroup(w)
  <2>1. PICK m \in MemberIds, o \in States :
          /\ mode' = mode /\ status' = status /\ lastMember' = lastMember
          /\ lastGroup' = lastGroup /\ home' = home /\ mod' = mod
          /\ optional' = [optional EXCEPT ![m] = o] /\ home[m] # None
    BY <1>0, <1>4 DEF CommitUngroup, UngroupRefused, groups, Asked, TInv, IInv, Txns, GoodTxn
  <2>2. QED
    BY <1>0, <2>1 DEF RowTypes, Row
<1>5. CASE CommitUnlist(w)
  <2>1. PICK m \in MemberIds :
          /\ mode' = mode /\ status' = status /\ lastMember' = lastMember
          /\ lastGroup' = lastGroup /\ home' = home /\ mod' = mod
          /\ \/ optional' = [optional EXCEPT ![m] = REQUIRED]
             \/ optional' = [optional EXCEPT ![m] = @]
    BY <1>0, <1>5 DEF CommitUnlist, groups, TInv, IInv, Txns, GoodTxn
  <2>2. QED
    BY <1>0, <2>1 DEF RowTypes, Row
<1>6. CASE CommitRemove(w)
  <2>1. /\ mode' = mode /\ status' = status /\ lastMember' = lastMember
        /\ lastGroup' = lastGroup /\ \E gone : DropRows(gone)
    BY <1>6 DEF CommitRemove, groups
  <2>2. status' \in [Builds -> {"absent", "live", "deleted"}]
    BY <1>0, <2>1 DEF RowTypes
  <2>3. QED
    BY <1>0, <2>1, <2>2, DropTypes
<1>7. QED
  BY <1>1, <1>2, <1>3, <1>4, <1>5, <1>6 DEF CommitStep

LEMMA TypesInductive == TInv /\ [Next]_vars => TInv'
<1>. SUFFICES ASSUME TInv, [Next]_vars PROVE TInv'
  OBVIOUS
<1>1. IInv'
  BY InductiveStep DEF TInv
<1>2. CASE UNCHANGED vars
  BY <1>1, <1>2 DEF TInv, RowTypes, Row, Asked, vars, members, items, groups
<1>3. ASSUME NEW w \in Workers, WriteStep(w) PROVE TInv'
  <2>1. UNCHANGED txns
    BY <1>3 DEF WriteStep, AddMember, UpdateOptional, SetAdvanced, CreateGroup, DeleteBuild,
                CloneBuild, List
  <2>2. QED
    BY <1>1, <1>3, <2>1, WriteTypes, AskedStays DEF TInv
<1>4. ASSUME NEW w \in Workers, OpenStep(w) PROVE TInv'
  <2>1. UNCHANGED <<mode, status, members, groups>>
    BY <1>4 DEF OpenStep, OpenBasic, OpenDeleteGroup, OpenSave, OpenUngroup, OpenUnlist,
                OpenRemove, Begin
  <2>2. RowTypes'
    BY <2>1 DEF TInv, RowTypes, Row, members, groups
  <2>3. QED
    BY <1>1, <1>4, <2>2, AskedStays DEF TInv
<1>5. ASSUME NEW w \in Workers, CommitStep(w) PROVE TInv'
  <2>1. Committed(w)
    BY <1>5 DEF CommitStep, CommitBasic, CommitDeleteGroup, CommitSave, RefuseUngroup,
                CommitUngroup, CommitUnlist, CommitRemove
  <2>2. QED
    BY <1>1, <1>5, <2>1, CommitTypes, AskedStays DEF TInv
<1>6. QED
  BY <1>2, <1>3, <1>4, <1>5 DEF Next

\* The columns keep their values and a missing row holds nothing, whatever
\* commits to rows that another request has deleted meanwhile.
THEOREM TypeCorrect == Spec => []TypeOK
<1>1. TInv => TypeOK
  BY DEF TInv, RowTypes, TypeOK, IInv, Columns, Listings, GroupTypes
<1>2. QED
  BY <1>1, InitTypes, TypesInductive, PTL DEF Spec

-----------------------------------------------------------------------------
(* Requests that run one after another                                     *)

Serial == \A v, w \in Workers : v = w
OnePack == \A b, c \in Builds : PackOf[b] = PackOf[c]

HasDefault(lst, sel, g) ==
  \A m \in MemberIds : lst[m] = g => \E n \in MemberIds : lst[n] = g /\ sel[n] = 1

\* What the serial invariants say of one membership, and of one group.
MemberGood(m) ==
  /\ listing[m] # Unlisted => Row(m)
  /\ listing[m] \in GroupIds => /\ Live(listing[m])
                                /\ groupHome[listing[m]] = home[m]
  /\ Row(m) => status[home[m]] = "live"
  /\ Row(m) /\ optional[m] = EXCLUDED =>
       /\ listing[m] \in GroupIds
       /\ OnePack => mode[PackOf[home[m]]] = "ADVANCED"

GroupGood(g) ==
  /\ Live(g) => groupHome[g] \in Builds /\ status[groupHome[g]] = "live"
  /\ groupType[g] = "SINGLE" => HasDefault(listing, selected, g)

Good == (\A m \in MemberIds : MemberGood(m)) /\ (\A g \in GroupIds : GroupGood(g))

\* A transaction that nothing has run beside still sees what it has read.
Current(t) ==
  /\ t.op \in Reading => /\ t.snap.listing = listing /\ t.snap.selected = selected
                         /\ t.snap.groupType = groupType
  /\ t.op = "basic" =>
       \A m \in MemberIds : Row(m) /\ PackOf[home[m]] = t.pack => optional[m] # EXCLUDED
  /\ t.op = "save" =>
       /\ Row(t.member) /\ mode[PackOf[home[t.member]]] = "ADVANCED"
       /\ Live(t.group) /\ groupHome[t.group] = home[t.member]
  /\ t.op = "ungroup" => Row(t.member) /\ t.optional # EXCLUDED
  /\ t.op = "remove" =>
       \A m \in MemberIds : Row(m) /\ t.mod # None /\ mod[m] = t.mod => m \in t.members

SInv == TInv /\ Good /\ \A w \in Workers : Current(txns[w])

LEMMA GoodMeans ==
  ASSUME Good
  PROVE  ItemsBelong /\ SomeDefault /\ ExcludedInGroup /\ (OnePack => BasicHasNoExcluded)
BY DEF Good, MemberGood, GroupGood, HasDefault, ItemsBelong, SomeDefault, ExcludedInGroup,
       BasicHasNoExcluded

\* What the steps read of the columns.
LEMMA Typed ==
  ASSUME TInv
  PROVE  /\ None \notin Builds /\ None \notin Mods /\ PackOf \in [Builds -> Packs]
         /\ mode \in [Packs -> {"BASIC", "ADVANCED"}]
         /\ status \in [Builds -> {"absent", "live", "deleted"}]
         /\ home \in [MemberIds -> Builds \cup {None}]
         /\ mod \in [MemberIds -> Mods \cup {None}]
         /\ optional \in [MemberIds -> {REQUIRED, OPTIONAL, EXCLUDED}]
         /\ listing \in [MemberIds -> Listings] /\ selected \in [MemberIds -> {0, 1}]
         /\ groupHome \in [GroupIds -> Builds \cup {None}]
         /\ groupType \in [GroupIds -> GroupTypes]
         /\ lastMember \in Nat /\ lastGroup \in Nat
         /\ Unlisted \notin GroupIds /\ Ungrouped \notin GroupIds /\ Unlisted # Ungrouped
         /\ REQUIRED # EXCLUDED /\ OPTIONAL # EXCLUDED
BY OptionalGroupsAssumption
   DEF TInv, RowTypes, IInv, Columns, GroupIds, Unlisted, Ungrouped, REQUIRED, OPTIONAL, EXCLUDED

\* A transaction that sees the current rows leaves a default in the group that it
\* normalizes, and the defaults of the others.
LEMMA NormalizedHas ==
  ASSUME NEW s, s.listing = listing, s.selected = selected,
         NEW lst \in [MemberIds -> Listings], NEW sel \in [MemberIds -> {0, 1}],
         NEW own, Written(lst, sel) \subseteq own,
         NEW g, NEW sel2 \in Normalized(s, own, lst, sel, g), NEW h
  PROVE  /\ g \in GroupIds /\ s.groupType[g] = "SINGLE" => HasDefault(lst, sel2, g)
         /\ h # g /\ HasDefault(lst, sel, h) => HasDefault(lst, sel2, h)
<1>1. ASSUME NEW m \in MemberIds
      PROVE  SeenListing(s, own, lst)[m] = lst[m] /\ SeenSelected(s, own, sel)[m] = sel[m]
  BY DEF SeenListing, SeenSelected, Written
<1>2. CASE g \notin GroupIds \/ s.groupType[g] # "SINGLE"
           \/ {m \in MemberIds : SeenListing(s, own, lst)[m] = g} = {}
  <2>1. sel2 = sel
    BY <1>2 DEF Normalized
  <2>2. g \in GroupIds /\ s.groupType[g] = "SINGLE" => HasDefault(lst, sel2, g)
    BY <1>1, <1>2 DEF HasDefault
  <2>3. QED
    BY <2>1, <2>2
<1>3. CASE ~(g \notin GroupIds \/ s.groupType[g] # "SINGLE"
             \/ {m \in MemberIds : SeenListing(s, own, lst)[m] = g} = {})
  <2>1. PICK c \in MemberIds :
          /\ SeenListing(s, own, lst)[c] = g
          /\ sel2 = [m \in MemberIds |->
               IF lst[m] # g THEN sel[m] ELSE IF m = c THEN 1 ELSE 0]
    BY <1>3 DEF Normalized
  <2>2. HasDefault(lst, sel2, g)
    BY <1>1, <2>1 DEF HasDefault
  <2>3. h # g /\ HasDefault(lst, sel, h) => HasDefault(lst, sel2, h)
    BY <2>1 DEF HasDefault
  <2>4. QED
    BY <2>2, <2>3
<1>4. QED
  BY <1>2, <1>3

LEMMA AddMemberGood ==
  ASSUME TInv, Good, NEW w \in Workers, NEW b \in Builds, NEW x \in Mods, NEW o \in States,
         AddMember(w, b, x, o)
  PROVE  Good'
<1>1. PICK m \in MemberIds :
        /\ m = lastMember + 1 /\ home' = [home EXCEPT ![m] = b]
        /\ optional' = [optional EXCEPT ![m] = o] /\ o # EXCLUDED /\ status[b] = "live"
  BY DEF AddMember
<1>2. /\ mode' = mode /\ status' = status /\ listing' = listing /\ selected' = selected
      /\ groupHome' = groupHome /\ groupType' = groupType
  BY DEF AddMember, items, groups
<1>3. ~Row(m)
  BY <1>1, Typed DEF TInv, RowTypes
<1>4. ASSUME NEW n \in MemberIds PROVE MemberGood(n)'
  <2>1. MemberGood(n)
    BY DEF Good
  <2>2. CASE n = m
    BY <1>1, <1>2, <1>3, <2>1, <2>2, Typed DEF MemberGood, Row, Live
  <2>3. CASE n # m
    BY <1>1, <1>2, <2>1, <2>3, Typed DEF MemberGood, Row, Live
  <2>4. QED
    BY <2>2, <2>3
<1>5. ASSUME NEW g \in GroupIds PROVE GroupGood(g)'
  BY <1>2 DEF Good, GroupGood, Live, HasDefault
<1>6. QED
  BY <1>4, <1>5 DEF Good

\* Steps that leave the items and the groups alone, and exclude nothing.
LEMMA NothingExcluded ==
  ASSUME TInv, Good, UNCHANGED <<status, home, items, groups>>,
         \A m \in MemberIds : optional'[m] = EXCLUDED => optional[m] = EXCLUDED,
         \A m \in MemberIds : Row(m) /\ optional[m] = EXCLUDED
           => mode'[PackOf[home[m]]] = "ADVANCED" \/ mode' = mode
  PROVE  Good'
<1>1. /\ status' = status /\ home' = home /\ listing' = listing /\ selected' = selected
      /\ groupHome' = groupHome /\ groupType' = groupType
  BY DEF items, groups
<1>2. ASSUME NEW m \in MemberIds PROVE MemberGood(m)'
  <2>1. MemberGood(m)
    BY DEF Good
  <2>2. QED
    BY <1>1, <2>1 DEF MemberGood, Row, Live
<1>3. ASSUME NEW g \in GroupIds PROVE GroupGood(g)'
  BY <1>1 DEF Good, GroupGood, Live, HasDefault
<1>4. QED
  BY <1>2, <1>3 DEF Good

LEMMA CreateGroupGood ==
  ASSUME TInv, Good, NEW w \in Workers, NEW b \in Builds, NEW type \in Types,
         CreateGroup(w, b, type)
  PROVE  Good'
<1>1. PICK g \in GroupIds :
        /\ g = lastGroup + 1 /\ status[b] = "live"
        /\ mode' = [mode EXCEPT ![PackOf[b]] = "ADVANCED"]
        /\ groupHome' = [groupHome EXCEPT ![g] = b]
        /\ groupType' = [groupType EXCEPT ![g] = type]
  BY DEF CreateGroup
<1>2. /\ status' = status /\ home' = home /\ optional' = optional
      /\ listing' = listing /\ selected' = selected
  BY DEF CreateGroup, items, members
<1>3. groupType[g] = "none" /\ \A m \in MemberIds : listing[m] # g
  BY <1>1, Typed DEF TInv, IInv, Fresh
<1>4. ASSUME NEW m \in MemberIds PROVE MemberGood(m)'
  <2>1. MemberGood(m)
    BY DEF Good
  <2>2. \A q \in Packs : mode[q] = "ADVANCED" => mode'[q] = "ADVANCED"
    BY <1>1, Typed
  <2>3. Row(m) => PackOf[home[m]] \in Packs
    BY Typed DEF Row
  <2>4. listing[m] \in GroupIds => /\ groupHome'[listing[m]] = groupHome[listing[m]]
                                   /\ groupType'[listing[m]] = groupType[listing[m]]
    BY <1>1, <1>3, Typed
  <2>5. QED
    BY <1>2, <2>1, <2>2, <2>3, <2>4 DEF MemberGood, Row, Live
<1>5. ASSUME NEW h \in GroupIds PROVE GroupGood(h)'
  <2>1. CASE h = g
    BY <1>1, <1>2, <1>3, <2>1, Typed DEF GroupGood, Live, HasDefault
  <2>2. CASE h # g
    <3>1. GroupGood(h)
      BY DEF Good
    <3>2. groupHome'[h] = groupHome[h] /\ groupType'[h] = groupType[h]
      BY <1>1, <2>2, Typed
    <3>3. QED
      BY <1>2, <3>1, <3>2 DEF GroupGood, Live, HasDefault
  <2>3. QED
    BY <2>1, <2>2
<1>6. QED
  BY <1>4, <1>5 DEF Good

\* The items and groups of a build are of its memberships, so all go with it.
LEMMA DeleteBuildGood ==
  ASSUME TInv, Good, NEW w \in Workers, NEW b \in Builds, DeleteBuild(w, b)
  PROVE  Good'
<1>1. /\ mode' = mode /\ status' = [status EXCEPT ![b] = "deleted"]
      /\ \A m \in MemberIds :
           IF home[m] = b
             THEN /\ home'[m] = None /\ listing'[m] = Unlisted /\ selected'[m] = 0
             ELSE /\ home'[m] = home[m] /\ listing'[m] = listing[m]
                  /\ selected'[m] = selected[m] /\ optional'[m] = optional[m]
      /\ \A g \in GroupIds :
           IF groupHome[g] = b
             THEN groupType'[g] = "deleted"
             ELSE groupType'[g] = groupType[g] /\ groupHome'[g] = groupHome[g]
  BY DEF DeleteBuild, DropRows
<1>2. ASSUME NEW m \in MemberIds PROVE MemberGood(m)'
  <2>1. MemberGood(m)
    BY DEF Good
  <2>2. CASE home[m] = b
    BY <1>1, <2>2, Typed DEF MemberGood, Row
  <2>3. CASE home[m] # b
    BY <1>1, <2>1, <2>3, Typed DEF MemberGood, Row, Live
  <2>4. QED
    BY <2>2, <2>3
<1>3. ASSUME NEW g \in GroupIds PROVE GroupGood(g)'
  <2>1. GroupGood(g)
    BY DEF Good
  <2>2. CASE groupHome[g] = b
    BY <1>1, <2>2 DEF GroupGood, Live
  <2>3. CASE groupHome[g] # b
    <3>1. \A m \in MemberIds : listing[m] = g => home[m] # b
      BY <2>3 DEF Good, MemberGood
    <3>2. \A m \in MemberIds : listing'[m] = g => listing[m] = g
      BY <1>1, Typed
    <3>3. groupType'[g] = "SINGLE" => HasDefault(listing', selected', g)
      BY <1>1, <2>1, <2>3, <3>1, <3>2 DEF GroupGood, HasDefault
    <3>4. Live(g)' => groupHome'[g] \in Builds /\ status'[groupHome'[g]] = "live"
      BY <1>1, <2>1, <2>3, Typed DEF GroupGood, Live
    <3>5. QED
      BY <3>3, <3>4 DEF GroupGood
  <2>4. QED
    BY <2>2, <2>3
<1>4. QED
  BY <1>2, <1>3 DEF Good

LEMMA ListGood ==
  ASSUME TInv, Good, NEW w \in Workers, NEW m \in MemberIds, List(w, m)
  PROVE  Good'
<1>1. /\ Row(m) /\ listing[m] = Unlisted /\ listing' = [listing EXCEPT ![m] = Ungrouped]
      /\ mode' = mode /\ status' = status /\ home' = home /\ optional' = optional
      /\ selected' = selected /\ groupHome' = groupHome /\ groupType' = groupType
  BY DEF List, members, groups
<1>2. ASSUME NEW n \in MemberIds PROVE MemberGood(n)'
  <2>1. MemberGood(n)
    BY DEF Good
  <2>2. CASE n = m
    BY <1>1, <2>1, <2>2, Typed DEF MemberGood, Row, Live
  <2>3. CASE n # m
    BY <1>1, <2>1, <2>3, Typed DEF MemberGood, Row, Live
  <2>4. QED
    BY <2>2, <2>3
<1>3. ASSUME NEW g \in GroupIds PROVE GroupGood(g)'
  <2>1. \A n \in MemberIds : listing'[n] = g <=> listing[n] = g
    BY <1>1, Typed
  <2>2. QED
    BY <1>1, <2>1 DEF Good, GroupGood, Live, HasDefault
<1>4. QED
  BY <1>2, <1>3 DEF Good

LEMMA CloneGood ==
  ASSUME TInv, Good, NEW w \in Workers, NEW source \in Builds, NEW b \in Builds,
         CloneBuild(w, source, b)
  PROVE  Good'
<1>1. PICK f, h : /\ ClonedMembers(source, b, f) /\ ClonedGroups(source, b, h)
                  /\ ClonedItems(source, f, h)
  BY Cloned DEF TInv
<1>2. /\ \A n : n \in RowsOf(source) <=> n \in MemberIds /\ home[n] = source
      /\ \A g : g \in MenusOf(source) <=>
           g \in GroupIds /\ groupHome[g] = source /\ groupType[g] # "deleted"
  BY DEF RowsOf, MenusOf
<1>3. mode' = mode /\ status' = [status EXCEPT ![b] = "live"]
  BY DEF CloneBuild
<1>4. ASSUME NEW m \in MemberIds, m \in DOMAIN f PROVE MemberGood(m)'
  <2>1. /\ home'[m] = b /\ optional'[m] = optional[f[m]] /\ f[m] \in MemberIds
        /\ home[f[m]] = source /\ MemberGood(f[m])
    BY <1>1, <1>2, <1>4 DEF ClonedMembers, Good
  <2>2. listing'[m] \in GroupIds => /\ Live(listing[m])'
                                    /\ groupHome'[listing'[m]] = b
    <3>1. listing'[m] \in GroupIds => listing'[m] \in DOMAIN h
      BY <1>1, <1>4, Typed DEF ClonedItems
    <3>2. QED
      BY <1>1, <3>1 DEF ClonedGroups, Live
  <2>3. ASSUME optional[f[m]] = EXCLUDED
        PROVE  /\ listing'[m] \in GroupIds
               /\ OnePack => mode[PackOf[b]] = "ADVANCED"
    <3>1. /\ listing[f[m]] \in GroupIds /\ Live(listing[f[m]])
          /\ groupHome[listing[f[m]]] = source
          /\ OnePack => mode[PackOf[source]] = "ADVANCED"
      BY <2>1, <2>3, Typed DEF MemberGood, Row
    <3>2. listing[f[m]] \in MenusOf(source)
      BY <1>2, <3>1 DEF Live
    <3>3. listing'[m] \in GroupIds
      BY <1>1, <1>4, <3>2 DEF ClonedItems, ClonedGroups
    <3>4. QED
      BY <3>1, <3>3 DEF OnePack
  <2>4. QED
    BY <1>3, <2>1, <2>2, <2>3, Typed DEF MemberGood, Row
<1>5. ASSUME NEW m \in MemberIds, m \notin DOMAIN f PROVE MemberGood(m)'
  <2>1. /\ home'[m] = home[m] /\ optional'[m] = optional[m] /\ listing'[m] = listing[m]
        /\ MemberGood(m)
    BY <1>1, <1>5 DEF ClonedMembers, Good
  <2>2. listing[m] \in GroupIds => /\ groupHome'[listing[m]] = groupHome[listing[m]]
                                   /\ groupType'[listing[m]] = groupType[listing[m]]
    BY <1>1 DEF ClonedGroups
  <2>3. Row(m) => status'[home[m]] = "live"
    BY <1>3, <2>1, Typed DEF MemberGood, Row
  <2>4. QED
    BY <1>3, <2>1, <2>2, <2>3 DEF MemberGood, Row, Live
<1>6. ASSUME NEW g \in GroupIds, g \in DOMAIN h PROVE GroupGood(g)'
  <2>1. /\ groupHome'[g] = b /\ groupType'[g] = groupType[h[g]] /\ h[g] \in GroupIds
        /\ groupHome[h[g]] = source /\ h[g] \in MenusOf(source) /\ GroupGood(h[g])
    BY <1>1, <1>2, <1>6 DEF ClonedGroups, Good
  <2>2. ASSUME groupType[h[g]] = "SINGLE", NEW m \in MemberIds, listing'[m] = g
        PROVE  \E k \in MemberIds : listing'[k] = g /\ selected'[k] = 1
    <3>1. m \in DOMAIN f
      BY <1>1, <1>6, <2>2 DEF ClonedMembers, ClonedGroups
    <3>2. listing[f[m]] = h[g] /\ f[m] \in MemberIds
      BY <1>1, <1>2, <2>2, <3>1, Typed DEF ClonedMembers, ClonedItems
    <3>3. PICK n \in MemberIds : listing[n] = h[g] /\ selected[n] = 1
      BY <2>1, <2>2, <3>2 DEF GroupGood, HasDefault
    <3>4. n \in RowsOf(source)
      BY <1>2, <2>1, <3>3 DEF Good, MemberGood
    <3>5. PICK k \in DOMAIN f : f[k] = n
      BY <1>1, <3>4 DEF ClonedMembers
    <3>6. listing'[k] \in DOMAIN h /\ h[listing'[k]] = h[g] /\ selected'[k] = 1
      BY <1>1, <2>1, <3>3, <3>5 DEF ClonedItems
    <3>7. QED
      BY <1>1, <1>6, <3>5, <3>6 DEF ClonedMembers, ClonedGroups
  <2>3. QED
    BY <1>3, <2>1, <2>2, Typed DEF GroupGood, HasDefault, Live
<1>7. ASSUME NEW g \in GroupIds, g \notin DOMAIN h PROVE GroupGood(g)'
  <2>1. groupHome'[g] = groupHome[g] /\ groupType'[g] = groupType[g] /\ GroupGood(g)
    BY <1>1, <1>7 DEF ClonedGroups, Good
  <2>2. ASSUME groupType[g] = "SINGLE", NEW m \in MemberIds, listing'[m] = g
        PROVE  \E k \in MemberIds : listing'[k] = g /\ selected'[k] = 1
    <3>1. m \notin DOMAIN f
      BY <1>1, <1>7, <2>2, Typed DEF ClonedItems
    <3>2. listing[m] = g
      BY <1>1, <2>2, <3>1 DEF ClonedMembers
    <3>3. PICK n \in MemberIds : listing[n] = g /\ selected[n] = 1
      BY <2>1, <2>2, <3>2 DEF GroupGood, HasDefault
    <3>4. Row(n)
      BY <3>3, Typed DEF Good, MemberGood
    <3>5. n \notin DOMAIN f
      <4>1. n <= lastMember /\ n \in Nat /\ lastMember \in Nat
        BY <3>4, Typed DEF TInv, RowTypes, MemberIds
      <4>2. QED
        BY <1>1, <4>1 DEF ClonedMembers
    <3>6. QED
      BY <1>1, <3>3, <3>5 DEF ClonedMembers
  <2>3. QED
    BY <1>3, <2>1, <2>2, Typed DEF GroupGood, HasDefault, Live
<1>8. QED
  BY <1>4, <1>5, <1>6, <1>7 DEF Good

\* The request's snapshot is current, in the words of the columns.
Fits(s) == s.listing = listing /\ s.selected = selected /\ s.groupType = groupType

LEMMA BasicGood ==
  ASSUME TInv, Good, NEW w \in Workers, CommitBasic(w), Current(txns[w])
  PROVE  Good'
<1>1. /\ status' = status /\ home' = home /\ optional' = optional
      /\ listing' = listing /\ selected' = selected
      /\ groupHome' = groupHome /\ groupType' = groupType
      /\ mode' = [mode EXCEPT ![txns[w].pack] = "BASIC"]
  BY DEF CommitBasic, members, items, groups
<1>2. \A m \in MemberIds : Row(m) /\ PackOf[home[m]] = txns[w].pack => optional[m] # EXCLUDED
  BY DEF CommitBasic, Current
<1>3. ASSUME NEW m \in MemberIds, Row(m), optional[m] = EXCLUDED
      PROVE  mode'[PackOf[home[m]]] = mode[PackOf[home[m]]]
  <2>1. PackOf[home[m]] # txns[w].pack
    BY <1>2, <1>3
  <2>2. PackOf[home[m]] \in Packs
    BY <1>3, Typed DEF Row
  <2>3. QED
    BY <1>1, <2>1, <2>2, Typed
<1>4. ASSUME NEW m \in MemberIds PROVE MemberGood(m)'
  <2>1. MemberGood(m)
    BY DEF Good
  <2>2. QED
    BY <1>1, <1>3, <2>1 DEF MemberGood, Row, Live
<1>5. ASSUME NEW g \in GroupIds PROVE GroupGood(g)'
  BY <1>1 DEF Good, GroupGood, Live, HasDefault
<1>6. QED
  BY <1>4, <1>5 DEF Good

LEMMA DeleteGroupGood ==
  ASSUME TInv, Good, NEW w \in Workers, CommitDeleteGroup(w), Current(txns[w])
  PROVE  Good'
<1>1. PICK d \in GroupIds : d = txns[w].group
  BY DEF CommitDeleteGroup, TInv, IInv, Txns, GoodTxn
<1>2. Fits(txns[w].snap)
  BY DEF CommitDeleteGroup, Current, Reading, Fits
<1>3. /\ mode' = mode /\ status' = status /\ home' = home
  BY DEF CommitDeleteGroup
<1>4. CASE groupType[d] = "deleted"
  <2>1. UNCHANGED <<status, home, items, groups>> /\ optional' = optional
    BY <1>1, <1>3, <1>4 DEF CommitDeleteGroup, groups
  <2>2. QED
    BY <1>3, <2>1, NothingExcluded
<1>5. CASE groupType[d] # "deleted"
  <2>1. /\ \A m \in MemberIds :
             IF listing[m] = d
               THEN /\ listing'[m] = Ungrouped /\ selected'[m] = 0
                    /\ optional'[m] # EXCLUDED
               ELSE /\ listing'[m] = listing[m] /\ selected'[m] = selected[m]
                    /\ optional'[m] = optional[m]
        /\ groupHome' = [groupHome EXCEPT ![d] = None]
        /\ groupType' = [groupType EXCEPT ![d] = "deleted"]
    BY <1>1, <1>2, <1>5, Typed DEF CommitDeleteGroup, Fits
  <2>2. \A g \in GroupIds : IF g = d THEN groupType'[g] = "deleted"
                            ELSE groupType'[g] = groupType[g] /\ groupHome'[g] = groupHome[g]
    BY <2>1, Typed
  <2>3. ASSUME NEW m \in MemberIds PROVE MemberGood(m)'
    <3>1. MemberGood(m)
      BY DEF Good
    <3>2. CASE listing[m] = d
      BY <1>3, <2>1, <3>1, <3>2, Typed DEF MemberGood, Row
    <3>3. CASE listing[m] # d
      BY <1>3, <2>1, <2>2, <3>1, <3>3 DEF MemberGood, Row, Live
    <3>4. QED
      BY <3>2, <3>3
  <2>4. ASSUME NEW g \in GroupIds PROVE GroupGood(g)'
    <3>1. GroupGood(g)
      BY DEF Good
    <3>2. CASE g = d
      BY <2>2, <3>2 DEF GroupGood, Live
    <3>3. CASE g # d
      <4>1. \A m \in MemberIds : listing'[m] = g => listing[m] = g
        BY <2>1, Typed
      <4>2. QED
        BY <1>3, <2>1, <2>2, <3>1, <3>3, <4>1 DEF GroupGood, HasDefault, Live
    <3>4. QED
      BY <3>2, <3>3
  <2>5. QED
    BY <2>3, <2>4 DEF Good
<1>6. QED
  BY <1>4, <1>5

\* One membership is moved, and what becomes of the default of each group.
LEMMA MoveGood ==
  ASSUME TInv, Good, NEW m \in MemberIds, NEW to \in Listings, NEW o,
         mode' = mode, status' = status, home' = home,
         groupHome' = groupHome, groupType' = groupType,
         listing' = [listing EXCEPT ![m] = to], optional' = [optional EXCEPT ![m] = o],
         to # Unlisted => Row(m),
         to \in GroupIds => Live(to) /\ groupHome[to] = home[m],
         Row(m) /\ o = EXCLUDED =>
           to \in GroupIds /\ mode[PackOf[home[m]]] = "ADVANCED",
         \A g \in GroupIds : groupType[g] = "SINGLE" => HasDefault(listing', selected', g)
  PROVE  Good'
<1>1. ASSUME NEW n \in MemberIds PROVE MemberGood(n)'
  <2>1. MemberGood(n)
    BY DEF Good
  <2>2. CASE n = m
    <3>1. listing'[n] = to /\ optional'[n] = o
      BY <2>2, Typed
    <3>2. QED
      BY <2>1, <2>2, <3>1 DEF MemberGood, Row, Live
  <2>3. CASE n # m
    <3>1. listing'[n] = listing[n] /\ optional'[n] = optional[n]
      BY <2>3, Typed
    <3>2. QED
      BY <2>1, <3>1 DEF MemberGood, Row, Live
  <2>4. QED
    BY <2>2, <2>3
<1>2. ASSUME NEW g \in GroupIds PROVE GroupGood(g)'
  BY DEF Good, GroupGood, Live
<1>3. QED
  BY <1>1, <1>2 DEF Good

\* The group of a membership that leaves it is normalized.
LEMMA TakenOutGood ==
  ASSUME TInv, Good, NEW m \in MemberIds, NEW to \in {Unlisted, Ungrouped}, NEW o,
         mode' = mode, status' = status, home' = home,
         groupHome' = groupHome, groupType' = groupType,
         to # Unlisted => Row(m), Row(m) => o # EXCLUDED,
         listing' = [listing EXCEPT ![m] = to], optional' = [optional EXCEPT ![m] = o],
         NEW s, Fits(s),
         selected' \in Normalized(s, Written([listing EXCEPT ![m] = to],
                                             [selected EXCEPT ![m] = 0]),
                                  [listing EXCEPT ![m] = to],
                                  [selected EXCEPT ![m] = 0], listing[m])
  PROVE  Good'
<1>1. PICK sel, lst : sel = [selected EXCEPT ![m] = 0] /\ lst = [listing EXCEPT ![m] = to]
  OBVIOUS
<1>2. /\ sel \in [MemberIds -> {0, 1}] /\ lst \in [MemberIds -> Listings]
      /\ \A n \in MemberIds : n # m => sel[n] = selected[n] /\ lst[n] = listing[n]
      /\ lst[m] = to /\ to \in Listings /\ to \notin GroupIds
  BY <1>1, Typed DEF Listings
<1>3. ASSUME NEW g \in GroupIds, groupType[g] = "SINGLE"
      PROVE  HasDefault(lst, selected', g)
  <2>1. PICK own : own = Written(lst, sel)
    OBVIOUS
  <2>2. selected' \in Normalized(s, own, lst, sel, listing[m])
    BY <1>1, <2>1
  <2>3. /\ listing[m] \in GroupIds /\ s.groupType[listing[m]] = "SINGLE"
             => HasDefault(lst, selected', listing[m])
        /\ g # listing[m] /\ HasDefault(lst, sel, g) => HasDefault(lst, selected', g)
    BY <1>2, <2>1, <2>2, NormalizedHas DEF Fits
  <2>4. CASE g = listing[m]
    BY <1>3, <2>3, <2>4 DEF Fits
  <2>5. CASE g # listing[m]
    <3>1. HasDefault(listing, selected, g)
      BY <1>3 DEF Good, GroupGood
    <3>2. HasDefault(lst, sel, g)
      BY <1>2, <2>5, <3>1 DEF HasDefault
    <3>3. QED
      BY <2>3, <2>5, <3>2
  <2>6. QED
    BY <2>4, <2>5
<1>4. QED
  BY <1>1, <1>2, <1>3, MoveGood

LEMMA UngroupGood ==
  ASSUME TInv, Good, NEW w \in Workers, CommitUngroup(w), Current(txns[w])
  PROVE  Good'
<1>1. PICK m \in MemberIds, s \in {txns[w].snap} : m = txns[w].member /\ s = txns[w].snap
  BY DEF CommitUngroup, TInv, IInv, Txns, GoodTxn
<1>2. Fits(s) /\ Row(m) /\ txns[w].optional # EXCLUDED
  BY <1>1 DEF CommitUngroup, Current, Reading, Fits
<1>3. /\ mode' = mode /\ status' = status /\ home' = home
      /\ groupHome' = groupHome /\ groupType' = groupType
      /\ listing' = [listing EXCEPT ![m] = Ungrouped]
      /\ optional' = [optional EXCEPT ![m] = txns[w].optional]
      /\ selected' \in Normalized(s, Written([listing EXCEPT ![m] = Ungrouped],
                                             [selected EXCEPT ![m] = 0]),
                                  [listing EXCEPT ![m] = Ungrouped],
                                  [selected EXCEPT ![m] = 0], s.listing[m])
  BY <1>1 DEF CommitUngroup, groups
<1>4. s.listing[m] = listing[m]
  BY <1>2 DEF Fits
<1>5. QED
  BY <1>2, <1>3, <1>4, TakenOutGood

LEMMA UnlistGood ==
  ASSUME TInv, Good, NEW w \in Workers, CommitUnlist(w), Current(txns[w])
  PROVE  Good'
<1>1. PICK m \in MemberIds, s \in {txns[w].snap} : m = txns[w].member /\ s = txns[w].snap
  BY DEF CommitUnlist, TInv, IInv, Txns, GoodTxn
<1>2. Fits(s) /\ s.listing[m] = listing[m]
  BY <1>1 DEF CommitUnlist, Current, Reading, Fits
<1>3. PICK o : o = IF s.listing[m] \in GroupIds THEN REQUIRED ELSE optional[m]
  OBVIOUS
<1>4. /\ mode' = mode /\ status' = status /\ home' = home
      /\ groupHome' = groupHome /\ groupType' = groupType
      /\ listing' = [listing EXCEPT ![m] = Unlisted]
      /\ optional' = [optional EXCEPT ![m] = o]
      /\ selected' \in Normalized(s, Written([listing EXCEPT ![m] = Unlisted],
                                             [selected EXCEPT ![m] = 0]),
                                  [listing EXCEPT ![m] = Unlisted],
                                  [selected EXCEPT ![m] = 0], s.listing[m])
  BY <1>1, <1>3, Typed DEF CommitUnlist, groups
<1>5. Row(m) => o # EXCLUDED
  <2>1. MemberGood(m)
    BY DEF Good
  <2>2. QED
    BY <1>2, <1>3, <2>1, Typed DEF MemberGood
<1>6. QED
  BY <1>2, <1>4, <1>5, TakenOutGood

\* Both the group that the membership gets and the one that it leaves are
\* normalized, the second on top of the first.
LEMMA SaveGood ==
  ASSUME TInv, Good, NEW w \in Workers, CommitSave(w), Current(txns[w])
  PROVE  Good'
<1>1. PICK m \in MemberIds, g \in GroupIds, d \in {0, 1}, s \in {txns[w].snap} :
        /\ m = txns[w].member /\ g = txns[w].group /\ d = txns[w].default
        /\ s = txns[w].snap
  BY DEF CommitSave, TInv, IInv, Txns, GoodTxn
<1>2. /\ Fits(s) /\ Row(m) /\ mode[PackOf[home[m]]] = "ADVANCED"
      /\ Live(g) /\ groupHome[g] = home[m]
  BY <1>1 DEF CommitSave, Current, Reading, Fits
<1>. DEFINE t == txns[w]
            clears == t.snap.groupType[t.group] = "SINGLE" /\ t.default = 1
            moved == [listing EXCEPT ![t.member] = t.group]
            asked == [n \in MemberIds |->
                        IF n = t.member THEN t.default
                        ELSE IF clears /\ listing[n] = t.group THEN 0
                        ELSE selected[n]]
<1>3. PICK lst, sel, prev : lst = moved /\ sel = asked /\ prev = s.listing[m]
  OBVIOUS
<1>4. \E own, sel2 :
        /\ Written(lst, sel) \subseteq own
        /\ sel2 \in Normalized(s, own, lst, sel, g)
        /\ IF prev = g THEN selected' = sel2
           ELSE selected' \in Normalized(s, own \cup Written(lst, sel2), lst, sel2, prev)
  <2>1. \E own \in {Written(moved, asked), Written(moved, asked) \cup {t.member}} :
        \E sel2 \in Normalized(t.snap, own, moved, asked, t.group) :
          IF t.snap.listing[t.member] = t.group THEN selected' = sel2
          ELSE selected' \in Normalized(t.snap, own \cup Written(moved, sel2), moved, sel2,
                                        t.snap.listing[t.member])
    BY DEF CommitSave
  <2>. HIDE DEF t, moved, asked
  <2>2. txns[w] = t
    BY DEF t
  <2>3. t.member = m /\ t.group = g /\ t.snap = s /\ s.listing[m] = prev
    BY <1>1, <1>3, <2>2
  <2>4. \E own \in {Written(lst, sel), Written(lst, sel) \cup {m}} :
        \E sel2 \in Normalized(s, own, lst, sel, g) :
          IF prev = g THEN selected' = sel2
          ELSE selected' \in Normalized(s, own \cup Written(lst, sel2), lst, sel2, prev)
    BY <1>3, <2>1, <2>3
  <2>5. QED
    BY <2>4
<1>5. PICK own, sel2 :
        /\ Written(lst, sel) \subseteq own
        /\ sel2 \in Normalized(s, own, lst, sel, g)
        /\ IF prev = g THEN selected' = sel2
           ELSE selected' \in Normalized(s, own \cup Written(lst, sel2), lst, sel2, prev)
  BY <1>4
<1>6. /\ lst \in [MemberIds -> Listings] /\ sel \in [MemberIds -> {0, 1}]
      /\ sel2 \in [MemberIds -> {0, 1}] /\ prev = listing[m]
  <2>1. /\ lst \in [MemberIds -> Listings] /\ sel \in [MemberIds -> {0, 1}]
        /\ prev = listing[m]
    BY <1>1, <1>2, <1>3, Typed DEF Listings, Fits
  <2>2. QED
    BY <1>5, <2>1, NormalizedKeeps
<1>7. \A n \in MemberIds :
        /\ lst[n] = IF n = m THEN g ELSE listing[n]
        /\ n # m /\ listing[n] # g => sel[n] = selected[n]
  BY <1>1, <1>3, Typed
<1>. HIDE DEF t, moved, asked
<1>8. ASSUME NEW h \in GroupIds, groupType[h] = "SINGLE", h # prev
      PROVE  HasDefault(lst, sel2, h)
  <2>1. /\ s.groupType[g] = "SINGLE" => HasDefault(lst, sel2, g)
        /\ h # g /\ HasDefault(lst, sel, h) => HasDefault(lst, sel2, h)
    BY <1>2, <1>5, <1>6, NormalizedHas DEF Fits
  <2>2. CASE h = g
    BY <1>2, <1>8, <2>1, <2>2 DEF Fits
  <2>3. CASE h # g
    <3>1. HasDefault(listing, selected, h)
      BY <1>8 DEF Good, GroupGood
    <3>2. HasDefault(lst, sel, h)
      BY <1>6, <1>7, <1>8, <2>3, <3>1 DEF HasDefault
    <3>3. QED
      BY <2>1, <2>3, <3>2
  <2>4. QED
    BY <2>2, <2>3
<1>9. ASSUME NEW h \in GroupIds, groupType[h] = "SINGLE"
      PROVE  HasDefault(lst, selected', h)
  <2>1. CASE prev = g
    <3>1. s.groupType[g] = "SINGLE" => HasDefault(lst, sel2, g)
      BY <1>2, <1>5, <1>6, NormalizedHas DEF Fits
    <3>2. selected' = sel2
      BY <1>5, <2>1
    <3>3. QED
      BY <1>2, <1>8, <1>9, <2>1, <3>1, <3>2 DEF Fits
  <2>2. CASE prev # g
    <3>1. PICK own2 : /\ Written(lst, sel2) \subseteq own2
                      /\ selected' \in Normalized(s, own2, lst, sel2, prev)
      BY <1>5, <2>2
    <3>2. /\ prev \in GroupIds /\ s.groupType[prev] = "SINGLE"
               => HasDefault(lst, selected', prev)
          /\ h # prev /\ HasDefault(lst, sel2, h) => HasDefault(lst, selected', h)
      BY <1>2, <1>6, <3>1, NormalizedHas DEF Fits
    <3>3. QED
      BY <1>2, <1>8, <1>9, <3>2 DEF Fits
  <2>3. QED
    BY <2>1, <2>2
<1>10. /\ mode' = mode /\ status' = status /\ home' = home
       /\ groupHome' = groupHome /\ groupType' = groupType /\ listing' = lst
       /\ optional' = [optional EXCEPT ![m] = txns[w].optional]
  BY <1>1, <1>2, <1>3 DEF CommitSave, groups, Row, moved, t
<1>11. g \in Listings /\ lst = [listing EXCEPT ![m] = g]
  BY <1>1, <1>3 DEF Listings, moved, t
<1>12. QED
  BY <1>2, <1>9, <1>10, <1>11, MoveGood

\* Every group that a membership leaves is normalized.
LEMMA RemoveGood ==
  ASSUME TInv, Good, NEW w \in Workers, CommitRemove(w), Current(txns[w])
  PROVE  Good'
<1>. DEFINE t == txns[w]
            gone == t.members \cup
                      {m \in MemberIds : Row(m) /\ t.mod # None /\ mod[m] = t.mod}
            lst == [m \in MemberIds |-> IF m \in gone THEN Unlisted ELSE listing[m]]
            sel == [m \in MemberIds |-> IF m \in gone THEN 0 ELSE selected[m]]
            own == Written(lst, sel)
            left == {t.snap.listing[m] : m \in t.members}
<1>1. PICK f : /\ \A g \in left : f[g] \in Normalized(t.snap, own, lst, sel, g)
               /\ selected' = [m \in MemberIds |->
                    IF lst[m] \in left THEN f[lst[m]][m] ELSE sel[m]]
  BY DEF CommitRemove
<1>2. /\ listing' = lst /\ DropRows(gone) /\ mode' = mode /\ status' = status
      /\ groupHome' = groupHome /\ groupType' = groupType
  BY DEF CommitRemove, groups
<1>3. /\ Fits(t.snap) /\ t.members \subseteq MemberIds
      /\ \A m \in MemberIds : m \in gone <=> m \in t.members
  BY DEF CommitRemove, Current, Reading, Fits, TInv, IInv, Txns, GoodTxn
<1>4. /\ lst \in [MemberIds -> Listings] /\ sel \in [MemberIds -> {0, 1}]
      /\ \A m \in MemberIds :
           IF m \in gone THEN lst[m] = Unlisted
           ELSE lst[m] = listing[m] /\ sel[m] = selected[m]
  BY Typed DEF Listings
<1>5. \A m \in gone : m \in MemberIds => listing[m] \in left
  BY <1>3 DEF Fits
<1>6. \A m \in MemberIds :
        IF m \in gone THEN home'[m] = None
        ELSE home'[m] = home[m] /\ optional'[m] = optional[m]
  BY <1>2 DEF DropRows
<1>. HIDE DEF gone, lst, sel, own, left, t
<1>7. ASSUME NEW m \in MemberIds PROVE MemberGood(m)'
  <2>1. MemberGood(m)
    BY DEF Good
  <2>2. CASE m \in gone
    BY <1>2, <1>4, <1>6, <2>2, Typed DEF MemberGood, Row
  <2>3. CASE m \notin gone
    <3>1. listing'[m] = listing[m] /\ home'[m] = home[m] /\ optional'[m] = optional[m]
      BY <1>2, <1>4, <1>6, <2>3
    <3>2. QED
      BY <1>2, <2>1, <3>1 DEF MemberGood, Row, Live
  <2>4. QED
    BY <2>2, <2>3
<1>8. ASSUME NEW g \in GroupIds, groupType[g] = "SINGLE"
      PROVE  HasDefault(lst, selected', g)
  <2>1. CASE g \in left
    <3>1. f[g] \in Normalized(t.snap, own, lst, sel, g)
      BY <1>1, <2>1
    <3>2. Written(lst, sel) \subseteq own /\ t.snap.groupType[g] = "SINGLE"
      BY <1>3, <1>8 DEF own, Fits
    <3>3. PICK k : k = f[g]
      OBVIOUS
    <3>4. HasDefault(lst, k, g)
      BY <1>3, <1>4, <3>1, <3>2, <3>3, NormalizedHas DEF Fits
    <3>5. \A m \in MemberIds : lst[m] = g => selected'[m] = k[m]
      BY <1>1, <2>1, <3>3
    <3>6. QED
      BY <3>4, <3>5 DEF HasDefault
  <2>2. CASE g \notin left
    <3>1. HasDefault(listing, selected, g)
      BY <1>8 DEF Good, GroupGood
    <3>2. \A m \in MemberIds : lst[m] = g <=> listing[m] = g
      BY <1>4, <1>5, <2>2, Typed
    <3>3. \A m \in MemberIds : lst[m] = g => selected'[m] = selected[m]
      BY <1>1, <1>4, <2>2, Typed
    <3>4. QED
      BY <3>1, <3>2, <3>3 DEF HasDefault
  <2>3. QED
    BY <2>1, <2>2
<1>9. ASSUME NEW g \in GroupIds PROVE GroupGood(g)'
  <2>1. GroupGood(g)
    BY DEF Good
  <2>2. QED
    BY <1>2, <1>8, <2>1 DEF GroupGood, Live
<1>10. QED
  BY <1>7, <1>9 DEF Good

\* A transaction remembers what it has read.
LEMMA OpenCurrent ==
  ASSUME TInv, Good, NEW w \in Workers, OpenStep(w)
  PROVE  \E t : Begin(w, t) /\ Current(t)
<1>1. ASSUME NEW p \in Packs, OpenBasic(w, p) PROVE \E t : Begin(w, t) /\ Current(t)
  BY <1>1 DEF OpenBasic, Current, Reading
<1>2. ASSUME NEW g \in GroupIds, OpenDeleteGroup(w, g)
      PROVE  \E t : Begin(w, t) /\ Current(t)
  BY <1>2 DEF OpenDeleteGroup, Current, Snapshot
<1>3. ASSUME NEW m \in MemberIds, NEW g \in GroupIds, NEW o \in States, NEW d \in 0 .. 1,
             OpenSave(w, m, g, o, d)
      PROVE  \E t : Begin(w, t) /\ Current(t)
  <2>1. PICK t : t = [op |-> "save", member |-> m, group |-> g, optional |-> o,
                      default |-> d, snap |-> Snapshot]
    OBVIOUS
  <2>2. Begin(w, t)
    BY <1>3, <2>1 DEF OpenSave
  <2>3. Current(t)
    BY <1>3, <2>1 DEF OpenSave, Current, Snapshot
  <2>4. QED
    BY <2>2, <2>3
<1>4. ASSUME NEW m \in MemberIds, NEW o \in States, OpenUngroup(w, m, o)
      PROVE  \E t : Begin(w, t) /\ Current(t)
  BY <1>4 DEF OpenUngroup, Current, Snapshot
<1>5. ASSUME NEW m \in MemberIds, OpenUnlist(w, m) PROVE \E t : Begin(w, t) /\ Current(t)
  BY <1>5 DEF OpenUnlist, Current, Snapshot
<1>6. ASSUME NEW m \in MemberIds, OpenRemove(w, {m}, None)
      PROVE  \E t : Begin(w, t) /\ Current(t)
  BY <1>6 DEF OpenRemove, Current, Snapshot
<1>7. ASSUME NEW x \in Mods, OpenRemove(w, {m \in MemberIds : Row(m) /\ mod[m] = x}, x)
      PROVE  \E t : Begin(w, t) /\ Current(t)
  BY <1>7 DEF OpenRemove, Current, Snapshot
<1>8. QED
  BY <1>1, <1>2, <1>3, <1>4, <1>5, <1>6, <1>7 DEF OpenStep

LEMMA WriteGood ==
  ASSUME TInv, Good, NEW w \in Workers, WriteStep(w)
  PROVE  Good' /\ txns[w] = Idle /\ txns' = txns
<1>1. txns[w] = Idle /\ txns' = txns
  BY DEF WriteStep, AddMember, UpdateOptional, SetAdvanced, CreateGroup, DeleteBuild,
         CloneBuild, List
<1>2. ASSUME NEW m \in MemberIds, NEW o \in States, UpdateOptional(w, m, o) PROVE Good'
  <2>1. /\ optional' = [optional EXCEPT ![m] = o] /\ o # EXCLUDED /\ mode' = mode
        /\ UNCHANGED <<status, home, items, groups>>
    BY <1>2 DEF UpdateOptional
  <2>2. \A n \in MemberIds : optional'[n] = EXCLUDED => optional[n] = EXCLUDED
    BY <2>1, Typed
  <2>3. QED
    BY <2>1, <2>2, NothingExcluded
<1>3. ASSUME NEW p \in Packs, SetAdvanced(w, p) PROVE Good'
  <2>1. /\ mode' = [mode EXCEPT ![p] = "ADVANCED"] /\ optional' = optional
        /\ UNCHANGED <<status, home, items, groups>>
    BY <1>3 DEF SetAdvanced, members
  <2>2. CASE OnePack
    <3>1. \A n \in MemberIds : Row(n) => PackOf[home[n]] \in Packs
      BY Typed DEF Row
    <3>2. \A n \in MemberIds : Row(n) /\ optional[n] = EXCLUDED
            => mode[PackOf[home[n]]] = "ADVANCED"
      BY <2>2 DEF Good, MemberGood
    <3>3. \A n \in MemberIds : Row(n) /\ optional[n] = EXCLUDED
            => mode'[PackOf[home[n]]] = "ADVANCED"
      BY <2>1, <3>1, <3>2, Typed
    <3>4. QED
      BY <2>1, <3>3, NothingExcluded
  <2>3. CASE ~OnePack
    <3>1. /\ status' = status /\ home' = home /\ listing' = listing /\ selected' = selected
          /\ groupHome' = groupHome /\ groupType' = groupType
      BY <2>1 DEF items, groups
    <3>2. ASSUME NEW m \in MemberIds PROVE MemberGood(m)'
      BY <2>1, <2>3, <3>1 DEF Good, MemberGood, Row, Live
    <3>3. ASSUME NEW g \in GroupIds PROVE GroupGood(g)'
      BY <3>1 DEF Good, GroupGood, Live, HasDefault
    <3>4. QED
      BY <3>2, <3>3 DEF Good
  <2>4. QED
    BY <2>2, <2>3
<1>4. QED
  BY <1>1, <1>2, <1>3, AddMemberGood, CreateGroupGood, DeleteBuildGood, CloneGood, ListGood
     DEF WriteStep

LEMMA CommitGood ==
  ASSUME TInv, Good, NEW w \in Workers, CommitStep(w), Current(txns[w])
  PROVE  Good' /\ Committed(w)
<1>1. Committed(w)
  BY DEF CommitStep, CommitBasic, CommitDeleteGroup, CommitSave, RefuseUngroup,
         CommitUngroup, CommitUnlist, CommitRemove
<1>2. CASE RefuseUngroup(w)
  <2>1. UNCHANGED <<status, home, items, groups>> /\ mode' = mode /\ optional' = optional
    BY <1>2 DEF RefuseUngroup, members
  <2>2. QED
    BY <1>1, <2>1, NothingExcluded
<1>3. QED
  BY <1>1, <1>2, BasicGood, DeleteGroupGood, SaveGood, UngroupGood, UnlistGood, RemoveGood
     DEF CommitStep

LEMMA SerialInit == Init => SInv
<1>. SUFFICES ASSUME Init PROVE SInv
  OBVIOUS
<1>1. Good
  <2>1. \A m \in MemberIds : MemberGood(m)
    BY DEF Init, MemberGood, Row, GroupIds, Unlisted
  <2>2. \A g \in GroupIds : GroupGood(g)
    BY DEF Init, GroupGood, Live
  <2>3. QED
    BY <2>1, <2>2 DEF Good
<1>2. \A w \in Workers : Current(txns[w])
  BY DEF Init, Current, Idle, Reading
<1>3. QED
  BY <1>1, <1>2, InitTypes DEF SInv

LEMMA SerialInductive ==
  ASSUME Serial, SInv, [Next]_vars
  PROVE  SInv'
<1>1. TInv'
  BY TypesInductive DEF SInv
<1>2. CASE UNCHANGED vars
  <2>1. UNCHANGED <<mode, status, home, mod, optional, listing, selected, groupHome,
                    groupType, txns>>
    BY <1>2 DEF vars, members, items, groups
  <2>2. Good'
    BY <2>1 DEF SInv, Good, MemberGood, GroupGood, HasDefault, Row, Live
  <2>3. \A w \in Workers : Current(txns[w])'
    BY <2>1 DEF SInv, Current, Row, Live
  <2>4. QED
    BY <1>1, <2>2, <2>3 DEF SInv
<1>3. ASSUME NEW w \in Workers, WriteStep(w) PROVE SInv'
  <2>1. Good' /\ txns[w] = Idle /\ txns' = txns
    BY <1>3, WriteGood DEF SInv
  <2>2. \A v \in Workers : txns'[v] = Idle
    BY <2>1 DEF Serial
  <2>3. QED
    BY <1>1, <2>1, <2>2 DEF SInv, Current, Idle, Reading
<1>4. ASSUME NEW w \in Workers, OpenStep(w) PROVE SInv'
  <2>1. PICK t : Begin(w, t) /\ Current(t)
    BY <1>4, OpenCurrent DEF SInv
  <2>2. /\ UNCHANGED <<mode, status, home, mod, optional, listing, selected, groupHome,
                       groupType>>
        /\ txns' = [txns EXCEPT ![w] = t]
    BY <2>1 DEF Begin, members, items, groups
  <2>3. Good'
    BY <2>2 DEF SInv, Good, MemberGood, GroupGood, HasDefault, Row, Live
  <2>4. Current(t)'
    BY <2>1, <2>2 DEF Current, Row, Live
  <2>5. \A v \in Workers : txns'[v] = t
    BY <2>2 DEF Serial, SInv, TInv, IInv, Txns
  <2>6. QED
    BY <1>1, <2>3, <2>4, <2>5 DEF SInv
<1>5. ASSUME NEW w \in Workers, CommitStep(w) PROVE SInv'
  <2>1. Good' /\ Committed(w)
    BY <1>5, CommitGood DEF SInv
  <2>2. \A v \in Workers : txns'[v] = Idle
    BY <2>1 DEF Committed, Serial, SInv, TInv, IInv, Txns
  <2>3. QED
    BY <1>1, <2>1, <2>2 DEF SInv, Current, Idle, Reading
<1>6. QED
  BY <1>2, <1>3, <1>4, <1>5 DEF Next

\* The serial invariant is inductive.
THEOREM SerialInvariance == ASSUME Serial PROVE Spec => []SInv
<1>1. SInv /\ [Next]_vars => SInv'
  BY SerialInductive
<1>2. QED
  BY <1>1, SerialInit, PTL DEF Spec

\* When requests run one after another, no item outlives its membership or its
\* group, and a group holds items of its own build: there are no foreign keys, so
\* every deletion, move and clone keeps this (normalize_group, save_membership,
\* delete_group, clone_build, Build.delete_build).
THEOREM ItemsStay == ASSUME Serial PROVE Spec => []ItemsBelong
<1>1. SInv => ItemsBelong
  BY GoodMeans DEF SInv
<1>2. QED
  BY <1>1, SerialInvariance, PTL

\* When requests run one after another, an exact-one group that has choices has a
\* default, whatever leaves it (normalize_group, at the end of each call).
THEOREM DefaultStays == ASSUME Serial PROVE Spec => []SomeDefault
<1>1. SInv => SomeDefault
  BY GoodMeans DEF SInv
<1>2. QED
  BY <1>1, SerialInvariance, PTL

\* When requests run one after another, an excluded entry is in a group
\* (delete_group, set_listing, save_membership) ...
THEOREM ExcludedStays == ASSUME Serial PROVE Spec => []ExcludedInGroup
<1>1. SInv => ExcludedInGroup
  BY GoodMeans DEF SInv
<1>2. QED
  BY <1>1, SerialInvariance, PTL

\* ... and a player of its modpack can choose it, among the builds of one modpack:
\* a clone brings excluded entries to a modpack of either mode (set_modpack_mode).
THEOREM ExcludedCanBeChosen ==
  ASSUME Serial, OnePack PROVE Spec => []ExcludedReachable
<1>1. SInv => ExcludedReachable
  BY GoodMeans DEF SInv, ExcludedReachable
<1>2. QED
  BY <1>1, SerialInvariance, PTL

=============================================================================
