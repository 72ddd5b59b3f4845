--------------------------- MODULE OptionalGroups ---------------------------
(***************************************************************************)
(* Optional states and advanced optional groups of build memberships       *)
(* (models/advanced_optional.py and its callers in build.py,               *)
(* build_modversion.py, mod.py, write_api.py and asite.py).                *)
(*                                                                         *)
(* A membership (a row of build_modversion) is required, optional or       *)
(* excluded.  build_optional_group_items lists a membership at most once,  *)
(* ungrouped or in a group of its build, and a SINGLE group is meant to    *)
(* keep exactly one default.                                               *)
(*                                                                         *)
(* A transaction reads from the snapshot InnoDB takes at its first SELECT  *)
(* (REPEATABLE READ, plus the rows the transaction itself wrote); its      *)
(* UPDATE, INSERT and DELETE statements act on the current rows and lock   *)
(* them until the commit.  So a transaction that reads is two steps: Open, *)
(* which takes the snapshot, and a commit that holds all its writes.  A    *)
(* transaction of writes alone is one step.                                *)
(***************************************************************************)
EXTENDS Integers, FiniteSets

CONSTANTS
  Packs,       \* modpacks
  Builds,      \* ids of builds rows (never reused)
  PackOf,      \* the modpack of each build
  Mods,        \* mods
  Loaders,     \* mods of type LAUNCHER, BOOTSTRAP or MCIL
  States,      \* the optional states users choose from
  Types,       \* the selection types users choose from
  MaxMembers,  \* bound: rows of build_modversion
  MaxGroups,   \* bound: rows of build_optional_groups
  Workers,     \* request workers; a single one means serial execution
  None

REQUIRED == 0
OPTIONAL == 1
EXCLUDED == 2

ASSUME OptionalGroupsAssumption ==
  /\ PackOf \in [Builds -> Packs]
  /\ Loaders \subseteq Mods
  /\ States \subseteq {REQUIRED, OPTIONAL, EXCLUDED}
  /\ Types \subseteq {"SINGLE", "MULTIPLE"}
  /\ MaxMembers \in Nat
  /\ MaxGroups \in Nat
  /\ None \notin Builds \cup Mods

VARIABLES
  mode,        \* modpacks.optional_mode
  status,      \* of each build: absent, live or deleted
  lastMember,  \* AUTO_INCREMENT of build_modversion
  home,        \* build of each membership; None without a row
  mod,         \* mod of each membership
  optional,    \* build_modversion.optional
  listing,     \* item of each membership: Unlisted, Ungrouped or a group
  selected,    \* selected_by_default of the item; 0 without an item
  lastGroup,   \* AUTO_INCREMENT of build_optional_groups
  groupHome,   \* build of each group
  groupType,   \* none, SINGLE, MULTIPLE or deleted
  txns         \* the open transaction of each worker

members == <<lastMember, home, mod, optional>>
items == <<listing, selected>>
groups == <<lastGroup, groupHome, groupType>>
vars == <<mode, status, members, items, groups, txns>>

MemberIds == 1 .. MaxMembers
GroupIds == 1 .. MaxGroups
Unlisted == -1
Ungrouped == 0

Idle == [op |-> "idle"]

\* The rows of build_modversion and build_optional_groups that exist.
Row(m) == home[m] # None
Live(g) == groupType[g] \in {"SINGLE", "MULTIPLE"}

\* What the SELECTs of a transaction that starts now read.
Snapshot ==
  [listing |-> listing, selected |-> selected, groupType |-> groupType]

Init ==
  /\ mode = [p \in Packs |-> "BASIC"]
  /\ status \in [Builds -> {"absent", "live"}]
  /\ lastMember = 0
  /\ home = [m \in MemberIds |-> None]
  /\ mod = [m \in MemberIds |-> None]
  /\ optional = [m \in MemberIds |-> REQUIRED]
  /\ listing = [m \in MemberIds |-> Unlisted]
  /\ selected = [m \in MemberIds |-> 0]
  /\ lastGroup = 0
  /\ groupHome = [g \in GroupIds |-> None]
  /\ groupType = [g \in GroupIds |-> "none"]
  /\ txns = [w \in Workers |-> Idle]

-----------------------------------------------------------------------------
(* normalize_group                                                         *)

\* The item rows a transaction with snapshot s sees: those it wrote itself
\* (own) as they are, the others as the snapshot has them.
SeenListing(s, own, lst) ==
  [m \in MemberIds |-> IF m \in own THEN lst[m] ELSE s.listing[m]]
SeenSelected(s, own, sel) ==
  [m \in MemberIds |-> IF m \in own THEN sel[m] ELSE s.selected[m]]

\* A slip: the default is set and no other row of the group is reset.
NormalizedAdds(s, own, lst, sel, g) ==
  LET seen == SeenListing(s, own, lst)
      rows == {m \in MemberIds : seen[m] = g}
  IN IF g \notin GroupIds \/ s.groupType[g] # "SINGLE" \/ rows = {}
       THEN {sel}
       ELSE {[sel EXCEPT ![c] = 1] : c \in rows}

\* A slip: a group that has no default is left alone.
NormalizedIfDefault(s, own, lst, sel, g) ==
  LET seen == SeenListing(s, own, lst)
      was == SeenSelected(s, own, sel)
      defaults == {m \in MemberIds : seen[m] = g /\ was[m] = 1}
  IN IF g \notin GroupIds \/ s.groupType[g] # "SINGLE" \/ defaults = {}
       THEN {sel}
       ELSE {[m \in MemberIds |->
                IF lst[m] # g THEN sel[m] ELSE IF m = c THEN 1 ELSE 0] :
              c \in defaults}

\* normalize_group(g): the selected_by_default column after it ran.  Of a
\* SINGLE group, the first row by (selected, sort_order, id) becomes the only
\* default; the order of rows with equal selection is the user's to set.
Normalized(s, own, lst, sel, g) ==
  LET seen == SeenListing(s, own, lst)
      was == SeenSelected(s, own, sel)
      rows == {m \in MemberIds : seen[m] = g}
      defaults == {m \in rows : was[m] = 1}
  IN IF g \notin GroupIds \/ s.groupType[g] # "SINGLE" \/ rows = {}
       THEN {sel}
       ELSE {[m \in MemberIds |->
                IF lst[m] # g THEN sel[m] ELSE IF m = c THEN 1 ELSE 0] :
              c \in IF defaults # {} THEN defaults ELSE rows}

\* The rows whose item differs from the committed one.
Written(lst, sel) ==
  {m \in MemberIds : lst[m] # listing[m] \/ sel[m] # selected[m]}

-----------------------------------------------------------------------------
(* Transactions of writes alone                                            *)

\* add_modversion_to_selected_build and add_build_mod, for a mod the build
\* does not have: the membership is required or optional.
AddMember(w, b, x, o) ==
  LET m == lastMember + 1 IN
  /\ txns[w] = Idle
  /\ status[b] = "live"
  /\ m \in MemberIds
  /\ o # EXCLUDED
  /\ \A n \in MemberIds : home[n] = b => mod[n] # x
  /\ lastMember' = m
  /\ home' = [home EXCEPT ![m] = b]
  /\ mod' = [mod EXCEPT ![m] = x]
  /\ optional' = [optional EXCEPT ![m] = o]
  /\ UNCHANGED <<mode, status, items, groups, txns>>

\* Build_modversion.update_optional (Basic mode) and the "optional" field of
\* update_build_mod (any mode).
UpdateOptional(w, m, o) ==
  /\ txns[w] = Idle
  /\ Row(m)
  /\ o # EXCLUDED
  /\ optional' = [optional EXCEPT ![m] = o]
  /\ UNCHANGED <<mode, status, lastMember, home, mod, items, groups, txns>>

\* A slip: any integer is stored as the mode.
SetAnyMode(w, p) ==
  /\ txns[w] = Idle
  /\ mode[p] = "BASIC"
  /\ mode' = [mode EXCEPT ![p] = "2"]
  /\ UNCHANGED <<status, members, items, groups, txns>>

\* set_modpack_mode(ADVANCED): an UPDATE that has to change the row.
SetAdvanced(w, p) ==
  /\ txns[w] = Idle
  /\ mode[p] = "BASIC"
  /\ mode' = [mode EXCEPT ![p] = "ADVANCED"]
  /\ UNCHANGED <<status, members, items, groups, txns>>

\* The route switches the modpack to Advanced and create_group inserts the
\* group.  (The switch alone, when the name is taken, is SetAdvanced.)
CreateGroup(w, b, type) ==
  LET g == lastGroup + 1 IN
  /\ txns[w] = Idle
  /\ status[b] = "live"
  /\ g \in GroupIds
  /\ mode' = [mode EXCEPT ![PackOf[b]] = "ADVANCED"]
  /\ lastGroup' = g
  /\ groupHome' = [groupHome EXCEPT ![g] = b]
  /\ groupType' = [groupType EXCEPT ![g] = type]
  /\ UNCHANGED <<status, members, items, txns>>

\* The memberships M lose their rows; what a missing row holds is reset.
DropRows(M) ==
  /\ home' = [m \in MemberIds |-> IF m \in M THEN None ELSE home[m]]
  /\ mod' = [m \in MemberIds |-> IF m \in M THEN None ELSE mod[m]]
  /\ optional' =
       [m \in MemberIds |-> IF m \in M THEN REQUIRED ELSE optional[m]]

\* Build.delete_build: items of its memberships, groups, memberships, row.
\* (delete_modpack does this for each build of the modpack.)
DeleteBuild(w, b) ==
  /\ txns[w] = Idle
  /\ status[b] = "live"
  /\ status' = [status EXCEPT ![b] = "deleted"]
  /\ listing' =
       [m \in MemberIds |-> IF home[m] = b THEN Unlisted ELSE listing[m]]
  /\ selected' = [m \in MemberIds |-> IF home[m] = b THEN 0 ELSE selected[m]]
  /\ groupType' = [g \in GroupIds |->
       IF groupHome[g] = b THEN "deleted" ELSE groupType[g]]
  /\ groupHome' = [g \in GroupIds |->
       IF groupHome[g] = b THEN None ELSE groupHome[g]]
  /\ DropRows({m \in MemberIds : home[m] = b})
  /\ UNCHANGED <<mode, lastMember, lastGroup, txns>>

\* Ids last + 1, last + 2, ... for the rows of S, in the order of S.
Copies(last, max, S) ==
  {f \in [last + 1 .. last + Cardinality(S) -> S] :
     /\ last + Cardinality(S) <= max
     /\ \A i, j \in DOMAIN f : i < j => f[i] < f[j]
     /\ \A x \in S : \E i \in DOMAIN f : f[i] = x}

\* Build.new, create_build and clone_modpack copy a build of any modpack:
\* memberships, groups, and the items of both (clone_build).  All reads come
\* from one snapshot and all writes are new rows.
CloneBuild(w, source, b) ==
  LET rows == {m \in MemberIds : home[m] = source}
      menus == {g \in GroupIds :
                  groupHome[g] = source /\ groupType[g] # "deleted"}
  IN
  /\ txns[w] = Idle
  /\ status[source] = "live"
  /\ status[b] = "absent"
  /\ status' = [status EXCEPT ![b] = "live"]
  /\ \E f \in Copies(lastMember, MaxMembers, rows),
        h \in Copies(lastGroup, MaxGroups, menus) :
       LET new == DOMAIN f IN
       /\ lastMember' = lastMember + Cardinality(rows)
       /\ home' = [m \in MemberIds |-> IF m \in new THEN b ELSE home[m]]
       /\ mod' = [m \in MemberIds |-> IF m \in new THEN mod[f[m]] ELSE mod[m]]
       /\ optional' = [m \in MemberIds |->
            IF m \in new THEN optional[f[m]] ELSE optional[m]]
       /\ listing' = [m \in MemberIds |->
            IF m \notin new THEN listing[m]
            ELSE IF listing[f[m]] \in menus
              THEN CHOOSE g \in DOMAIN h : h[g] = listing[f[m]]
            ELSE IF listing[f[m]] = Ungrouped THEN Ungrouped
            ELSE Unlisted]
       /\ selected' = [m \in MemberIds |->
            IF m \notin new THEN selected[m]
            ELSE IF listing[f[m]] \in menus THEN selected[f[m]]
            ELSE 0]
       /\ lastGroup' = lastGroup + Cardinality(menus)
       /\ groupHome' = [g \in GroupIds |->
            IF g \in DOMAIN h THEN b ELSE groupHome[g]]
       /\ groupType' = [g \in GroupIds |->
            IF g \in DOMAIN h THEN groupType[h[g]] ELSE groupType[g]]
  /\ UNCHANGED <<mode, txns>>

-----------------------------------------------------------------------------
(* Transactions that read first                                            *)

Begin(w, call) ==
  /\ txns[w] = Idle
  /\ txns' = [txns EXCEPT ![w] = call]
  /\ UNCHANGED <<mode, status, members, items, groups>>

Committed(w) == txns' = [txns EXCEPT ![w] = Idle]

\* A slip: the switch to Basic does not look for excluded memberships.
OpenBasicUnchecked(w, p) ==
  Begin(w, [op |-> "basic", pack |-> p])

\* set_modpack_mode(BASIC) counts the excluded memberships of the modpack.
OpenBasic(w, p) ==
  /\ \A m \in MemberIds :
       Row(m) /\ PackOf[home[m]] = p => optional[m] # EXCLUDED
  /\ Begin(w, [op |-> "basic", pack |-> p])

CommitBasic(w) ==
  /\ txns[w].op = "basic"
  /\ mode' = [mode EXCEPT ![txns[w].pack] = "BASIC"]
  /\ Committed(w)
  /\ UNCHANGED <<status, members, items, groups>>

\* delete_group collects the memberships of the group.
OpenDeleteGroup(w, g) ==
  /\ Live(g)
  /\ Begin(w, [op |-> "delete_group", group |-> g, snap |-> Snapshot])

\* Their excluded states become optional, the items of the group are
\* ungrouped and the group goes, unless another request deleted it before.
CommitDeleteGroup(w) ==
  LET t == txns[w]
      g == t.group
  IN
  /\ t.op = "delete_group"
  /\ IF groupType[g] = "deleted"
       THEN UNCHANGED <<optional, items, groupHome, groupType>>
       ELSE /\ optional' = [m \in MemberIds |->
                 IF t.snap.listing[m] = g /\ optional[m] = EXCLUDED
                   THEN OPTIONAL ELSE optional[m]]
            /\ listing' = [m \in MemberIds |->
                 IF listing[m] = g THEN Ungrouped ELSE listing[m]]
            /\ selected' = [m \in MemberIds |->
                 IF listing[m] = g THEN 0 ELSE selected[m]]
            /\ groupHome' = [groupHome EXCEPT ![g] = None]
            /\ groupType' = [groupType EXCEPT ![g] = "deleted"]
  /\ Committed(w)
  /\ UNCHANGED <<mode, status, lastMember, home, mod, lastGroup>>

\* A slip: the group may be of another build.
OpenSaveAnyBuild(w, m, g, o, d) ==
  /\ Row(m)
  /\ mode[PackOf[home[m]]] = "ADVANCED"
  /\ Live(g)
  /\ mod[m] \notin Loaders
  /\ Begin(w, [op |-> "save", member |-> m, group |-> g, optional |-> o,
               default |-> d, snap |-> Snapshot])

\* The route requires Advanced mode; save_membership reads the group and the
\* membership, both of the same build, and refuses loader packages.
OpenSave(w, m, g, o, d) ==
  /\ Row(m)
  /\ mode[PackOf[home[m]]] = "ADVANCED"
  /\ Live(g)
  /\ groupHome[g] = home[m]
  /\ mod[m] \notin Loaders
  /\ Begin(w, [op |-> "save", member |-> m, group |-> g, optional |-> o,
               default |-> d, snap |-> Snapshot])

\* save_membership: a new default clears the others, the item is inserted or
\* replaced, and the group and the one the membership left are normalized.
\* An item that already is as asked counts as written when its sort_order,
\* which the model leaves out, changes.
CommitSave(w) ==
  LET t == txns[w]
      m == t.member
      g == t.group
      s == t.snap
      clears == s.groupType[g] = "SINGLE" /\ t.default = 1
      lst == [listing EXCEPT ![m] = g]
      sel == [n \in MemberIds |->
                IF n = m THEN t.default
                ELSE IF clears /\ listing[n] = g THEN 0
                ELSE selected[n]]
  IN
  /\ t.op = "save"
  /\ listing' = lst
  /\ \E own \in {Written(lst, sel), Written(lst, sel) \cup {m}} :
     \E sel2 \in Normalized(s, own, lst, sel, g) :
       /\ clears => m \in own
       /\ IF s.listing[m] = g
            THEN selected' = sel2
            ELSE selected' \in Normalized(s, own \cup Written(lst, sel2), lst,
                                          sel2, s.listing[m])
  /\ optional' = [optional EXCEPT ![m] =
       IF home[m] = None THEN @ ELSE t.optional]
  /\ Committed(w)
  /\ UNCHANGED <<mode, status, lastMember, home, mod, groups>>

\* save_membership without a group is remove_membership: the item stays
\* listed without a group.
OpenUngroup(w, m, o) ==
  /\ Row(m)
  /\ mode[PackOf[home[m]]] = "ADVANCED"
  /\ o # EXCLUDED
  /\ Begin(w, [op |-> "ungroup", member |-> m, optional |-> o,
               snap |-> Snapshot])

\* MySQL counts the rows an UPDATE changed: the membership is gone, or its
\* state is the one asked for.
UngroupRefused(t) == home[t.member] = None \/ optional[t.member] = t.optional

\* "The build mod no longer exists.": everything is rolled back.
RefuseUngroup(w) ==
  /\ txns[w].op = "ungroup"
  /\ UngroupRefused(txns[w])
  /\ Committed(w)
  /\ UNCHANGED <<mode, status, members, items, groups>>

CommitUngroup(w) ==
  LET t == txns[w]
      m == t.member
      lst == [listing EXCEPT ![m] = Ungrouped]
      sel == [selected EXCEPT ![m] = 0]
  IN
  /\ t.op = "ungroup"
  /\ ~UngroupRefused(t)
  /\ listing' = lst
  /\ selected' \in
       Normalized(t.snap, Written(lst, sel), lst, sel, t.snap.listing[m])
  /\ optional' = [optional EXCEPT ![m] = t.optional]
  /\ Committed(w)
  /\ UNCHANGED <<mode, status, lastMember, home, mod, groups>>

\* set_listing(listed), also after a mod was added with the checkbox.
List(w, m) ==
  /\ txns[w] = Idle
  /\ Row(m)
  /\ mode[PackOf[home[m]]] = "ADVANCED"
  /\ mod[m] \notin Loaders
  /\ listing[m] = Unlisted
  /\ listing' = [listing EXCEPT ![m] = Ungrouped]
  /\ UNCHANGED <<mode, status, members, selected, groups, txns>>

OpenUnlist(w, m) ==
  /\ Row(m)
  /\ mode[PackOf[home[m]]] = "ADVANCED"
  /\ Begin(w, [op |-> "unlist", member |-> m, snap |-> Snapshot])

\* set_listing(not listed): a membership that was in a group gets required.
CommitUnlist(w) ==
  LET t == txns[w]
      m == t.member
      lst == [listing EXCEPT ![m] = Unlisted]
      sel == [selected EXCEPT ![m] = 0]
  IN
  /\ t.op = "unlist"
  /\ listing' = lst
  /\ selected' \in
       Normalized(t.snap, Written(lst, sel), lst, sel, t.snap.listing[m])
  /\ optional' = [optional EXCEPT ![m] =
       IF t.snap.listing[m] \in GroupIds THEN REQUIRED ELSE @]
  /\ Committed(w)
  /\ UNCHANGED <<mode, status, lastMember, home, mod, groups>>

\* delete_build_modversion and remove_build_mod take one membership (x is
\* None), delete_modversion and delete_mod those of x in every build.
OpenRemove(w, M, x) ==
  /\ M # {}
  /\ \A m \in M : Row(m)
  /\ Begin(w, [op |-> "remove", members |-> M, mod |-> x, snap |-> Snapshot])

\* The items go, the groups the snapshot has them in are normalized, and the
\* memberships go, those x got in the meantime too.  No two of the memberships
\* are of one build, so their groups differ.
CommitRemove(w) ==
  LET t == txns[w]
      gone == t.members \cup
                {m \in MemberIds : Row(m) /\ t.mod # None /\ mod[m] = t.mod}
      lst == [m \in MemberIds |-> IF m \in gone THEN Unlisted ELSE listing[m]]
      sel == [m \in MemberIds |-> IF m \in gone THEN 0 ELSE selected[m]]
      own == Written(lst, sel)
      left == {t.snap.listing[m] : m \in t.members}
  IN
  /\ t.op = "remove"
  /\ listing' = lst
  /\ \E f \in [left -> UNION {Normalized(t.snap, own, lst, sel, g) : g \in left}] :
       /\ \A g \in left : f[g] \in Normalized(t.snap, own, lst, sel, g)
       /\ selected' = [m \in MemberIds |->
            IF lst[m] \in left THEN f[lst[m]][m] ELSE sel[m]]
  /\ DropRows(gone)
  /\ Committed(w)
  /\ UNCHANGED <<mode, status, lastMember, groups>>

-----------------------------------------------------------------------------
WriteStep(w) ==
  \/ \E b \in Builds, x \in Mods, o \in States : AddMember(w, b, x, o)
  \/ \E m \in MemberIds, o \in States : UpdateOptional(w, m, o)
  \/ \E p \in Packs : SetAdvanced(w, p)
  \/ \E b \in Builds, type \in Types : CreateGroup(w, b, type)
  \/ \E b \in Builds : DeleteBuild(w, b)
  \/ \E source, b \in Builds : CloneBuild(w, source, b)
  \/ \E m \in MemberIds : List(w, m)

OpenStep(w) ==
  \/ \E p \in Packs : OpenBasic(w, p)
  \/ \E g \in GroupIds : OpenDeleteGroup(w, g)
  \/ \E m \in MemberIds, g \in GroupIds, o \in States, d \in 0 .. 1 :
       OpenSave(w, m, g, o, d)
  \/ \E m \in MemberIds, o \in States : OpenUngroup(w, m, o)
  \/ \E m \in MemberIds : OpenUnlist(w, m) \/ OpenRemove(w, {m}, None)
  \/ \E x \in Mods :
       OpenRemove(w, {m \in MemberIds : Row(m) /\ mod[m] = x}, x)

CommitStep(w) ==
  \/ CommitBasic(w) \/ CommitDeleteGroup(w) \/ CommitSave(w)
  \/ RefuseUngroup(w) \/ CommitUngroup(w) \/ CommitUnlist(w) \/ CommitRemove(w)

Next == \E w \in Workers : WriteStep(w) \/ OpenStep(w) \/ CommitStep(w)

Spec == Init /\ [][Next]_vars

-----------------------------------------------------------------------------
\* The columns have their values, and a missing row holds nothing.
TypeOK ==
  /\ mode \in [Packs -> {"BASIC", "ADVANCED"}]
  /\ status \in [Builds -> {"absent", "live", "deleted"}]
  /\ lastMember \in 0 .. MaxMembers
  /\ home \in [MemberIds -> Builds \cup {None}]
  /\ mod \in [MemberIds -> Mods \cup {None}]
  /\ optional \in [MemberIds -> {REQUIRED, OPTIONAL, EXCLUDED}]
  /\ listing \in [MemberIds -> GroupIds \cup {Unlisted, Ungrouped}]
  /\ selected \in [MemberIds -> {0, 1}]
  /\ lastGroup \in 0 .. MaxGroups
  /\ groupHome \in [GroupIds -> Builds \cup {None}]
  /\ groupType \in [GroupIds -> {"none", "SINGLE", "MULTIPLE", "deleted"}]
  /\ \A m \in MemberIds : ~Row(m) => mod[m] = None /\ optional[m] = REQUIRED

\* No two defaults in a SINGLE group, however the transactions of concurrent
\* requests interleave: normalize_group may decide on a stale snapshot, but its
\* UPDATE writes every row the group has by then.
AtMostOneDefault ==
  \A g \in GroupIds : groupType[g] = "SINGLE" =>
    \A m, n \in MemberIds :
      /\ listing[m] = g /\ selected[m] = 1
      /\ listing[n] = g /\ selected[n] = 1
      => m = n

\* "An exact-one group always retains one default choice"
\* (docs/management-guide.md): a SINGLE group with choices has a default.  It
\* holds when requests run one after another; concurrent ones break it, each
\* keeping for default a row the other takes away.
SomeDefault ==
  \A g \in GroupIds : groupType[g] = "SINGLE" =>
    \A m \in MemberIds : listing[m] = g =>
      \E n \in MemberIds : listing[n] = g /\ selected[n] = 1

\* No item outlives its membership or its group, and a group holds items of
\* its own build only: there are no foreign keys, so every delete, every
\* move between groups and the clone has to keep this.
ItemsBelong ==
  /\ \A m \in MemberIds :
       /\ listing[m] # Unlisted => Row(m)
       /\ listing[m] \in GroupIds =>
            Live(listing[m]) /\ groupHome[listing[m]] = home[m]
       /\ Row(m) => status[home[m]] = "live"
  /\ \A g \in GroupIds : Live(g) => status[groupHome[g]] = "live"

\* "An excluded entry must belong to a group so it cannot silently become
\* unreachable" (docs/management-guide.md), whatever deletes the group, lists,
\* unlists or clones.
ExcludedInGroup ==
  \A m \in MemberIds : Row(m) /\ optional[m] = EXCLUDED =>
    listing[m] \in GroupIds /\ Live(listing[m])

\* No excluded membership in a Basic modpack, where groups are ignored and it
\* would be in no manifest at all.  It holds serially, for builds of one
\* modpack: a build cloned into another modpack brings its excluded entries.
BasicHasNoExcluded ==
  \A m \in MemberIds : Row(m) /\ optional[m] = EXCLUDED =>
    mode[PackOf[home[m]]] = "ADVANCED"

\* The two together: what is excluded can still be chosen by a player.
ExcludedReachable == ExcludedInGroup /\ BasicHasNoExcluded

\* remove_membership answers "The build mod no longer exists." only of a
\* membership that is gone.  (It says so of any whose state does not change.)
UngroupTellsTruth ==
  [][\A w \in Workers : RefuseUngroup(w) => ~Row(txns[w].member)]_vars
=============================================================================
