----------------------------- MODULE AccessProofs -----------------------------
(***************************************************************************)
(* The rows of users, sessions and failed logins keep what TypeOK says of  *)
(* them, a user never has two sessions, a stored hash is always one of the *)
(* password that was set last, and the throttle bounds the guesses: for    *)
(* every number of workers, users, names and addresses.                    *)
(***************************************************************************)
EXTENDS Access, FiniteSetTheorems, SequenceTheorems, TLAPS

Gone == [row |-> "gone"]
LiveRows == [row : {"live"}, name : Names, scheme : {"blake2", "argon2"},
             pw : Passwords, perms : {"full", "none"}]
UserRows == {NoUser, Gone} \cup LiveRows
AttemptRows == [count : Nat, first : Nat, blocked : Nat]
SessionRows == [token : Nat, user : Uids, expiry : Nat]

Requests ==
  [pc : {"idle", "setup"}]
  \cup [pc : {"asked"}, name : Names, pw : Passwords, ip : Addresses]
  \cup [pc : {"counting"}, name : Names, ip : Addresses, at : Nat]
  \cup [pc : {"proved", "cleared"}, name : Names]
  \cup [pc : {"matched"}, name : Names, user : Uids, pw : Passwords]
  \cup [pc : {"found"}, token : Nat, user : Uids, same : {"yes", "no"}]
  \cup [pc : {"in", "may"}, token : Nat, user : Uids]

\* The workers that serve a request: each has counted in made.
Busy == {w \in Workers : req[w].pc # "idle"}

Shapes ==
  /\ sessions \subseteq SessionRows
  /\ req \in [Workers -> Requests]
  /\ tokens \subseteq Uids
  /\ cleaner \in {"runs", "ended"}
  /\ now \in 0..MaxNow
  /\ made \in 0..MaxRequests

\* Ids are handed out in order.
InOrder == \A u, v \in Uids : u < v /\ users[u] = NoUser => users[v] = NoUser

\* A failure is counted in the tick in which its time was read, or the next.
Counting ==
  \A w \in Workers : req[w].pc = "counting" => req[w].at \in {now - 1, now}

\* users.id is AUTO_INCREMENT, and no hash is of a password but the last.
UsersOK ==
  /\ users \in [Uids -> UserRows]
  /\ chosen \in [Uids -> Passwords]
  /\ InOrder
  /\ HashIsCurrent

SessionsOK ==
  /\ sessions \subseteq SessionRows
  /\ OneSessionPerUser
  /\ \A s \in sessions : s.expiry <= now + IDLE

AttemptsOK ==
  /\ attempts \in [Keys -> AttemptRows]
  /\ \A k \in Keys : /\ attempts[k].blocked <= now + BLOCK
                     /\ attempts[k].blocked > 0 => attempts[k].count >= Limit[k]

IInv ==
  /\ Shapes
  /\ UsersOK
  /\ SessionsOK
  /\ AttemptsOK
  /\ Counting
  /\ Cardinality(Busy) <= made

LEMMA InvGivesTypes == IInv => TypeOK
BY DEF IInv, Shapes, UsersOK, SessionsOK, AttemptsOK, InOrder, TypeOK, UserRows,
       LiveRows, AttemptRows, SessionRows, Gone, Keys

-----------------------------------------------------------------------------
(* Requests                                                                *)

\* What a request holds, by its place in the handler.
LEMMA Fields ==
  ASSUME NEW r \in Requests
  PROVE  /\ r.pc = "asked" =>
              r.name \in Names /\ r.pw \in Passwords /\ r.ip \in Addresses
         /\ r.pc = "counting" =>
              r.name \in Names /\ r.ip \in Addresses /\ r.at \in Nat
         /\ r.pc \in {"proved", "cleared"} => r.name \in Names
         /\ r.pc = "matched" =>
              r.name \in Names /\ r.user \in Uids /\ r.pw \in Passwords
         /\ r.pc = "found" =>
              r.token \in Nat /\ r.user \in Uids /\ r.same \in {"yes", "no"}
         /\ r.pc \in {"in", "may"} => r.token \in Nat /\ r.user \in Uids
         /\ "token" \in DOMAIN r => r.pc # "idle" /\ r.pc # "cleared"
BY DEF Requests

\* The requests a handler may hold.
LEMMA Forms ==
  /\ Idle \in Requests
  /\ [pc |-> "setup"] \in Requests
  /\ \A n \in Names :
       /\ [pc |-> "proved", name |-> n] \in Requests
       /\ [pc |-> "cleared", name |-> n] \in Requests
       /\ \A p \in Passwords, u \in Uids :
            [pc |-> "matched", name |-> n, user |-> u, pw |-> p] \in Requests
       /\ \A a \in Addresses :
            /\ \A p \in Passwords :
                 [pc |-> "asked", name |-> n, pw |-> p, ip |-> a] \in Requests
            /\ \A t \in Nat :
                 [pc |-> "counting", name |-> n, ip |-> a, at |-> t] \in Requests
  /\ \A k \in Nat, u \in Uids :
       /\ [pc |-> "in", token |-> k, user |-> u] \in Requests
       /\ [pc |-> "may", token |-> k, user |-> u] \in Requests
       /\ \A same \in {"yes", "no"} :
            [pc |-> "found", token |-> k, user |-> u, same |-> same] \in Requests
BY DEF Requests, Idle

\* A step of a request goes on with it, or begins it, which counts.
Continues(w) ==
  \E r \in Requests :
    /\ Request(w, r)
    /\ \/ made' = made /\ req[w].pc # "idle"
       \/ made' = made + 1 /\ made < MaxRequests

LEMMA RequestsStay ==
  ASSUME Shapes, NEW w \in Workers, Step(w)
  PROVE  Continues(w)
<1> USE Forms
<1>0. req[w] \in Requests
  BY DEF Shapes
<1>1. CASE OpenSetup(w)
  BY <1>1 DEF OpenSetup, Begins, Continues
<1>2. CASE \/ CreateFirst(w) \/ StartSession(w) \/ LoginBreaks(w)
           \/ CountFailure(w) \/ LoseFailure(w) \/ Logout(w)
  BY <1>2 DEF CreateFirst, StartSession, LoginBreaks, CountFailure,
              LoseFailure, Logout, Ends, Continues, history
<1>3. ASSUME NEW n \in Names, NEW p \in Passwords, NEW a \in Addresses,
             AskLogin(w, n, p, a)
      PROVE  Continues(w)
  BY <1>3 DEF AskLogin, Begins, Continues
<1>4. CASE CheckPassword(w)
  <2>1. /\ req[w].pc = "asked" /\ made' = made
        /\ req[w].name \in Names /\ req[w].pw \in Passwords /\ req[w].ip \in Addresses
    BY <1>0, <1>4, Fields DEF CheckPassword, history
  <2>2. now \in Nat
    BY DEF Shapes
  <2>3. \E r \in Requests : Request(w, r)
    <3>1. CASE Request(w, [pc |-> "counting", name |-> req[w].name,
                           ip |-> req[w].ip, at |-> now])
      BY <2>1, <2>2, <3>1
    <3>2. ASSUME NEW u \in Uids,
                 \/ Request(w, [pc |-> "proved", name |-> req[w].name])
                 \/ Request(w, [pc |-> "matched", name |-> req[w].name,
                                user |-> u, pw |-> req[w].pw])
          PROVE  \E r \in Requests : Request(w, r)
      BY <2>1, <3>2
    <3>3. QED
      BY <1>4, <3>1, <3>2 DEF CheckPassword, Found
  <2>4. QED
    BY <2>1, <2>3 DEF Continues
<1>5. CASE UpgradeHash(w) \/ ClearFailures(w)
  BY <1>0, <1>5, Fields DEF UpgradeHash, ClearFailures, Continues, history
<1>6. ASSUME NEW s \in sessions, NEW same \in {"yes", "no"},
             FindSession(w, s, same)
      PROVE  Continues(w)
  <2>1. s.token \in Nat /\ s.user \in Uids
    BY DEF Shapes, SessionRows
  <2>2. QED
    BY <1>6, <2>1 DEF FindSession, Begins, Continues
<1>7. CASE Touch(w) \/ AskPermission(w)
  BY <1>0, <1>7, Fields DEF Touch, AskPermission, Ends, Continues, history
<1>8. CASE \/ AddUser(w) \/ DeleteUser(w) \/ ChangePassword(w)
           \/ SetPermissions(w) \/ CreateToken(w) \/ DeleteToken(w)
  BY <1>0, <1>8 DEF AddUser, DeleteUser, ChangePassword, SetPermissions,
       CreateToken, DeleteToken, Edit, Ends, Continues
<1>9. QED
  BY <1>1, <1>2, <1>3, <1>4, <1>5, <1>6, <1>7, <1>8 DEF Step

\* Every request under way has counted.
LEMMA BusyStays ==
  ASSUME Shapes, Cardinality(Busy) <= made, NEW w \in Workers, Continues(w)
  PROVE  Cardinality(Busy') <= made'
<1>1. IsFiniteSet(Busy) /\ IsFiniteSet(Busy')
  BY AccessAssumption, FS_Subset DEF Busy
<1>2. Cardinality(Busy) \in Nat /\ Cardinality(Busy') \in Nat /\ made \in Nat
  BY <1>1, FS_CardinalityType DEF Shapes
<1>3. Busy' \subseteq Busy \cup {w}
  BY DEF Busy, Continues, Request, Shapes
<1>4. CASE made' = made /\ req[w].pc # "idle"
  <2>1. Busy \cup {w} = Busy
    BY <1>4 DEF Busy
  <2>2. Busy' \in SUBSET Busy
    BY <1>3, <2>1
  <2>3. Cardinality(Busy') <= Cardinality(Busy)
    BY <1>1, <2>2, FS_Subset
  <2>4. QED
    BY <1>2, <1>4, <2>3
<1>5. CASE made' = made + 1
  <2>1. /\ IsFiniteSet(Busy \cup {w})
        /\ Cardinality(Busy \cup {w}) = IF w \in Busy THEN Cardinality(Busy)
                                                    ELSE Cardinality(Busy) + 1
    BY <1>1, FS_AddElement
  <2>2. Cardinality(Busy') <= Cardinality(Busy \cup {w})
    <3>1. Busy' \in SUBSET (Busy \cup {w})
      BY <1>3
    <3>2. QED
      BY <2>1, <3>1, FS_Subset
  <2>3. Cardinality(Busy \cup {w}) \in Nat
    BY <2>1, FS_CardinalityType
  <2>4. QED
    BY <1>2, <1>5, <2>1, <2>2, <2>3
<1>6. QED
  BY <1>4, <1>5 DEF Continues

-----------------------------------------------------------------------------
(* Users                                                                   *)

LEMMA UserForms ==
  /\ \A n \in Names, p \in Passwords, perms \in {"full", "none"} :
       Row(n, p, perms) \in LiveRows
  /\ \A r \in LiveRows :
       /\ r.row = "live" /\ r.name \in Names /\ r.pw \in Passwords
       /\ r.perms \in {"full", "none"} /\ r.scheme \in {"blake2", "argon2"}
       /\ \A perms \in {"full", "none"} : [r EXCEPT !.perms = perms] \in LiveRows
       /\ \A perms : [r EXCEPT !.perms = perms].pw = r.pw
       /\ \A perms : [r EXCEPT !.perms = perms].row = "live"
  /\ \A r \in UserRows : /\ r.row = "live" <=> r \in LiveRows
                         /\ r.row = "free" <=> r = NoUser
  /\ NoUser \notin LiveRows /\ Gone \notin LiveRows /\ Gone # NoUser
BY DEF Row, LiveRows, UserRows, NoUser, Gone

\* A row that replaces a live or the first free one, of the password chosen.
LEMMA RowReplaced ==
  ASSUME UsersOK, NEW u \in Uids, NEW r \in UserRows, r # NoUser,
         \A v \in Uids : v < u => users[v] # NoUser,
         users' = [users EXCEPT ![u] = r],
         NEW p \in Passwords, chosen' = [chosen EXCEPT ![u] = p],
         r \in LiveRows => r.pw = p
  PROVE  UsersOK'
<1>1. users' \in [Uids -> UserRows] /\ chosen' \in [Uids -> Passwords]
  BY UserForms DEF UsersOK
<1>2. InOrder'
  BY DEF UsersOK, InOrder, Uids
<1>3. HashIsCurrent'
  BY UserForms DEF UsersOK, HashIsCurrent, Live
<1>4. QED
  BY <1>1, <1>2, <1>3 DEF UsersOK

\* The same of a row whose password stays, or that has none.
LEMMA RowChanged ==
  ASSUME UsersOK, NEW u \in Uids, NEW r \in UserRows, r # NoUser, Live(u),
         users' = [users EXCEPT ![u] = r], chosen' = chosen,
         r \in LiveRows => r.pw = users[u].pw
  PROVE  UsersOK'
<1>1. \A v \in Uids : v < u => users[v] # NoUser
  BY UserForms DEF UsersOK, InOrder, Live
<1>2. chosen[u] \in Passwords /\ chosen' = [chosen EXCEPT ![u] = chosen[u]]
  BY DEF UsersOK
<1>3. r \in LiveRows => r.pw = chosen[u]
  BY DEF UsersOK, HashIsCurrent
<1>4. QED
  BY <1>1, <1>2, <1>3, RowReplaced

\* Rows below a live one are not free.
LEMMA BelowLive ==
  ASSUME UsersOK, NEW u \in Uids, Live(u)
  PROVE  \A v \in Uids : v < u => users[v] # NoUser
BY UserForms DEF UsersOK, InOrder, Live

LEMMA NewUserKeeps ==
  ASSUME UsersOK, NEW n \in Names, NEW p \in Passwords,
         NEW perms \in {"full", "none"}, NewUser(n, p, perms)
  PROVE  UsersOK'
<1>. DEFINE row == Row(n, p, perms)
<1>1. PICK u \in Uids :
        /\ \A v \in Uids : users[v].row = "free" => u <= v
        /\ users' = [users EXCEPT ![u] = row]
        /\ chosen' = [chosen EXCEPT ![u] = p]
  BY DEF NewUser
<1>2. \A v \in Uids : v < u => users[v] # NoUser
  BY <1>1 DEF NoUser, Uids
<1>3. row \in LiveRows /\ row.pw = p
  BY UserForms DEF Row
<1>. HIDE DEF row
<1>4. row \in UserRows /\ row # NoUser
  BY <1>3, UserForms DEF UserRows
<1>5. QED
  BY <1>1, <1>2, <1>3, <1>4, RowReplaced

\* The upgrade of a hash keeps the password: it looks for the hash that was
\* verified, and writes nothing otherwise.
LEMMA UpgradeKeeps ==
  ASSUME UsersOK, NEW w \in Workers, req[w] \in Requests, UpgradeHash(w)
  PROVE  UsersOK'
<1>1. CASE users' = users
  BY <1>1 DEF UpgradeHash, history, UsersOK, InOrder, HashIsCurrent, Live
<1>2. CASE users' # users
  <2>. DEFINE r == req[w]
              row == Row(users[r.user].name, r.pw, users[r.user].perms)
  <2>1. r.user \in Uids /\ r.pw \in Passwords
    BY Fields DEF UpgradeHash
  <2>2. /\ Live(r.user) /\ users[r.user].pw = r.pw
        /\ users' = [users EXCEPT ![r.user] = row]
        /\ chosen' = chosen
    BY <1>2 DEF UpgradeHash, history
  <2>3. users[r.user] \in LiveRows
    BY <2>1, <2>2, UserForms DEF UsersOK, Live
  <2>4. row \in LiveRows /\ row.pw = users[r.user].pw
    BY <2>1, <2>2, <2>3, UserForms DEF Row
  <2>. HIDE DEF row
  <2>5. row \in UserRows /\ row # NoUser
    BY <2>4, UserForms DEF UserRows
  <2>6. QED
    BY <2>1, <2>2, <2>4, <2>5, RowChanged
<1>3. QED
  BY <1>1, <1>2

LEMMA EditKeeps ==
  ASSUME UsersOK, NEW w \in Workers, req[w] \in Requests,
         DeleteUser(w) \/ ChangePassword(w) \/ SetPermissions(w)
  PROVE  UsersOK'
<1>1. CASE DeleteUser(w)
  <2>1. PICK u \in Uids : Live(u) /\ users' = [users EXCEPT ![u] = Gone]
                          /\ chosen' = chosen
    BY <1>1 DEF DeleteUser, Gone
  <2>2. Gone \in UserRows /\ Gone # NoUser /\ Gone \notin LiveRows
    BY UserForms DEF UserRows
  <2>3. QED
    BY <2>1, <2>2, RowChanged
<1>2. CASE ChangePassword(w)
  <2>1. PICK u \in Uids, p \in Passwords :
          /\ Live(u)
          /\ users' = [users EXCEPT ![u] = Row(users[u].name, p, users[u].perms)]
          /\ chosen' = [chosen EXCEPT ![u] = p]
    BY <1>2 DEF ChangePassword
  <2>. DEFINE row == Row(users[u].name, p, users[u].perms)
  <2>2. row \in LiveRows /\ row.pw = p
    BY <2>1, UserForms DEF UsersOK, Live, Row
  <2>3. users' = [users EXCEPT ![u] = row]
    BY <2>1
  <2>. HIDE DEF row
  <2>4. row \in UserRows /\ row # NoUser
    BY <2>2, UserForms DEF UserRows
  <2>5. \A v \in Uids : v < u => users[v] # NoUser
    BY <2>1, UserForms DEF UsersOK, InOrder, Live
  <2>6. QED
    BY <2>1, <2>2, <2>3, <2>4, <2>5, RowReplaced
<1>3. CASE SetPermissions(w)
  <2>1. PICK u \in Uids, perms \in {"full", "none"} :
          Live(u) /\ users' = [users EXCEPT ![u].perms = perms] /\ chosen' = chosen
    BY <1>3 DEF SetPermissions
  <2>2. users[u] \in LiveRows
    BY <2>1, UserForms DEF UsersOK, Live
  <2>. DEFINE row == [users[u] EXCEPT !.perms = perms]
  <2>3. row \in LiveRows /\ row.pw = users[u].pw
        /\ users' = [users EXCEPT ![u] = row]
    BY <2>1, <2>2, UserForms
  <2>. HIDE DEF row
  <2>4. row \in UserRows /\ row # NoUser
    BY <2>3, UserForms DEF UserRows
  <2>5. QED
    BY <2>1, <2>3, <2>4, RowChanged
<1>4. QED
  BY <1>1, <1>2, <1>3

-----------------------------------------------------------------------------
(* Sessions                                                                *)

LEMMA Interval ==
  ASSUME NEW n \in Nat
  PROVE  IsFiniteSet(1..n) /\ Cardinality(1..n) = n
<1>1. /\ IsFiniteSet(1..n)
      /\ Cardinality(1..n) = IF 1 > n THEN 0 ELSE n - 1 + 1
  BY FS_Interval
<1>2. QED
  BY <1>1

\* A function has no more values than arguments.
LEMMA ValuesOf ==
  ASSUME NEW S, IsFiniteSet(S), NEW f, f \in [S -> Nat]
  PROVE  /\ IsFiniteSet({f[x] : x \in S})
         /\ Cardinality({f[x] : x \in S}) <= Cardinality(S)
<1>. DEFINE T == {f[x] : x \in S}
<1>1. f \in Surjection(S, T)
  BY DEF Surjection
<1>. HIDE DEF T
<1>2. IsFiniteSet(T) /\ Cardinality(T) <= Cardinality(S)
  BY <1>1, FS_Surjection
<1>3. QED
  BY <1>2 DEF T

\* The tokens of the sessions are at most as many as the users, ...
LEMMA SessionTokens ==
  ASSUME SessionsOK
  PROVE  \E T : /\ IsFiniteSet(T) /\ Cardinality(T) <= MaxUser
                /\ \A s \in sessions : s.token \in T
<1>. DEFINE U == {u \in Uids : \E s \in sessions : s.user = u}
            the(u) == CHOOSE s \in sessions : s.user = u
            f == [u \in U |-> the(u).token]
            T == {f[u] : u \in U}
<1>1. IsFiniteSet(Uids) /\ Cardinality(Uids) = MaxUser
  BY AccessAssumption, Interval DEF Uids
<1>2. IsFiniteSet(U) /\ Cardinality(U) <= MaxUser
  BY <1>1, FS_Subset
<1>3. \A s \in sessions : s.user \in U /\ the(s.user) = s
  BY DEF SessionsOK, OneSessionPerUser, SessionRows
<1>4. f \in [U -> Nat]
  BY DEF SessionsOK, SessionRows
<1>5. \A s \in sessions : s.token = f[s.user]
  BY <1>3
<1>. HIDE DEF f, U
<1>6. \A s \in sessions : s.token \in T
  BY <1>3, <1>5
<1>7. IsFiniteSet(T) /\ Cardinality(T) <= Cardinality(U)
  BY <1>2, <1>4, ValuesOf
<1>8. Cardinality(T) \in Nat /\ Cardinality(U) \in Nat
  BY <1>2, <1>7, FS_CardinalityType
<1>9. QED
  BY <1>2, <1>6, <1>7, <1>8, AccessAssumption

\* ... and those of the requests fewer than the requests that were made.
LEMMA RequestTokens ==
  ASSUME Shapes, Cardinality(Busy) <= made, NEW w \in Workers,
         req[w].pc = "cleared"
  PROVE  \E T : /\ IsFiniteSet(T) /\ Cardinality(T) < MaxRequests
                /\ \A v \in Workers : "token" \in DOMAIN req[v] => req[v].token \in T
<1>. DEFINE H == {v \in Workers : "token" \in DOMAIN req[v]}
            f == [v \in H |-> req[v].token]
            T == {f[v] : v \in H}
<1>1. \A v \in H : req[v].pc # "idle" /\ req[v].pc # "cleared"
  BY Fields DEF Shapes
<1>2. \A v \in H : req[v].token \in Nat
  <2>. SUFFICES ASSUME NEW v \in H PROVE req[v].token \in Nat
    OBVIOUS
  <2>1. req[v] \in Requests
    BY DEF Shapes
  <2>2. QED
    BY <2>1 DEF Requests
<1>3. f \in [H -> Nat]
  BY <1>2
<1>4. IsFiniteSet(Busy)
  BY AccessAssumption, FS_Subset DEF Busy
<1>5. IsFiniteSet(Busy \ {w}) /\ Cardinality(Busy \ {w}) = Cardinality(Busy) - 1
  BY <1>4, FS_RemoveElement DEF Busy
<1>6. H \in SUBSET (Busy \ {w})
  BY <1>1 DEF Busy
<1>7. IsFiniteSet(H) /\ Cardinality(H) <= Cardinality(Busy \ {w})
  BY <1>5, <1>6, FS_Subset
<1>8. \A v \in H : f[v] \in T
  OBVIOUS
<1>9. \A v \in H : f[v] = req[v].token
  OBVIOUS
<1>. HIDE DEF f
<1>10. IsFiniteSet(T) /\ Cardinality(T) <= Cardinality(H)
  BY <1>3, <1>7, ValuesOf
<1>11. /\ Cardinality(T) \in Nat /\ Cardinality(H) \in Nat
       /\ Cardinality(Busy) \in Nat /\ made \in Nat /\ made <= MaxRequests
  BY <1>4, <1>7, <1>10, FS_CardinalityType, AccessAssumption DEF Shapes
<1>12. Cardinality(T) < MaxRequests
  BY <1>5, <1>7, <1>10, <1>11, AccessAssumption
<1>13. QED
  BY <1>8, <1>9, <1>10, <1>12

\* So there is a token left.
LEMMA FreshIsFree ==
  ASSUME Shapes, SessionsOK, Cardinality(Busy) <= made, NEW w \in Workers,
         req[w].pc = "cleared"
  PROVE  FreshToken \in Nat
<1>1. PICK S : /\ IsFiniteSet(S) /\ Cardinality(S) <= MaxUser
               /\ \A s \in sessions : s.token \in S
  BY SessionTokens
<1>2. PICK R : /\ IsFiniteSet(R) /\ Cardinality(R) < MaxRequests
               /\ \A v \in Workers : "token" \in DOMAIN req[v] => req[v].token \in R
  BY RequestTokens
<1>. DEFINE K == 1..(MaxUser + MaxRequests)
<1>3. IsFiniteSet(K) /\ Cardinality(K) = MaxUser + MaxRequests
  <2>1. MaxUser + MaxRequests \in Nat
    BY AccessAssumption
  <2>2. QED
    BY <2>1, Interval
<1>4. /\ IsFiniteSet(S \cup R)
      /\ Cardinality(S \cup R) = Cardinality(S) + Cardinality(R) - Cardinality(S \cap R)
      /\ IsFiniteSet(S \cap R)
  BY <1>1, <1>2, FS_Union, FS_Intersection
<1>5. /\ Cardinality(S \cup R) \in Nat /\ Cardinality(S \cap R) \in Nat
      /\ Cardinality(S) \in Nat /\ Cardinality(R) \in Nat
  BY <1>1, <1>2, <1>4, FS_CardinalityType
<1>6. Cardinality(S \cup R) < Cardinality(K)
  BY <1>1, <1>2, <1>3, <1>4, <1>5, AccessAssumption
<1>7. ~ (K \subseteq S \cup R)
  <2>. SUFFICES ASSUME K \in SUBSET (S \cup R) PROVE FALSE
    OBVIOUS
  <2>1. Cardinality(K) <= Cardinality(S \cup R)
    BY <1>4, FS_Subset
  <2>2. QED
    BY <1>3, <1>5, <1>6, <2>1, AccessAssumption
<1>8. PICK k \in K : k \notin S \cup R
  BY <1>7
<1>9. /\ \A s \in sessions : s.token # k
      /\ \A v \in Workers : "token" \in DOMAIN req[v] => req[v].token # k
  BY <1>1, <1>2, <1>8
<1>10. FreshToken \in K
  BY <1>9 DEF FreshToken
<1>11. QED
  BY <1>10, AccessAssumption

LEMMA SessionsStay ==
  ASSUME Shapes, SessionsOK, Cardinality(Busy) <= made, NEW w \in Workers,
         StartSession(w) \/ Touch(w) \/ Logout(w)
  PROVE  SessionsOK'
<1>0. now \in Nat /\ IDLE \in Nat /\ now' = now /\ req[w] \in Requests
  BY AccessAssumption DEF Shapes, StartSession, Touch, Logout
<1>1. CASE StartSession(w)
  <2>1. PICK u \in Uids :
          sessions' = {s \in sessions : s.user # u} \cup
            {[token |-> FreshToken, user |-> u, expiry |-> now + IDLE]}
    BY <1>1 DEF StartSession, Found
  <2>2. FreshToken \in Nat
    BY <1>1, FreshIsFree DEF StartSession
  <2>. DEFINE new == [token |-> FreshToken, user |-> u, expiry |-> now + IDLE]
  <2>3. new \in SessionRows /\ new.user = u /\ new.expiry = now + IDLE
    BY <1>0, <2>2 DEF SessionRows
  <2>. HIDE DEF new
  <2>4. \A s \in sessions' : s = new \/ (s \in sessions /\ s.user # u)
    BY <2>1 DEF new
  <2>5. QED
    BY <1>0, <2>3, <2>4 DEF SessionsOK, OneSessionPerUser
<1>2. CASE Touch(w)
  <2>. DEFINE moved(s) == IF s.token = req[w].token /\ Alive(s)
                            THEN [s EXCEPT !.expiry = now + IDLE] ELSE s
  <2>1. sessions' = {moved(s) : s \in sessions}
    BY <1>2 DEF Touch
  <2>2. \A s \in sessions : /\ moved(s) \in SessionRows /\ moved(s).user = s.user
                            /\ moved(s).expiry <= now + IDLE
    BY <1>0 DEF SessionsOK, SessionRows
  <2>. HIDE DEF moved
  <2>3. \A s \in sessions' : \E t \in sessions : s = moved(t)
    BY <2>1
  <2>4. QED
    BY <1>0, <2>2, <2>3 DEF SessionsOK, OneSessionPerUser
<1>3. CASE Logout(w)
  BY <1>0, <1>3 DEF Logout, Without, SessionsOK, OneSessionPerUser
<1>4. QED
  BY <1>1, <1>2, <1>3

-----------------------------------------------------------------------------
(* Failed logins                                                           *)

LEMMA KeysHaveLimits ==
  /\ \A k \in Keys : Limit[k] \in Nat /\ Limit[k] > 1
  /\ Names \subseteq Keys /\ Addresses \subseteq Keys
  /\ WINDOW \in Nat /\ BLOCK \in Nat /\ WINDOW > 1 /\ WINDOW <= BLOCK
BY AccessAssumption DEF Keys

\* The row after a failure.
LEMMA CountRow ==
  ASSUME NEW row \in AttemptRows, NEW limit \in Nat, limit > 1, NEW at \in Nat
  PROVE  /\ Count(row, limit, at) \in AttemptRows
         /\ Count(row, limit, at).count >= 1
         /\ Count(row, limit, at).blocked \in {0, at + BLOCK}
         /\ Count(row, limit, at).blocked > 0
              <=> Count(row, limit, at).count >= limit
BY KeysHaveLimits DEF Count, AttemptRows

LEMMA AttemptsStay ==
  ASSUME Shapes, AttemptsOK, Counting, NEW w \in Workers,
         CountFailure(w) \/ ClearFailures(w)
  PROVE  AttemptsOK'
<1>0. now \in Nat /\ now' = now /\ req[w] \in Requests
  BY DEF Shapes, CountFailure, ClearFailures
<1>1. CASE ClearFailures(w)
  <2>1. NoRow \in AttemptRows /\ NoRow.blocked = 0
    BY DEF NoRow, AttemptRows
  <2>2. attempts' = [attempts EXCEPT ![req[w].name] = NoRow]
    BY <1>1 DEF ClearFailures
  <2>3. attempts \in [Keys -> AttemptRows]
    BY DEF AttemptsOK
  <2>4. attempts' \in [Keys -> AttemptRows]
    BY <2>1, <2>2, <2>3
  <2>5. \A k \in Keys : attempts'[k] = attempts[k] \/ attempts'[k].blocked = 0
    BY <2>1, <2>2, <2>3
  <2>6. QED
    BY <1>0, <2>4, <2>5, KeysHaveLimits DEF AttemptsOK
<1>2. CASE CountFailure(w)
  <2>1. req[w].at \in Nat /\ req[w].at <= now
    BY <1>0, <1>2, Fields DEF CountFailure, Counting
  <2>2. attempts' = [k \in Keys |-> IF k \in {req[w].name, req[w].ip}
                      THEN Count(attempts[k], Limit[k], req[w].at) ELSE attempts[k]]
    BY <1>2 DEF CountFailure
  <2>3. \A k \in Keys : /\ attempts'[k] \in AttemptRows
                        /\ attempts'[k].blocked <= now + BLOCK
                        /\ attempts'[k].blocked > 0 => attempts'[k].count >= Limit[k]
    <3>1. TAKE k \in Keys
    <3>2. /\ attempts[k] \in AttemptRows /\ attempts[k].blocked <= now + BLOCK
          /\ attempts[k].blocked > 0 => attempts[k].count >= Limit[k]
      BY DEF AttemptsOK
    <3>3. CASE attempts'[k] = attempts[k]
      BY <3>2, <3>3
    <3>4. CASE attempts'[k] = Count(attempts[k], Limit[k], req[w].at)
      <4>1. Limit[k] \in Nat /\ Limit[k] > 1 /\ BLOCK \in Nat
        BY KeysHaveLimits
      <4>2. /\ attempts'[k] \in AttemptRows
            /\ attempts'[k].blocked \in {0, req[w].at + BLOCK}
            /\ attempts'[k].blocked > 0 => attempts'[k].count >= Limit[k]
        BY <2>1, <3>2, <3>4, <4>1, CountRow
      <4>3. QED
        BY <1>0, <2>1, <4>1, <4>2
    <3>5. QED
      BY <2>2, <3>3, <3>4
  <2>4. QED
    BY <1>0, <2>2, <2>3 DEF AttemptsOK
<1>3. QED
  BY <1>1, <1>2

\* A request reads the time of its failure when it begins to count it. Only
\* the clock moves the time, and only retry_after lets a login begin.
Moves(w) ==
  /\ now' = now
  /\ \A v \in Workers \ {w} : req'[v] = req[v]
  /\ req'[w].pc = "counting" =>
       req[w].pc = "asked" /\ req'[w].name = req[w].name /\ req'[w].at = now
  /\ req'[w].pc = "asked" =>
       \E p \in Passwords, a \in Addresses : AskLogin(w, req'[w].name, p, a)

LEMMA StepMoves ==
  ASSUME Shapes, NEW w \in Workers, Step(w)
  PROVE  Moves(w)
<1>0. req \in [Workers -> Requests]
  BY DEF Shapes
<1>. USE <1>0 DEF Request
<1>1. ASSUME OpenSetup(w)
      PROVE  Moves(w)
  BY <1>1 DEF OpenSetup, Begins, Moves
<1>2. ASSUME \/ CreateFirst(w) \/ StartSession(w) \/ LoginBreaks(w)
             \/ CountFailure(w) \/ LoseFailure(w) \/ Logout(w)
      PROVE  Moves(w)
  <2>1. Ends(w) /\ now' = now
    BY <1>2 DEF CreateFirst, StartSession, LoginBreaks, CountFailure,
                LoseFailure, Logout
  <2>2. QED
    BY <2>1 DEF Ends, Idle, Moves
<1>3. ASSUME NEW n \in Names, NEW p \in Passwords, NEW a \in Addresses,
             AskLogin(w, n, p, a)
      PROVE  Moves(w)
  <2>1. /\ now' = now /\ \A v \in Workers \ {w} : req'[v] = req[v]
        /\ req'[w] = [pc |-> "asked", name |-> n, pw |-> p, ip |-> a]
    BY <1>3 DEF AskLogin, Begins
  <2>2. req'[w].name = n /\ req'[w].pc # "counting"
    BY <2>1
  <2>3. QED
    BY <1>3, <2>1, <2>2 DEF Moves
<1>4. ASSUME CheckPassword(w)
      PROVE  Moves(w)
  BY <1>4 DEF CheckPassword, Moves
<1>5. ASSUME UpgradeHash(w) \/ ClearFailures(w)
      PROVE  Moves(w)
  BY <1>5 DEF UpgradeHash, ClearFailures, Moves
<1>6. ASSUME NEW s \in sessions, NEW same \in {"yes", "no"},
             FindSession(w, s, same)
      PROVE  Moves(w)
  BY <1>6 DEF FindSession, Begins, Moves
<1>7. ASSUME Touch(w) \/ AskPermission(w)
      PROVE  Moves(w)
  BY <1>7 DEF Touch, AskPermission, Ends, Idle, Moves
<1>8. ASSUME \/ AddUser(w) \/ DeleteUser(w) \/ ChangePassword(w)
             \/ SetPermissions(w) \/ CreateToken(w) \/ DeleteToken(w)
      PROVE  Moves(w)
  <2>1. Ends(w) /\ now' = now
    BY <1>8 DEF AddUser, DeleteUser, ChangePassword, SetPermissions,
         CreateToken, DeleteToken, Edit
  <2>2. QED
    BY <2>1 DEF Ends, Idle, Moves
<1>9. QED
  BY <1>1, <1>2, <1>3, <1>4, <1>5, <1>6, <1>7, <1>8 DEF Step

LEMMA CountingStays ==
  ASSUME Shapes, Counting, NEW w \in Workers, Step(w)
  PROVE  Counting' /\ now' = now
  BY StepMoves DEF Moves, Counting

-----------------------------------------------------------------------------
(* The invariant is inductive                                              *)

LEMMA Starting == Init => IInv
<1>. SUFFICES ASSUME Init PROVE IInv
  OBVIOUS
<1>0. /\ users \in [Uids -> UserRows] /\ InOrder
      /\ \A u \in Uids : Live(u) => users[u] \in LiveRows
  <2>1. CASE users = [u \in Uids |-> NoUser]
    BY <2>1, UserForms DEF UserRows, InOrder, Live
  <2>2. ASSUME NEW n \in Names,
               users = [u \in Uids |-> IF u = 1
                          THEN [Row(n, CHOOSE p \in Passwords : TRUE, "full")
                                  EXCEPT !.scheme = "blake2"]
                          ELSE NoUser]
        PROVE  /\ users \in [Uids -> UserRows] /\ InOrder
               /\ \A u \in Uids : Live(u) => users[u] \in LiveRows
    <3>. DEFINE p == CHOOSE p \in Passwords : TRUE
                row == [Row(n, p, "full") EXCEPT !.scheme = "blake2"]
    <3>1. p \in Passwords
      BY AccessAssumption
    <3>. HIDE DEF p
    <3>2. row \in LiveRows
      BY <3>1 DEF Row, LiveRows
    <3>3. users = [u \in Uids |-> IF u = 1 THEN row ELSE NoUser]
      BY <2>2 DEF p
    <3>. HIDE DEF row
    <3>4. \A u \in Uids : u \in Nat /\ u >= 1
      BY DEF Uids
    <3>5. QED
      BY <3>2, <3>3, <3>4, UserForms DEF UserRows, InOrder, Live
  <2>3. QED
    BY <2>1, <2>2 DEF Init, CleanInstall, ExistingInstall
<1>1. UsersOK
  <2>1. chosen = [u \in Uids |-> IF users[u].row = "live" THEN users[u].pw
                                ELSE CHOOSE p \in Passwords : TRUE]
    BY DEF Init
  <2>2. (CHOOSE p \in Passwords : TRUE) \in Passwords
    BY AccessAssumption
  <2>3. QED
    BY <1>0, <2>1, <2>2, UserForms DEF UsersOK, HashIsCurrent, Live
<1>2. SessionsOK
  BY DEF Init, SessionsOK, OneSessionPerUser
<1>3. AttemptsOK
  BY KeysHaveLimits DEF Init, AttemptsOK, NoRow, AttemptRows
<1>4. Shapes /\ Counting
  BY AccessAssumption, Forms DEF Init, Shapes, Counting, Idle
<1>5. Cardinality(Busy) <= made
  <2>1. Busy = {}
    BY DEF Init, Busy, Idle
  <2>2. QED
    BY <2>1, FS_EmptySet DEF Init
<1>6. QED
  BY <1>1, <1>2, <1>3, <1>4, <1>5 DEF IInv

LEMMA TickKeeps == IInv /\ Tick => IInv'
<1>. SUFFICES ASSUME IInv, Tick PROVE IInv'
  OBVIOUS
<1>0. /\ now \in Nat /\ now' = now + 1 /\ now < MaxNow /\ MaxNow \in Nat
      /\ IDLE \in Nat /\ BLOCK \in Nat
  BY AccessAssumption, KeysHaveLimits DEF IInv, Shapes, Tick
<1>1. Shapes' /\ UsersOK'
  BY <1>0 DEF IInv, Shapes, UsersOK, InOrder, HashIsCurrent, Live, Tick, store, history
<1>2. SessionsOK'
  BY <1>0 DEF IInv, SessionsOK, SessionRows, OneSessionPerUser, Tick, store
<1>3. AttemptsOK'
  BY <1>0 DEF IInv, AttemptsOK, AttemptRows, Tick, store
<1>4. Counting'
  BY <1>0 DEF IInv, Counting, Tick
<1>5. (Cardinality(Busy) <= made)'
  BY DEF IInv, Busy, Tick, history
<1>6. QED
  BY <1>1, <1>2, <1>3, <1>4, <1>5 DEF IInv

LEMMA CleanerKeeps == IInv /\ (Clean \/ CleanerEnds) => IInv'
<1>. SUFFICES ASSUME IInv, Clean \/ CleanerEnds PROVE IInv'
  OBVIOUS
<1>1. /\ UNCHANGED <<users, attempts, tokens, req, now, history>>
      /\ sessions' \subseteq sessions /\ cleaner' \in {"runs", "ended"}
  BY DEF IInv, Shapes, Clean, CleanerEnds, store
<1>2. Shapes' /\ UsersOK' /\ AttemptsOK' /\ Counting'
  BY <1>1 DEF IInv, Shapes, UsersOK, InOrder, HashIsCurrent, Live, AttemptsOK,
       Counting, history
<1>3. SessionsOK'
  BY <1>1 DEF IInv, SessionsOK, OneSessionPerUser
<1>4. (Cardinality(Busy) <= made)'
  BY <1>1 DEF IInv, Busy, history
<1>5. QED
  BY <1>2, <1>3, <1>4 DEF IInv

\* The rows a step of a request leaves alone.
LEMMA RowsStay ==
  ASSUME NEW w \in Workers, Step(w)
  PROVE  /\ \/ UNCHANGED <<users, chosen>>
            \/ CreateFirst(w) \/ AddUser(w) \/ UpgradeHash(w)
            \/ DeleteUser(w) \/ ChangePassword(w) \/ SetPermissions(w)
         /\ \/ UNCHANGED <<sessions, now>>
            \/ StartSession(w) \/ Touch(w) \/ Logout(w)
         /\ \/ UNCHANGED <<attempts, now>>
            \/ CountFailure(w) \/ ClearFailures(w)
         /\ cleaner' = cleaner
         /\ \/ tokens' = tokens \/ DeleteUser(w) \/ CreateToken(w) \/ DeleteToken(w)
BY DEF Step, OpenSetup, CreateFirst, AskLogin, CheckPassword, UpgradeHash,
       ClearFailures, StartSession, LoginBreaks, CountFailure, LoseFailure,
       FindSession, Touch, Logout, AskPermission, AddUser, DeleteUser,
       ChangePassword, SetPermissions, CreateToken, DeleteToken, Edit, store,
       history

LEMMA StepKeeps ==
  ASSUME IInv, NEW w \in Workers, Step(w)
  PROVE  IInv'
<1>0. Continues(w) /\ req[w] \in Requests
  BY RequestsStay DEF IInv, Shapes
<1>1. UsersOK'
  <2>1. CASE UNCHANGED <<users, chosen>>
    BY <2>1 DEF IInv, UsersOK, InOrder, HashIsCurrent, Live
  <2>2. CASE CreateFirst(w) \/ AddUser(w)
    BY <2>2, NewUserKeeps DEF CreateFirst, AddUser, Perms, IInv
  <2>3. CASE UpgradeHash(w) \/ DeleteUser(w) \/ ChangePassword(w) \/ SetPermissions(w)
    BY <1>0, <2>3, UpgradeKeeps, EditKeeps DEF IInv
  <2>4. QED
    BY <2>1, <2>2, <2>3, RowsStay
<1>2. SessionsOK'
  <2>1. CASE UNCHANGED <<sessions, now>>
    BY <2>1 DEF IInv, SessionsOK, OneSessionPerUser
  <2>2. CASE StartSession(w) \/ Touch(w) \/ Logout(w)
    BY <2>2, SessionsStay DEF IInv
  <2>3. QED
    BY <2>1, <2>2, RowsStay
<1>3. AttemptsOK'
  <2>1. CASE UNCHANGED <<attempts, now>>
    BY <2>1 DEF IInv, AttemptsOK
  <2>2. CASE CountFailure(w) \/ ClearFailures(w)
    BY <2>2, AttemptsStay DEF IInv
  <2>3. QED
    BY <2>1, <2>2, RowsStay
<1>4. Counting' /\ now' = now
  BY CountingStays DEF IInv
<1>5. Shapes'
  <2>1. sessions' \subseteq SessionRows
    BY <1>2 DEF SessionsOK
  <2>2. req' \in [Workers -> Requests] /\ made' \in 0..MaxRequests
    BY <1>0, AccessAssumption DEF IInv, Shapes, Continues, Request
  <2>3. tokens' \subseteq Uids
    <3>1. CASE tokens' = tokens
      BY <3>1 DEF IInv, Shapes
    <3>2. CASE DeleteUser(w) \/ DeleteToken(w)
      BY <3>2 DEF DeleteUser, DeleteToken, IInv, Shapes
    <3>3. CASE CreateToken(w)
      BY <1>0, <3>3, Fields DEF CreateToken, Edit, IInv, Shapes
    <3>4. QED
      BY <3>1, <3>2, <3>3, RowsStay
  <2>4. QED
    BY <1>4, <2>1, <2>2, <2>3, RowsStay DEF IInv, Shapes
<1>6. (Cardinality(Busy) <= made)'
  BY <1>0, BusyStays DEF IInv
<1>7. QED
  BY <1>1, <1>2, <1>3, <1>4, <1>5, <1>6 DEF IInv

LEMMA Inductive == IInv /\ [Next]_vars => IInv'
<1>. SUFFICES ASSUME IInv, [Next]_vars PROVE IInv'
  OBVIOUS
<1>1. CASE UNCHANGED vars
  BY <1>1 DEF vars, IInv, Shapes, UsersOK, SessionsOK, AttemptsOK, Counting, Busy,
       InOrder, HashIsCurrent, Live, OneSessionPerUser
<1>2. CASE Next
  BY <1>2, TickKeeps, CleanerKeeps, StepKeeps DEF Next
<1>3. QED
  BY <1>1, <1>2

LEMMA Invariant == Spec => []IInv
<1>1. Init => IInv
  BY Starting
<1>2. IInv /\ [Next]_vars => IInv'
  BY Inductive
<1>3. QED
  BY <1>1, <1>2, PTL DEF Spec

\* The rows of users, sessions, failed logins and access tokens have the form
\* the handlers expect: ids are handed out in order, expiries lie at most the
\* idle time ahead, and there is no block without its failures.
THEOREM TypeCorrect == Spec => []TypeOK
  BY Invariant, InvGivesTypes, PTL

\* A user has at most one session, however logins, requests and the cleaner
\* overlap: Session.new_session deletes the others in its transaction.
THEOREM OneSession == Spec => []OneSessionPerUser
<1>1. IInv => OneSessionPerUser
  BY DEF IInv, SessionsOK
<1>2. QED
  BY <1>1, Invariant, PTL

\* A stored hash is one of the password set last, whatever password changes
\* overlap with the upgrade of a hash of the first version.
THEOREM HashCurrent == Spec => []HashIsCurrent
<1>1. IInv => HashIsCurrent
  BY DEF IInv, UsersOK
<1>2. QED
  BY <1>1, Invariant, PTL

-----------------------------------------------------------------------------
(* The throttle                                                            *)
(*                                                                         *)
(* The failures of a name in one window are those counted before its row   *)
(* began anew and those of the row. A row that is not blocked has fewer    *)
(* failures than the limit; one that is blocked gets those of the workers  *)
(* that checked a password when the block began. A window holds at most    *)
(* two rows, since the second begins after WINDOW has passed in the first. *)

Hands == Cardinality(Workers)

\* Requests that may still count a failure of a name at a time up to e: r are
\* the requests of the workers, m is the time.
Before(r, m, n, e) ==
  {w \in Workers :
     \/ r[w].pc = "asked" /\ r[w].name = n /\ m <= e
     \/ r[w].pc = "counting" /\ r[w].name = n /\ r[w].at <= e}

\* C are the times at which failures of a name counted, row is its row.
Within(C, t) == {i \in DOMAIN C : C[i] \in t..(t + WINDOW - 1)}
RowStart(C, row) == Len(C) - row.count
InRow(C, row, t) == {i \in Within(C, t) : i > RowStart(C, row)}
InEarlier(C, row, t) == {i \in Within(C, t) : i <= RowStart(C, row)}
LastAt(C) == C[Len(C)]

\* The row holds the last failures, from the first one of its window on; and
\* a block begins with the last of them.
RowOK(C, row, limit, time) ==
  /\ C \in Seq(Nat)
  /\ row \in AttemptRows
  /\ row.count <= Len(C)
  /\ row.count = 0 => Len(C) = 0
  /\ \A i \in 1..Len(C) : C[i] <= time
  /\ \A i, j \in 1..Len(C) : i < j => C[i] <= C[j] + 1
  /\ row.count > 0 =>
       /\ C[RowStart(C, row) + 1] = row.first
       /\ \A i \in 1..Len(C) : i > RowStart(C, row) => C[i] <= row.first + WINDOW
       /\ \A i \in 1..Len(C) : i <= RowStart(C, row) => C[i] < row.first
  /\ row.count >= limit => row.blocked = LastAt(C) + BLOCK

One(x, t) == IF x < t THEN 1 ELSE 0

\* A block that began within the window, with b requests yet to count in it.
Normal(C, row, limit, t, b) ==
  Cardinality(InRow(C, row, t)) + b + One(row.first, t) + One(LastAt(C), t)
    <= limit + Hands - 1

\* A block that was over before the row of an earlier window is, with c
\* requests that may still count in it; or in the last tick of the window.
Over(C, row, limit, t, c) ==
  /\ row.first <= t - 2
  /\ Cardinality(InRow(C, row, t)) + c <= limit + Hands - 3

OverLate(C, row, limit, t, time) ==
  /\ row.first >= t - 1
  /\ time >= t + WINDOW - 1
  /\ LastAt(C) < t => Cardinality(InRow(C, row, t)) <= limit + Hands - 2

WindowOK(C, row, limit, time, t, b, c) ==
  /\ Cardinality(Within(C, t)) + b <= 2 * (limit + Hands - 2)
  /\ time < t + WINDOW =>
       /\ InEarlier(C, row, t) # {} =>
            Cardinality(InEarlier(C, row, t)) <= limit + Hands - 3
       /\ row.count >= limit /\ InRow(C, row, t) # {} =>
            \/ Normal(C, row, limit, t, b)
            \/ Over(C, row, limit, t, c)
            \/ OverLate(C, row, limit, t, time)

Throttled(n) ==
  /\ RowOK(counted[n], attempts[n], Limit[n], now)
  /\ \A t \in 0..MaxNow :
       WindowOK(counted[n], attempts[n], Limit[n], now, t,
                Cardinality(Before(req, now, n, t + WINDOW - 1)),
                Cardinality(Before(req, now, n, attempts[n].first + WINDOW)))

Throttle == counted \in [Names -> Seq(Nat)] /\ \A n \in Names : Throttled(n)

-----------------------------------------------------------------------------
(* Counting in a window                                                    *)

LEMMA HandsCount ==
  /\ Hands \in Nat
  /\ Workers # {} => Hands >= 1
  /\ WINDOW \in Nat /\ BLOCK \in Nat /\ WINDOW > 1 /\ WINDOW <= BLOCK
<1>1. IsFiniteSet(Workers)
  BY AccessAssumption
<1>2. Hands \in Nat
  BY <1>1, FS_CardinalityType DEF Hands
<1>3. Workers # {} => Hands # 0
  BY <1>1, FS_EmptySet DEF Hands
<1>4. QED
  BY <1>2, <1>3, KeysHaveLimits

\* The failures within a window are those of the row and the earlier ones.
LEMMA Parts ==
  ASSUME NEW C \in Seq(Nat), NEW row \in AttemptRows, NEW t \in Nat
  PROVE  /\ IsFiniteSet(Within(C, t)) /\ Cardinality(Within(C, t)) \in Nat
         /\ IsFiniteSet(InRow(C, row, t)) /\ Cardinality(InRow(C, row, t)) \in Nat
         /\ IsFiniteSet(InEarlier(C, row, t))
         /\ Cardinality(InEarlier(C, row, t)) \in Nat
         /\ Cardinality(Within(C, t)) =
              Cardinality(InRow(C, row, t)) + Cardinality(InEarlier(C, row, t))
         /\ InRow(C, row, t) = {} => Cardinality(InRow(C, row, t)) = 0
         /\ InEarlier(C, row, t) = {} => Cardinality(InEarlier(C, row, t)) = 0
<1>. DEFINE A == InRow(C, row, t)
            B == InEarlier(C, row, t)
            T == Within(C, t)
<1>1. T \in SUBSET (1..Len(C)) /\ Len(C) \in Nat
  BY DEF Within
<1>2. IsFiniteSet(T)
  <2>1. IsFiniteSet(1..Len(C))
    BY <1>1, Interval
  <2>2. QED
    BY <1>1, <2>1, FS_Subset
<1>3. /\ A \in SUBSET T /\ B \in SUBSET T /\ A \cap B = {} /\ T = A \cup B
  <2>1. \A i \in T : i \in Nat /\ RowStart(C, row) \in Int
    BY <1>1 DEF RowStart, AttemptRows
  <2>2. QED
    BY <2>1 DEF InRow, InEarlier
<1>. HIDE DEF A, B, T
<1>4. IsFiniteSet(A) /\ IsFiniteSet(B)
  BY <1>2, <1>3, FS_Subset
<1>5. Cardinality(A) \in Nat /\ Cardinality(B) \in Nat /\ Cardinality(T) \in Nat
  BY <1>2, <1>4, FS_CardinalityType
<1>6. Cardinality(T) = Cardinality(A) + Cardinality(B) - Cardinality({})
  BY <1>3, <1>4, FS_Union
<1>7. Cardinality({}) = 0
  BY FS_EmptySet
<1>8. Cardinality(T) = Cardinality(A) + Cardinality(B)
  BY <1>5, <1>6, <1>7
<1>9. QED
  BY <1>2, <1>4, <1>5, <1>7, <1>8 DEF A, B, T

LEMMA Sizes ==
  ASSUME NEW C \in Seq(Nat), NEW row \in AttemptRows, NEW t \in Nat
  PROVE  \E x \in Nat, y \in Nat, z \in Nat :
           /\ x = Cardinality(Within(C, t)) /\ y = Cardinality(InRow(C, row, t))
           /\ z = Cardinality(InEarlier(C, row, t)) /\ x = y + z
           /\ InRow(C, row, t) = {} => y = 0
           /\ InEarlier(C, row, t) = {} => z = 0
<1>. DEFINE x == Cardinality(Within(C, t))
            y == Cardinality(InRow(C, row, t))
            z == Cardinality(InEarlier(C, row, t))
<1>1. /\ x \in Nat /\ y \in Nat /\ z \in Nat /\ x = y + z
      /\ InRow(C, row, t) = {} => y = 0
      /\ InEarlier(C, row, t) = {} => z = 0
  BY Parts
<1>2. QED
  BY <1>1

\* What is in a window.
LEMMA Places ==
  ASSUME NEW C \in Seq(Nat), NEW row \in AttemptRows, NEW t \in Nat
  PROVE  /\ Len(C) \in Nat /\ RowStart(C, row) \in Int
         /\ RowStart(C, row) + row.count = Len(C) /\ row.count \in Nat
         /\ \A i \in 1..Len(C) : C[i] \in Nat
         /\ \A i : i \in Within(C, t) <=> /\ i \in 1..Len(C)
                                         /\ t <= C[i] /\ C[i] < t + WINDOW
         /\ \A i : i \in InRow(C, row, t)
                    <=> i \in Within(C, t) /\ i > RowStart(C, row)
         /\ \A i : i \in InEarlier(C, row, t)
                    <=> i \in Within(C, t) /\ i <= RowStart(C, row)
<1>1. /\ Len(C) \in Nat /\ DOMAIN C = 1..Len(C) /\ \A i \in 1..Len(C) : C[i] \in Nat
  OBVIOUS
<1>2. row.count \in Nat
  BY DEF AttemptRows
<1>3. /\ RowStart(C, row) \in Int /\ RowStart(C, row) + row.count = Len(C)
  BY <1>1, <1>2 DEF RowStart
<1>4. \A i : i \in Within(C, t) <=> /\ i \in 1..Len(C)
                                   /\ t <= C[i] /\ C[i] < t + WINDOW
  BY <1>1, HandsCount DEF Within
<1>5. QED
  BY <1>1, <1>2, <1>3, <1>4 DEF InRow, InEarlier

LEMMA SliceSize ==
  ASSUME NEW A, NEW s \in Nat, NEW m \in Nat, NEW f \in {0, 1}, NEW l \in {0, 1},
         f + l <= m, \A i \in A : i \in Nat /\ i >= s + 1 + f /\ i <= s + m - l
  PROVE  Cardinality(A) <= m - f - l
<1>1. s + 1 + f \in Int /\ s + m - l \in Int
  OBVIOUS
<1>2. /\ IsFiniteSet((s + 1 + f)..(s + m - l))
      /\ Cardinality((s + 1 + f)..(s + m - l)) =
           IF s + 1 + f > s + m - l THEN 0 ELSE (s + m - l) - (s + 1 + f) + 1
  BY <1>1, FS_Interval
<1>3. Cardinality((s + 1 + f)..(s + m - l)) = m - f - l
  BY <1>2
<1>4. A \in SUBSET ((s + 1 + f)..(s + m - l))
  BY <1>1
<1>5. QED
  BY <1>2, <1>3, <1>4, FS_Subset

LEMMA Squeeze ==
  ASSUME NEW i \in Nat, NEW s \in Nat, NEW m \in Nat, NEW f \in {0, 1},
         NEW l \in {0, 1}, i <= s + m, i > s, f = 1 => i # s + 1, l = 1 => i # s + m
  PROVE  i >= s + 1 + f /\ i <= s + m - l /\ i <= s + m - 0
OBVIOUS

\* A row has no more failures in a window than it has counted, less its first
\* and its last one if they came before.
LEMMA RowSize ==
  ASSUME NEW C, NEW row, NEW limit \in Nat, NEW time \in Nat,
         RowOK(C, row, limit, time), NEW t \in Nat, row.count >= 1
  PROVE  /\ Cardinality(InRow(C, row, t)) + One(row.first, t) <= row.count
         /\ row.count >= 2 =>
              Cardinality(InRow(C, row, t)) + One(row.first, t) + One(LastAt(C), t)
                <= row.count
<1>0. C \in Seq(Nat) /\ row \in AttemptRows
  BY DEF RowOK
<1>1. Len(C) \in Nat /\ row.count \in Nat /\ row.count <= Len(C) /\ row.first \in Nat
  BY <1>0 DEF RowOK, AttemptRows
<1>2. PICK s \in Nat, m \in Nat :
        s = RowStart(C, row) /\ m = row.count /\ s + m = Len(C)
  BY <1>0, <1>1, Places
<1>3. m >= 1
  BY <1>2
<1>4. C[s + 1] = row.first /\ C[s + m] = LastAt(C) /\ LastAt(C) \in Nat
  BY SMTT(30), <1>0, <1>1, <1>2 DEF RowOK, LastAt
<1>5. PICK f \in {0, 1} : f = One(row.first, t) /\ (f = 1 => C[s + 1] < t)
  BY <1>4 DEF One
<1>6. PICK l \in {0, 1} : l = One(LastAt(C), t) /\ (l = 1 => C[s + m] < t)
  BY <1>4 DEF One
<1>7. PICK A : A = InRow(C, row, t) /\ Cardinality(A) \in Nat
  BY <1>0, Parts
<1>8. \A i \in A : i \in Nat /\ i <= s + m /\ i > s /\ t <= C[i] /\ C[i] \in Nat
  <2>. SUFFICES ASSUME NEW i \in A
                PROVE  i \in Nat /\ i <= s + m /\ i > s /\ t <= C[i] /\ C[i] \in Nat
    OBVIOUS
  <2>1. i \in 1..Len(C) /\ i > s /\ t <= C[i] /\ C[i] \in Nat
    BY <1>0, <1>2, <1>7, Places
  <2>2. QED
    BY <1>1, <1>2, <2>1
<1>9. \A i \in A : /\ i \in Nat /\ i >= s + 1 + f
                  /\ i <= s + m - l /\ i <= s + m - 0
  <2>. SUFFICES ASSUME NEW i \in A
                PROVE  /\ i \in Nat /\ i >= s + 1 + f
                       /\ i <= s + m - l /\ i <= s + m - 0
    OBVIOUS
  <2>1. i \in Nat /\ i <= s + m /\ i > s /\ t <= C[i] /\ C[i] \in Nat
    BY <1>8
  <2>2. f = 1 => i # s + 1
    BY <1>5, <2>1
  <2>3. l = 1 => i # s + m
    BY <1>6, <2>1
  <2>4. QED
    BY <2>1, <2>2, <2>3, Squeeze
<1>10. Cardinality(A) <= m - f
  <2>1. f + 0 <= m
    BY <1>3
  <2>2. Cardinality(A) <= m - f - 0
    BY <1>9, <2>1, SliceSize
  <2>3. QED
    BY <2>2
<1>11. m >= 2 => Cardinality(A) <= m - f - l
  <2>. SUFFICES ASSUME m >= 2 PROVE Cardinality(A) <= m - f - l
    OBVIOUS
  <2>1. f + l <= m
    OBVIOUS
  <2>2. QED
    BY <1>9, <2>1, SliceSize
<1>12. Cardinality(A) + f <= m /\ (m >= 2 => Cardinality(A) + f + l <= m)
  BY <1>7, <1>10, <1>11
<1>13. QED
  BY <1>2, <1>5, <1>6, <1>7, <1>12

\* A failure is counted at most a tick before an earlier one.
LEMMA NearLast ==
  ASSUME NEW C, NEW row, NEW limit \in Nat, NEW time \in Nat,
         RowOK(C, row, limit, time), row.count >= 1
  PROVE  /\ \A i \in 1..Len(C) : C[i] \in Nat /\ C[i] <= LastAt(C) + 1
         /\ row.first \in Nat /\ row.first <= LastAt(C) + 1
         /\ LastAt(C) \in Nat /\ LastAt(C) <= time
         /\ \A t \in Nat : \A i \in InEarlier(C, row, t) : C[i] < row.first
<1>0. C \in Seq(Nat) /\ row \in AttemptRows
  BY DEF RowOK
<1>1. Len(C) \in Nat /\ row.count \in Nat /\ row.count <= Len(C) /\ row.first \in Nat
  BY <1>0 DEF RowOK, AttemptRows
<1>2. PICK k \in Nat : k = Len(C) /\ k >= 1
  BY <1>1
<1>3. \A i \in 1..k : C[i] \in Nat
  BY <1>0, <1>2
<1>4. LastAt(C) = C[k] /\ LastAt(C) \in Nat /\ LastAt(C) <= time
  BY <1>2, <1>3 DEF RowOK, LastAt
<1>5. \A i \in 1..k : C[i] <= LastAt(C) + 1
  <2>. SUFFICES ASSUME NEW i \in 1..k PROVE C[i] <= C[k] + 1
    BY <1>4
  <2>1. CASE i = k
    BY <1>3, <2>1
  <2>2. CASE i < k
    BY <1>2, <2>2 DEF RowOK
  <2>3. QED
    BY <2>1, <2>2
<1>6. PICK j \in 1..k : C[j] = row.first
  BY SMTT(30), <1>0, <1>1, <1>2, Places DEF RowOK
<1>7. \A t \in Nat : \A i \in InEarlier(C, row, t) : C[i] < row.first
  <2>. SUFFICES ASSUME NEW t \in Nat, NEW i \in InEarlier(C, row, t)
                PROVE  C[i] < row.first
    OBVIOUS
  <2>1. i \in 1..Len(C) /\ i <= RowStart(C, row)
    BY <1>0, Places
  <2>2. QED
    BY <1>1, <2>1 DEF RowOK
<1>8. QED
  BY <1>1, <1>2, <1>3, <1>4, <1>5, <1>6, <1>7

\* A request that passes retry_after finds room for what it may count: its
\* row is below the limit, or its block is over.
LEMMA AskFits ==
  ASSUME NEW C, NEW row, NEW limit \in Nat, limit > 1, NEW time \in Nat,
         NEW t \in Nat, NEW b \in Nat, NEW c \in Nat, NEW b2 \in Nat, NEW c2 \in Nat,
         Hands >= 1, RowOK(C, row, limit, time),
         WindowOK(C, row, limit, time, t, b, c), row.blocked <= time,
         b2 <= b + 1, b2 <= Hands, time >= t + WINDOW => b2 <= b,
         time > row.first + WINDOW => c2 <= c, row.first <= t - 2 => c <= b
  PROVE  WindowOK(C, row, limit, time, t, b2, c2)
<1>0. C \in Seq(Nat) /\ row \in AttemptRows
  BY DEF RowOK
<1>1. PICK n \in Nat : n = Hands /\ n >= 1
  BY HandsCount
<1>2. PICK x \in Nat, y \in Nat, z \in Nat :
        /\ x = Cardinality(Within(C, t)) /\ y = Cardinality(InRow(C, row, t))
        /\ z = Cardinality(InEarlier(C, row, t)) /\ x = y + z
        /\ InRow(C, row, t) = {} => y = 0
        /\ InEarlier(C, row, t) = {} => z = 0
  BY <1>0, Sizes
<1>3. x + b <= 2 * (limit + n - 2)
  BY <1>1, <1>2 DEF WindowOK
<1>4. WINDOW \in Nat /\ BLOCK \in Nat /\ WINDOW > 1 /\ WINDOW <= BLOCK
  BY HandsCount
<1>5. PICK m \in Nat, first \in Nat, last \in {LastAt(C)} :
        m = row.count /\ first = row.first /\ last = LastAt(C)
  BY <1>0 DEF AttemptRows
<1>6. CASE time >= t + WINDOW
  <2>1. x + b2 <= 2 * (limit + n - 2)
    BY <1>3, <1>6
  <2>2. ~ (time < t + WINDOW)
    BY <1>4, <1>6
  <2>3. QED
    BY <1>1, <1>2, <2>1, <2>2 DEF WindowOK
<1>7. CASE time < t + WINDOW
  <2>0. InEarlier(C, row, t) # {} => z <= limit + n - 3
    BY <1>1, <1>2, <1>7 DEF WindowOK
  <2>1. CASE m = 0
    <3>1. Within(C, t) = {}
      <4>1. Len(C) = 0
        BY <1>5, <2>1 DEF RowOK
      <4>2. \A i \in Within(C, t) : i \in 1..Len(C)
        BY <1>0, Places
      <4>3. \A i \in Within(C, t) : FALSE
        BY <4>1, <4>2
      <4>4. QED
        BY <4>3
    <3>2. InRow(C, row, t) = {} /\ InEarlier(C, row, t) = {}
      BY <3>1 DEF InRow, InEarlier
    <3>3. x = 0
      BY <1>2, <3>2
    <3>4. x + b2 <= 2 * (limit + n - 2)
      BY <1>1, <3>3
    <3>5. QED
      BY <1>1, <1>2, <3>2, <3>4 DEF WindowOK
  <2>2. CASE m >= 1 /\ m < limit
    <3>1. y + One(first, t) <= m
      BY <1>2, <1>5, <2>2, RowSize
    <3>2. y <= m
      BY <3>1 DEF One
    <3>3. z <= limit + n - 3
      BY <1>1, <1>2, <2>0
    <3>4. x + b2 <= 2 * (limit + n - 2)
      BY <1>1, <1>2, <2>2, <3>2, <3>3
    <3>5. ~ (row.count >= limit)
      BY <1>5, <2>2
    <3>6. QED
      BY <1>1, <1>2, <2>0, <3>4, <3>5 DEF WindowOK
  <2>3. CASE m >= limit
    <3>0. m >= 1
      BY <2>3
    <3>1. /\ last \in Nat /\ first <= last + 1
          /\ \A i \in 1..Len(C) : C[i] \in Nat /\ C[i] <= last + 1
          /\ \A i \in InEarlier(C, row, t) : C[i] < first
      BY <1>5, <3>0, NearLast
    <3>2. last + BLOCK <= time
      BY <1>5, <2>3 DEF RowOK
    <3>3. last <= t - 1
      BY <1>4, <1>7, <3>1, <3>2
    <3>4. InEarlier(C, row, t) = {} /\ z = 0
      <4>1. \A i \in InEarlier(C, row, t) : i \in 1..Len(C) /\ t <= C[i]
        BY <1>0, Places
      <4>2. \A i \in InEarlier(C, row, t) : FALSE
        BY <3>1, <3>3, <4>1
      <4>3. QED
        BY <1>2, <4>2
    <3>5. CASE InRow(C, row, t) = {}
      <4>1. x = 0
        BY <1>2, <3>4, <3>5
      <4>2. x + b2 <= 2 * (limit + n - 2)
        BY <1>1, <4>1
      <4>3. QED
        BY <1>1, <1>2, <3>4, <3>5, <4>2 DEF WindowOK
    <3>6. CASE InRow(C, row, t) # {}
      <4>1. last = t - 1 /\ time >= t + WINDOW - 1
        <5>1. PICK i \in InRow(C, row, t) : TRUE
          BY <3>6
        <5>2. i \in 1..Len(C) /\ t <= C[i]
          BY <1>0, Places
        <5>3. last >= t - 1
          BY <3>1, <5>2
        <5>4. QED
          BY <1>4, <3>1, <3>2, <3>3, <5>3
      <4>2. \/ Normal(C, row, limit, t, b)
            \/ Over(C, row, limit, t, c)
            \/ OverLate(C, row, limit, t, time)
        BY <1>5, <1>7, <2>3, <3>6 DEF WindowOK
      <4>3. /\ x = y
            /\ Normal(C, row, limit, t, b)
                 <=> y + b + One(first, t) + One(last, t) <= limit + n - 1
            /\ Over(C, row, limit, t, c) <=> first <= t - 2 /\ y + c <= limit + n - 3
            /\ Over(C, row, limit, t, c2) <=> first <= t - 2 /\ y + c2 <= limit + n - 3
            /\ OverLate(C, row, limit, t, time)
                 <=> first >= t - 1 /\ time >= t + WINDOW - 1
                       /\ (last < t => y <= limit + n - 2)
        BY <1>1, <1>2, <1>5, <3>4 DEF Normal, Over, OverLate
      <4>4. last < t /\ One(last, t) = 1 /\ One(first, t) \in {0, 1}
             /\ (first <= t - 2 => One(first, t) = 1)
        BY <4>1 DEF One
      <4>5. first <= t - 2 => time > first + WINDOW
        BY <1>4, <4>1
      <4>6. CASE Normal(C, row, limit, t, b)
        <5>1. y + b + One(first, t) + 1 <= limit + n - 1
          BY <4>3, <4>4, <4>6
        <5>2. y + b2 <= 2 * (limit + n - 2)
          BY <1>1, <4>4, <5>1
        <5>3. first <= t - 2 => y + c2 <= limit + n - 3
          BY <1>5, <4>4, <4>5, <5>1
        <5>4. y <= limit + n - 2
          BY <4>4, <5>1
        <5>5. first <= t - 2 \/ first >= t - 1
          OBVIOUS
        <5>6. Over(C, row, limit, t, c2) \/ OverLate(C, row, limit, t, time)
          BY <4>1, <4>3, <5>3, <5>4, <5>5
        <5>7. QED
          BY <1>1, <1>2, <3>4, <4>3, <5>2, <5>6 DEF WindowOK
      <4>7. CASE Over(C, row, limit, t, c)
        <5>1. first <= t - 2 /\ y + c <= limit + n - 3 /\ c2 <= c
          BY <1>5, <4>3, <4>5, <4>7
        <5>2. y + b2 <= 2 * (limit + n - 2)
          BY <1>1, <5>1
        <5>3. Over(C, row, limit, t, c2)
          BY <4>3, <5>1
        <5>4. QED
          BY <1>1, <1>2, <3>4, <4>3, <5>2, <5>3 DEF WindowOK
      <4>8. CASE OverLate(C, row, limit, t, time)
        <5>1. y <= limit + n - 2
          BY <4>3, <4>4, <4>8
        <5>2. y + b2 <= 2 * (limit + n - 2)
          BY <1>1, <5>1
        <5>3. QED
          BY <1>1, <1>2, <3>4, <4>3, <4>8, <5>2 DEF WindowOK
      <4>9. QED
        BY <4>2, <4>6, <4>7, <4>8
    <3>7. QED
      BY <3>5, <3>6
  <2>4. QED
    BY <2>1, <2>2, <2>3
<1>8. QED
  BY <1>4, <1>6, <1>7

\* A row begins anew.
Afresh(row, at) == row.count = 0 \/ at - row.first > WINDOW

\* D and new are C and row after a failure at the time a.
Failed(C, row, limit, a, D, new) ==
  /\ D \in Seq(Nat) /\ new \in AttemptRows /\ Len(D) = Len(C) + 1
  /\ \A i \in 1..Len(C) : D[i] = C[i]
  /\ D[Len(C) + 1] = a /\ LastAt(D) = a
  /\ Afresh(row, a) => /\ new.count = 1 /\ new.first = a
                       /\ RowStart(D, new) = Len(C)
  /\ ~ Afresh(row, a) =>
       /\ new.count = row.count + 1 /\ new.first = row.first
       /\ RowStart(D, new) = RowStart(C, row)
       /\ row.count >= 1 /\ a <= row.first + WINDOW
       /\ new.count >= limit => new.blocked = a + BLOCK

LEMMA After ==
  ASSUME NEW C \in Seq(Nat), NEW row \in AttemptRows, NEW limit \in Nat, limit > 1,
         NEW a \in Nat
  PROVE  Failed(C, row, limit, a, Append(C, a), Count(row, limit, a))
<1>. DEFINE D == Append(C, a)
            new == Count(row, limit, a)
<1>1. /\ D \in Seq(Nat) /\ Len(D) = Len(C) + 1 /\ Len(C) \in Nat
      /\ \A i \in 1..Len(C) : D[i] = C[i]
      /\ D[Len(C) + 1] = a
  OBVIOUS
<1>2. LastAt(D) = a
  BY <1>1 DEF LastAt
<1>3. new \in AttemptRows
  BY CountRow
<1>. HIDE DEF D
<1>4. row.count \in Nat /\ row.first \in Nat /\ WINDOW \in Nat /\ BLOCK \in Nat
  BY HandsCount DEF AttemptRows
<1>5. Afresh(row, a) => new.count = 1 /\ new.first = a
  BY DEF Count, Afresh
<1>6. ~ Afresh(row, a) => /\ new.count = row.count + 1 /\ new.first = row.first
                          /\ row.count >= 1 /\ a <= row.first + WINDOW
                          /\ new.count >= limit => new.blocked = a + BLOCK
  BY <1>4 DEF Count, Afresh
<1>. HIDE DEF new
<1>7. /\ Afresh(row, a) => RowStart(D, new) = Len(C)
      /\ ~ Afresh(row, a) => RowStart(D, new) = RowStart(C, row)
  <2>1. PICK k \in Nat, m \in Nat : k = Len(C) /\ m = row.count
    BY <1>1, <1>4
  <2>2. Len(D) = k + 1
    BY <1>1, <2>1
  <2>3. RowStart(C, row) = k - m /\ RowStart(D, new) = (k + 1) - new.count
    <3>1. RowStart(C, row) = Len(C) - row.count
      BY ZenonT(20) DEF RowStart
    <3>2. RowStart(D, new) = Len(D) - new.count
      BY ZenonT(20) DEF RowStart
    <3>3. RowStart(C, row) = k - m
      BY <2>1, <3>1, ZenonT(20)
    <3>4. RowStart(D, new) = (k + 1) - new.count
      BY <2>2, <3>2, ZenonT(20)
    <3>5. QED
      BY <3>3, <3>4, ZenonT(20)
  <2>4. CASE Afresh(row, a)
    <3>1. new.count = 1
      BY <1>5, <2>4
    <3>2. RowStart(D, new) = k
      BY <2>3, <3>1
    <3>3. QED
      BY <2>1, <2>4, <3>2
  <2>5. CASE ~ Afresh(row, a)
    <3>1. new.count = m + 1
      BY <1>6, <2>1, <2>5
    <3>2. RowStart(D, new) = k - m
      BY <2>3, <3>1
    <3>3. QED
      BY <2>3, <2>5, <3>2
  <2>6. QED
    BY <2>4, <2>5
<1>8. Failed(C, row, limit, a, D, new)
  BY <1>1, <1>2, <1>3, <1>5, <1>6, <1>7 DEF Failed
<1>9. QED
  BY <1>8 DEF D, new

\* The row stays the one of the last failures.
LEMMA CommitRow ==
  ASSUME NEW C, NEW row, NEW limit \in Nat, limit > 1, NEW time \in Nat,
         RowOK(C, row, limit, time), NEW a \in Nat, a <= time, time <= a + 1,
         NEW D, NEW new, Failed(C, row, limit, a, D, new)
  PROVE  RowOK(D, new, limit, time)
<1>0. C \in Seq(Nat) /\ row \in AttemptRows
  BY DEF RowOK
<1>1. /\ D \in Seq(Nat) /\ new \in AttemptRows /\ Len(D) = Len(C) + 1
      /\ \A i \in 1..Len(C) : D[i] = C[i]
      /\ D[Len(C) + 1] = a /\ LastAt(D) = a
      /\ Afresh(row, a) => new.count = 1 /\ new.first = a /\ RowStart(D, new) = Len(C)
      /\ ~ Afresh(row, a) =>
           /\ new.count = row.count + 1 /\ new.first = row.first
           /\ RowStart(D, new) = RowStart(C, row)
           /\ row.count >= 1 /\ a <= row.first + WINDOW
           /\ new.count >= limit => new.blocked = a + BLOCK
  BY DEF Failed
<1>2. PICK k \in Nat, m \in Nat, s \in Int, first \in Nat :
        /\ k = Len(C) /\ m = row.count /\ s = RowStart(C, row) /\ first = row.first
        /\ s + m = k /\ m <= k
  <2>1. row.first \in Nat /\ row.count <= Len(C)
    BY <1>0 DEF RowOK, AttemptRows
  <2>2. QED
    BY <1>0, <2>1, Places
<1>3. /\ \A i \in 1..k : D[i] = C[i] /\ C[i] \in Nat /\ C[i] <= time
      /\ D[k + 1] = a /\ Len(D) = k + 1
  <2>1. \A i \in 1..k : C[i] \in Nat
    BY <1>0, <1>2, Places
  <2>2. \A i \in 1..k : C[i] <= time
    BY <1>2 DEF RowOK
  <2>3. /\ \A i \in 1..k : D[i] = C[i]
        /\ D[k + 1] = a /\ Len(D) = k + 1
    BY <1>1, <1>2
  <2>4. QED
    BY <2>1, <2>2, <2>3
<1>row. m > 0 => /\ \A i \in 1..k : i > s => C[i] <= first + WINDOW
                 /\ \A i \in 1..k : i <= s => C[i] < first
  <2>1. \A i \in 1..Len(C) : row.count > 0 /\ i > RowStart(C, row)
                               => C[i] <= row.first + WINDOW
    BY DEF RowOK
  <2>2. \A i \in 1..Len(C) : row.count > 0 /\ i <= RowStart(C, row) => C[i] < row.first
    BY DEF RowOK
  <2>3. \A i \in 1..k : m > 0 /\ i > s => C[i] <= first + WINDOW
    BY <1>2, <2>1, ZenonT(20)
  <2>4. \A i \in 1..k : m > 0 /\ i <= s => C[i] < first
    BY <1>2, <2>2, ZenonT(20)
  <2>5. QED
    BY <2>3, <2>4
<1>4. \A i \in 1..Len(D) : D[i] <= time
  <2>. SUFFICES ASSUME NEW i \in 1..(k + 1) PROVE D[i] <= time
    BY <1>3
  <2>1. CASE i = k + 1
    BY <1>3, <2>1
  <2>2. CASE i \in 1..k
    BY <1>3, <2>2
  <2>3. QED
    BY <2>1, <2>2
<1>5. \A i, j \in 1..Len(D) : i < j => D[i] <= D[j] + 1
  <2>. SUFFICES ASSUME NEW i \in 1..(k + 1), NEW j \in 1..(k + 1), i < j
                PROVE  D[i] <= D[j] + 1
    BY <1>3
  <2>1. i \in 1..k
    OBVIOUS
  <2>2. CASE j = k + 1
    BY <1>3, <2>1, <2>2
  <2>3. CASE j \in 1..k
    <3>1. C[i] <= C[j] + 1
      BY <1>2, <2>1, <2>3 DEF RowOK
    <3>2. QED
      BY <1>3, <2>1, <2>3, <3>1
  <2>4. QED
    BY <2>2, <2>3
<1>6. CASE Afresh(row, a)
  <2>1. new.count = 1 /\ new.first = a /\ RowStart(D, new) = k
    BY <1>1, <1>2, <1>6
  <2>2. \A i \in 1..k : C[i] < a
    <3>. SUFFICES ASSUME NEW i \in 1..k PROVE C[i] < a
      OBVIOUS
    <3>1. m # 0 /\ m > 0
      BY <1>2 DEF RowOK
    <3>2. a > first + WINDOW
      BY SMTT(30), <1>2, <1>6, <3>1, HandsCount DEF Afresh
    <3>3. /\ i > s => C[i] <= first + WINDOW
          /\ i <= s => C[i] < first
      BY <1>row, <3>1
    <3>4. C[i] \in Nat /\ (i > s \/ i <= s) /\ WINDOW \in Nat
      BY <1>3, HandsCount
    <3>5. QED
      BY <3>2, <3>3, <3>4
  <2>3. \A i \in 1..(k + 1) : /\ i > k => D[i] <= a + WINDOW
                              /\ i <= k => D[i] < a
    <3>. SUFFICES ASSUME NEW i \in 1..(k + 1)
                  PROVE  /\ i > k => D[i] <= a + WINDOW
                         /\ i <= k => D[i] < a
      OBVIOUS
    <3>1. CASE i = k + 1
      BY <1>3, <3>1, HandsCount
    <3>2. CASE i \in 1..k
      BY <1>3, <2>2, <3>2
    <3>3. QED
      BY <3>1, <3>2
  <2>4. QED
    BY <1>1, <1>3, <1>4, <1>5, <2>1, <2>3 DEF RowOK
<1>7. CASE ~ Afresh(row, a)
  <2>1. /\ new.count = m + 1 /\ new.first = first /\ RowStart(D, new) = s
        /\ m >= 1 /\ a <= first + WINDOW
        /\ new.count >= limit => new.blocked = a + BLOCK
    BY <1>1, <1>2, <1>7
  <2>2. s \in Nat /\ s + 1 \in 1..k /\ C[s + 1] = first
    <3>1. s \in Nat /\ s + 1 \in 1..k
      <4>1. s + m = k /\ m <= k /\ m >= 1
        BY <1>2, <2>1
      <4>2. QED
        BY <4>1
    <3>2. C[s + 1] = first
      BY <1>2, <2>1 DEF RowOK
    <3>3. QED
      BY <3>1, <3>2
  <2>3. \A i \in 1..(k + 1) : /\ i > s => D[i] <= first + WINDOW
                              /\ i <= s => D[i] < first
    <3>. SUFFICES ASSUME NEW i \in 1..(k + 1)
                  PROVE  /\ i > s => D[i] <= first + WINDOW
                         /\ i <= s => D[i] < first
      OBVIOUS
    <3>1. CASE i = k + 1
      BY SMTT(30), <1>2, <1>3, <2>1, <2>2, <3>1
    <3>2. CASE i \in 1..k
      <4>1. /\ i > s => C[i] <= first + WINDOW
            /\ i <= s => C[i] < first
        BY <1>row, <2>1, <3>2
      <4>2. QED
        BY <1>3, <3>2, <4>1
    <3>3. QED
      BY <3>1, <3>2
  <2>4. D[s + 1] = first
    BY <1>3, <2>2
  <2>5. new.count <= Len(D) /\ new.count # 0
    BY SMTT(30), <1>2, <1>3, <2>1
  <2>6. QED
    BY <1>1, <1>3, <1>4, <1>5, <2>1, <2>3, <2>4, <2>5 DEF RowOK
<1>8. QED
  BY <1>6, <1>7

\* The windows after a failure.
LEMMA PartsAfter ==
  ASSUME NEW C \in Seq(Nat), NEW row \in AttemptRows, NEW limit \in Nat, limit > 1,
         NEW a \in Nat, NEW D, NEW new, Failed(C, row, limit, a, D, new), NEW t \in Nat
  PROVE  /\ t <= a /\ a < t + WINDOW =>
              /\ Within(D, t) = Within(C, t) \cup {Len(C) + 1}
              /\ ~ Afresh(row, a) =>
                   InRow(D, new, t) = InRow(C, row, t) \cup {Len(C) + 1}
         /\ ~ (t <= a /\ a < t + WINDOW) =>
              /\ Within(D, t) = Within(C, t)
              /\ ~ Afresh(row, a) => InRow(D, new, t) = InRow(C, row, t)
         /\ InEarlier(D, new, t) = IF Afresh(row, a) THEN Within(C, t)
                                   ELSE InEarlier(C, row, t)
         /\ Len(C) + 1 \notin Within(C, t) /\ Len(C) + 1 \notin InRow(C, row, t)
<1>1. PICK k \in Nat, s \in Int : k = Len(C) /\ s = RowStart(C, row) /\ s <= k
  <2>1. Len(C) \in Nat /\ RowStart(C, row) \in Int /\ row.count \in Nat
        /\ RowStart(C, row) + row.count = Len(C)
    BY Places
  <2>2. RowStart(C, row) <= Len(C)
    BY <2>1
  <2>3. QED
    BY <2>1, <2>2
<1>2. /\ D \in Seq(Nat) /\ new \in AttemptRows /\ Len(D) = k + 1 /\ D[k + 1] = a
      /\ \A i \in 1..k : D[i] = C[i] /\ C[i] \in Nat
      /\ Afresh(row, a) => RowStart(D, new) = k
      /\ ~ Afresh(row, a) => RowStart(D, new) = s
  <2>1. \A i \in 1..k : C[i] \in Nat
    BY <1>1
  <2>2. QED
    BY <1>1, <2>1 DEF Failed
<1>3. \A i : i \in Within(C, t) <=> i \in 1..k /\ t <= C[i] /\ C[i] < t + WINDOW
  BY <1>1, Places
<1>4. \A i : i \in Within(D, t) <=> i \in 1..(k + 1) /\ t <= D[i] /\ D[i] < t + WINDOW
  <2>1. \A i : i \in Within(D, t) <=> i \in 1..Len(D) /\ t <= D[i] /\ D[i] < t + WINDOW
    BY <1>2, Places
  <2>2. QED
    BY <1>2, <2>1
<1>5. /\ k + 1 \notin 1..k
      /\ \A i : i \in 1..(k + 1) <=> i \in 1..k \/ i = k + 1
  OBVIOUS
<1>. DEFINE hit == t <= a /\ a < t + WINDOW
<1>6. \A i : i \in Within(D, t) <=> (i \in Within(C, t) \/ (i = k + 1 /\ hit))
  <2>. SUFFICES ASSUME NEW i
                PROVE  i \in Within(D, t) <=> (i \in Within(C, t) \/ (i = k + 1 /\ hit))
    OBVIOUS
  <2>1. CASE i = k + 1
    BY <1>2, <1>3, <1>4, <1>5, <2>1
  <2>2. CASE i # k + 1
    BY <1>2, <1>3, <1>4, <1>5, <2>2
  <2>3. QED
    BY <2>1, <2>2
<1>. HIDE DEF hit
<1>7. Len(C) + 1 \notin Within(C, t) /\ Len(C) + 1 \notin InRow(C, row, t)
  BY <1>1, <1>3, <1>5 DEF InRow
<1>8. \A i \in Within(C, t) : i \in Nat /\ i <= k
  BY <1>3
<1>9. ASSUME ~ Afresh(row, a)
      PROVE  /\ \A i : i \in InRow(D, new, t)
                         <=> (i \in InRow(C, row, t) \/ (i = k + 1 /\ hit))
             /\ \A i : i \in InEarlier(D, new, t) <=> i \in InEarlier(C, row, t)
  <2>1. RowStart(D, new) = s /\ RowStart(C, row) = s
    BY <1>1, <1>2, <1>9
  <2>2. k + 1 > s /\ ~ (k + 1 <= s)
    BY <1>1
  <2>3. \A i : i \in InRow(D, new, t) <=> i \in Within(D, t) /\ i > s
    BY <2>1 DEF InRow
  <2>4. \A i : i \in InRow(C, row, t) <=> i \in Within(C, t) /\ i > s
    BY <2>1 DEF InRow
  <2>5. \A i : i \in InEarlier(D, new, t) <=> i \in Within(D, t) /\ i <= s
    BY <2>1 DEF InEarlier
  <2>6. \A i : i \in InEarlier(C, row, t) <=> i \in Within(C, t) /\ i <= s
    BY <2>1 DEF InEarlier
  <2>7. \A i : i \in InRow(D, new, t)
                 <=> (i \in InRow(C, row, t) \/ (i = k + 1 /\ hit))
    BY <1>6, <2>2, <2>3, <2>4
  <2>8. \A i : i \in InEarlier(D, new, t) <=> i \in InEarlier(C, row, t)
    BY <1>6, <2>2, <2>5, <2>6
  <2>9. QED
    BY <2>7, <2>8
<1>10. ASSUME Afresh(row, a)
       PROVE  \A i : i \in InEarlier(D, new, t) <=> i \in Within(C, t)
  <2>1. \A i : i \in InEarlier(D, new, t) <=> i \in Within(D, t) /\ i <= k
    BY <1>2, <1>10 DEF InEarlier
  <2>2. ~ (k + 1 <= k)
    BY <1>1
  <2>3. QED
    BY <1>6, <1>8, <2>1, <2>2
<1>11. InEarlier(D, new, t) = IF Afresh(row, a) THEN Within(C, t)
                             ELSE InEarlier(C, row, t)
  BY <1>9, <1>10
<1>12. hit => /\ Within(D, t) = Within(C, t) \cup {k + 1}
              /\ ~ Afresh(row, a) => InRow(D, new, t) = InRow(C, row, t) \cup {k + 1}
  BY <1>6, <1>9
<1>13. ~ hit => /\ Within(D, t) = Within(C, t)
                /\ ~ Afresh(row, a) => InRow(D, new, t) = InRow(C, row, t)
  BY <1>6, <1>9
<1>14. QED
  BY <1>1, <1>7, <1>11, <1>12, <1>13 DEF hit

\* Their sizes.
LEMMA SizesAfter ==
  ASSUME NEW C \in Seq(Nat), NEW row \in AttemptRows, NEW limit \in Nat, limit > 1,
         NEW a \in Nat, NEW D, NEW new, Failed(C, row, limit, a, D, new), NEW t \in Nat,
         NEW h \in {0, 1}, h = 1 <=> (t <= a /\ a < t + WINDOW)
  PROVE  /\ Cardinality(Within(D, t)) = Cardinality(Within(C, t)) + h
         /\ ~ Afresh(row, a) =>
              Cardinality(InRow(D, new, t)) = Cardinality(InRow(C, row, t)) + h
<1>1. /\ IsFiniteSet(Within(C, t)) /\ IsFiniteSet(InRow(C, row, t))
      /\ Cardinality(Within(C, t)) \in Nat /\ Cardinality(InRow(C, row, t)) \in Nat
  BY Parts
<1>2. Len(C) + 1 \notin Within(C, t) /\ Len(C) + 1 \notin InRow(C, row, t)
  BY PartsAfter
<1>3. CASE h = 1
  <2>1. t <= a /\ a < t + WINDOW
    BY <1>3
  <2>2. /\ Within(D, t) = Within(C, t) \cup {Len(C) + 1}
        /\ ~ Afresh(row, a) => InRow(D, new, t) = InRow(C, row, t) \cup {Len(C) + 1}
    BY <2>1, PartsAfter
  <2>3. Cardinality(Within(C, t) \cup {Len(C) + 1}) = Cardinality(Within(C, t)) + 1
    BY <1>1, <1>2, FS_AddElement
  <2>4. Cardinality(InRow(C, row, t) \cup {Len(C) + 1}) = Cardinality(InRow(C, row, t)) + 1
    BY <1>1, <1>2, FS_AddElement
  <2>5. QED
    BY <1>3, <2>2, <2>3, <2>4
<1>4. CASE h = 0
  <2>1. ~ (t <= a /\ a < t + WINDOW)
    BY <1>4
  <2>2. /\ Within(D, t) = Within(C, t)
        /\ ~ Afresh(row, a) => InRow(D, new, t) = InRow(C, row, t)
    BY <2>1, PartsAfter
  <2>3. QED
    BY <1>1, <1>4, <2>2
<1>5. QED
  BY <1>3, <1>4

\* A failure that is counted was one that could be.
LEMMA CommitFits ==
  ASSUME NEW C, NEW row, NEW limit \in Nat, limit > 1, NEW time \in Nat,
         NEW t \in Nat, NEW b \in Nat, NEW c \in Nat, NEW b2 \in Nat, NEW c2 \in Nat,
         Hands >= 1, RowOK(C, row, limit, time),
         WindowOK(C, row, limit, time, t, b, c),
         NEW a \in Nat, a <= time, time <= a + 1,
         NEW D, NEW new, Failed(C, row, limit, a, D, new), RowOK(D, new, limit, time),
         b2 <= Hands - 1, b2 = IF a < t + WINDOW THEN b - 1 ELSE b,
         ~ Afresh(row, a) => c2 = c - 1
  PROVE  WindowOK(D, new, limit, time, t, b2, c2)
<1>0. C \in Seq(Nat) /\ row \in AttemptRows /\ D \in Seq(Nat) /\ new \in AttemptRows
  BY DEF RowOK
<1>1. PICK n \in Nat : n = Hands /\ n >= 1
  BY HandsCount
<1>2. PICK x \in Nat, y \in Nat, z \in Nat :
        /\ x = Cardinality(Within(C, t)) /\ y = Cardinality(InRow(C, row, t))
        /\ z = Cardinality(InEarlier(C, row, t)) /\ x = y + z
        /\ InRow(C, row, t) = {} => y = 0
        /\ InEarlier(C, row, t) = {} => z = 0
  BY <1>0, Sizes
<1>3. PICK x2 \in Nat, y2 \in Nat, z2 \in Nat :
        /\ x2 = Cardinality(Within(D, t)) /\ y2 = Cardinality(InRow(D, new, t))
        /\ z2 = Cardinality(InEarlier(D, new, t)) /\ x2 = y2 + z2
        /\ InRow(D, new, t) = {} => y2 = 0
        /\ InEarlier(D, new, t) = {} => z2 = 0
  BY <1>0, Sizes
<1>4. WINDOW \in Nat /\ BLOCK \in Nat /\ WINDOW > 1 /\ WINDOW <= BLOCK
  BY HandsCount
<1>5. PICK m \in Nat, first \in Nat, last \in {LastAt(C)} :
        m = row.count /\ first = row.first /\ last = LastAt(C)
  BY <1>0 DEF AttemptRows
<1>6. PICK h \in {0, 1} : /\ h = 1 <=> (t <= a /\ a < t + WINDOW)
                          /\ x2 = x + h
                          /\ ~ Afresh(row, a) => y2 = y + h
  <2>1. PICK h \in {0, 1} : h = 1 <=> (t <= a /\ a < t + WINDOW)
    <3>1. CASE t <= a /\ a < t + WINDOW
      BY <3>1
    <3>2. CASE ~ (t <= a /\ a < t + WINDOW)
      BY <3>2
    <3>3. QED
      BY <3>1, <3>2
  <2>2. /\ Cardinality(Within(D, t)) = Cardinality(Within(C, t)) + h
        /\ ~ Afresh(row, a) =>
             Cardinality(InRow(D, new, t)) = Cardinality(InRow(C, row, t)) + h
    BY <1>0, <2>1, SizesAfter
  <2>3. QED
    BY <1>2, <1>3, <2>1, <2>2
<1>7. x + b <= 2 * (limit + n - 2)
  BY <1>1, <1>2 DEF WindowOK
<1>8. x2 + b2 <= 2 * (limit + n - 2)
  <2>1. h = 1 => a < t + WINDOW
    BY <1>6
  <2>2. QED
    BY <1>6, <1>7, <2>1
<1>9. CASE ~ (time < t + WINDOW)
  BY <1>1, <1>3, <1>8, <1>9 DEF WindowOK
<1>10. CASE time < t + WINDOW
  <2>1. a < t + WINDOW /\ b2 = b - 1
    BY <1>4, <1>10
  <2>2. /\ InEarlier(C, row, t) # {} => z <= limit + n - 3
        /\ m >= limit /\ InRow(C, row, t) # {} =>
             \/ Normal(C, row, limit, t, b)
             \/ Over(C, row, limit, t, c)
             \/ OverLate(C, row, limit, t, time)
    BY <1>1, <1>2, <1>5, <1>10 DEF WindowOK
  <2>3. CASE Afresh(row, a)
    <3>0. InEarlier(D, new, t) = IF Afresh(row, a) THEN Within(C, t)
                                 ELSE InEarlier(C, row, t)
      BY <1>0, PartsAfter
    <3>1. InEarlier(D, new, t) = Within(C, t) /\ z2 = x
      BY <1>2, <1>3, <2>3, <3>0
    <3>2. ~ (new.count >= limit)
      <4>1. new.count = 1
        BY <2>3 DEF Failed
      <4>2. QED
        BY <4>1
    <3>3. InEarlier(D, new, t) # {} => z2 <= limit + n - 3
      <4>. SUFFICES ASSUME Within(C, t) # {} PROVE x <= limit + n - 3
        BY <3>1
      <4>1. m # 0
        <5>. SUFFICES ASSUME m = 0 PROVE FALSE
          OBVIOUS
        <5>1. Len(C) = 0
          BY <1>5 DEF RowOK
        <5>2. \A i \in Within(C, t) : i \in 1..Len(C)
          BY <1>0, Places
        <5>3. \A i \in Within(C, t) : FALSE
          BY <5>1, <5>2
        <5>4. QED
          BY <5>3
      <4>2. m >= 1 /\ a > first + WINDOW
        BY <1>4, <1>5, <2>3, <4>1 DEF Afresh
      <4>3. first <= t - 2
        BY <1>4, <2>1, <4>2
      <4>4. InEarlier(C, row, t) = {} /\ z = 0
        <5>1. \A i \in InEarlier(C, row, t) : C[i] < first
          BY <1>5, <4>2, NearLast
        <5>2. \A i \in InEarlier(C, row, t) : i \in 1..Len(C) /\ t <= C[i] /\ C[i] \in Nat
          BY <1>0, Places
        <5>3. \A i \in InEarlier(C, row, t) : FALSE
          BY <4>3, <5>1, <5>2
        <5>4. QED
          BY <1>2, <5>3
      <4>5. One(first, t) = 1 /\ One(last, t) \in {0, 1}
        BY <4>3 DEF One
      <4>6. CASE m < limit
        <5>1. y + One(first, t) <= m
          BY <1>2, <1>5, <4>2, RowSize
        <5>2. QED
          BY <1>1, <1>2, <4>4, <4>5, <4>6, <5>1
      <4>7. CASE m >= limit
        <5>1. InRow(C, row, t) # {} =>
                \/ y + b + One(first, t) + One(last, t) <= limit + n - 1
                \/ y + c <= limit + n - 3
                \/ first >= t - 1
          BY <1>1, <1>2, <1>5, <2>2, <4>7 DEF Normal, Over, OverLate
        <5>2. InRow(C, row, t) # {} => y <= limit + n - 3
          BY <2>1, <4>3, <4>5, <5>1
        <5>3. QED
          BY <1>1, <1>2, <4>4, <5>2
      <4>8. QED
        BY <4>6, <4>7
    <3>4. QED
      BY <1>1, <1>3, <1>8, <3>2, <3>3 DEF WindowOK
  <2>4. CASE ~ Afresh(row, a)
    <3>1. /\ new.count = m + 1 /\ new.first = first /\ LastAt(D) = a
          /\ m >= 1 /\ a <= first + WINDOW
          /\ InEarlier(D, new, t) = InEarlier(C, row, t)
      <4>0. InEarlier(D, new, t) = IF Afresh(row, a) THEN Within(C, t)
                                   ELSE InEarlier(C, row, t)
        BY <1>0, PartsAfter
      <4>1. InEarlier(D, new, t) = InEarlier(C, row, t)
        BY <2>4, <4>0
      <4>2. /\ new.count = m + 1 /\ new.first = first /\ LastAt(D) = a
            /\ m >= 1 /\ a <= first + WINDOW
        BY <1>5, <2>4 DEF Failed
      <4>3. QED
        BY <4>1, <4>2
    <3>2. z2 = z /\ y2 = y + h /\ c2 = c - 1
      BY <1>2, <1>3, <1>6, <2>4, <3>1
    <3>3. InEarlier(D, new, t) # {} => z2 <= limit + n - 3
      BY <2>2, <3>1, <3>2
    <3>4. /\ Normal(D, new, limit, t, b2)
               <=> y2 + b2 + One(first, t) + One(a, t) <= limit + n - 1
          /\ Over(D, new, limit, t, c2) <=> first <= t - 2 /\ y2 + c2 <= limit + n - 3
          /\ OverLate(D, new, limit, t, time)
               <=> first >= t - 1 /\ time >= t + WINDOW - 1
                     /\ (a < t => y2 <= limit + n - 2)
      BY <1>1, <1>3, <3>1 DEF Normal, Over, OverLate
    <3>5. /\ One(first, t) \in {0, 1} /\ One(a, t) \in {0, 1}
          /\ h + One(a, t) = 1
      BY <1>6, <2>1 DEF One
    <3>6. ASSUME m + 1 >= limit, InRow(D, new, t) # {}
          PROVE  \/ Normal(D, new, limit, t, b2)
                 \/ Over(D, new, limit, t, c2)
                 \/ OverLate(D, new, limit, t, time)
      <4>1. CASE m < limit
        <5>1. Cardinality(InRow(D, new, t)) + One(new.first, t) + One(LastAt(D), t)
                <= new.count
          <6>1. new.count >= 1 /\ new.count >= 2
            BY <3>1
          <6>2. QED
            BY <6>1, RowSize
        <5>2. y2 + One(first, t) + One(a, t) <= m + 1
          BY <1>3, <3>1, <5>1
        <5>3. y2 + b2 + One(first, t) + One(a, t) <= limit + n - 1
          BY <1>1, <3>5, <4>1, <5>2
        <5>4. QED
          BY <3>4, <5>3
      <4>2. CASE m >= limit /\ InRow(C, row, t) = {}
        <5>1. y = 0
          BY <1>2, <4>2
        <5>2. y2 + b2 + One(first, t) + One(a, t) <= limit + n - 1
          BY <1>1, <3>2, <3>5, <5>1
        <5>3. QED
          BY <3>4, <5>2
      <4>3. CASE m >= limit /\ InRow(C, row, t) # {}
        <5>1. CASE Normal(C, row, limit, t, b)
          <6>1. y + b + One(first, t) + One(last, t) <= limit + n - 1
            BY <1>1, <1>2, <1>5, <5>1 DEF Normal
          <6>2. One(last, t) \in {0, 1}
            BY DEF One
          <6>3. y2 + b2 + One(first, t) + One(a, t) <= limit + n - 1
            BY <2>1, <3>2, <3>5, <6>1, <6>2
          <6>4. QED
            BY <3>4, <6>3
        <5>2. CASE Over(C, row, limit, t, c)
          <6>1. first <= t - 2 /\ y + c <= limit + n - 3
            BY <1>1, <1>2, <1>5, <5>2 DEF Over
          <6>2. y2 + c2 <= limit + n - 3
            BY <3>2, <6>1
          <6>3. QED
            BY <3>4, <6>1, <6>2
        <5>3. CASE OverLate(C, row, limit, t, time)
          <6>1. first >= t - 1 /\ time >= t + WINDOW - 1
            BY <1>5, <5>3 DEF OverLate
          <6>2. a >= t
            BY <1>4, <6>1
          <6>3. QED
            BY <3>4, <6>1, <6>2
        <5>4. QED
          BY <2>2, <4>3, <5>1, <5>2, <5>3
      <4>4. QED
        BY <4>1, <4>2, <4>3
    <3>7. QED
      BY <1>1, <1>3, <1>8, <3>1, <3>3, <3>6 DEF WindowOK
  <2>5. QED
    BY <2>3, <2>4
<1>11. QED
  BY <1>9, <1>10

\* What was bounded stays so with less to come, and as time passes.
LEMMA LessFits ==
  ASSUME NEW C, NEW row, NEW limit \in Nat, limit > 1, NEW time \in Nat,
         NEW t \in Nat, NEW b \in Nat, NEW c \in Nat, NEW b2 \in Nat, NEW c2 \in Nat,
         NEW time2 \in Nat, time <= time2, b2 <= b, c2 <= c,
         RowOK(C, row, limit, time), WindowOK(C, row, limit, time, t, b, c)
  PROVE  RowOK(C, row, limit, time2) /\ WindowOK(C, row, limit, time2, t, b2, c2)
<1>0. C \in Seq(Nat) /\ row \in AttemptRows /\ Hands \in Nat /\ WINDOW \in Nat
  BY HandsCount DEF RowOK
<1>1. RowOK(C, row, limit, time2)
  <2>1. \A i \in 1..Len(C) : C[i] <= time2
    <3>1. \A i \in 1..Len(C) : C[i] \in Nat /\ C[i] <= time
      BY <1>0, Places DEF RowOK
    <3>2. QED
      BY <3>1
  <2>2. QED
    BY <2>1 DEF RowOK
<1>2. PICK x \in Nat, y \in Nat, z \in Nat :
        /\ x = Cardinality(Within(C, t)) /\ y = Cardinality(InRow(C, row, t))
        /\ z = Cardinality(InEarlier(C, row, t)) /\ x = y + z
        /\ InRow(C, row, t) = {} => y = 0
        /\ InEarlier(C, row, t) = {} => z = 0
  BY <1>0, Sizes
<1>3. x + b2 <= 2 * (limit + Hands - 2)
  <2>1. Hands \in Nat
    BY <1>0
  <2>2. x + b <= 2 * (limit + Hands - 2)
    BY <1>2 DEF WindowOK
  <2>3. QED
    BY <2>1, <2>2
<1>4. CASE ~ (time2 < t + WINDOW)
  BY <1>1, <1>2, <1>3, <1>4 DEF WindowOK
<1>5. CASE time2 < t + WINDOW
  <2>1. time < t + WINDOW
    BY <1>0, <1>5
  <2>2. Normal(C, row, limit, t, b) => Normal(C, row, limit, t, b2)
    <3>1. PICK f \in {0, 1}, l \in {0, 1} : f = One(row.first, t) /\ l = One(LastAt(C), t)
      BY DEF One
    <3>2. y + b + f + l <= limit + Hands - 1 => y + b2 + f + l <= limit + Hands - 1
      BY <1>0
    <3>3. QED
      BY <1>2, <3>1, <3>2 DEF Normal
  <2>3. Over(C, row, limit, t, c) => Over(C, row, limit, t, c2)
    <3>1. y + c <= limit + Hands - 3 => y + c2 <= limit + Hands - 3
      BY <1>0
    <3>2. QED
      BY <1>2, <3>1 DEF Over
  <2>4. OverLate(C, row, limit, t, time) => OverLate(C, row, limit, t, time2)
    <3>1. time >= t + WINDOW - 1 => time2 >= t + WINDOW - 1
      BY <1>0
    <3>2. QED
      BY <3>1 DEF OverLate
  <2>5. QED
    BY <1>1, <1>2, <1>3, <2>1, <2>2, <2>3, <2>4 DEF WindowOK
<1>6. QED
  BY <1>4, <1>5

\* Nothing has failed.
LEMMA NoneFits ==
  ASSUME NEW limit \in Nat, limit > 1, NEW time \in Nat, NEW t \in Nat, NEW b \in Nat,
         NEW c \in Nat, b <= Hands
  PROVE  RowOK(<<>>, NoRow, limit, time) /\ WindowOK(<<>>, NoRow, limit, time, t, b, c)
<1>. DEFINE C == <<>>
<1>0. /\ C \in Seq(Nat) /\ Len(C) = 0 /\ NoRow \in AttemptRows /\ NoRow.count = 0
      /\ Hands \in Nat
  BY HandsCount DEF NoRow, AttemptRows
<1>. HIDE DEF C
<1>1. RowOK(C, NoRow, limit, time)
  BY <1>0 DEF RowOK
<1>2. Within(C, t) = {}
  <2>1. \A i \in Within(C, t) : i \in 1..Len(C)
    BY <1>0, Places
  <2>2. \A i \in Within(C, t) : FALSE
    BY <1>0, <2>1
  <2>3. QED
    BY <2>2
<1>3. InEarlier(C, NoRow, t) = {} /\ ~ (NoRow.count >= limit)
  BY <1>0, <1>2 DEF InEarlier
<1>4. Cardinality(Within(C, t)) + b <= 2 * (limit + Hands - 2)
  <2>1. Cardinality(Within(C, t)) = 0
    BY <1>2, FS_EmptySet
  <2>2. QED
    BY <1>0, <2>1
<1>5. WindowOK(C, NoRow, limit, time, t, b, c)
  BY <1>3, <1>4 DEF WindowOK
<1>6. QED
  BY <1>1, <1>5 DEF C

-----------------------------------------------------------------------------
(* The requests before a time                                              *)

LEMMA BeforeSize ==
  ASSUME NEW r, NEW m, NEW n, NEW e
  PROVE  /\ IsFiniteSet(Before(r, m, n, e)) /\ Before(r, m, n, e) \in SUBSET Workers
         /\ Cardinality(Before(r, m, n, e)) \in Nat
         /\ Cardinality(Before(r, m, n, e)) <= Hands
<1>1. Before(r, m, n, e) \in SUBSET Workers
  BY DEF Before
<1>2. IsFiniteSet(Workers)
  BY AccessAssumption
<1>3. QED
  BY <1>1, <1>2, FS_Subset, FS_CardinalityType DEF Hands

LEMMA FewerBefore ==
  ASSUME NEW r, NEW m, NEW n, NEW e, NEW r2, NEW m2, NEW n2, NEW e2,
         Before(r2, m2, n2, e2) \subseteq Before(r, m, n, e)
  PROVE  Cardinality(Before(r2, m2, n2, e2)) <= Cardinality(Before(r, m, n, e))
<1>1. IsFiniteSet(Before(r, m, n, e))
  BY BeforeSize
<1>2. Before(r2, m2, n2, e2) \in SUBSET Before(r, m, n, e)
  OBVIOUS
<1>3. QED
  BY <1>1, <1>2, FS_Subset

LEMMA SoonerBefore ==
  ASSUME NEW r \in [Workers -> Requests], NEW m \in Nat, NEW n, NEW e \in Int,
         NEW e2 \in Int, e <= e2
  PROVE  Before(r, m, n, e) \subseteq Before(r, m, n, e2)
<1>1. SUFFICES ASSUME NEW w \in Before(r, m, n, e) PROVE w \in Before(r, m, n, e2)
  OBVIOUS
<1>2. w \in Workers /\ r[w] \in Requests
  BY DEF Before
<1>3. r[w].pc = "counting" => r[w].at \in Nat
  BY <1>2, Fields
<1>4. QED
  BY <1>1, <1>2, <1>3 DEF Before

\* The clock, and every step but a login that begins, leave at most those.
LEMMA BeforeStays ==
  ASSUME Shapes, NEW w \in Workers, Moves(w), NEW n, NEW e,
         ~ (req'[w].pc = "asked" /\ req'[w].name = n)
  PROVE  Before(req', now', n, e) \subseteq Before(req, now, n, e)
<1>1. SUFFICES ASSUME NEW v \in Before(req', now', n, e) PROVE v \in Before(req, now, n, e)
  OBVIOUS
<1>2. CASE v = w
  BY <1>1, <1>2 DEF Before, Moves
<1>3. CASE v # w
  BY <1>1, <1>3 DEF Before, Moves
<1>4. QED
  BY <1>2, <1>3

LEMMA BeforeAsked ==
  ASSUME Shapes, NEW w \in Workers, Moves(w), req'[w].pc = "asked", NEW n, NEW e
  PROVE  /\ Before(req', now', n, e) \subseteq Before(req, now, n, e) \cup {w}
         /\ ~ (now <= e) => Before(req', now', n, e) \subseteq Before(req, now, n, e)
<1>1. /\ \A v \in Workers \ {w} : req'[v] = req[v]
      /\ now' = now
  BY DEF Moves
<1>2. \A v \in Before(req', now', n, e) : v # w => v \in Before(req, now, n, e)
  BY <1>1 DEF Before
<1>3. ~ (now <= e) => w \notin Before(req', now', n, e)
  BY <1>1 DEF Before
<1>4. QED
  BY <1>2, <1>3

LEMMA BeforeCounted ==
  ASSUME Shapes, NEW w \in Workers, Moves(w), req[w].pc = "counting",
         req'[w] = Idle, NEW n, n = req[w].name, NEW e
  PROVE  /\ Before(req', now', n, e) = Before(req, now, n, e) \ {w}
         /\ w \in Before(req, now, n, e) <=> req[w].at <= e
<1>1. /\ \A v \in Workers \ {w} : req'[v] = req[v]
      /\ now' = now /\ req'[w].pc = "idle"
  BY DEF Moves, Idle
<1>2. w \notin Before(req', now', n, e)
  BY <1>1 DEF Before
<1>3. \A v \in Workers \ {w} : v \in Before(req', now', n, e) <=> v \in Before(req, now, n, e)
  BY <1>1 DEF Before
<1>4. Before(req', now', n, e) \subseteq Workers /\ Before(req, now, n, e) \subseteq Workers
  BY DEF Before
<1>5. QED
  BY <1>2, <1>3, <1>4 DEF Before

-----------------------------------------------------------------------------
(* The steps                                                               *)

\* The row and the failures of a name, and what may still be counted.
LEMMA Reads ==
  ASSUME IInv, NEW n \in Names, Throttled(n)
  PROVE  /\ RowOK(counted[n], attempts[n], Limit[n], now)
         /\ \A t \in 0..MaxNow :
              WindowOK(counted[n], attempts[n], Limit[n], now, t,
                       Cardinality(Before(req, now, n, t + WINDOW - 1)),
                       Cardinality(Before(req, now, n, attempts[n].first + WINDOW)))
         /\ Limit[n] \in Nat /\ Limit[n] > 1 /\ now \in Nat
         /\ attempts[n].first \in Nat /\ attempts[n] \in AttemptRows
         /\ MaxNow \in Nat /\ \A t \in 0..MaxNow : t \in Nat
<1>1. MaxNow \in Nat /\ \A t \in 0..MaxNow : t \in Nat
  BY AccessAssumption
<1>2. attempts[n] \in AttemptRows
  BY KeysHaveLimits DEF IInv, AttemptsOK
<1>3. QED
  BY <1>1, <1>2, KeysHaveLimits DEF IInv, Shapes, Throttled, AttemptRows

\* A step that neither counts a failure of a name nor asks for it.
LEMMA Untouched ==
  ASSUME IInv, NEW n \in Names, Throttled(n), now' \in Nat, now <= now',
         counted'[n] = counted[n], attempts'[n] = attempts[n],
         \A e \in Int : Before(req', now', n, e) \subseteq Before(req, now, n, e)
  PROVE  Throttled(n)'
<1>. DEFINE c == Cardinality(Before(req, now, n, attempts[n].first + WINDOW))
            c2 == Cardinality(Before(req', now', n, attempts[n].first + WINDOW))
<1>0. WINDOW \in Nat
  BY HandsCount
<1>1. c \in Nat /\ c2 \in Nat /\ c2 <= c
  <2>1. attempts[n].first + WINDOW \in Int
    BY <1>0, Reads
  <2>2. QED
    BY <2>1, BeforeSize, FewerBefore
<1>2. ASSUME NEW t \in 0..MaxNow
      PROVE  /\ RowOK(counted[n], attempts[n], Limit[n], now')
             /\ WindowOK(counted[n], attempts[n], Limit[n], now', t,
                  Cardinality(Before(req', now', n, t + WINDOW - 1)), c2)
  <2>. DEFINE b == Cardinality(Before(req, now, n, t + WINDOW - 1))
              b2 == Cardinality(Before(req', now', n, t + WINDOW - 1))
  <2>1. t + WINDOW - 1 \in Int
    BY <1>0
  <2>2. b \in Nat /\ b2 \in Nat /\ b2 <= b
    BY <2>1, BeforeSize, FewerBefore
  <2>3. /\ RowOK(counted[n], attempts[n], Limit[n], now)
        /\ WindowOK(counted[n], attempts[n], Limit[n], now, t, b, c)
        /\ Limit[n] \in Nat /\ Limit[n] > 1 /\ now \in Nat /\ t \in Nat
    BY Reads
  <2>. HIDE DEF b, b2, c, c2
  <2>4. /\ RowOK(counted[n], attempts[n], Limit[n], now')
        /\ WindowOK(counted[n], attempts[n], Limit[n], now', t, b2, c2)
    BY <1>1, <2>2, <2>3, LessFits
  <2>5. QED
    BY <2>4 DEF b2
<1>3. 0 \in 0..MaxNow
  BY AccessAssumption
<1>4. RowOK(counted'[n], attempts'[n], Limit[n], now')
  BY <1>2, <1>3
<1>5. \A t \in 0..MaxNow :
        WindowOK(counted'[n], attempts'[n], Limit[n], now', t,
          Cardinality(Before(req', now', n, t + WINDOW - 1)),
          Cardinality(Before(req', now', n, attempts'[n].first + WINDOW)))
  BY <1>2
<1>6. QED
  BY <1>4, <1>5 DEF Throttled

\* retry_after lets a login of the name begin.
LEMMA AskKeeps ==
  ASSUME IInv, NEW w \in Workers, NEW n \in Names, Throttled(n), Moves(w),
         NEW p \in Passwords, NEW a \in Addresses, AskLogin(w, n, p, a)
  PROVE  Throttled(n)'
<1>. DEFINE c == Cardinality(Before(req, now, n, attempts[n].first + WINDOW))
            c2 == Cardinality(Before(req', now', n, attempts[n].first + WINDOW))
<1>0. /\ WINDOW \in Nat /\ Hands \in Nat /\ Hands >= 1
      /\ req'[w].pc = "asked" /\ now' = now
      /\ counted' = counted /\ attempts' = attempts
      /\ attempts[n].blocked <= now
  <2>1. attempts[n].blocked \in Nat /\ now \in Nat
    BY Reads DEF AttemptRows
  <2>2. req'[w] = [pc |-> "asked", name |-> n, pw |-> p, ip |-> a]
    BY DEF AskLogin, Begins, Request, IInv, Shapes
  <2>3. /\ now' = now /\ counted' = counted /\ attempts' = attempts
        /\ ~ (attempts[n].blocked > now)
    BY DEF AskLogin, Blocked, store
  <2>4. QED
    BY <2>1, <2>2, <2>3, HandsCount
<1>1. /\ c \in Nat /\ c2 \in Nat
      /\ ~ (now <= attempts[n].first + WINDOW) => c2 <= c
  BY <1>0, BeforeSize, BeforeAsked, FewerBefore DEF IInv
<1>2. ASSUME NEW t \in 0..MaxNow
      PROVE  WindowOK(counted[n], attempts[n], Limit[n], now, t,
                  Cardinality(Before(req', now', n, t + WINDOW - 1)), c2)
  <2>. DEFINE B == Before(req, now, n, t + WINDOW - 1)
              B2 == Before(req', now', n, t + WINDOW - 1)
              b == Cardinality(B)
              b2 == Cardinality(B2)
  <2>1. /\ RowOK(counted[n], attempts[n], Limit[n], now)
        /\ WindowOK(counted[n], attempts[n], Limit[n], now, t, b, c)
        /\ Limit[n] \in Nat /\ Limit[n] > 1 /\ now \in Nat /\ t \in Nat
        /\ attempts[n].first \in Nat
    BY Reads
  <2>2. b \in Nat /\ b2 \in Nat /\ b2 <= Hands /\ IsFiniteSet(B)
    BY BeforeSize
  <2>3. b2 <= b + 1
    <3>1. B2 \in SUBSET (B \cup {w})
      BY <1>0, BeforeAsked DEF IInv
    <3>2. /\ IsFiniteSet(B \cup {w})
          /\ Cardinality(B \cup {w}) = IF w \in B THEN b ELSE b + 1
      BY <2>2, FS_AddElement
    <3>3. b2 <= Cardinality(B \cup {w})
      BY <3>1, <3>2, FS_Subset
    <3>4. QED
      BY <2>2, <3>2, <3>3
  <2>4. now >= t + WINDOW => b2 <= b
    <3>1. now >= t + WINDOW => ~ (now <= t + WINDOW - 1)
      BY <1>0, <2>1
    <3>2. QED
      BY <1>0, <3>1, BeforeAsked, FewerBefore DEF IInv
  <2>5. now > attempts[n].first + WINDOW => c2 <= c
    BY <1>0, <1>1, <2>1
  <2>6. attempts[n].first <= t - 2 => c <= b
    <3>1. attempts[n].first <= t - 2 =>
            /\ attempts[n].first + WINDOW \in Int /\ t + WINDOW - 1 \in Int
            /\ attempts[n].first + WINDOW <= t + WINDOW - 1
      BY <1>0, <2>1
    <3>2. QED
      BY <2>1, <3>1, SoonerBefore, FewerBefore DEF IInv, Shapes
  <2>. HIDE DEF b, b2, c, c2
  <2>7. WindowOK(counted[n], attempts[n], Limit[n], now, t, b2, c2)
    BY <1>0, <1>1, <2>1, <2>2, <2>3, <2>4, <2>5, <2>6, AskFits
  <2>8. QED
    BY <2>7 DEF b2
<1>3. RowOK(counted'[n], attempts'[n], Limit[n], now')
  BY <1>0, Reads
<1>4. \A t \in 0..MaxNow :
        WindowOK(counted'[n], attempts'[n], Limit[n], now', t,
          Cardinality(Before(req', now', n, t + WINDOW - 1)),
          Cardinality(Before(req', now', n, attempts'[n].first + WINDOW)))
  BY <1>0, <1>2
<1>5. QED
  BY <1>3, <1>4 DEF Throttled

\* A failure of the name is counted.
LEMMA CountKeeps ==
  ASSUME IInv, NEW w \in Workers, NEW n \in Names, Throttled(n), Moves(w),
         counted \in [Names -> Seq(Nat)], CountFailure(w), req[w].name = n
  PROVE  Throttled(n)'
<1>. DEFINE a == req[w].at
            e == attempts[n].first + WINDOW
            D == counted'[n]
            new == attempts'[n]
            c == Cardinality(Before(req, now, n, e))
            c2 == Cardinality(Before(req', now', n, new.first + WINDOW))
<1>0. /\ req[w].pc = "counting" /\ req'[w] = Idle /\ now' = now
      /\ a \in Nat /\ a <= now /\ now <= a + 1
  <2>1. req[w].pc = "counting" /\ req'[w] = Idle /\ now' = now
    BY DEF CountFailure, Ends, Request, IInv, Shapes
  <2>2. a \in Nat
    BY <2>1, Fields DEF IInv, Shapes
  <2>3. a \in {now - 1, now} /\ now \in Nat
    BY <2>1 DEF IInv, Counting, Shapes
  <2>4. QED
    BY <2>1, <2>2, <2>3
<1>1. /\ WINDOW \in Nat /\ Hands \in Nat /\ Hands >= 1
  BY HandsCount
<1>2. D = Append(counted[n], a) /\ new = Count(attempts[n], Limit[n], a)
  <2>1. n \in Keys
    BY KeysHaveLimits
  <2>2. QED
    BY <2>1 DEF CountFailure
<1>3. /\ RowOK(counted[n], attempts[n], Limit[n], now)
      /\ Limit[n] \in Nat /\ Limit[n] > 1 /\ now \in Nat
      /\ attempts[n] \in AttemptRows /\ counted[n] \in Seq(Nat)
  BY Reads
<1>. HIDE DEF a, D, new
<1>4. Failed(counted[n], attempts[n], Limit[n], a, D, new)
  BY <1>0, <1>2, <1>3, After
<1>5. RowOK(D, new, Limit[n], now)
  BY <1>0, <1>3, <1>4, CommitRow
<1>6. c \in Nat /\ c2 \in Nat
  BY BeforeSize
<1>7. ~ Afresh(attempts[n], a) => c2 = c - 1
  <2>. SUFFICES ASSUME ~ Afresh(attempts[n], a) PROVE c2 = c - 1
    OBVIOUS
  <2>1. new.first = attempts[n].first /\ a <= e
    BY <1>4 DEF Failed
  <2>2. /\ Before(req', now', n, e) = Before(req, now, n, e) \ {w}
        /\ w \in Before(req, now, n, e)
    BY <1>0, <2>1, BeforeCounted DEF IInv, a
  <2>3. IsFiniteSet(Before(req, now, n, e))
    BY BeforeSize
  <2>4. Cardinality(Before(req, now, n, e) \ {w}) = Cardinality(Before(req, now, n, e)) - 1
    BY <2>2, <2>3, FS_RemoveElement
  <2>5. QED
    BY <2>1, <2>2, <2>4
<1>8. ASSUME NEW t \in 0..MaxNow
      PROVE  WindowOK(D, new, Limit[n], now, t,
                  Cardinality(Before(req', now', n, t + WINDOW - 1)), c2)
  <2>. DEFINE B == Before(req, now, n, t + WINDOW - 1)
              B2 == Before(req', now', n, t + WINDOW - 1)
              b == Cardinality(B)
              b2 == Cardinality(B2)
  <2>1. /\ WindowOK(counted[n], attempts[n], Limit[n], now, t, b, c)
        /\ t \in Nat
    BY Reads
  <2>2. b \in Nat /\ b2 \in Nat /\ IsFiniteSet(B)
    BY BeforeSize
  <2>3. /\ B2 = B \ {w}
        /\ w \in B <=> a <= t + WINDOW - 1
    BY <1>0, BeforeCounted DEF IInv, a
  <2>4. b2 = IF w \in B THEN b - 1 ELSE b
    BY <2>2, <2>3, FS_RemoveElement
  <2>5. a <= t + WINDOW - 1 <=> a < t + WINDOW
    BY <1>0, <1>1, <2>1
  <2>6. b2 = IF a < t + WINDOW THEN b - 1 ELSE b
    BY <2>3, <2>4, <2>5
  <2>7. b2 <= Hands - 1
    <3>1. B2 \in SUBSET (Workers \ {w})
      BY <2>3, BeforeSize
    <3>2. IsFiniteSet(Workers)
      BY AccessAssumption
    <3>3. IsFiniteSet(Workers \ {w}) /\ Cardinality(Workers \ {w}) = Hands - 1
      BY <3>2, FS_RemoveElement DEF Hands
    <3>4. QED
      BY <3>1, <3>3, FS_Subset
  <2>. HIDE DEF b, b2, c, c2, B, B2
  <2>8. WindowOK(D, new, Limit[n], now, t, b2, c2)
    BY <1>0, <1>1, <1>3, <1>4, <1>5, <1>6, <1>7, <2>1, <2>2, <2>6, <2>7, CommitFits
  <2>9. QED
    BY <2>8 DEF b2, B2
<1>9. RowOK(counted'[n], attempts'[n], Limit[n], now')
  BY <1>0, <1>5 DEF D, new
<1>10. \A t \in 0..MaxNow :
        WindowOK(counted'[n], attempts'[n], Limit[n], now', t,
          Cardinality(Before(req', now', n, t + WINDOW - 1)),
          Cardinality(Before(req', now', n, attempts'[n].first + WINDOW)))
  BY <1>0, <1>8 DEF D, new
<1>11. QED
  BY <1>9, <1>10 DEF Throttled

\* The failures of the name are forgotten, or there were none.
LEMMA ClearKeeps ==
  ASSUME NEW n \in Names, now' \in Nat, counted'[n] = <<>>, attempts'[n] = NoRow
  PROVE  Throttled(n)'
<1>1. Limit[n] \in Nat /\ Limit[n] > 1 /\ \A t \in 0..MaxNow : t \in Nat
  BY KeysHaveLimits, AccessAssumption
<1>2. ASSUME NEW t \in 0..MaxNow
      PROVE  /\ RowOK(<<>>, NoRow, Limit[n], now')
             /\ WindowOK(<<>>, NoRow, Limit[n], now', t,
                  Cardinality(Before(req', now', n, t + WINDOW - 1)),
                  Cardinality(Before(req', now', n, NoRow.first + WINDOW)))
  <2>. DEFINE b == Cardinality(Before(req', now', n, t + WINDOW - 1))
              c == Cardinality(Before(req', now', n, NoRow.first + WINDOW))
  <2>1. b \in Nat /\ c \in Nat /\ b <= Hands
    BY BeforeSize
  <2>. HIDE DEF b, c
  <2>2. /\ RowOK(<<>>, NoRow, Limit[n], now')
        /\ WindowOK(<<>>, NoRow, Limit[n], now', t, b, c)
    BY <1>1, <2>1, NoneFits
  <2>3. QED
    BY <2>2 DEF b, c
<1>3. 0 \in 0..MaxNow
  BY AccessAssumption
<1>4. RowOK(counted'[n], attempts'[n], Limit[n], now')
  BY <1>2, <1>3
<1>5. \A t \in 0..MaxNow :
        WindowOK(counted'[n], attempts'[n], Limit[n], now', t,
          Cardinality(Before(req', now', n, t + WINDOW - 1)),
          Cardinality(Before(req', now', n, attempts'[n].first + WINDOW)))
  BY <1>2
<1>6. QED
  BY <1>4, <1>5 DEF Throttled

LEMMA StepThrottled ==
  ASSUME IInv, Throttle, NEW w \in Workers, Step(w), NEW n \in Names
  PROVE  counted'[n] \in Seq(Nat) /\ Throttled(n)'
<1>0. /\ Moves(w) /\ req[w] \in Requests /\ now \in Nat /\ now' = now
      /\ counted[n] \in Seq(Nat) /\ counted \in [Names -> Seq(Nat)] /\ Throttled(n)
  BY StepMoves DEF IInv, Shapes, Throttle, Moves
<1>1. ASSUME CountFailure(w), req[w].name = n
      PROVE  counted'[n] \in Seq(Nat) /\ Throttled(n)'
  <2>1. Throttled(n)'
    BY <1>0, <1>1, CountKeeps
  <2>2. counted'[n] \in Seq(Nat)
    BY <2>1 DEF Throttled, RowOK
  <2>3. QED
    BY <2>1, <2>2
<1>2. ASSUME ClearFailures(w), req[w].name = n
      PROVE  counted'[n] \in Seq(Nat) /\ Throttled(n)'
  <2>1. n \in Keys /\ attempts \in [Keys -> AttemptRows]
    BY KeysHaveLimits DEF IInv, AttemptsOK
  <2>2. counted'[n] = <<>> /\ attempts'[n] = NoRow
    BY <1>0, <1>2, <2>1 DEF ClearFailures
  <2>3. now' \in Nat
    BY <1>0
  <2>4. Throttled(n)'
    BY <2>2, <2>3, ClearKeeps
  <2>5. QED
    BY <2>2, <2>4
<1>3. ASSUME ~ (CountFailure(w) /\ req[w].name = n),
             ~ (ClearFailures(w) /\ req[w].name = n)
      PROVE  counted'[n] = counted[n] /\ attempts'[n] = attempts[n]
  <2>1. attempts \in [Keys -> AttemptRows] /\ n \in Keys /\ n \notin Addresses
    BY KeysHaveLimits, AccessAssumption DEF IInv, AttemptsOK
  <2>2. CASE CountFailure(w)
    <3>1. req[w].name # n /\ req[w].ip # n
      BY <1>0, <1>3, <2>1, <2>2, Fields DEF CountFailure
    <3>2. QED
      BY <1>0, <2>1, <2>2, <3>1 DEF CountFailure
  <2>3. CASE ClearFailures(w)
    BY <1>0, <1>3, <2>1, <2>3 DEF ClearFailures
  <2>4. CASE ~ CountFailure(w) /\ ~ ClearFailures(w)
    <3>1. attempts' = attempts
      BY <2>4, RowsStay
    <3>2. counted' = counted
      BY <2>4 DEF Step, OpenSetup, CreateFirst, AskLogin, CheckPassword, UpgradeHash,
           StartSession, LoginBreaks, LoseFailure, FindSession, Touch, Logout,
           AskPermission, AddUser, DeleteUser, ChangePassword, SetPermissions,
           CreateToken, DeleteToken, Edit, history
    <3>3. QED
      BY <3>1, <3>2
  <2>5. QED
    BY <2>2, <2>3, <2>4
<1>4. ASSUME ~ (CountFailure(w) /\ req[w].name = n),
             ~ (ClearFailures(w) /\ req[w].name = n)
      PROVE  counted'[n] \in Seq(Nat) /\ Throttled(n)'
  <2>1. counted'[n] = counted[n] /\ attempts'[n] = attempts[n]
    BY <1>3, <1>4
  <2>2. CASE req'[w].pc = "asked" /\ req'[w].name = n
    <3>1. PICK p \in Passwords, a \in Addresses : AskLogin(w, n, p, a)
      BY <1>0, <2>2 DEF Moves
    <3>2. Throttled(n)'
      BY <1>0, <3>1, AskKeeps
    <3>3. QED
      BY <1>0, <2>1, <3>2
  <2>3. CASE ~ (req'[w].pc = "asked" /\ req'[w].name = n)
    <3>1. \A e \in Int : Before(req', now', n, e) \subseteq Before(req, now, n, e)
      BY <1>0, <2>3, BeforeStays DEF IInv
    <3>2. now' \in Nat /\ now <= now'
      BY <1>0
    <3>3. Throttled(n)'
      BY <1>0, <2>1, <3>1, <3>2, Untouched
    <3>4. QED
      BY <1>0, <2>1, <3>3
  <2>4. QED
    BY <2>2, <2>3
<1>5. QED
  BY <1>1, <1>2, <1>4

LEMMA ThrottleStays == IInv /\ Throttle /\ [Next]_vars => Throttle'
<1>. SUFFICES ASSUME IInv, Throttle, [Next]_vars PROVE Throttle'
  OBVIOUS
<1>0. now \in Nat /\ counted \in [Names -> Seq(Nat)] /\ \A n \in Names : Throttled(n)
  BY DEF IInv, Shapes, Throttle
<1>1. ASSUME now' \in Nat, now <= now', counted' = counted, attempts' = attempts,
             req' = req
      PROVE  Throttle'
  <2>1. ASSUME NEW n \in Names PROVE Throttled(n)'
    <3>1. \A e \in Int : Before(req', now', n, e) \subseteq Before(req, now, n, e)
      BY <1>0, <1>1 DEF Before
    <3>2. QED
      BY <1>0, <1>1, <3>1, Untouched
  <2>2. QED
    BY <1>0, <1>1, <2>1 DEF Throttle
<1>2. CASE Tick
  BY <1>0, <1>1, <1>2 DEF Tick, store, history
<1>3. CASE Clean \/ CleanerEnds \/ UNCHANGED vars
  BY <1>0, <1>1, <1>3 DEF Clean, CleanerEnds, vars, store, history
<1>4. ASSUME NEW w \in Workers, Step(w)
      PROVE  Throttle'
  <2>1. \A n \in Names : counted'[n] \in Seq(Nat) /\ Throttled(n)'
    BY <1>4, StepThrottled
  <2>2. counted' = [n \in Names |-> counted'[n]]
    <3>1. counted' = counted \/ (\E n, x : counted' = [counted EXCEPT ![n] = x])
      BY <1>4 DEF Step, OpenSetup, CreateFirst, AskLogin, CheckPassword, UpgradeHash,
           ClearFailures, StartSession, LoginBreaks, CountFailure, LoseFailure,
           FindSession, Touch, Logout, AskPermission, AddUser, DeleteUser,
           ChangePassword, SetPermissions, CreateToken, DeleteToken, Edit, history
    <3>2. QED
      BY <1>0, <3>1
  <2>3. counted' \in [Names -> Seq(Nat)]
    BY <2>1, <2>2
  <2>4. QED
    BY <2>1, <2>3 DEF Throttle
<1>5. QED
  BY <1>2, <1>3, <1>4 DEF Next

\* A window never holds more failures of a name than the two rows it may see
\* and the workers that were checking a password allow, however the requests
\* overlap.
THEOREM GuessesAreBounded == Spec => []GuessesBounded
<1>1. Init => Throttle
  <2>. SUFFICES ASSUME Init PROVE Throttle
    OBVIOUS
  <2>1. counted = [n \in Names |-> <<>>] /\ attempts = [k \in Keys |-> NoRow] /\ now = 0
    BY DEF Init
  <2>2. ASSUME NEW n \in Names PROVE Throttled(n)
    <3>1. counted[n] = <<>> /\ attempts[n] = NoRow
      BY <2>1, KeysHaveLimits
    <3>2. Limit[n] \in Nat /\ Limit[n] > 1 /\ \A t \in 0..MaxNow : t \in Nat
      BY KeysHaveLimits, AccessAssumption
    <3>3. RowOK(<<>>, NoRow, Limit[n], 0)
      <4>1. 0 \in Nat /\ Hands \in Nat /\ 0 <= Hands
        BY HandsCount
      <4>2. QED
        BY <3>2, <4>1, NoneFits
    <3>4. ASSUME NEW t \in 0..MaxNow
          PROVE  WindowOK(<<>>, NoRow, Limit[n], 0, t,
                   Cardinality(Before(req, now, n, t + WINDOW - 1)),
                   Cardinality(Before(req, now, n, NoRow.first + WINDOW)))
      <4>. DEFINE b == Cardinality(Before(req, now, n, t + WINDOW - 1))
                  c == Cardinality(Before(req, now, n, NoRow.first + WINDOW))
      <4>1. b \in Nat /\ c \in Nat /\ b <= Hands
        BY BeforeSize
      <4>. HIDE DEF b, c
      <4>2. WindowOK(<<>>, NoRow, Limit[n], 0, t, b, c)
        BY <3>2, <4>1, NoneFits
      <4>3. QED
        BY <4>2 DEF b, c
    <3>5. QED
      BY <2>1, <3>1, <3>3, <3>4 DEF Throttled
  <2>3. QED
    BY <2>1, <2>2 DEF Throttle
<1>2. IInv /\ Throttle => GuessesBounded
  <2>. SUFFICES ASSUME IInv, Throttle, NEW n \in Names, NEW t \in 0..MaxNow
                PROVE  Cardinality(InWindow(n, t))
                         <= 2 * (Limit[n] + Cardinality(Workers) - 2)
    BY DEF GuessesBounded
  <2>. DEFINE b == Cardinality(Before(req, now, n, t + WINDOW - 1))
  <2>1. b \in Nat
    BY BeforeSize
  <2>2. Cardinality(Within(counted[n], t)) + b <= 2 * (Limit[n] + Hands - 2)
    BY Reads DEF Throttle, WindowOK
  <2>3. Cardinality(Within(counted[n], t)) \in Nat /\ Hands \in Nat /\ Limit[n] \in Nat
    BY Parts, Reads, HandsCount, AccessAssumption DEF Throttle
  <2>4. InWindow(n, t) = Within(counted[n], t)
    BY DEF InWindow, Within
  <2>. HIDE DEF b
  <2>5. Cardinality(Within(counted[n], t)) <= 2 * (Limit[n] + Hands - 2)
    BY <2>1, <2>2, <2>3
  <2>6. QED
    BY <2>4, <2>5 DEF Hands
<1>3. IInv /\ Throttle /\ [Next]_vars => Throttle'
  BY ThrottleStays
<1>4. QED
  BY <1>1, <1>2, <1>3, Invariant, PTL DEF Spec
=============================================================================
