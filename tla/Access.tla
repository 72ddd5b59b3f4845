-------------------------------- MODULE Access --------------------------------
(***************************************************************************)
(* Who may use the management site: setup (asetup.py), login and its       *)
(* throttle (alogin.py, models/login_throttle.py), sessions and the thread *)
(* that removes them (models/session.py), users with their password hashes *)
(* and permissions (models/user.py, passhasher.py, user_modpack.py), and   *)
(* the personal access tokens (models/api_token.py).                       *)
(*                                                                         *)
(* A worker serves one request at a time, in the steps between which other *)
(* workers run: every step is one transaction or one consistent read.      *)
(* Time passes in ticks; every query of the source that compares with      *)
(* NOW() compares with now here.                                           *)
(***************************************************************************)
EXTENDS Integers, FiniteSets, Sequences

CONSTANTS
  Starts,      \* <<"clean" or "existing" database, NEW_USER>>
  Workers,     \* threads and processes that serve requests
  MaxUser,     \* user ids are 1..MaxUser, handed out in order
  Names,       \* usernames; login_attempts has a key for each
  Addresses,   \* source addresses; the same
  Passwords,
  Limit,       \* ACCOUNT_LIMIT of a name, ADDRESS_LIMIT of an address
  WINDOW,      \* WINDOW_MINUTES in ticks
  BLOCK,       \* BLOCK_MINUTES in ticks
  IDLE,        \* SESSION_IDLE_TIMEOUT_SECONDS in ticks
  MaxNow,      \* bound: the last tick
  MaxRequests  \* bound: requests that get past their first check

ASSUME AccessAssumption ==
  /\ Starts \subseteq {"clean", "existing"} \X BOOLEAN
  /\ MaxUser \in Nat \ {0}
  /\ Names \cap Addresses = {}
  /\ Limit \in [Names \cup Addresses -> Nat \ {0, 1}]
  /\ {WINDOW, BLOCK} \subseteq Nat \ {0, 1} /\ WINDOW <= BLOCK
  /\ IDLE \in Nat \ {0}
  /\ IsFiniteSet(Workers) /\ Passwords # {}
  /\ {MaxNow, MaxRequests} \subseteq Nat

Uids == 1..MaxUser
Keys == Names \cup Addresses

VARIABLES
  site,      \* how the process started: is /setup open, NEW_USER, DB_IS_UP
  users,     \* rows of users and user_permissions, by id
  attempts,  \* rows of login_attempts; count 0 is no row
  sessions,  \* rows of sessions
  tokens,    \* owners of a personal access token
  cleaner,   \* "runs" or "ended": session_loop
  req,       \* the request of each worker
  now,
  made,      \* requests so far
  chosen,    \* history: the password last set for each user
  counted    \* history: when the failures of a name counted, since a success

vars == <<site, users, attempts, sessions, tokens, cleaner, req, now, made,
          chosen, counted>>
store == <<users, attempts, sessions, tokens>>
history == <<made, chosen, counted>>

Idle == [pc |-> "idle"]
NoUser == [row |-> "free"]
NoRow == [count |-> 0, first |-> 0, blocked |-> 0]

Live(u) == users[u].row = "live"
Alive(s) == s.expiry > now

\* User.get_by_username and get_userid return the first user of a name.
Found(n) == {u \in Uids : /\ Live(u) /\ users[u].name = n
                          /\ \A v \in 1..(u - 1) : ~ (Live(v) /\ users[v].name = n)}

Request(w, r) == req' = [req EXCEPT ![w] = r]
Ends(w) == Request(w, Idle)

\* A request gets past its first check.
Begins(w, r) ==
  /\ req[w].pc = "idle"
  /\ made < MaxRequests
  /\ made' = made + 1
  /\ Request(w, r)

\* The permissions new users get.
Perms(setup) ==
  IF site.newUser \/ (setup /\ site.dbIsUp = 0) THEN "full" ELSE "none"

Row(n, p, perms) ==
  [row |-> "live", name |-> n, scheme |-> "argon2", pw |-> p, perms |-> perms]

\* User.new: the user and its permissions in one transaction.
NewUser(n, p, perms) ==
  \E u \in Uids :
    /\ users[u].row = "free"
    /\ \A v \in Uids : users[v].row = "free" => u <= v
    /\ users' = [users EXCEPT ![u] = Row(n, p, perms)]
    /\ chosen' = [chosen EXCEPT ![u] = p]

-----------------------------------------------------------------------------
(* Start                                                                   *)

\* is_setup: 0 without the tables, 1 with them.
IsSetup(tables) == IF tables = "none" THEN 0 ELSE 1

\* DB_IS_UP after common.py was imported: missing tables are created, and the
\* database is looked at once more.
Startup(tables) == IF IsSetup(tables) = 0 THEN IsSetup("all") ELSE IsSetup(tables)

\* The tables of a clean database are created before /setup opens.
CleanInstall(isNew) ==
  /\ site = [open |-> TRUE, newUser |-> isNew, dbIsUp |-> Startup("none")]
  /\ users = [u \in Uids |-> NoUser]

\* An administrator, whose password still has the hash of version 1;
\* /setup is open only with NEW_USER.
ExistingInstall(isNew) ==
  /\ site = [open |-> isNew, newUser |-> isNew, dbIsUp |-> Startup("all")]
  /\ \E n \in Names :
       users = [u \in Uids |-> IF u = 1
                  THEN [Row(n, CHOOSE p \in Passwords : TRUE, "full")
                          EXCEPT !.scheme = "blake2"]
                  ELSE NoUser]

Init ==
  /\ \E s \in Starts : IF s[1] = "clean" THEN CleanInstall(s[2])
                        ELSE ExistingInstall(s[2])
  /\ attempts = [k \in Keys |-> NoRow]
  /\ sessions = {}
  /\ tokens = {}
  /\ cleaner = "runs"
  /\ req = [w \in Workers |-> Idle]
  /\ now = 0
  /\ made = 0
  /\ chosen = [u \in Uids |-> IF users[u].row = "live" THEN users[u].pw
                              ELSE CHOOSE p \in Passwords : TRUE]
  /\ counted = [n \in Names |-> <<>>]

\* A failure waits for its locks for less than a tick: InnoDB gives up long
\* before the minutes of WINDOW and BLOCK have passed.
Tick ==
  /\ now < MaxNow
  /\ \A w \in Workers : req[w].pc = "counting" => req[w].at = now
  /\ now' = now + 1
  /\ UNCHANGED <<site, store, cleaner, req, history>>

-----------------------------------------------------------------------------
(* Setup                                                                   *)

\* setup_creation looks for a user ...
OpenSetup(w) ==
  /\ Begins(w, [pc |-> "setup"])
  /\ site.open
  /\ site.newUser \/ \A u \in Uids : ~ Live(u)
  /\ UNCHANGED <<site, store, cleaner, now, chosen, counted>>

\* ... and creates one, whatever was created since.
CreateFirst(w) ==
  /\ req[w].pc = "setup"
  /\ \E n \in Names, p \in Passwords : NewUser(n, p, Perms(TRUE))
  /\ Ends(w)
  /\ UNCHANGED <<site, attempts, sessions, tokens, cleaner, now, made, counted>>

-----------------------------------------------------------------------------
(* Login                                                                   *)

\* retry_after looks for a block on the account and the address.
Blocked(k) == attempts[k].blocked > now

AskLogin(w, n, p, a) ==
  /\ Begins(w, [pc |-> "asked", name |-> n, pw |-> p, ip |-> a])
  /\ ~ Blocked(n) /\ ~ Blocked(a)
  /\ UNCHANGED <<site, store, cleaner, now, chosen, counted>>

\* verify_and_rehash, on either kind of hash.
Matches(u, p) == users[u].pw = p

\* The row that is found is checked, or a dummy hash. After a mismatch
\* LoginThrottle.failure reads the time before it locks its rows.
CheckPassword(w) ==
  LET r == req[w]
      match == {u \in Found(r.name) : Matches(u, r.pw)}
  IN
  /\ r.pc = "asked"
  /\ IF match = {}
       THEN Request(w, [pc |-> "counting", name |-> r.name, ip |-> r.ip, at |-> now])
       ELSE \E u \in match :
         Request(w, IF users[u].scheme = "argon2"
                      THEN [pc |-> "proved", name |-> r.name]
                      ELSE [pc |-> "matched", name |-> r.name, user |-> u, pw |-> r.pw])
  /\ UNCHANGED <<site, store, cleaner, now, history>>

\* A slip: the hash that was replaced is not compared.
UpgradeAnyHash(w) ==
  LET r == req[w] IN
  /\ r.pc = "matched"
  /\ users' = IF Live(r.user)
       THEN [users EXCEPT ![r.user] = Row(users[r.user].name, r.pw, users[r.user].perms)]
       ELSE users
  /\ Request(w, [pc |-> "proved", name |-> r.name])
  /\ UNCHANGED <<site, attempts, sessions, tokens, cleaner, now, history>>

\* _replace_password_hash upgrades the hash that was verified, if the row has
\* it still. A failure is only logged.
UpgradeHash(w) ==
  LET r == req[w]
      same == Live(r.user) /\ users[r.user].scheme = "blake2" /\ users[r.user].pw = r.pw
      upgraded == [users EXCEPT ![r.user] =
                     Row(users[r.user].name, r.pw, users[r.user].perms)]
  IN
  /\ r.pc = "matched"
  /\ users' \in IF same THEN {users, upgraded} ELSE {users}
  /\ Request(w, [pc |-> "proved", name |-> r.name])
  /\ UNCHANGED <<site, attempts, sessions, tokens, cleaner, now, history>>

\* LoginThrottle.success forgets the failures of the account.
ClearFailures(w) ==
  LET r == req[w] IN
  /\ r.pc = "proved"
  /\ attempts' = [attempts EXCEPT ![r.name] = NoRow]
  /\ counted' = [counted EXCEPT ![r.name] = <<>>]
  /\ Request(w, [pc |-> "cleared", name |-> r.name])
  /\ UNCHANGED <<site, users, sessions, tokens, cleaner, now, made, chosen>>

\* The smallest token that no session has: tokens are random and never reused,
\* but only those of rows that are still there can be told apart.
FreshToken == CHOOSE k \in 1..(MaxUser + MaxRequests) :
                /\ \A s \in sessions : s.token # k
                /\ \A v \in Workers : "token" \in DOMAIN req[v] => req[v].token # k

\* A slip: only sessions that have expired are deleted.
StartSessionBeside(w) ==
  LET r == req[w] IN
  /\ r.pc = "cleared"
  /\ \E u \in Found(r.name) :
       sessions' = {s \in sessions : s.user # u \/ Alive(s)} \cup
         {[token |-> FreshToken, user |-> u, expiry |-> now + IDLE]}
  /\ Ends(w)
  /\ UNCHANGED <<site, users, attempts, tokens, cleaner, now, history>>

\* new_session replaces the sessions of the user that the name finds now. The
\* locks of its DELETE on idx_sessions_user keep two of them apart.
StartSession(w) ==
  LET r == req[w] IN
  /\ r.pc = "cleared"
  /\ \E u \in Found(r.name) :
       sessions' = {s \in sessions : s.user # u} \cup
         {[token |-> FreshToken, user |-> u, expiry |-> now + IDLE]}
  /\ Ends(w)
  /\ UNCHANGED <<site, users, attempts, tokens, cleaner, now, history>>

\* No user has the name any more (user_id is NOT NULL), or another login that
\* runs at the same time wins a deadlock: the request fails.
LoginBreaks(w) ==
  /\ req[w].pc = "cleared"
  /\ \/ Found(req[w].name) = {}
     \/ \E v \in Workers \ {w} : req[v].pc = "cleared"
  /\ Ends(w)
  /\ UNCHANGED <<site, store, cleaner, now, history>>

\* A slip: a failure beyond the limit lifts the block.
CountAtLimit(row, limit, at) ==
  LET fresh == row.count = 0 \/ at - row.first > WINDOW
      count == IF fresh THEN 1 ELSE row.count + 1
  IN [count |-> count, first |-> IF fresh THEN at ELSE row.first,
      blocked |-> IF count = limit THEN at + BLOCK ELSE 0]

\* The row after a failure at the given time. A row that a day passed over is
\* deleted first, which an expired window makes equal to counting afresh.
Count(row, limit, at) ==
  LET fresh == row.count = 0 \/ at - row.first > WINDOW
      count == IF fresh THEN 1 ELSE row.count + 1
  IN [count |-> count, first |-> IF fresh THEN at ELSE row.first,
      blocked |-> IF count >= limit THEN at + BLOCK ELSE 0]

\* Both rows are read under their locks and written in one transaction.
CountFailure(w) ==
  LET r == req[w] IN
  /\ r.pc = "counting"
  /\ attempts' = [k \in Keys |-> IF k \in {r.name, r.ip}
                    THEN Count(attempts[k], Limit[k], r.at) ELSE attempts[k]]
  /\ counted' = [counted EXCEPT ![r.name] = Append(@, r.at)]
  /\ Ends(w)
  /\ UNCHANGED <<site, users, sessions, tokens, cleaner, now, made, chosen>>

\* Two first failures deadlock on the gap both have locked: one is not counted.
LoseFailure(w) ==
  /\ req[w].pc = "counting"
  /\ \E v \in Workers \ {w} : req[v].pc = "counting" /\
       \E k \in {req[w].name, req[w].ip} \cap {req[v].name, req[v].ip} :
         attempts[k].count = 0
  /\ Ends(w)
  /\ UNCHANGED <<site, store, cleaner, now, history>>

-----------------------------------------------------------------------------
(* Sessions                                                                *)

\* verify_session reads the session of the cookie and its user; the request
\* has the address of the session or not ...
FindSession(w, s, same) ==
  /\ Begins(w, [pc |-> "found", token |-> s.token, user |-> s.user,
                same |-> same])
  /\ Alive(s) /\ Live(s.user)
  /\ UNCHANGED <<site, store, cleaner, now, chosen, counted>>

\* ... and moves its expiry, unless the row is gone or expired by then. Only
\* then is the address compared: the request is admitted or loses its cookie.
Touch(w) ==
  LET r == req[w] IN
  /\ r.pc = "found"
  /\ sessions' = {IF s.token = r.token /\ Alive(s)
                  THEN [s EXCEPT !.expiry = now + IDLE] ELSE s : s \in sessions}
  /\ IF r.same = "yes" THEN Request(w, [pc |-> "in", token |-> r.token, user |-> r.user])
                       ELSE Ends(w)
  /\ UNCHANGED <<site, users, attempts, tokens, cleaner, now, history>>

\* delete_session
Without(token) == {s \in sessions : s.token # token}

Logout(w) ==
  /\ req[w].pc = "in"
  /\ sessions' = Without(req[w].token)
  /\ Ends(w)
  /\ UNCHANGED <<site, users, attempts, tokens, cleaner, now, history>>

\* A slip: sessions are kept for one more idle time.
CleanLate ==
  /\ cleaner = "runs"
  /\ \E s \in sessions : s.expiry < now
  /\ sessions' = {s \in sessions : s.expiry + IDLE >= now}
  /\ UNCHANGED <<site, users, attempts, tokens, cleaner, req, now, history>>

\* One round of session_loop (rounds that find nothing are left out).
Clean ==
  /\ cleaner = "runs"
  /\ \E s \in sessions : s.expiry < now
  /\ sessions' = {s \in sessions : s.expiry >= now}
  /\ UNCHANGED <<site, users, attempts, tokens, cleaner, req, now, history>>

\* A query fails: the thread ends, and Session.running keeps another from
\* being started.
CleanerEnds ==
  /\ cleaner = "runs"
  /\ cleaner' = "ended"
  /\ UNCHANGED <<site, store, req, now, history>>

-----------------------------------------------------------------------------
(* Users, permissions and access tokens                                    *)

\* _permissions_for_token finds the permissions of a live session.
Permitted(r) == \E s \in sessions : s.token = r.token /\ Alive(s) /\ Live(s.user)
                                    /\ users[s.user].perms = "full"

\* The handlers of userlibrary and user ask for solder_users ...
AskPermission(w) ==
  LET r == req[w] IN
  /\ r.pc = "in"
  /\ IF Permitted(r)
       THEN Request(w, [pc |-> "may", token |-> r.token, user |-> r.user])
       ELSE Ends(w)
  /\ UNCHANGED <<site, store, cleaner, now, history>>

Edit(w, pcs) ==
  /\ req[w].pc \in pcs
  /\ Ends(w)
  /\ UNCHANGED <<site, cleaner, now, made, counted>>

\* ... and change what they were asked to.
AddUser(w) ==
  /\ Edit(w, {"may"})
  /\ \E n \in Names, p \in Passwords : NewUser(n, p, Perms(FALSE))
  /\ UNCHANGED <<attempts, sessions, tokens>>

\* A slip: the id is given to the next user.
DeleteUserFree(w) ==
  /\ Edit(w, {"may"})
  /\ \E u \in Uids :
       /\ Live(u)
       /\ users' = [users EXCEPT ![u] = NoUser]
       /\ tokens' = tokens \ {u}
  /\ UNCHANGED <<attempts, sessions, chosen>>

\* User.delete; the sessions of the user stay, without a user to join.
DeleteUser(w) ==
  /\ Edit(w, {"may"})
  /\ \E u \in Uids :
       /\ Live(u)
       /\ users' = [users EXCEPT ![u] = [row |-> "gone"]]
       /\ tokens' = tokens \ {u}
  /\ UNCHANGED <<attempts, sessions, chosen>>

\* User.change: by the user, or with the permission for any user.
ChangePassword(w) ==
  /\ Edit(w, {"in", "may"})
  /\ \E u \in Uids, p \in Passwords :
       /\ req[w].pc = "in" => u = req[w].user
       /\ Live(u)
       /\ users' = [users EXCEPT ![u] = Row(users[u].name, p, users[u].perms)]
       /\ chosen' = [chosen EXCEPT ![u] = p]
  /\ UNCHANGED <<attempts, sessions, tokens>>

SetPermissions(w) ==
  /\ Edit(w, {"may"})
  /\ \E u \in Uids, perms \in {"full", "none"} :
       Live(u) /\ users' = [users EXCEPT ![u].perms = perms]
  /\ UNCHANGED <<attempts, sessions, tokens, chosen>>

\* ApiToken.create does not look whether the user is there.
CreateToken(w) ==
  /\ Edit(w, {"in"})
  /\ tokens' = tokens \cup {req[w].user}
  /\ UNCHANGED <<users, attempts, sessions, chosen>>

DeleteToken(w) ==
  /\ Edit(w, {"in"})
  /\ tokens' = tokens \ {req[w].user}
  /\ UNCHANGED <<users, attempts, sessions, chosen>>

-----------------------------------------------------------------------------
Step(w) ==
  \/ OpenSetup(w) \/ CreateFirst(w)
  \/ \E n \in Names, p \in Passwords, a \in Addresses : AskLogin(w, n, p, a)
  \/ CheckPassword(w) \/ UpgradeHash(w) \/ ClearFailures(w)
  \/ StartSession(w) \/ LoginBreaks(w)
  \/ CountFailure(w) \/ LoseFailure(w)
  \/ \E s \in sessions, same \in {"yes", "no"} : FindSession(w, s, same)
  \/ Touch(w) \/ Logout(w) \/ AskPermission(w)
  \/ AddUser(w) \/ DeleteUser(w) \/ ChangePassword(w) \/ SetPermissions(w)
  \/ CreateToken(w) \/ DeleteToken(w)

Next == Tick \/ Clean \/ CleanerEnds \/ \E w \in Workers : Step(w)

Spec == Init /\ [][Next]_vars

\* The session loop runs every hour.
FairSpec == Spec /\ WF_vars(Clean)

-----------------------------------------------------------------------------
(* Properties                                                              *)

\* Shapes, and what the shapes relate: ids are handed out in order, an expiry
\* lies at most IDLE ahead, no block outlasts BLOCK, tokens were handed out.
TypeOK ==
  /\ users \in [Uids -> {NoUser, [row |-> "gone"]} \cup
       [row : {"live"}, name : Names, scheme : {"blake2", "argon2"},
        pw : Passwords, perms : {"full", "none"}]]
  /\ \A u, v \in Uids : u < v /\ users[u] = NoUser => users[v] = NoUser
  /\ \A k \in Keys : attempts[k].count \in Nat /\ attempts[k].blocked <= now + BLOCK
                     /\ (attempts[k].blocked > 0 => attempts[k].count >= Limit[k])
  /\ sessions \subseteq [token : Nat, user : Uids, expiry : 0..(now + IDLE)]
  /\ tokens \subseteq Uids
  /\ cleaner \in {"runs", "ended"} /\ now \in 0..MaxNow

\* Failures of one name that a window of the throttle holds.
InWindow(n, t) == {i \in DOMAIN counted[n] : counted[n][i] \in t..(t + WINDOW - 1)}

\* No matter how requests overlap, the failures counted for an account within
\* one window are at most twice its limit and the requests whose passwords
\* were being checked when a block began: twice, since a failure that comes
\* after the window of the first one ends lifts the block (the reset of
\* attempts in LoginThrottle.failure).
GuessesBounded ==
  \A n \in Names, t \in 0..MaxNow :
    Cardinality(InWindow(n, t)) <= 2 * (Limit[n] + Cardinality(Workers) - 2)

\* A login ends the sessions the user had, from whichever address, and two
\* logins at once leave one session.
OneSessionPerUser == \A s, t \in sessions : s.user = t.user => s = t

\* The stored hash is always one of the password that was set last: an upgrade
\* of the hash during a login never undoes a change of the password.
HashIsCurrent == \A u \in Uids : Live(u) => users[u].pw = chosen[u]

\* Sessions that have expired are removed, as long as the thread runs.
ExpiredGo ==
  (\E s \in sessions : s.expiry < now)
    ~> ((\A s \in sessions : s.expiry >= now) \/ cleaner = "ended")

\* README.md:793: the initial web setup of a clean database makes the first
\* administrator.
FirstAdministrator ==
  [][(\A u \in Uids : users[u] = NoUser) /\ users' # users
       => \E u \in Uids : users'[u].row = "live" /\ users'[u].perms = "full"]_vars
=============================================================================
