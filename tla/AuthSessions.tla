---------------------------- MODULE AuthSessions ----------------------------
(***************************************************************************)
(* Accounts and sessions: the handlers of AuthService (auth.service.ts)    *)
(* and those of UserService (user.service.ts) that write the password, the *)
(* status or the login counters, over the tables users,                    *)
(* auth_refresh_tokens and auth_password_resets.                           *)
(*                                                                         *)
(* A request is a process, a statement of its handler a step.  Nothing     *)
(* here runs in a transaction of more than one statement.  save(user)      *)
(* selects the row again and updates the columns in which the copy differs *)
(* from it, so a column another request wrote since the copy was read is   *)
(* put back.  A hash is a password with its salt; the salt, like the       *)
(* tokens, is random, so it is named by the request that made it.          *)
(*                                                                         *)
(* Left out: who may call the handlers of UserService (see Directory), the *)
(* strength of passwords, access tokens (signed, kept nowhere: they say    *)
(* who calls and the account is read again, see Authorize), last_login and *)
(* the columns of the profile.  register has no action: RegisterDto has no *)
(* orgId, the validation pipe refuses a body with one, and create refuses  *)
(* a user without, so nothing is ever written.                             *)
(***************************************************************************)
EXTENDS Integers, FiniteSets

CONSTANTS
  Users,         \* accounts, all there from the start
  Requests,      \* requests the server has in hand at the same time
  MaxRequests,   \* bound: requests served in a behaviour
  Crashes,       \* TRUE: a request may die between two statements
  Passwords,
  FirstPassword, \* the password every account is seeded with
  MaxFailed,     \* AUTH_MAX_FAILED
  LockTime,      \* AUTH_LOCK_MINUTES
  RefreshTime,   \* JWT_REFRESH_TTL_DAYS
  ResetTime,     \* the hour a reset token lives
  MaxNow,        \* bound: the clock
  NULL

ASSUME ConstantsAssumption ==
  /\ MaxRequests \in Nat /\ MaxNow \in Nat /\ MaxFailed \in Nat \ {0}
  /\ LockTime \in Nat /\ RefreshTime \in Nat /\ ResetTime \in Nat
  /\ FirstPassword \in Passwords
  /\ Crashes \in BOOLEAN

Numbers == 1..MaxRequests   \* a request, and the salt, token or reset it makes
Statuses == {"active", "inactive", "suspended"}
Hash == [password : Passwords, salt : Numbers \cup {0}]

\* users: locked is the time the lock ends, 0 for none.
UserRow == [hash : Hash, status : Statuses, failed : Nat, locked : Nat, deleted : BOOLEAN]

\* auth_refresh_tokens; salt and late are history: the hash that let the
\* session in, and whether it was given out by a request that a change of the
\* password overtook.
RefreshToken ==
  [user : Users, expires : Nat, revoked : BOOLEAN, salt : Numbers \cup {0}, late : BOOLEAN]

PasswordReset == [user : Users, expires : Nat, used : BOOLEAN]

ASSUME NullAssumption ==
  /\ NULL \notin Users /\ NULL \notin UserRow
  /\ NULL \notin RefreshToken /\ NULL \notin PasswordReset

VARIABLES
  users, tokens, resets,   \* the tables
  now,                     \* the clock
  served,                  \* requests that have arrived
  pc, job, seen, mem, base,   \* each request: its next statement, what it is
                           \* about, the row it read, its copy, the row save selected
  spent,     \* history: what each token or reset has bought
  raced,     \* history: tokens and resets two requests held, or one died with
  late,      \* history: requests at work when a change of their user's password ended
  past,      \* history: salts a user's hash no longer has
  ended,     \* history: those a finished change left behind
  reverted,  \* history: users whose old password a save put back
  shaken,    \* history: users whose counter, lock or deletion a save put back, or
             \* whom a dead request left without a lock
  failedAt   \* history: when each user's last wrong password was counted

tables == <<users, tokens, resets>>
control == <<served, pc, job, seen, mem, base>>
history == <<spent, raced, late, past, ended, reverted, shaken, failedAt>>
vars == <<tables, now, control, history>>

NoJob == [no |-> 0, op |-> "none", user |-> NULL, token |-> 0, reset |-> 0, password |-> NULL]
Jobs ==
  [no : Numbers \cup {0}, op : {"none", "login", "refresh", "logout", "change", "reset", "admin"},
   user : Users \cup {NULL}, token : Numbers \cup {0}, reset : Numbers \cup {0},
   password : Passwords \cup {NULL}]

Points == {"idle", "count", "recount", "lock", "clear", "issue", "rotate", "revoke",
           "compare", "find", "load", "write", "use"}

Init ==
  /\ users = [u \in Users |-> [hash |-> [password |-> FirstPassword, salt |-> 0],
                               status |-> "active", failed |-> 0, locked |-> 0, deleted |-> FALSE]]
  /\ tokens = [n \in Numbers |-> NULL]
  /\ resets = [n \in Numbers |-> NULL]
  /\ now = 1
  /\ served = 0
  /\ pc = [r \in Requests |-> "idle"]
  /\ job = [r \in Requests |-> NoJob]
  /\ seen = [r \in Requests |-> NULL]
  /\ mem = [r \in Requests |-> NULL]
  /\ base = [r \in Requests |-> NULL]
  /\ spent = [n \in Numbers |-> 0]
  /\ raced = {}
  /\ late = {}
  /\ past = [u \in Users |-> {}]
  /\ ended = [u \in Users |-> {}]
  /\ reverted = {}
  /\ shaken = {}
  /\ failedAt = [u \in Users |-> 0]
-----------------------------------------------------------------------------
\* Steps of a request.  A refusal ends the request where it is and writes
\* nothing; a handler that refuses at once has no step at all.
Goto(r, point) ==
  /\ pc' = [pc EXCEPT ![r] = point]
  /\ UNCHANGED <<served, job, seen, mem, base>>

Answer(r) ==
  /\ pc' = [pc EXCEPT ![r] = "idle"]
  /\ job' = [job EXCEPT ![r] = NoJob]
  /\ seen' = [seen EXCEPT ![r] = NULL]
  /\ mem' = [mem EXCEPT ![r] = NULL]
  /\ base' = [base EXCEPT ![r] = NULL]
  /\ UNCHANGED served

End(r) == Answer(r) /\ late' = late \ {r}

\* A request arrives: its first statement was a read and finds row, or nothing.
Begin(r, op, u, point, row) ==
  /\ pc[r] = "idle" /\ served < MaxRequests
  /\ served' = served + 1
  /\ pc' = [pc EXCEPT ![r] = point]
  /\ job' = [job EXCEPT ![r] = [op EXCEPT !.no = served + 1, !.user = u]]
  /\ seen' = [seen EXCEPT ![r] = row]
  /\ mem' = [mem EXCEPT ![r] = row]
  /\ UNCHANGED base

About(op) == [NoJob EXCEPT !.op = op]

\* Request r reads credential n as good: history of who held it with whom.
Hold(r, n) ==
  raced' = IF \E q \in Requests \ {r} : n \in {job[q].token, job[q].reset}
           THEN raced \cup {n} ELSE raced

Spend(n) == spent' = [spent EXCEPT ![n] = @ + 1]
-----------------------------------------------------------------------------
\* login: what the one read decides.
Admitted(row) == row.status = "active" /\ ~row.deleted /\ ~(row.locked > now)

Login(r, u, password) ==
  /\ Admitted(users[u])
  /\ Begin(r, About("login"), u,
           IF users[u].hash.password = password THEN "clear" ELSE "count", users[u])
  /\ UNCHANGED <<tables, now, history>>

Count(r) ==   \* increment: one UPDATE
  /\ pc[r] = "count"
  /\ users' = [users EXCEPT ![job[r].user].failed = @ + 1]
  /\ failedAt' = [failedAt EXCEPT ![job[r].user] = now]
  /\ Goto(r, "recount")
  /\ UNCHANGED <<tokens, resets, now, spent, raced, late, past, ended, reverted, shaken>>

Recount_Once(r) ==   \* mutant: only the failure that reaches the limit locks
  LET u == job[r].user IN
  /\ pc[r] = "recount"
  /\ IF ~users[u].deleted /\ users[u].failed = MaxFailed
     THEN Goto(r, "lock") /\ UNCHANGED late ELSE End(r)
  /\ UNCHANGED <<tables, now, spent, raced, past, ended, reverted, shaken, failedAt>>

\* The count is read back; a user deleted meanwhile is not found and counts 0.
Recount(r) ==
  LET u == job[r].user IN
  /\ pc[r] = "recount"
  /\ IF ~users[u].deleted /\ users[u].failed >= MaxFailed
     THEN Goto(r, "lock") /\ UNCHANGED late ELSE End(r)
  /\ UNCHANGED <<tables, now, spent, raced, past, ended, reverted, shaken, failedAt>>

LockUntil(r) ==
  /\ pc[r] = "lock"
  /\ users' = [users EXCEPT ![job[r].user].locked = now + LockTime]
  /\ End(r)
  /\ UNCHANGED <<tokens, resets, now, spent, raced, past, ended, reverted, shaken, failedAt>>

Clear_OneLess(r) ==   \* mutant: the counter goes back by one
  /\ pc[r] = "clear"
  /\ users' = [users EXCEPT ![job[r].user].failed = @ - 1, ![job[r].user].locked = 0]
  /\ Goto(r, "issue")
  /\ UNCHANGED <<tokens, resets, now, history>>

Clear(r) ==   \* resetFailedLoginAttemptsAndUnlock: one UPDATE
  /\ pc[r] = "clear"
  /\ users' = [users EXCEPT ![job[r].user].failed = 0, ![job[r].user].locked = 0]
  /\ Goto(r, "issue")
  /\ UNCHANGED <<tokens, resets, now, history>>

\* generateTokens.  A login's token rests on the hash it compared, a refreshed
\* one on that of the token it replaces.
Issue(r) ==
  LET j == job[r]
      old == IF j.token = 0 THEN NULL ELSE tokens[j.token]
  IN
  /\ pc[r] = "issue"
  /\ tokens' = [tokens EXCEPT ![j.no] =
       [user |-> j.user, expires |-> now + RefreshTime, revoked |-> FALSE,
        salt |-> IF old = NULL THEN seen[r].hash.salt ELSE old.salt,
        late |-> r \in late \/ (old # NULL /\ old.late)]]
  /\ IF old = NULL THEN UNCHANGED spent ELSE Spend(j.token)
  /\ End(r)
  /\ UNCHANGED <<users, resets, now, raced, past, ended, reverted, shaken, failedAt>>

-----------------------------------------------------------------------------
Usable(token) ==
  /\ token # NULL /\ ~token.revoked /\ token.expires > now
  /\ ~users[token.user].deleted /\ users[token.user].status = "active"

\* refreshToken: the token with its user; then it is revoked, then replaced.
RefreshToken_(r, n) ==
  /\ Usable(tokens[n])
  /\ Begin(r, [About("refresh") EXCEPT !.token = n], tokens[n].user, "rotate", users[tokens[n].user])
  /\ Hold(r, n)
  /\ UNCHANGED <<tables, now, spent, late, past, ended, reverted, shaken, failedAt>>

Rotate_Slides(r) ==   \* mutant: the token is prolonged, not replaced
  LET n == job[r].token IN
  /\ pc[r] = "rotate"
  /\ tokens' = [tokens EXCEPT ![n].expires = now + RefreshTime, ![n].revoked = FALSE]
  /\ Goto(r, "issue")
  /\ UNCHANGED <<users, resets, now, history>>

Rotate(r) ==
  /\ pc[r] = "rotate"
  /\ tokens' = [tokens EXCEPT ![job[r].token].revoked = TRUE]
  /\ Goto(r, "issue")
  /\ UNCHANGED <<users, resets, now, history>>

\* validateUser: every request with an access token reads the account anew.
Authorize(u) == users[u].status = "active" /\ ~users[u].deleted

\* logout: of one session, whoever it belongs to, or of all of the user's.
Logout(r, u, n) ==
  /\ Authorize(u)
  /\ n # 0 => tokens[n] # NULL
  /\ Begin(r, [About("logout") EXCEPT !.token = n], u, "revoke", NULL)
  /\ UNCHANGED <<tables, now, history>>

OwnedBy(n, u) == tokens[n] # NULL /\ tokens[n].user = u

\* The last statement of logout, changePassword and resetPassword: one UPDATE.
Revoke(r) ==
  LET j == job[r]
      u == j.user
      all == j.op # "logout" \/ j.token = 0
  IN
  /\ pc[r] = "revoke"
  /\ tokens' = [n \in Numbers |->
       IF (IF all THEN OwnedBy(n, u) ELSE n = j.token)
       THEN [tokens[n] EXCEPT !.revoked = TRUE] ELSE tokens[n]]
  /\ Answer(r)
  /\ IF j.op = "logout"
     THEN late' = late \ {r} /\ UNCHANGED ended
     ELSE /\ late' = {q \in Requests \ {r} : q \in late \/ job[q].user = u}
          /\ ended' = [ended EXCEPT ![u] = @ \cup past[u]]
  /\ UNCHANGED <<users, resets, now, spent, raced, past, reverted, shaken, failedAt>>
-----------------------------------------------------------------------------
\* changePassword: the guard, the comparison, then UserService.update.
ChangePassword(r, u, new) ==
  /\ Authorize(u)
  /\ Begin(r, [About("change") EXCEPT !.password = new], u, "compare", NULL)
  /\ UNCHANGED <<tables, now, history>>

Compare(r, old) ==
  LET row == users[job[r].user] IN
  /\ pc[r] = "compare"
  /\ IF ~row.deleted /\ row.hash.password = old
     THEN Goto(r, "find") /\ UNCHANGED late ELSE End(r)
  /\ UNCHANGED <<tables, now, spent, raced, past, ended, reverted, shaken, failedAt>>

\* forgotPassword: any account with that address.
ForgotPassword(r, u) ==
  /\ ~users[u].deleted
  /\ pc[r] = "idle" /\ served < MaxRequests
  /\ served' = served + 1
  /\ resets' = [resets EXCEPT ![served + 1] =
                 [user |-> u, expires |-> now + ResetTime, used |-> FALSE]]
  /\ UNCHANGED <<users, tokens, now, pc, job, seen, mem, base, history>>

\* resetPassword: the token with its user; a deleted user is not joined.
ResetPassword(r, n, new) ==
  /\ resets[n] # NULL /\ ~resets[n].used /\ resets[n].expires > now
  /\ ~users[resets[n].user].deleted
  /\ Begin(r, [About("reset") EXCEPT !.reset = n, !.password = new], resets[n].user, "find", NULL)
  /\ Hold(r, n)
  /\ UNCHANGED <<tables, now, spent, late, past, ended, reverted, shaken, failedAt>>

\* UserService.update({password}): findOne, then the new hash in the copy.
Find(r) ==
  LET j == job[r] IN
  /\ pc[r] = "find"
  /\ IF users[j.user].deleted
     THEN End(r)
     ELSE /\ seen' = [seen EXCEPT ![r] = users[j.user]]
          /\ mem' = [mem EXCEPT ![r] =
                      [users[j.user] EXCEPT !.hash = [password |-> j.password, salt |-> j.no]]]
          /\ pc' = [pc EXCEPT ![r] = "load"]
          /\ UNCHANGED <<served, job, base, late>>
  /\ UNCHANGED <<tables, now, spent, raced, past, ended, reverted, shaken, failedAt>>

\* What the handlers of UserService make of the copy they read.
Update(row, no) ==
  LET hashes == {row.hash} \cup {[password |-> p, salt |-> no] : p \in Passwords}
  IN {[row EXCEPT !.status = c[1], !.hash = c[2]] : c \in Statuses \X hashes}
Activate(row) == [row EXCEPT !.status = "active", !.locked = 0, !.failed = 0]

\* update, updateStatus, activate, deactivate, resetPassword of an administrator.
Administer(r, u) ==
  /\ ~users[u].deleted
  /\ pc[r] = "idle" /\ served < MaxRequests
  /\ served' = served + 1
  /\ pc' = [pc EXCEPT ![r] = "load"]
  /\ job' = [job EXCEPT ![r] = [About("admin") EXCEPT !.no = served + 1, !.user = u]]
  /\ seen' = [seen EXCEPT ![r] = users[u]]
  /\ \E row \in Update(users[u], served + 1) \cup {Activate(users[u])} :
       mem' = [mem EXCEPT ![r] = row]
  /\ UNCHANGED <<tables, now, base, history>>

\* remove: softRemove writes deleted_at and nothing else.
Remove(r, u) ==
  /\ ~users[u].deleted
  /\ pc[r] = "idle" /\ served < MaxRequests
  /\ served' = served + 1
  /\ users' = [users EXCEPT ![u].deleted = TRUE]
  /\ UNCHANGED <<tokens, resets, now, pc, job, seen, mem, base, history>>
-----------------------------------------------------------------------------
SaveLoad(r) ==
  /\ pc[r] = "load"
  /\ base' = [base EXCEPT ![r] = users[job[r].user]]
  /\ pc' = [pc EXCEPT ![r] = "write"]
  /\ UNCHANGED <<tables, now, served, job, seen, mem, history>>

\* The columns in which the copy differs from the row save selected.
Merge(row, copy, from) ==
  [c \in DOMAIN row |-> IF copy[c] # from[c] THEN copy[c] ELSE row[c]]

SaveWrite(r) ==
  LET j == job[r]
      u == j.user
      new == Merge(users[u], mem[r], base[r])
      lock(row) == <<row.failed, row.locked>>
  IN
  /\ pc[r] = "write"
  /\ users' = [users EXCEPT ![u] = new]
  /\ past' = IF new.hash = users[u].hash THEN past
             ELSE [past EXCEPT ![u] = @ \cup {users[u].hash.salt}]
  /\ reverted' = IF new.hash # users[u].hash /\ mem[r].hash = seen[r].hash
                 THEN reverted \cup {u} ELSE reverted
  /\ shaken' = IF \/ /\ lock(new) # lock(users[u])
                     /\ lock(users[u]) # lock(seen[r]) \/ lock(new) # lock(mem[r])
                  \/ users[u].deleted /\ ~new.deleted
               THEN shaken \cup {u} ELSE shaken
  /\ CASE j.op = "change" -> Goto(r, "revoke") /\ UNCHANGED <<late, spent>>
       [] j.op = "reset" -> Goto(r, "use") /\ Spend(j.reset) /\ UNCHANGED late
       [] OTHER -> End(r) /\ UNCHANGED spent
  /\ UNCHANGED <<tokens, resets, now, raced, ended, failedAt>>

UseReset_NoRevoke(r) ==   \* mutant: the sessions go on
  /\ pc[r] = "use"
  /\ resets' = [resets EXCEPT ![job[r].reset].used = TRUE]
  /\ Answer(r)
  /\ late' = {q \in Requests \ {r} : q \in late \/ job[q].user = job[r].user}
  /\ ended' = [ended EXCEPT ![job[r].user] = @ \cup past[job[r].user]]
  /\ UNCHANGED <<users, tokens, now, spent, raced, past, reverted, shaken, failedAt>>

UseReset_Forgotten(r) ==   \* mutant: used_at is never saved
  /\ pc[r] = "use"
  /\ Goto(r, "revoke")
  /\ UNCHANGED <<tables, now, history>>

UseReset(r) ==   \* usedAt
  /\ pc[r] = "use"
  /\ resets' = [resets EXCEPT ![job[r].reset].used = TRUE]
  /\ Goto(r, "revoke")
  /\ UNCHANGED <<users, tokens, now, history>>
-----------------------------------------------------------------------------
\* The process dies with r, or its connection breaks.
Die(r) ==
  LET j == job[r] IN
  /\ Crashes /\ pc[r] # "idle"
  /\ raced' = raced \cup ({j.token, j.reset} \ {0})
  /\ shaken' = IF pc[r] \in {"recount", "lock"} THEN shaken \cup {j.user} ELSE shaken
  /\ End(r)
  /\ UNCHANGED <<tables, now, spent, past, ended, reverted, failedAt>>

Tick ==
  /\ now < MaxNow
  /\ now' = now + 1
  /\ UNCHANGED <<tables, control, history>>

\* The routes of AuthController and of UserController that end up here.
AuthController(r) ==
  \/ \E u \in Users, p \in Passwords : Login(r, u, p) \/ ChangePassword(r, u, p)
  \/ \E n \in Numbers : RefreshToken_(r, n)
  \/ \E u \in Users, n \in Numbers \cup {0} : Logout(r, u, n)
  \/ \E u \in Users : ForgotPassword(r, u)
  \/ \E n \in Numbers, p \in Passwords : ResetPassword(r, n, p)

UserController(r) == \E u \in Users : Administer(r, u) \/ Remove(r, u)

Statement(r) ==
  \/ Count(r) \/ Recount(r) \/ LockUntil(r) \/ Clear(r) \/ Issue(r)
  \/ Rotate(r) \/ Revoke(r) \/ (\E p \in Passwords : Compare(r, p))
  \/ Find(r) \/ SaveLoad(r) \/ SaveWrite(r) \/ UseReset(r)

Arrive(r) == pc[r] = "idle" /\ served < MaxRequests /\ (AuthController(r) \/ UserController(r))

Next ==
  \/ \E r \in Requests : Arrive(r) \/ Statement(r) \/ Die(r)
  \/ Tick

Spec == Init /\ [][Next]_vars
-----------------------------------------------------------------------------
\* The tables, the requests and the history have their shapes: in particular
\* the failures of an account are counted from zero up, and every statement of
\* a request finds the user, the token and the copy it works on.
TypeOK ==
  /\ users \in [Users -> UserRow]
  /\ tokens \in [Numbers -> RefreshToken \cup {NULL}]
  /\ resets \in [Numbers -> PasswordReset \cup {NULL}]
  /\ now \in Nat /\ served \in 0..MaxRequests
  /\ pc \in [Requests -> Points]
  /\ job \in [Requests -> Jobs]
  /\ seen \in [Requests -> UserRow \cup {NULL}]
  /\ mem \in [Requests -> UserRow \cup {NULL}]
  /\ base \in [Requests -> UserRow \cup {NULL}]
  /\ spent \in [Numbers -> Nat]
  /\ raced \subseteq Numbers
  /\ late \subseteq Requests
  /\ past \in [Users -> SUBSET (Numbers \cup {0})]
  /\ ended \in [Users -> SUBSET (Numbers \cup {0})]
  /\ reverted \subseteq Users
  /\ shaken \subseteq Users
  /\ failedAt \in [Users -> Nat]

\* A refresh token buys one session and a reset token one password, unless two
\* requests had it in hand at the same time or one died holding it
\* (refreshToken, resetPassword).
SpentOnce == \A n \in Numbers : spent[n] <= 1 \/ n \in raced

\* What was given out stays on record with its owner and its end, and is never
\* good again once revoked or used, whatever overlaps or dies.
SpentForGood ==
  [][\A n \in Numbers :
       /\ tokens[n] # NULL =>
            /\ tokens'[n] # NULL
            /\ tokens'[n].user = tokens[n].user /\ tokens'[n].expires = tokens[n].expires
            /\ tokens[n].revoked => tokens'[n].revoked
       /\ resets[n] # NULL =>
            /\ resets'[n] # NULL
            /\ resets'[n].user = resets[n].user /\ resets'[n].expires = resets[n].expires
            /\ resets[n].used => resets'[n].used]_vars

\* When changePassword or resetPassword is over, no session rests on a hash the
\* user no longer had: those still good were given out by a request that was at
\* work when it ended, or the old hash was put back by somebody's save.
SessionsEnd ==
  \A n \in Numbers :
    LET token == tokens[n] IN
    token # NULL /\ ~token.revoked /\ ~token.late /\ token.user \notin reverted
      => token.salt \notin ended[token.user]

\* Each wrong password at or past the limit locks the account for the whole lock
\* time from then, the first one and every one after a lock that ran out, or it is
\* about to be locked by a request that has counted one of them; only a save of an
\* older copy or a request that died before its lock leaves it open (login).
LimitLocks ==
  \A u \in Users :
    users[u].failed >= MaxFailed /\ ~users[u].deleted =>
      \/ users[u].locked >= failedAt[u] + LockTime
      \/ \E r \in Requests : job[r].user = u /\ pc[r] \in {"recount", "lock"}
      \/ u \in shaken
=============================================================================
