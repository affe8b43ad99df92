------------------------------ MODULE Sessions ------------------------------
(***************************************************************************)
(* Users, their JWTs and what ends a session: AuthService (login, logout,  *)
(* isBlocked, pruning), JwtStrategy.validate with RolesGuard in front of   *)
(* the guarded routes, and UserService, whose update and setRole save a    *)
(* user entity read earlier while revokeAllSessions increments             *)
(* token_version in place.                                                 *)
(*                                                                         *)
(* Several processes serve the same routes; each compares expiry times     *)
(* with its own clock.                                                     *)
(***************************************************************************)
EXTENDS Naturals, FiniteSets

CONSTANTS
  Users,
  Admins,       \* users that exist, as administrators, at the start
  Tokens,       \* JWTs, known by their jti
  Holder,       \* the user a token was issued to before the start, or Nobody
  Nobody,
  Calls,        \* requests
  Processes,
  HostOf,       \* the process of a request
  MaxVersion    \* bound: token_version

ASSUME UsersAssumption == /\ Admins \subseteq Users /\ Nobody \notin Users
                          /\ Holder \in [Tokens -> Admins \cup {Nobody}]
                          /\ HostOf \in [Calls -> Processes]
ASSUME VersionAssumption == MaxVersion \in Nat \ {0}

VARIABLES
  user,        \* users rows: [role, version], or Absent, or Removed
  token,       \* issued JWTs: [user, version], or NoToken
  blacklist,   \* token_blacklist rows, by jti
  expired,     \* the tokens whose exp has passed on a process's clock
  call,        \* requests under way
  assigned,    \* history: the role last given to a user
  loggedOut,   \* history: tokens a logout of which was answered
  revoked,     \* history: tokens issued before a revocation of their user
  overtaken    \* history: users revoked between a save's read and its re-select,
               \* and users two saves of whom overlapped

vars == <<user, token, blacklist, expired, call, assigned, loggedOut, revoked, overtaken>>

----------------------------------------------------------------------------
Roles == {"user", "admin"}
Row   == [role : Roles, version : 1..MaxVersion]
Absent  == [role |-> "absent"]
Removed == [role |-> "removed"]
NoToken == [version |-> 0]
Exists(u) == user[u] \in Row

\* Routes behind JwtAuthGuard alone, and those behind RolesGuard for admins.
Routes == {"guarded", "adminOnly"}

\* Where a request stands.
Idle == [pc |-> "new"]
Done == [pc |-> "done"]
Call ==
  {Idle, Done}
  \cup [pc : {"login"}, user : Users, version : 1..MaxVersion]
  \cup [pc : {"blocked?", "user?", "accepted"}, token : Tokens, route : Routes]
  \cup [pc : {"save", "update"}, user : Users, entity : Row, cols : SUBSET {"role", "version"},
        sets : BOOLEAN]
  \cup [pc : {"remove"}, user : Users]

TypeOK ==
  /\ user \in [Users -> Row \cup {Absent, Removed}]
  /\ token \in [Tokens -> [user : Users, version : 1..MaxVersion] \cup {NoToken}]
  /\ blacklist \subseteq loggedOut
  /\ \A t \in loggedOut : token[t] # NoToken
  /\ \A t \in blacklist : Exists(token[t].user)
  /\ expired \in [Processes -> SUBSET Tokens]
  /\ call \in [Calls -> Call]
  /\ \A c \in Calls : call[c].pc \in {"blocked?", "user?", "accepted"} => token[call[c].token] # NoToken
  /\ assigned \in [Users -> Roles]
  /\ loggedOut \subseteq Tokens
  /\ revoked \subseteq Tokens
  /\ overtaken \subseteq Users

Goto(c, state) == call' = [call EXCEPT ![c] = state]
Issued(t) == token[t] # NoToken
TokensOf(u) == {t \in Tokens : Issued(t) /\ token[t].user = u}

Init ==
  /\ user = [u \in Users |-> IF u \in Admins THEN [role |-> "admin", version |-> 1] ELSE Absent]
  /\ token = [t \in Tokens |-> IF Holder[t] = Nobody THEN NoToken
                                ELSE [user |-> Holder[t], version |-> 1]]
  /\ blacklist = {}
  /\ expired = [p \in Processes |-> {}]
  /\ call = [c \in Calls |-> Idle]
  /\ assigned = [u \in Users |-> IF u \in Admins THEN "admin" ELSE "user"]
  /\ loggedOut = {}
  /\ revoked = {}
  /\ overtaken = {}

----------------------------------------------------------------------------
(* Login *)

\* findByEmail.
LoginRead(c, u) ==
  /\ call[c] = Idle
  /\ Exists(u)
  /\ Goto(c, [pc |-> "login", user |-> u, version |-> user[u].version])
  /\ UNCHANGED <<user, token, blacklist, expired, assigned, loggedOut, revoked, overtaken>>

\* The password matches: a token with the version that was read.
LoginSign(c, t) ==
  /\ call[c].pc = "login"
  /\ ~Issued(t)
  /\ token' = [token EXCEPT ![t] = [user |-> call[c].user, version |-> call[c].version]]
  /\ Goto(c, Done)
  /\ UNCHANGED <<user, blacklist, expired, assigned, loggedOut, revoked, overtaken>>

\* Time passes exp on the clock of a process.
Expire(p, t) ==
  /\ Issued(t)
  /\ t \notin expired[p]
  /\ expired' = [expired EXCEPT ![p] = @ \cup {t}]
  /\ UNCHANGED <<user, token, blacklist, call, assigned, loggedOut, revoked, overtaken>>

----------------------------------------------------------------------------
(* JwtAuthGuard and RolesGuard *)

\* passport-jwt checks the signature and, on this process's clock, exp.
Present(c, t, route) ==
  /\ call[c] = Idle
  /\ Issued(t)
  /\ t \notin expired[HostOf[c]]
  /\ Goto(c, [pc |-> "blocked?", token |-> t, route |-> route])
  /\ UNCHANGED <<user, token, blacklist, expired, assigned, loggedOut, revoked, overtaken>>

\* The request goes on to the next check, or to its handler.
On(c, pc) == [pc |-> pc, token |-> call[c].token, route |-> call[c].route]

\* isBlocked: a row that has expired on this process's clock does not count.
NeverBlocked(c) == FALSE   \* mutant: no blacklist lookup
IsBlocked(c) == call[c].token \in blacklist \ expired[HostOf[c]]

CheckBlacklist(c) ==
  /\ call[c].pc = "blocked?"
  /\ Goto(c, IF IsBlocked(c) THEN Done ELSE On(c, "user?"))
  /\ UNCHANGED <<user, token, blacklist, expired, assigned, loggedOut, revoked, overtaken>>

\* findOne, the version check, and RolesGuard on the role just read.
IgnoreVersion(c) == Exists(token[call[c].token].user)   \* mutant: no tokenVersion check
IsCurrent(c) ==
  LET t == token[call[c].token] IN Exists(t.user) /\ user[t.user].version = t.version
MayRun(c) == call[c].route = "adminOnly" => user[token[call[c].token].user].role = "admin"

CheckUser(c) ==
  /\ call[c].pc = "user?"
  /\ Goto(c, IF IsCurrent(c) /\ MayRun(c) THEN On(c, "accepted") ELSE Done)
  /\ UNCHANGED <<user, token, blacklist, expired, assigned, loggedOut, revoked, overtaken>>

----------------------------------------------------------------------------
(* Handlers behind the guards *)

\* logout: INSERT, which fails if the jti is there already or the user is gone.
Logout(c) ==
  LET t == call[c].token IN
  /\ call[c].pc = "accepted" /\ call[c].route = "guarded"
  /\ IF Exists(token[t].user) /\ t \notin blacklist
       THEN blacklist' = blacklist \cup {t} /\ loggedOut' = loggedOut \cup {t}
       ELSE UNCHANGED <<blacklist, loggedOut>>
  /\ Goto(c, Done)
  /\ UNCHANGED <<user, token, expired, assigned, revoked, overtaken>>

\* A save of u has read the row and not yet compared it.
SaveOpen(u) == \E c \in Calls : call[c].pc = "save" /\ call[c].user = u
Saving(u)   == \E c \in Calls : call[c].pc \in {"save", "update"} /\ call[c].user = u

\* revokeAllSessions: one UPDATE that increments the column.
Revoke(c, u) ==
  /\ call[c].pc = "accepted" /\ call[c].route = "adminOnly"
  /\ IF Exists(u)
       THEN /\ user[u].version < MaxVersion
            /\ user' = [user EXCEPT ![u] = [role |-> @.role, version |-> @.version + 1]]
            /\ revoked' = revoked \cup TokensOf(u)
            /\ overtaken' = overtaken \cup {v \in {u} : SaveOpen(u)}
       ELSE UNCHANGED <<user, revoked, overtaken>>
  /\ Goto(c, Done)
  /\ UNCHANGED <<token, blacklist, expired, assigned, loggedOut>>

\* findOne of a user that will be saved, and the assignment to its entity.
ReadUser(c, u, role, sets) ==
  /\ Exists(u)
  /\ Goto(c, [pc |-> "save", user |-> u, cols |-> {}, sets |-> sets,
              entity |-> [role |-> role, version |-> user[u].version]])
  /\ overtaken' = overtaken \cup {v \in {u} : Saving(u)}
  /\ UNCHANGED <<user, token, blacklist, expired, assigned, loggedOut, revoked>>

SetRole(c, u) ==
  /\ call[c].pc = "accepted" /\ call[c].route = "adminOnly"
  /\ \E role \in Roles : ReadUser(c, u, role, TRUE)

\* PATCH /users/:id, unguarded: the e-mail address, on the whole entity.
UpdateUser(c, u) == call[c] = Idle /\ ReadUser(c, u, user[u].role, FALSE)

\* save re-selects the row and keeps the columns in which the entity differs.
\* A row that is gone by now makes it an INSERT with an id, which fails.
SaveDiff(c) ==
  LET u == call[c].user IN
  /\ call[c].pc = "save"
  /\ Goto(c, IF Exists(u)
               THEN [pc |-> "update", user |-> u, entity |-> call[c].entity, sets |-> call[c].sets,
                     cols |-> {x \in {"role", "version"} : call[c].entity[x] # user[u][x]}]
               ELSE Done)
  /\ UNCHANGED <<user, token, blacklist, expired, assigned, loggedOut, revoked, overtaken>>

\* UPDATE of those columns.
SaveNothing(c) == user[call[c].user]   \* mutant: role is not an updatable column
Saved(c) ==
  LET u == call[c].user
      New(x) == IF x \in call[c].cols THEN call[c].entity[x] ELSE user[u][x]
  IN [role |-> New("role"), version |-> New("version")]

SaveUpdate(c) ==
  LET u == call[c].user IN
  /\ call[c].pc = "update"
  /\ IF Exists(u)
       THEN /\ user' = [user EXCEPT ![u] = Saved(c)]
            /\ assigned' = [assigned EXCEPT ![u] = IF call[c].sets THEN call[c].entity.role ELSE @]
       ELSE UNCHANGED <<user, assigned>>
  /\ Goto(c, Done)
  /\ UNCHANGED <<token, blacklist, expired, loggedOut, revoked, overtaken>>

----------------------------------------------------------------------------
(* Unguarded user routes, failures, the cron job *)

\* POST /users: role user, token_version 1 by default.
CreateUser(u) ==
  /\ user[u] = Absent
  /\ user' = [user EXCEPT ![u] = [role |-> "user", version |-> 1]]
  /\ UNCHANGED <<token, blacklist, expired, call, assigned, loggedOut, revoked, overtaken>>

\* PATCH /users/:id/password: an UPDATE of password_hash alone.  The version
\* stays, and with it every session.
UpdatePassword(c, u) ==
  /\ call[c] = Idle
  /\ Exists(u)
  /\ Goto(c, Done)
  /\ UNCHANGED <<user, token, blacklist, expired, assigned, loggedOut, revoked, overtaken>>

\* DELETE /users/:id: findOne, then DELETE.
ReadRemoved(c, u) ==
  /\ call[c] = Idle
  /\ Exists(u)
  /\ Goto(c, [pc |-> "remove", user |-> u])
  /\ UNCHANGED <<user, token, blacklist, expired, assigned, loggedOut, revoked, overtaken>>

\* token_blacklist.user_id is ON DELETE CASCADE.
NoCascade(u) == blacklist   \* mutant: the foreign key is not there
Cascade(u)   == blacklist \ TokensOf(u)

RemoveUser(c) ==
  /\ call[c].pc = "remove"
  /\ user' = [user EXCEPT ![call[c].user] = Removed]
  /\ blacklist' = Cascade(call[c].user)
  /\ Goto(c, Done)
  /\ UNCHANGED <<token, expired, assigned, loggedOut, revoked, overtaken>>

\* A read that is answered, a wrong password, a statement that fails, a foreign key that keeps a user
\* with orders, or the death of the process: the request changes nothing more.
Abandon(c) ==
  /\ call[c] \notin {Idle, Done}
  /\ Goto(c, Done)
  /\ UNCHANGED <<user, token, blacklist, expired, assigned, loggedOut, revoked, overtaken>>

\* pruneExpiredBlacklist, hourly in every process, on its own clock.
PruneLive(p) == {t \in Tokens : t \notin expired[p]}   \* mutant: MoreThan for LessThan
Prunable(p) == expired[p]

Prune(p) ==
  /\ blacklist \cap Prunable(p) # {}
  /\ blacklist' = blacklist \ Prunable(p)
  /\ UNCHANGED <<user, token, expired, call, assigned, loggedOut, revoked, overtaken>>

----------------------------------------------------------------------------
Guards(c) ==
  \/ \E t \in Tokens, route \in Routes : Present(c, t, route)
  \/ CheckBlacklist(c) \/ CheckUser(c)

AuthCall(c) ==
  \/ \E u \in Users : LoginRead(c, u)
  \/ \E t \in Tokens : LoginSign(c, t)
  \/ Logout(c)

UserCall(c) ==
  \/ \E u \in Users : \/ Revoke(c, u) \/ SetRole(c, u) \/ UpdateUser(c, u)
                      \/ UpdatePassword(c, u) \/ ReadRemoved(c, u)
  \/ SaveDiff(c) \/ SaveUpdate(c) \/ RemoveUser(c)

Serve(c) == Guards(c) \/ AuthCall(c) \/ UserCall(c) \/ Abandon(c)

Next ==
  \/ \E c \in Calls : Serve(c)
  \/ \E u \in Users : CreateUser(u)
  \/ \E p \in Processes : Prune(p) \/ \E t \in Tokens : Expire(p, t)

Spec == Init /\ [][Next]_vars

\* Clocks go on and the cron job keeps running: of what they can do, something
\* is done.
LiveSpec == Spec /\ WF_vars(\E p \in Processes : Prune(p) \/ \E t \in Tokens : Expire(p, t))

----------------------------------------------------------------------------
(* Properties *)

Passes(c, check) == call[c].pc = check /\ call'[c].pc \notin {check, "done"}

\* "Invalidate a single token by JTI (used on logout)": after the answer to the
\* logout the token does not pass the blacklist check, although rows are pruned
\* and ignored once they expire, unless it has expired on some process's clock
\* or its user was removed.
LogoutIsFinal ==
  [][\A c \in Calls : LET t == call[c].token IN
       Passes(c, "blocked?") /\ t \in loggedOut /\ Exists(token[t].user) =>
         \E p \in Processes : t \in expired[p]]_vars

\* "Increment tokenVersion - invalidates ALL active tokens for this user": no
\* token issued before a revocation passes the version check after it, unless
\* the revocation fell between the read and the re-select of a save of the
\* user, or two saves of the user overlapped.
RevocationIsFinal ==
  [][\A c \in Calls : Passes(c, "user?") /\ call[c].token \in revoked =>
       token[call[c].token].user \in overtaken]_vars

\* A user has the role the last setRole gave, whatever other saves of the user
\* there were, unless two of them overlapped.
RoleFollowsAssignment ==
  \A u \in Users : Exists(u) /\ u \notin overtaken => user[u].role = assigned[u]

\* The guards implement SessionAccess: they let a request in only with a token
\* that was live while the request was there, however rows are pruned, clocks
\* differ, versions are counted and users are saved and removed meanwhile.
Gone     == {t \in Tokens : Issued(t) /\ user[token[t].user] = Removed}
Lapsed   == UNION {expired[p] : p \in Processes}
Disputed == {t \in Tokens : Issued(t) /\ token[t].user \in overtaken}
Place(pc) == IF pc = "blocked?" THEN "door" ELSE IF pc = "user?" THEN "hall" ELSE "inside"
Standing(state) == IF state.pc \in {"blocked?", "user?", "accepted"}
                     THEN [at |-> Place(state.pc), token |-> state.token]
                     ELSE [at |-> "away"]
Request  == [c \in Calls |-> Standing(call[c])]
Access == INSTANCE SessionAccess WITH
  out <- loggedOut, cut <- revoked, gone <- Gone, lapsed <- Lapsed, disputed <- Disputed,
  request <- Request
ImplementsAccess == Access!Spec

\* "The entry is auto-pruned by the cleanup cron when it expires": no
\* blacklist row stays for ever.
EntriesArePruned == \A t \in Tokens : t \in blacklist ~> t \notin blacklist
=============================================================================
