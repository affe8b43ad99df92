--------------------------- MODULE SessionsProofs ---------------------------
(* Theorems about Sessions for every set of users, tokens, requests and    *)
(* processes, with their proofs.                                           *)
EXTENDS Sessions, TLAPS

----------------------------------------------------------------------------
(* Requests and rows                                                       *)

LoginCall  == [pc : {"login"}, user : Users, version : 1..MaxVersion]
GuardCall  == [pc : {"blocked?", "user?", "accepted"}, token : Tokens, route : Routes]
SaveCall   == [pc : {"save", "update"}, user : Users, entity : Row, cols : SUBSET {"role", "version"},
               sets : BOOLEAN]
RemoveCall == [pc : {"remove"}, user : Users]

\* The step a request stands at tells the fields it has.
LEMMA CallShape ==
  ASSUME NEW x \in Call
  PROVE  /\ x.pc = "login" => x \in LoginCall
         /\ x.pc \in {"blocked?", "user?", "accepted"} => x \in GuardCall
         /\ x.pc \in {"save", "update"} => x \in SaveCall
         /\ x.pc = "remove" => x \in RemoveCall
  BY DEF Call, Idle, Done, LoginCall, GuardCall, SaveCall, RemoveCall

\* The kinds of request are requests.
LEMMA CallKinds ==
  /\ Idle \in Call /\ Done \in Call
  /\ LoginCall \subseteq Call /\ GuardCall \subseteq Call
  /\ SaveCall \subseteq Call /\ RemoveCall \subseteq Call
<1>1. Idle \in Call /\ Done \in Call
  BY DEF Call
<1>2. LoginCall \subseteq Call /\ GuardCall \subseteq Call
  BY DEF Call, LoginCall, GuardCall
<1>3. SaveCall \subseteq Call /\ RemoveCall \subseteq Call
  BY DEF Call, SaveCall, RemoveCall
<1> QED BY <1>1, <1>2, <1>3

\* A request's step changes that request.
LEMMA GotoMoves ==
  ASSUME call \in [Calls -> Call], NEW c \in Calls, NEW state, Goto(c, state)
  PROVE  /\ call'[c] = state
         /\ \A d \in Calls \ {c} : call'[d] = call[d]
         /\ state \in Call => call' \in [Calls -> Call]
  BY DEF Goto

\* A user that is not there is no row.
LEMMA NoRow == Absent \notin Row /\ Removed \notin Row /\ Absent # Removed
  BY DEF Absent, Removed, Row, Roles

----------------------------------------------------------------------------
(* Type correctness                                                        *)

\* The initial state is well-typed.
LEMMA InitTypeOK == Init => TypeOK
<1> SUFFICES ASSUME Init PROVE TypeOK
  OBVIOUS
<1>1. 1 \in 1..MaxVersion
  BY VersionAssumption
<1>2. user \in [Users -> Row \cup {Absent, Removed}]
  BY <1>1 DEF Init, Row, Roles
<1>3. token \in [Tokens -> [user : Users, version : 1..MaxVersion] \cup {NoToken}]
  BY <1>1, UsersAssumption DEF Init
<1>4. Idle.pc = "new"
  BY DEF Idle
<1> QED BY <1>2, <1>3, <1>4, CallKinds DEF Init, TypeOK, Roles

\* A token in the hands of a request has been issued.
PresentedIssued ==
  \A c \in Calls : call[c].pc \in {"blocked?", "user?", "accepted"} => token[call[c].token] # NoToken

\* A request that goes on to a step without a token, or keeps an issued one,
\* leaves the types of the requests as they are.
LEMMA StepTypes ==
  ASSUME TypeOK, NEW c \in Calls, NEW state \in Call, Goto(c, state), UNCHANGED token,
         state.pc \in {"blocked?", "user?", "accepted"} => token[state.token] # NoToken
  PROVE  call' \in [Calls -> Call] /\ PresentedIssued'
<1>1. call \in [Calls -> Call] /\ PresentedIssued
  BY DEF TypeOK, PresentedIssued
<1>2. call'[c] = state /\ call' \in [Calls -> Call] /\ \A d \in Calls \ {c} : call'[d] = call[d]
  BY <1>1, GotoMoves
<1> QED BY <1>1, <1>2 DEF PresentedIssued

\* The guards and the login keep the types.
LEMMA LoginTypeOK ==
  ASSUME TypeOK, NEW c \in Calls, Guards(c) \/ AuthCall(c)
  PROVE  TypeOK'
<1>0. call \in [Calls -> Call] /\ Done.pc = "done" /\ Done \in Call
  BY CallKinds DEF TypeOK, Done
<1> USE DEF PresentedIssued
<1>1. ASSUME NEW t \in Tokens, NEW route \in Routes, Present(c, t, route) PROVE TypeOK'
  <2>1. [pc |-> "blocked?", token |-> t, route |-> route] \in Call
    BY CallKinds DEF GuardCall
  <2>2. call' \in [Calls -> Call] /\ PresentedIssued'
    BY <1>1, <2>1, StepTypes DEF Present, Issued
  <2> QED BY <1>1, <2>2 DEF TypeOK, Present, Exists
<1>2. ASSUME CheckBlacklist(c) \/ CheckUser(c) PROVE TypeOK'
  <2>1. call[c] \in GuardCall /\ token[call[c].token] # NoToken
    BY <1>0, <1>2, CallShape DEF CheckBlacklist, CheckUser, TypeOK
  <2>2. /\ On(c, "user?") \in Call /\ On(c, "user?").token = call[c].token
        /\ On(c, "accepted") \in Call /\ On(c, "accepted").token = call[c].token
    BY <2>1, CallKinds DEF On, GuardCall
  <2>3. PICK state \in {On(c, "user?"), On(c, "accepted"), Done} : Goto(c, state)
    BY <1>2 DEF CheckBlacklist, CheckUser
  <2>4. call' \in [Calls -> Call] /\ PresentedIssued'
    BY <1>0, <1>2, <2>1, <2>2, <2>3, StepTypes DEF CheckBlacklist, CheckUser
  <2> QED BY <1>2, <2>4 DEF TypeOK, CheckBlacklist, CheckUser, Exists
<1>3. ASSUME NEW u \in Users, LoginRead(c, u) PROVE TypeOK'
  <2>1. user[u].version \in 1..MaxVersion
    BY <1>3 DEF LoginRead, Exists, Row
  <2>2. [pc |-> "login", user |-> u, version |-> user[u].version] \in Call
    BY <2>1, CallKinds DEF LoginCall
  <2>3. call' \in [Calls -> Call] /\ PresentedIssued'
    BY <1>3, <2>2, StepTypes DEF LoginRead
  <2> QED BY <1>3, <2>3 DEF TypeOK, LoginRead, Exists
<1>4. ASSUME NEW t \in Tokens, LoginSign(c, t) PROVE TypeOK'
  <2>1. call[c] \in LoginCall
    BY <1>0, <1>4, CallShape DEF LoginSign
  <2> DEFINE new == [user |-> call[c].user, version |-> call[c].version]
  <2>2. new \in [user : Users, version : 1..MaxVersion] /\ new # NoToken
    BY <2>1, UsersAssumption DEF LoginCall, NoToken
  <2>3. token' = [token EXCEPT ![t] = new] /\ token[t] = NoToken
    BY <1>4 DEF LoginSign, Issued
  <2> HIDE DEF new
  <2>4. token' \in [Tokens -> [user : Users, version : 1..MaxVersion] \cup {NoToken}]
    BY <2>2, <2>3 DEF TypeOK
  <2>5. call' \in [Calls -> Call] /\ call'[c] = Done /\ \A d \in Calls \ {c} : call'[d] = call[d]
    BY <1>0, <1>4, GotoMoves DEF LoginSign
  <2>6. /\ \A s \in Tokens \ {t} : token'[s] = token[s]
        /\ token'[t] = new
    BY <2>3 DEF TypeOK
  <2>7. PresentedIssued'
    <3> SUFFICES ASSUME NEW d \in Calls, call'[d].pc \in {"blocked?", "user?", "accepted"}
                 PROVE  token'[call'[d].token] # NoToken
      OBVIOUS
    <3>1. d # c /\ call'[d] = call[d]
      BY <1>0, <2>5
    <3>2. call[d].token \in Tokens /\ token[call[d].token] # NoToken
      BY <1>0, <3>1, CallShape DEF GuardCall, TypeOK
    <3> QED BY <2>2, <2>3, <2>6, <3>1, <3>2
  <2> QED BY <1>4, <2>2, <2>3, <2>4, <2>5, <2>6, <2>7 DEF TypeOK, LoginSign, Exists
<1>5. ASSUME Logout(c) PROVE TypeOK'
  <2>1. call[c].token \in Tokens /\ token[call[c].token] # NoToken
    BY <1>0, <1>5, CallShape DEF Logout, GuardCall, TypeOK
  <2>2. call' \in [Calls -> Call] /\ PresentedIssued'
    BY <1>0, <1>5, StepTypes DEF Logout
  <2> QED BY <1>5, <2>1, <2>2 DEF TypeOK, Logout, Exists
<1> QED BY <1>1, <1>2, <1>3, <1>4, <1>5 DEF Guards, AuthCall

\* Handlers of user routes keep the types.
LEMMA UserTypeOK ==
  ASSUME TypeOK, NEW c \in Calls, UserCall(c)
  PROVE  TypeOK'
<1>0. call \in [Calls -> Call] /\ Done.pc = "done" /\ Done \in Call
  BY CallKinds DEF TypeOK, Done
<1>a. user \in [Users -> Row \cup {Absent, Removed}]
  BY DEF TypeOK
<1> USE DEF PresentedIssued
<1>1. ASSUME NEW u \in Users, Revoke(c, u) PROVE TypeOK'
  <2>1. call' \in [Calls -> Call] /\ PresentedIssued'
    BY <1>0, <1>1, StepTypes DEF Revoke
  <2>2. /\ user' \in [Users -> Row \cup {Absent, Removed}]
        /\ \A v \in Users : Exists(v) => Exists(v)'
    <3>1. CASE Exists(u)
      <4>1. [role |-> user[u].role, version |-> user[u].version + 1] \in Row
        BY <1>1, <3>1, VersionAssumption DEF Revoke, Exists, Row
      <4>2. user' = [user EXCEPT ![u] = [role |-> user[u].role, version |-> user[u].version + 1]]
        BY <1>1, <3>1 DEF Revoke
      <4> QED BY <1>a, <4>1, <4>2 DEF Exists
    <3>2. CASE ~Exists(u)
      BY <1>1, <1>a, <3>2 DEF Revoke, Exists
    <3> QED BY <3>1, <3>2
  <2>3. \A t \in blacklist : token[t].user \in Users
    BY UsersAssumption DEF TypeOK, NoToken
  <2>4. revoked' \subseteq Tokens /\ overtaken' \subseteq Users
    BY <1>1 DEF TypeOK, Revoke, TokensOf
  <2>5. UNCHANGED <<token, blacklist, expired, assigned, loggedOut>>
    BY <1>1 DEF Revoke
  <2> QED BY <2>1, <2>2, <2>3, <2>4, <2>5 DEF TypeOK
<1>2. ASSUME NEW u \in Users, NEW role \in Roles, NEW sets \in BOOLEAN, ReadUser(c, u, role, sets)
      PROVE  TypeOK'
  <2> DEFINE state == [pc |-> "save", user |-> u, cols |-> {}, sets |-> sets,
                       entity |-> [role |-> role, version |-> user[u].version]]
  <2>1. state \in SaveCall
    BY <1>2 DEF ReadUser, Exists, Row, SaveCall
  <2>2. state \in Call /\ state.pc = "save" /\ Goto(c, state)
    BY <1>2, <2>1, CallKinds DEF ReadUser
  <2> HIDE DEF state
  <2>3. call' \in [Calls -> Call] /\ PresentedIssued'
    BY <1>2, <2>2, StepTypes DEF ReadUser
  <2> QED BY <1>2, <2>3 DEF TypeOK, ReadUser, Exists
<1>3. ASSUME NEW u \in Users, UpdatePassword(c, u) \/ ReadRemoved(c, u) PROVE TypeOK'
  <2>1. [pc |-> "remove", user |-> u] \in Call
    BY CallKinds DEF RemoveCall
  <2>2. call' \in [Calls -> Call] /\ PresentedIssued'
    BY <1>0, <1>3, <2>1, StepTypes DEF UpdatePassword, ReadRemoved
  <2> QED BY <1>3, <2>2 DEF TypeOK, UpdatePassword, ReadRemoved, Exists
<1>4. ASSUME SaveDiff(c) PROVE TypeOK'
  <2>1. call[c] \in SaveCall
    BY <1>0, <1>4, CallShape DEF SaveDiff
  <2> DEFINE u     == call[c].user
             state == [pc |-> "update", user |-> u, entity |-> call[c].entity, sets |-> call[c].sets,
                       cols |-> {x \in {"role", "version"} : call[c].entity[x] # user[u][x]}]
  <2>2. state \in SaveCall
    BY <2>1 DEF SaveCall
  <2>3. state \in Call /\ state.pc = "update" /\ (Goto(c, state) \/ Goto(c, Done))
    BY <1>4, <2>2, CallKinds DEF SaveDiff
  <2> HIDE DEF state
  <2>4. call' \in [Calls -> Call] /\ PresentedIssued'
    BY <1>0, <1>4, <2>3, StepTypes DEF SaveDiff
  <2> QED BY <1>4, <2>4 DEF TypeOK, SaveDiff, Exists
<1>5. ASSUME SaveUpdate(c) PROVE TypeOK'
  <2> DEFINE u == call[c].user
  <2>1. call[c] \in SaveCall
    BY <1>0, <1>5, CallShape DEF SaveUpdate
  <2>2. call' \in [Calls -> Call] /\ PresentedIssued'
    BY <1>0, <1>5, StepTypes DEF SaveUpdate
  <2>3. u \in Users /\ call[c].entity \in Row
    BY <2>1 DEF SaveCall
  <2>4. /\ user' \in [Users -> Row \cup {Absent, Removed}]
        /\ \A v \in Users : Exists(v) => Exists(v)'
    <3>1. CASE Exists(u)
      <4>1. Saved(c) \in Row
        BY <2>3, <3>1 DEF Saved, Exists, Row
      <4>2. user' = [user EXCEPT ![u] = Saved(c)]
        BY <1>5, <3>1 DEF SaveUpdate
      <4> QED BY <1>a, <2>3, <4>1, <4>2 DEF Exists
    <3>2. CASE ~Exists(u)
      BY <1>5, <1>a, <3>2 DEF SaveUpdate, Exists
    <3> QED BY <3>1, <3>2
  <2>5. assigned' \in [Users -> Roles]
    BY <1>5, <2>3 DEF SaveUpdate, TypeOK, Row
  <2>6. \A t \in blacklist : token[t].user \in Users
    BY UsersAssumption DEF TypeOK, NoToken
  <2> QED BY <1>5, <2>2, <2>4, <2>5, <2>6 DEF TypeOK, SaveUpdate
<1>6. ASSUME RemoveUser(c) PROVE TypeOK'
  <2>1. call[c].user \in Users
    BY <1>0, <1>6, CallShape DEF RemoveUser, RemoveCall
  <2>2. call' \in [Calls -> Call] /\ PresentedIssued'
    BY <1>0, <1>6, StepTypes DEF RemoveUser
  <2>3. /\ user' \in [Users -> Row \cup {Absent, Removed}]
        /\ \A v \in Users \ {call[c].user} : Exists(v) => Exists(v)'
    BY <1>6, <1>a, <2>1 DEF RemoveUser, Exists
  <2>4. \A t \in blacklist' : t \in blacklist /\ token[t].user \in Users \ {call[c].user}
    BY <1>6, UsersAssumption DEF RemoveUser, Cascade, TokensOf, Issued, TypeOK, NoToken
  <2> QED BY <1>6, <2>2, <2>3, <2>4 DEF TypeOK, RemoveUser
<1> QED BY <1>1, <1>2, <1>3, <1>4, <1>5, <1>6 DEF UserCall, SetRole, UpdateUser, Exists, Row, ReadUser

\* Every step keeps the types.
LEMMA NextTypeOK == TypeOK /\ [Next]_vars => TypeOK'
<1> SUFFICES ASSUME TypeOK, [Next]_vars PROVE TypeOK'
  OBVIOUS
<1> USE DEF PresentedIssued
<1>1. ASSUME NEW c \in Calls, Abandon(c) PROVE TypeOK'
  <2>1. call' \in [Calls -> Call] /\ PresentedIssued'
    BY <1>1, CallKinds, StepTypes DEF Abandon, Done
  <2> QED BY <1>1, <2>1 DEF TypeOK, Abandon, Exists
<1>2. ASSUME NEW u \in Users, CreateUser(u) PROVE TypeOK'
  <2> DEFINE new == [role |-> "user", version |-> 1]
  <2>1. new \in Row
    BY VersionAssumption DEF Row, Roles
  <2>2. user' = [user EXCEPT ![u] = new] /\ ~Exists(u)
    BY <1>2, NoRow DEF CreateUser, Exists
  <2> HIDE DEF new
  <2>3. /\ user' \in [Users -> Row \cup {Absent, Removed}]
        /\ \A v \in Users : Exists(v) => Exists(v)'
    BY <2>1, <2>2 DEF TypeOK, Exists
  <2>4. \A t \in blacklist : token[t].user \in Users
    BY UsersAssumption DEF TypeOK, NoToken
  <2> QED BY <1>2, <2>3, <2>4 DEF TypeOK, CreateUser
<1>3. ASSUME NEW p \in Processes, Prune(p) PROVE TypeOK'
  BY <1>3 DEF TypeOK, Prune, Exists
<1>4. ASSUME NEW p \in Processes, NEW t \in Tokens, Expire(p, t) PROVE TypeOK'
  BY <1>4 DEF TypeOK, Expire, Exists
<1>5. CASE UNCHANGED vars
  BY <1>5 DEF TypeOK, vars, Exists
<1> QED BY <1>1, <1>2, <1>3, <1>4, <1>5, LoginTypeOK, UserTypeOK DEF Next, Serve

\* Every variable keeps its type, a row of token_blacklist belongs to a user
\* that is there, and only issued tokens pass the guards.
THEOREM TypeCorrect == Spec => []TypeOK
  BY InitTypeOK, NextTypeOK, PTL DEF Spec

----------------------------------------------------------------------------
(* The inductive invariant                                                 *)

Saves(c, u) == call[c].pc \in {"save", "update"} /\ call[c].user = u
Names(c, u) == call[c].pc \in {"login", "save", "update", "remove"} /\ call[c].user = u

\* Nothing refers to a user before it is created.
AbsentClean ==
  \A u \in Users : user[u] = Absent =>
    /\ assigned[u] = "user"
    /\ \A t \in Tokens : Issued(t) => token[t].user # u
    /\ \A c \in Calls : ~Names(c, u)

\* Two saves of a user that is not overtaken do not overlap.
Apart ==
  \A u \in Users \ overtaken : \A c, d \in Calls : Saves(c, u) /\ Saves(d, u) => c = d

\* The entity of a save that was not overtaken has the version of the row and,
\* unless it sets one, the role of the row; the update writes what differs.
SaverCurrent ==
  \A u \in Users \ overtaken : \A c \in Calls :
    Exists(u) /\ Saves(c, u) =>
      /\ call[c].sets \/ call[c].entity.role = user[u].role
      /\ call[c].pc = "save" => call[c].entity.version = user[u].version
      /\ call[c].pc = "update" => /\ "version" \notin call[c].cols
                                  /\ "role" \in call[c].cols \/ call[c].entity.role = user[u].role

\* No token and no login is ahead of its user.
Versions ==
  \A u \in Users \ overtaken : Exists(u) =>
    /\ \A t \in Tokens : Issued(t) /\ token[t].user = u => token[t].version <= user[u].version
    /\ \A c \in Calls : call[c].pc = "login" /\ call[c].user = u => call[c].version <= user[u].version

\* A revoked token is behind its user.
RevokedOld ==
  \A t \in revoked :
    /\ Issued(t)
    /\ \/ token[t].user \in overtaken
       \/ ~Exists(token[t].user)
       \/ token[t].version < user[token[t].user].version

\* A logged out token is blocked for as long as some clock takes it as valid.
LoggedOutBlocked ==
  \A t \in loggedOut : \/ t \in blacklist
                       \/ \E p \in Processes : t \in expired[p]
                       \/ ~Exists(token[t].user)

Inv == /\ AbsentClean /\ Apart /\ SaverCurrent /\ Versions
       /\ RevokedOld /\ LoggedOutBlocked /\ RoleFollowsAssignment

\* It holds initially.
LEMMA InitInv == Init => Inv
<1> SUFFICES ASSUME Init PROVE Inv
  OBVIOUS
<1>1. \A c \in Calls, u \in Users : ~Saves(c, u) /\ ~Names(c, u) /\ call[c].pc # "login"
  BY DEF Init, Idle, Saves, Names
<1>2. AbsentClean
  <2>1. \A u \in Users : user[u] = Absent => u \notin Admins
    BY DEF Init, Absent
  <2>2. \A t \in Tokens : Issued(t) => token[t].user \in Admins
    BY UsersAssumption DEF Init, Issued
  <2> QED BY <1>1, <2>1, <2>2 DEF AbsentClean, Init
<1>3. Versions
  <2>1. \A u \in Users : Exists(u) => user[u].version = 1
    BY NoRow DEF Init, Exists
  <2>2. \A t \in Tokens : Issued(t) => token[t].version = 1
    BY UsersAssumption DEF Init, Issued
  <2> QED BY <1>1, <2>1, <2>2 DEF Versions
<1>4. RoleFollowsAssignment
  BY NoRow DEF Init, Exists, RoleFollowsAssignment
<1> QED BY <1>1, <1>2, <1>3, <1>4 DEF Inv, Apart, SaverCurrent, RevokedOld, LoggedOutBlocked, Init

\* Steps that move a request to a step that names no user.
LEMMA QuietInv ==
  ASSUME TypeOK, Inv, NEW c \in Calls, NEW state, Goto(c, state),
         state.pc \notin {"login", "save", "update", "remove"},
         UNCHANGED <<user, token, blacklist, expired, assigned, loggedOut, revoked, overtaken>>
  PROVE  Inv'
<1>1. call'[c] = state /\ \A d \in Calls \ {c} : call'[d] = call[d]
  BY GotoMoves DEF TypeOK
<1>2. \A d \in Calls : call'[d] = call[d] \/ call'[d].pc \notin {"login", "save", "update", "remove"}
  BY <1>1
<1>3. AbsentClean' /\ Apart'
  BY <1>2 DEF Inv, AbsentClean, Apart, Saves, Names, Issued
<1>4. SaverCurrent' /\ Versions'
  BY <1>2 DEF Inv, SaverCurrent, Versions, Saves, Exists, Issued
<1>5. RevokedOld' /\ LoggedOutBlocked' /\ RoleFollowsAssignment'
  BY DEF Inv, RevokedOld, LoggedOutBlocked, RoleFollowsAssignment, Exists, Issued
<1> QED BY <1>3, <1>4, <1>5 DEF Inv

\* login reads the version of the row and signs a token with it.
LEMMA LoginInv ==
  ASSUME TypeOK, Inv, NEW c \in Calls, AuthCall(c)
  PROVE  Inv'
<1>0. call \in [Calls -> Call] /\ Done.pc = "done"
  BY DEF TypeOK, Done
<1>1. ASSUME NEW u \in Users, LoginRead(c, u) PROVE Inv'
  <2>1. /\ call'[c] = [pc |-> "login", user |-> u, version |-> user[u].version]
        /\ \A d \in Calls \ {c} : call'[d] = call[d]
    BY <1>0, <1>1, GotoMoves DEF LoginRead
  <2>2. UNCHANGED <<user, token, blacklist, expired, assigned, loggedOut, revoked, overtaken>>
        /\ Exists(u) /\ user[u] # Absent /\ user[u].version \in Nat
    BY <1>1, NoRow DEF LoginRead, Exists, Row
  <2>3. AbsentClean' /\ Apart'
    BY <2>1, <2>2 DEF Inv, AbsentClean, Apart, Saves, Names, Issued
  <2>4. SaverCurrent' /\ Versions'
    BY <2>1, <2>2 DEF Inv, SaverCurrent, Versions, Saves, Exists, Issued
  <2>5. RevokedOld' /\ LoggedOutBlocked' /\ RoleFollowsAssignment'
    BY <2>2 DEF Inv, RevokedOld, LoggedOutBlocked, RoleFollowsAssignment, Exists, Issued
  <2> QED BY <2>3, <2>4, <2>5 DEF Inv
<1>2. ASSUME NEW t \in Tokens, LoginSign(c, t) PROVE Inv'
  <2> DEFINE new == [user |-> call[c].user, version |-> call[c].version]
  <2>1. call'[c] = Done /\ \A d \in Calls \ {c} : call'[d] = call[d]
    BY <1>0, <1>2, GotoMoves DEF LoginSign
  <2>2. /\ token' = [token EXCEPT ![t] = new] /\ ~Issued(t) /\ call[c].pc = "login"
        /\ new.user = call[c].user /\ new.version = call[c].version
        /\ UNCHANGED <<user, blacklist, expired, assigned, loggedOut, revoked, overtaken>>
    BY <1>2 DEF LoginSign
  <2> HIDE DEF new
  <2>3. token'[t] = new /\ \A s \in Tokens \ {t} : token'[s] = token[s]
    BY <2>2 DEF TypeOK
  <2>4. \A s \in Tokens : Issued(s)' => s = t \/ Issued(s)
    BY <2>3 DEF Issued
  <2>5. AbsentClean' /\ Apart'
    BY <1>0, <2>1, <2>2, <2>3, <2>4 DEF Inv, AbsentClean, Apart, Saves, Names
  <2>6. SaverCurrent' /\ Versions'
    BY <1>0, <2>1, <2>2, <2>3, <2>4 DEF Inv, SaverCurrent, Versions, Saves, Exists
  <2>7. t \notin revoked /\ t \notin loggedOut /\ revoked \subseteq Tokens /\ loggedOut \subseteq Tokens
    BY <2>2 DEF Inv, RevokedOld, TypeOK, Issued
  <2>8. RevokedOld' /\ LoggedOutBlocked' /\ RoleFollowsAssignment'
    BY <2>2, <2>3, <2>7 DEF Inv, RevokedOld, LoggedOutBlocked, RoleFollowsAssignment, Exists, Issued
  <2> QED BY <2>5, <2>6, <2>8 DEF Inv
<1>3. ASSUME Logout(c) PROVE Inv'
  <2>1. call'[c] = Done /\ \A d \in Calls \ {c} : call'[d] = call[d]
    BY <1>0, <1>3, GotoMoves DEF Logout
  <2>2. UNCHANGED <<user, token, expired, assigned, revoked, overtaken>>
    BY <1>3 DEF Logout
  <2>3. AbsentClean' /\ Apart'
    BY <1>0, <2>1, <2>2 DEF Inv, AbsentClean, Apart, Saves, Names, Issued
  <2>4. SaverCurrent' /\ Versions'
    BY <1>0, <2>1, <2>2 DEF Inv, SaverCurrent, Versions, Saves, Exists, Issued
  <2>5. RevokedOld' /\ RoleFollowsAssignment'
    BY <2>2 DEF Inv, RevokedOld, RoleFollowsAssignment, Exists, Issued
  <2>6. \A t \in loggedOut' : t \in loggedOut \/ t \in blacklist'
    BY <1>3 DEF Logout
  <2>7. blacklist \subseteq blacklist'
    BY <1>3 DEF Logout
  <2>8. LoggedOutBlocked'
    BY <2>2, <2>6, <2>7 DEF Inv, LoggedOutBlocked, Exists
  <2> QED BY <2>3, <2>4, <2>5, <2>8 DEF Inv
<1> QED BY <1>1, <1>2, <1>3 DEF AuthCall

\* revokeAllSessions leaves the tokens there are behind; a save that has read
\* the row and not compared it makes the user overtaken.
LEMMA RevokeInv ==
  ASSUME TypeOK, Inv, NEW c \in Calls, NEW u \in Users, Revoke(c, u), Exists(u)
  PROVE  Inv'
<1>0. call \in [Calls -> Call] /\ Done.pc = "done"
  BY DEF TypeOK, Done
<1>1. call'[c] = Done /\ \A d \in Calls \ {c} : call'[d] = call[d]
  BY <1>0, GotoMoves DEF Revoke
<1>2. /\ user' = [user EXCEPT ![u] = [role |-> user[u].role, version |-> user[u].version + 1]]
      /\ revoked' = revoked \cup TokensOf(u)
      /\ overtaken' = overtaken \cup {v \in {u} : SaveOpen(u)}
      /\ UNCHANGED <<token, blacklist, expired, assigned, loggedOut>>
  BY DEF Revoke
<1>3. /\ user'[u].role = user[u].role /\ user'[u].version = user[u].version + 1
      /\ user[u].version \in Nat /\ user'[u] \in Row \cup {user'[u]}
      /\ \A v \in Users \ {u} : user'[v] = user[v]
  BY <1>2 DEF TypeOK, Exists, Row
<1>4. user[u] # Absent /\ user'[u] # Absent
  BY <1>2, NoRow DEF TypeOK, Exists, Absent
<1>5. \A d \in Calls : /\ \A v \in Users : Saves(d, v)' => Saves(d, v) /\ call'[d] = call[d]
                       /\ call'[d].pc = "login" => call'[d] = call[d]
  BY <1>0, <1>1 DEF Saves
<1>6. AbsentClean'
  BY <1>0, <1>1, <1>2, <1>3, <1>4 DEF Inv, AbsentClean, Names, Issued
<1>7. Apart'
  BY <1>2, <1>5 DEF Inv, Apart
<1>8. SaverCurrent'
  <2> SUFFICES ASSUME NEW v \in Users \ overtaken', NEW d \in Calls, Exists(v)', Saves(d, v)'
               PROVE  /\ call'[d].sets \/ call'[d].entity.role = user'[v].role
                      /\ call'[d].pc = "save" => call'[d].entity.version = user'[v].version
                      /\ call'[d].pc = "update" =>
                           /\ "version" \notin call'[d].cols
                           /\ "role" \in call'[d].cols \/ call'[d].entity.role = user'[v].role
    BY DEF SaverCurrent
  <2>1. Saves(d, v) /\ call'[d] = call[d] /\ v \notin overtaken
    BY <1>2, <1>5
  <2>2. Exists(v)
    BY <1>3 DEF Exists
  <2>3. v = u => call[d].pc # "save"
    BY <1>2, <2>1 DEF SaveOpen, Saves
  <2> QED BY <1>3, <2>1, <2>2, <2>3 DEF Inv, SaverCurrent
<1>9. \A t \in Tokens : Issued(t) => token[t].version \in Nat
  BY VersionAssumption DEF TypeOK, Issued
<1>10. \A d \in Calls : call[d].pc = "login" => call[d].version \in Nat
  BY <1>0, CallShape DEF LoginCall
<1>11. Versions'
  BY <1>2, <1>3, <1>5, <1>9, <1>10 DEF Inv, Versions, Exists, Issued
<1>12. RevokedOld'
  <2> SUFFICES ASSUME NEW t \in revoked'
               PROVE  ( /\ Issued(t)
                        /\ \/ token[t].user \in overtaken
                           \/ ~Exists(token[t].user)
                           \/ token[t].version < user[token[t].user].version )'
    BY DEF RevokedOld
  <2>1. CASE t \in TokensOf(u)
    <3>1. Issued(t) /\ token[t].user = u /\ t \in Tokens
      BY <2>1 DEF TokensOf
    <3>2. u \notin overtaken => token[t].version <= user[u].version
      BY <3>1 DEF Inv, Versions
    <3> QED BY <1>2, <1>3, <1>9, <3>1, <3>2 DEF Issued
  <2>2. CASE t \in revoked /\ t \notin TokensOf(u)
    <3>1. Issued(t) /\ token[t].user \in Users /\ token[t].user # u
      BY <2>2 DEF Inv, RevokedOld, TokensOf, TypeOK, Issued
    <3> QED BY <1>2, <1>3, <2>2, <3>1 DEF Inv, RevokedOld, Exists, Issued
  <2> QED BY <1>2, <2>1, <2>2
<1>13. LoggedOutBlocked'
  <2>1. \A v \in Users : Exists(v)' => Exists(v)
    BY <1>3 DEF Exists
  <2>2. \A t \in loggedOut : token[t].user \in Users
    BY DEF TypeOK
  <2> QED BY <1>2, <2>1, <2>2 DEF Inv, LoggedOutBlocked
<1>14. RoleFollowsAssignment'
  BY <1>2, <1>3 DEF Inv, RoleFollowsAssignment, Exists
<1> QED BY <1>6, <1>7, <1>8, <1>11, <1>12, <1>13, <1>14 DEF Inv

\* update and setRole read the row into an entity; a save that is already
\* under way makes the user overtaken.
LEMMA ReadUserInv ==
  ASSUME TypeOK, Inv, NEW c \in Calls, call[c].pc \notin {"save", "update"},
         NEW u \in Users, NEW role \in Roles, NEW sets \in BOOLEAN,
         sets \/ role = user[u].role, ReadUser(c, u, role, sets)
  PROVE  Inv'
<1> DEFINE state == [pc |-> "save", user |-> u, cols |-> {}, sets |-> sets,
                     entity |-> [role |-> role, version |-> user[u].version]]
<1>1. call'[c] = state /\ \A d \in Calls \ {c} : call'[d] = call[d]
  BY GotoMoves DEF TypeOK, ReadUser
<1>2. /\ state.pc = "save" /\ state.user = u /\ state.sets = sets /\ state.cols = {}
      /\ state.entity.role = role /\ state.entity.version = user[u].version
  OBVIOUS
<1> HIDE DEF state
<1>3. /\ Exists(u) /\ user[u] # Absent
      /\ overtaken' = overtaken \cup {v \in {u} : Saving(u)}
      /\ UNCHANGED <<user, token, blacklist, expired, assigned, loggedOut, revoked>>
  BY NoRow DEF ReadUser, Exists
<1>4. AbsentClean'
  BY <1>1, <1>2, <1>3 DEF Inv, AbsentClean, Names, Issued
<1>5. u \notin overtaken' => \A d \in Calls : ~Saves(d, u)
  BY <1>3 DEF Saving, Saves
<1>6. Apart'
  BY <1>1, <1>2, <1>3, <1>5 DEF Inv, Apart, Saves
<1>7. SaverCurrent'
  BY <1>1, <1>2, <1>3 DEF Inv, SaverCurrent, Saves, Exists
<1>8. Versions'
  BY <1>1, <1>2, <1>3 DEF Inv, Versions, Exists, Issued
<1>9. RevokedOld' /\ LoggedOutBlocked' /\ RoleFollowsAssignment'
  BY <1>3 DEF Inv, RevokedOld, LoggedOutBlocked, RoleFollowsAssignment, Exists, Issued
<1> QED BY <1>4, <1>6, <1>7, <1>8, <1>9 DEF Inv

\* save compares the entity with the row it selects again.
LEMMA SaveDiffInv ==
  ASSUME TypeOK, Inv, NEW c \in Calls, NEW u \in Users, SaveDiff(c), u = call[c].user, Exists(u)
  PROVE  Inv'
<1> DEFINE cols  == {x \in {"role", "version"} : call[c].entity[x] # user[u][x]}
           state == [pc |-> "update", user |-> u, entity |-> call[c].entity, sets |-> call[c].sets,
                     cols |-> cols]
<1>1. call'[c] = state /\ \A d \in Calls \ {c} : call'[d] = call[d]
  BY GotoMoves DEF TypeOK, SaveDiff
<1>2. /\ state.pc = "update" /\ state.user = u /\ state.sets = call[c].sets
      /\ state.entity = call[c].entity /\ state.cols = cols
  OBVIOUS
<1>3. /\ "role" \in cols <=> call[c].entity.role # user[u].role
      /\ "version" \in cols <=> call[c].entity.version # user[u].version
  OBVIOUS
<1> HIDE DEF state, cols
<1>4. /\ Saves(c, u) /\ call[c].pc = "save"
      /\ UNCHANGED <<user, token, blacklist, expired, assigned, loggedOut, revoked, overtaken>>
  BY DEF SaveDiff, Saves
<1>5. \A d \in Calls, v \in Users : Saves(d, v)' => Saves(d, v)
  BY <1>1, <1>2, <1>4 DEF Saves
<1>6. \A d \in Calls, v \in Users : Names(d, v)' => Names(d, v)
  BY <1>1, <1>2, <1>4 DEF Saves, Names
<1>7. AbsentClean' /\ Apart'
  BY <1>4, <1>5, <1>6 DEF Inv, AbsentClean, Apart, Issued
<1>8. SaverCurrent'
  BY <1>1, <1>2, <1>3, <1>4 DEF Inv, SaverCurrent, Saves, Exists
<1>9. Versions'
  BY <1>1, <1>2, <1>4 DEF Inv, Versions, Exists, Issued
<1>10. RevokedOld' /\ LoggedOutBlocked' /\ RoleFollowsAssignment'
  BY <1>4 DEF Inv, RevokedOld, LoggedOutBlocked, RoleFollowsAssignment, Exists, Issued
<1> QED BY <1>7, <1>8, <1>9, <1>10 DEF Inv

\* save writes the columns that differed.
LEMMA SaveUpdateInv ==
  ASSUME TypeOK, Inv, NEW c \in Calls, NEW u \in Users, SaveUpdate(c), u = call[c].user, Exists(u)
  PROVE  Inv'
<1>0. call \in [Calls -> Call] /\ Done.pc = "done"
  BY DEF TypeOK, Done
<1>1. call'[c] = Done /\ \A d \in Calls \ {c} : call'[d] = call[d]
  BY <1>0, GotoMoves DEF SaveUpdate
<1>2. u \in Users /\ call[c].entity \in Row /\ Saves(c, u) /\ call[c].pc = "update"
  BY <1>0, CallShape DEF SaveUpdate, SaveCall, Saves
<1>3. /\ user' = [user EXCEPT ![u] = Saved(c)]
      /\ assigned' = [assigned EXCEPT ![u] = IF call[c].sets THEN call[c].entity.role ELSE @]
      /\ UNCHANGED <<token, blacklist, expired, loggedOut, revoked, overtaken>>
  BY DEF SaveUpdate
<1>4. /\ user'[u] = Saved(c) /\ \A v \in Users \ {u} : user'[v] = user[v]
      /\ assigned'[u] = IF call[c].sets THEN call[c].entity.role ELSE assigned[u]
      /\ \A v \in Users \ {u} : assigned'[v] = assigned[v]
  BY <1>2, <1>3 DEF TypeOK
<1>5. Saved(c) \in Row
  BY <1>2 DEF Saved, Exists, Row
<1>6. u \notin overtaken =>
        /\ Saved(c).version = user[u].version
        /\ Saved(c).role = call[c].entity.role
        /\ call[c].sets \/ Saved(c).role = user[u].role
  BY <1>2 DEF Inv, SaverCurrent, Saved
<1>7. \A v \in Users : Exists(v)' <=> Exists(v)
  BY <1>4, <1>5 DEF Exists
<1>8. \A d \in Calls : /\ \A v \in Users : Saves(d, v)' => Saves(d, v) /\ call'[d] = call[d]
                       /\ \A v \in Users : Names(d, v)' => Names(d, v)
                       /\ call'[d].pc = "login" => call'[d] = call[d]
  BY <1>0, <1>1 DEF Saves, Names
<1>9. AbsentClean'
  BY <1>3, <1>4, <1>5, <1>8, NoRow DEF Inv, AbsentClean, Issued
<1>10. Apart'
  BY <1>3, <1>8 DEF Inv, Apart
<1>11. SaverCurrent'
  <2>1. \A d \in Calls : u \notin overtaken => ~Saves(d, u)'
    BY <1>0, <1>1, <1>2, <1>8 DEF Inv, Apart, Saves
  <2> QED BY <1>3, <1>4, <1>7, <1>8, <2>1 DEF Inv, SaverCurrent
<1>12. Versions'
  BY <1>3, <1>4, <1>6, <1>7, <1>8 DEF Inv, Versions, Issued
<1>13. \A t \in Tokens : Issued(t) => token[t].user \in Users
  BY DEF TypeOK, Issued
<1>14. RevokedOld'
  BY <1>3, <1>4, <1>6, <1>7, <1>13 DEF Inv, RevokedOld, Issued, TypeOK
<1>15. LoggedOutBlocked'
  BY <1>3, <1>7, <1>13 DEF Inv, LoggedOutBlocked, Issued, TypeOK
<1>16. RoleFollowsAssignment'
  BY <1>3, <1>4, <1>6, <1>7 DEF Inv, RoleFollowsAssignment
<1> QED BY <1>9, <1>10, <1>11, <1>12, <1>14, <1>15, <1>16 DEF Inv

\* remove reads a user that is there.
LEMMA ReadRemovedInv ==
  ASSUME TypeOK, Inv, NEW c \in Calls, NEW u \in Users, ReadRemoved(c, u)
  PROVE  Inv'
<1>0. call \in [Calls -> Call] /\ Done.pc = "done"
  BY DEF TypeOK, Done
<1>1. call'[c] = [pc |-> "remove", user |-> u] /\ \A d \in Calls \ {c} : call'[d] = call[d]
  BY <1>0, GotoMoves DEF ReadRemoved
<1>2. UNCHANGED <<user, token, blacklist, expired, assigned, loggedOut, revoked, overtaken>>
      /\ user[u] # Absent
  BY NoRow DEF ReadRemoved, Exists
<1>3. AbsentClean' /\ Apart'
  BY <1>1, <1>2 DEF Inv, AbsentClean, Apart, Saves, Names, Issued
<1>4. SaverCurrent' /\ Versions'
  BY <1>1, <1>2 DEF Inv, SaverCurrent, Versions, Saves, Exists, Issued
<1>5. RevokedOld' /\ LoggedOutBlocked' /\ RoleFollowsAssignment'
  BY <1>2 DEF Inv, RevokedOld, LoggedOutBlocked, RoleFollowsAssignment, Exists, Issued
<1> QED BY <1>3, <1>4, <1>5 DEF Inv

\* DELETE takes the user's blacklist rows with it.
LEMMA RemoveInv ==
  ASSUME TypeOK, Inv, NEW c \in Calls, NEW u \in Users, RemoveUser(c), u = call[c].user
  PROVE  Inv'
<1>0. call \in [Calls -> Call] /\ Done.pc = "done"
  BY DEF TypeOK, Done
<1>1. call'[c] = Done /\ \A d \in Calls \ {c} : call'[d] = call[d]
  BY <1>0, GotoMoves DEF RemoveUser
<1>2. /\ user'[u] = Removed /\ \A v \in Users \ {u} : user'[v] = user[v]
      /\ UNCHANGED <<token, expired, assigned, loggedOut, revoked, overtaken>>
      /\ blacklist' = blacklist \ TokensOf(u)
  BY DEF RemoveUser, TypeOK, Cascade
<1>3. \A v \in Users : /\ user'[v] = Absent => user[v] = Absent
                       /\ Exists(v)' => Exists(v) /\ v # u /\ user'[v] = user[v]
  BY <1>2, NoRow DEF Exists
<1>4. \A d \in Calls : /\ \A v \in Users : Saves(d, v)' => Saves(d, v) /\ call'[d] = call[d]
                       /\ \A v \in Users : Names(d, v)' => Names(d, v)
                       /\ call'[d].pc = "login" => call'[d] = call[d]
  BY <1>0, <1>1 DEF Saves, Names
<1>5. AbsentClean' /\ Apart'
  BY <1>2, <1>3, <1>4 DEF Inv, AbsentClean, Apart, Issued
<1>6. SaverCurrent' /\ Versions' /\ RoleFollowsAssignment'
  BY <1>2, <1>3, <1>4 DEF Inv, SaverCurrent, Versions, Issued, RoleFollowsAssignment
<1>7. \A t \in Tokens : Issued(t) => token[t].user \in Users
  BY DEF TypeOK, Issued
<1>8. RevokedOld'
  BY <1>2, <1>3, <1>7 DEF Inv, RevokedOld, Issued, TypeOK
<1>9. LoggedOutBlocked'
  <2> SUFFICES ASSUME NEW t \in loggedOut, Exists(token[t].user)', \A p \in Processes : t \notin expired[p]
               PROVE  t \in blacklist'
    BY <1>2 DEF LoggedOutBlocked
  <2>1. t \in Tokens /\ Issued(t)
    BY DEF TypeOK, Issued
  <2>2. Exists(token[t].user) /\ token[t].user # u
    BY <1>2, <1>3, <1>7, <2>1
  <2> QED BY <1>2, <2>2 DEF Inv, LoggedOutBlocked, TokensOf
<1> QED BY <1>5, <1>6, <1>8, <1>9 DEF Inv

\* A user is created with a role and a version nothing contradicts.
LEMMA CreateInv ==
  ASSUME TypeOK, Inv, NEW u \in Users, CreateUser(u)
  PROVE  Inv'
<1> DEFINE new == [role |-> "user", version |-> 1]
<1>1. new.role = "user" /\ new.version = 1 /\ new \in Row
  BY VersionAssumption DEF Row, Roles
<1>2. user[u] = Absent /\ user' = [user EXCEPT ![u] = new]
  BY DEF CreateUser
<1> HIDE DEF new
<1>3. /\ user'[u] = new /\ \A v \in Users \ {u} : user'[v] = user[v]
      /\ UNCHANGED <<token, blacklist, expired, call, assigned, loggedOut, revoked, overtaken>>
  BY <1>2 DEF TypeOK, CreateUser
<1>4. /\ assigned[u] = "user"
      /\ \A t \in Tokens : Issued(t) => token[t].user # u /\ token[t].user \in Users
      /\ \A c \in Calls : ~Names(c, u)
  BY <1>2 DEF Inv, AbsentClean, TypeOK, Issued
<1>5. new # Absent
  BY <1>1, NoRow
<1>6. AbsentClean' /\ Apart'
  BY <1>3, <1>5 DEF Inv, AbsentClean, Apart, Issued, Names, Saves
<1>7. SaverCurrent' /\ Versions' /\ RoleFollowsAssignment'
  BY <1>1, <1>3, <1>4 DEF Inv, SaverCurrent, Versions, RoleFollowsAssignment, Exists, Issued, Names, Saves
<1>8. RevokedOld' /\ LoggedOutBlocked'
  BY <1>3, <1>4 DEF Inv, RevokedOld, LoggedOutBlocked, Exists, Issued, TypeOK
<1> QED BY <1>6, <1>7, <1>8 DEF Inv

\* Clocks go on and the cron job deletes rows that have expired.
LEMMA ClockInv ==
  ASSUME TypeOK, Inv, NEW p \in Processes, Prune(p) \/ \E t \in Tokens : Expire(p, t)
  PROVE  Inv'
<1>1. UNCHANGED <<user, token, call, assigned, loggedOut, revoked, overtaken>>
  BY DEF Prune, Expire
<1>2. AbsentClean' /\ Apart'
  BY <1>1 DEF Inv, AbsentClean, Apart, Issued, Names, Saves
<1>3. SaverCurrent' /\ Versions'
  BY <1>1 DEF Inv, SaverCurrent, Versions, Exists, Issued, Saves
<1>4. RevokedOld' /\ RoleFollowsAssignment'
  BY <1>1 DEF Inv, RevokedOld, RoleFollowsAssignment, Exists, Issued
<1>5. CASE Prune(p)
  <2>1. expired' = expired /\ \A t \in blacklist : t \in blacklist' \/ t \in expired[p]
    BY <1>5 DEF Prune, Prunable
  <2>2. LoggedOutBlocked'
    BY <1>1, <2>1 DEF Inv, LoggedOutBlocked, Exists
  <2> QED BY <1>2, <1>3, <1>4, <2>2 DEF Inv
<1>6. ASSUME NEW t \in Tokens, Expire(p, t) PROVE Inv'
  <2>1. blacklist' = blacklist /\ \A q \in Processes : expired[q] \subseteq expired'[q]
    BY <1>6 DEF Expire, TypeOK
  <2>2. LoggedOutBlocked'
    BY <1>1, <2>1 DEF Inv, LoggedOutBlocked, Exists
  <2> QED BY <1>2, <1>3, <1>4, <2>2 DEF Inv
<1> QED BY <1>5, <1>6

\* Every step keeps it.
LEMMA NextInv == TypeOK /\ Inv /\ [Next]_vars => Inv'
<1> SUFFICES ASSUME TypeOK, Inv, [Next]_vars PROVE Inv'
  OBVIOUS
<1>0. Done.pc = "done" /\ Idle.pc = "new" /\ call \in [Calls -> Call]
  BY DEF Done, Idle, TypeOK
<1>1. ASSUME NEW c \in Calls, Guards(c) PROVE Inv'
  <2>1. ASSUME NEW t \in Tokens, NEW route \in Routes, Present(c, t, route) PROVE Inv'
    BY <2>1, QuietInv DEF Present
  <2>2. On(c, "user?").pc = "user?" /\ On(c, "accepted").pc = "accepted"
    BY DEF On
  <2>3. ASSUME CheckBlacklist(c) \/ CheckUser(c) PROVE Inv'
    <3>1. PICK state \in {On(c, "user?"), On(c, "accepted"), Done} : Goto(c, state)
      BY <2>3 DEF CheckBlacklist, CheckUser
    <3> QED BY <1>0, <2>2, <2>3, <3>1, QuietInv DEF CheckBlacklist, CheckUser
  <2> QED BY <1>1, <2>1, <2>3 DEF Guards
<1>2. ASSUME NEW c \in Calls, Abandon(c) PROVE Inv'
  BY <1>0, <1>2, QuietInv DEF Abandon
<1>3. ASSUME NEW c \in Calls, NEW u \in Users, Revoke(c, u) PROVE Inv'
  <2>1. CASE Exists(u)
    BY <1>3, <2>1, RevokeInv
  <2>2. CASE ~Exists(u)
    BY <1>0, <1>3, <2>2, QuietInv DEF Revoke
  <2> QED BY <2>1, <2>2
<1>4. ASSUME NEW c \in Calls, NEW u \in Users, SetRole(c, u) PROVE Inv'
  BY <1>4, ReadUserInv DEF SetRole
<1>5. ASSUME NEW c \in Calls, NEW u \in Users, UpdateUser(c, u) PROVE Inv'
  <2>1. user[u].role \in Roles /\ call[c].pc = "new"
    BY <1>0, <1>5 DEF UpdateUser, ReadUser, Exists, Row
  <2> QED BY <1>5, <2>1, ReadUserInv DEF UpdateUser
<1>6. ASSUME NEW c \in Calls, NEW u \in Users, UpdatePassword(c, u) PROVE Inv'
  BY <1>0, <1>6, QuietInv DEF UpdatePassword
<1>7. ASSUME NEW c \in Calls, SaveDiff(c) PROVE Inv'
  <2>1. call[c].user \in Users
    BY <1>0, <1>7, CallShape DEF SaveDiff, SaveCall
  <2>2. CASE Exists(call[c].user)
    BY <1>7, <2>1, <2>2, SaveDiffInv
  <2>3. CASE ~Exists(call[c].user)
    BY <1>0, <1>7, <2>3, QuietInv DEF SaveDiff
  <2> QED BY <2>2, <2>3
<1>8. ASSUME NEW c \in Calls, SaveUpdate(c) PROVE Inv'
  <2>1. call[c].user \in Users
    BY <1>0, <1>8, CallShape DEF SaveUpdate, SaveCall
  <2>2. CASE Exists(call[c].user)
    BY <1>8, <2>1, <2>2, SaveUpdateInv
  <2>3. CASE ~Exists(call[c].user)
    BY <1>0, <1>8, <2>3, QuietInv DEF SaveUpdate
  <2> QED BY <2>2, <2>3
<1>9. ASSUME NEW c \in Calls, NEW u \in Users, ReadRemoved(c, u) PROVE Inv'
  BY <1>9, ReadRemovedInv
<1>10. ASSUME NEW c \in Calls, RemoveUser(c) PROVE Inv'
  <2>1. call[c].user \in Users
    BY <1>0, <1>10, CallShape DEF RemoveUser, RemoveCall
  <2> QED BY <1>10, <2>1, RemoveInv
<1>11. CASE UNCHANGED vars
  <2>1. UNCHANGED <<user, token, blacklist, expired, call, assigned, loggedOut, revoked, overtaken>>
    BY <1>11 DEF vars
  <2>2. AbsentClean' /\ Apart' /\ SaverCurrent' /\ Versions'
    BY <2>1 DEF Inv, AbsentClean, Apart, SaverCurrent, Versions, Exists, Issued, Saves, Names
  <2>3. RevokedOld' /\ LoggedOutBlocked' /\ RoleFollowsAssignment'
    BY <2>1 DEF Inv, RevokedOld, LoggedOutBlocked, RoleFollowsAssignment, Exists, Issued
  <2> QED BY <2>2, <2>3 DEF Inv
<1>12. ASSUME NEW c \in Calls, UserCall(c) PROVE Inv'
  BY <1>3, <1>4, <1>5, <1>6, <1>7, <1>8, <1>9, <1>10, <1>12 DEF UserCall
<1>13. ASSUME NEW c \in Calls, Serve(c) PROVE Inv'
  BY <1>1, <1>2, <1>12, <1>13, LoginInv DEF Serve
<1> QED BY <1>11, <1>13, CreateInv, ClockInv DEF Next

\* The types and the invariant hold throughout.
LEMMA AlwaysInv == Spec => [](TypeOK /\ Inv)
  BY InitTypeOK, NextTypeOK, InitInv, NextInv, PTL DEF Spec

----------------------------------------------------------------------------
(* The properties                                                          *)

\* A user has the role the last setRole gave, for any number of concurrent
\* requests, unless two saves of the user overlapped.
THEOREM RolesFollowAssignments == Spec => []RoleFollowsAssignment
<1>1. Inv => RoleFollowsAssignment
  BY DEF Inv
<1> QED BY <1>1, AlwaysInv, PTL

\* Of the steps of all requests, only the two checks let a request past them.
LEMMA OnlyChecksPass ==
  ASSUME TypeOK, [Next]_vars, NEW c \in Calls, call[c].pc \in {"blocked?", "user?"},
         call'[c].pc \notin {call[c].pc, "done"}
  PROVE  CheckBlacklist(c) \/ CheckUser(c)
<1>0. call \in [Calls -> Call] /\ Done.pc = "done" /\ Idle.pc = "new"
  BY DEF TypeOK, Done, Idle
<1>1. ASSUME NEW d \in Calls, NEW state, Goto(d, state), d # c PROVE FALSE
  BY <1>0, <1>1, GotoMoves
<1>2. call' # call
  OBVIOUS
<1>3. /\ ~(\E u \in Users : CreateUser(u))
      /\ ~(\E p \in Processes : Prune(p) \/ \E t \in Tokens : Expire(p, t))
  BY <1>2 DEF CreateUser, Prune, Expire
<1>4. PICK d \in Calls : Serve(d)
  BY <1>2, <1>3 DEF Next, vars
<1>5. \E state : Goto(d, state)
  BY <1>4 DEF Serve, Guards, AuthCall, UserCall, Present, CheckBlacklist, CheckUser, LoginRead, LoginSign,
              Logout, Revoke, SetRole, UpdateUser, UpdatePassword, ReadRemoved, ReadUser, SaveDiff,
              SaveUpdate, RemoveUser, Abandon
<1>6. d = c
  BY <1>1, <1>5
<1>7. ~Abandon(c)
  BY <1>0, GotoMoves DEF Abandon
<1>8. ~AuthCall(c) /\ ~UserCall(c)
  BY <1>0 DEF AuthCall, UserCall, LoginRead, LoginSign, Logout, Revoke, SetRole, UpdateUser,
              UpdatePassword, ReadRemoved, SaveDiff, SaveUpdate, RemoveUser
<1> QED BY <1>0, <1>4, <1>6, <1>7, <1>8 DEF Serve, Guards, Present

\* A token whose version is its user's is not a revoked one.
LEMMA StepRevocation ==
  TypeOK /\ Inv /\ [Next]_vars =>
    \A c \in Calls : Passes(c, "user?") /\ call[c].token \in revoked =>
      token[call[c].token].user \in overtaken
<1> SUFFICES ASSUME TypeOK, Inv, [Next]_vars, NEW c \in Calls, Passes(c, "user?"), call[c].token \in revoked
             PROVE  token[call[c].token].user \in overtaken
  OBVIOUS
<1>0. call \in [Calls -> Call] /\ Done.pc = "done"
  BY DEF TypeOK, Done
<1>1. call[c].pc = "user?" /\ call'[c].pc # "done"
  BY DEF Passes
<1>2. CheckUser(c)
  BY <1>1, OnlyChecksPass DEF Passes, CheckBlacklist
<1>3. IsCurrent(c)
  BY <1>0, <1>1, <1>2, GotoMoves DEF CheckUser
<1>4. /\ token[call[c].token].version \in Nat /\ Exists(token[call[c].token].user)
      /\ user[token[call[c].token].user].version = token[call[c].token].version
  BY <1>3, VersionAssumption DEF IsCurrent, Exists, Row
<1> QED BY <1>4 DEF Inv, RevokedOld

\* No token issued before a revocation passes the version check after it.
THEOREM RevocationsAreFinal == Spec => RevocationIsFinal
  BY StepRevocation, AlwaysInv, PTL DEF Spec, RevocationIsFinal

\* A logged out token that passes the blacklist check has expired on a clock.
LEMMA StepLogout ==
  TypeOK /\ Inv /\ [Next]_vars =>
    \A c \in Calls : LET t == call[c].token IN
      Passes(c, "blocked?") /\ t \in loggedOut /\ Exists(token[t].user) =>
        \E p \in Processes : t \in expired[p]
<1> SUFFICES ASSUME TypeOK, Inv, [Next]_vars, NEW c \in Calls, Passes(c, "blocked?"),
                    call[c].token \in loggedOut, Exists(token[call[c].token].user)
             PROVE  \E p \in Processes : call[c].token \in expired[p]
  OBVIOUS
<1>0. call \in [Calls -> Call] /\ Done.pc = "done" /\ HostOf[c] \in Processes
  BY UsersAssumption DEF TypeOK, Done
<1>1. call[c].pc = "blocked?" /\ call'[c].pc # "done"
  BY DEF Passes
<1>2. CheckBlacklist(c)
  BY <1>1, OnlyChecksPass DEF Passes, CheckUser
<1>3. ~IsBlocked(c)
  BY <1>0, <1>1, <1>2, GotoMoves DEF CheckBlacklist
<1> QED BY <1>0, <1>3 DEF IsBlocked, Inv, LoggedOutBlocked

\* A logout ends the session: afterwards the token passes the blacklist check
\* only if it has expired on the clock of some process.
THEOREM LogoutsAreFinal == Spec => LogoutIsFinal
  BY StepLogout, AlwaysInv, PTL DEF Spec, LogoutIsFinal

----------------------------------------------------------------------------
(* The guards implement SessionAccess                                      *)

\* What a session has lost it does not get back: tokens stay issued and to
\* whom they were, users stay removed and overtaken, clocks go on.
Lasting ==
  /\ \A t \in Tokens : Issued(t) => token'[t] = token[t]
  /\ \A u \in Users : user[u] = Removed => user'[u] = Removed
  /\ \A p \in Processes : expired[p] \subseteq expired'[p]
  /\ overtaken \subseteq overtaken'

\* Removed is no outcome of a save or a revocation, which find a row.
LEMMA StepLasting == TypeOK /\ Inv /\ [Next]_vars => Lasting
<1> SUFFICES ASSUME TypeOK, Inv, [Next]_vars PROVE Lasting
  OBVIOUS
<1>1. CASE UNCHANGED vars
  BY <1>1 DEF vars, Lasting
<1>2. ASSUME NEW c \in Calls, Guards(c) \/ Abandon(c) PROVE Lasting
  BY <1>2 DEF Guards, Present, CheckBlacklist, CheckUser, Abandon, Lasting
<1>3. ASSUME NEW c \in Calls, AuthCall(c) PROVE Lasting
  <2>1. CASE \E u \in Users : LoginRead(c, u)
    BY <2>1 DEF LoginRead, Lasting
  <2>2. ASSUME NEW t \in Tokens, LoginSign(c, t) PROVE Lasting
    BY <2>2 DEF LoginSign, Lasting, TypeOK, Issued
  <2>3. CASE Logout(c)
    BY <2>3 DEF Logout, Lasting
  <2> QED BY <1>3, <2>1, <2>2, <2>3 DEF AuthCall
<1>4. ASSUME NEW c \in Calls, UserCall(c) PROVE Lasting
  <2>1. ASSUME NEW u \in Users, Revoke(c, u) PROVE Lasting
    BY <2>1, NoRow DEF Revoke, Lasting, TypeOK, Exists
  <2>2. ASSUME NEW u \in Users, SetRole(c, u) \/ UpdateUser(c, u) PROVE Lasting
    BY <2>2 DEF SetRole, UpdateUser, ReadUser, Lasting
  <2>3. ASSUME NEW u \in Users, UpdatePassword(c, u) \/ ReadRemoved(c, u) PROVE Lasting
    BY <2>3 DEF UpdatePassword, ReadRemoved, Lasting
  <2>4. CASE SaveDiff(c)
    BY <2>4 DEF SaveDiff, Lasting
  <2>5. CASE SaveUpdate(c)
    <3> DEFINE new == Saved(c)
    <3>1. /\ user' = user \/ (Exists(call[c].user) /\ user' = [user EXCEPT ![call[c].user] = new])
          /\ UNCHANGED <<token, expired, overtaken>>
      BY <2>5 DEF SaveUpdate
    <3> HIDE DEF new
    <3> QED BY <3>1, NoRow DEF Lasting, TypeOK, Exists
  <2>6. CASE RemoveUser(c)
    BY <2>6 DEF RemoveUser, Lasting, TypeOK
  <2> QED BY <1>4, <2>1, <2>2, <2>3, <2>4, <2>5, <2>6 DEF UserCall
<1>5. ASSUME NEW u \in Users, CreateUser(u) PROVE Lasting
  BY <1>5, NoRow DEF CreateUser, Lasting, TypeOK
<1>6. ASSUME NEW p \in Processes, Prune(p) \/ \E t \in Tokens : Expire(p, t) PROVE Lasting
  BY <1>6 DEF Prune, Expire, Lasting, TypeOK
<1> QED BY <1>1, <1>2, <1>3, <1>4, <1>5, <1>6 DEF Next, Serve

\* The sets of dead tokens only grow.
LEMMA LossesGrow ==
  ASSUME TypeOK, TypeOK', Lasting
  PROVE  /\ Gone \subseteq Gone' /\ Lapsed \subseteq Lapsed' /\ Disputed \subseteq Disputed'
         /\ Gone' \subseteq Tokens /\ Lapsed' \subseteq Tokens /\ Disputed' \subseteq Tokens
<1>1. \A t \in Tokens : Issued(t) => /\ Issued(t)' /\ token'[t].user = token[t].user
                                     /\ token[t].user \in Users
  BY DEF Lasting, Issued, TypeOK
<1>2. Gone \subseteq Gone' /\ Disputed \subseteq Disputed'
  BY <1>1 DEF Lasting, Gone, Disputed
<1>3. Lapsed \subseteq Lapsed' /\ Lapsed' \subseteq Tokens
  BY DEF Lasting, Lapsed, TypeOK
<1> QED BY <1>2, <1>3 DEF Gone, Disputed

\* A request's step moves what it stands for.
LEMMA RequestMoves ==
  ASSUME TypeOK, NEW c \in Calls, NEW state, Goto(c, state)
  PROVE  Request' = [Request EXCEPT ![c] = Standing(state)]
<1>1. call'[c] = state /\ \A d \in Calls \ {c} : call'[d] = call[d]
  BY GotoMoves DEF TypeOK
<1> HIDE DEF Standing
<1>2. Request' = [d \in Calls |-> Standing(call'[d])]
  BY DEF Request
<1> QED BY <1>1, <1>2 DEF Request

\* A step after which the request is away is no step of it, or it leaves.
LEMMA GoesAway ==
  ASSUME TypeOK, NEW c \in Calls, NEW state, Goto(c, state),
         state.pc \notin {"blocked?", "user?", "accepted"}
  PROVE  Request' = Request \/ Access!Leave(c)
<1>1. Request' = [Request EXCEPT ![c] = Access!Away]
  BY RequestMoves DEF Standing, Access!Away
<1> QED BY <1>1 DEF Access!Leave, Access!Move, Request

\* A step that logs nothing out, revokes nothing and lets no request further.
LEMMA StepElsewhere ==
  ASSUME TypeOK, TypeOK', Lasting, UNCHANGED <<loggedOut, revoked>>,
         Request' = Request \/ \E c \in Calls : Access!Leave(c)
  PROVE  Access!Next
<1>1. ASSUME NEW A, NEW B, A \subseteq B, B \subseteq Tokens
      PROVE  \E S \in SUBSET Tokens : B = A \cup S
  <2>1. B \in SUBSET Tokens /\ B = A \cup B
    BY <1>1
  <2> QED BY <2>1
<1>2. /\ \E S \in SUBSET Tokens : Gone' = Gone \cup S
      /\ \E S \in SUBSET Tokens : Lapsed' = Lapsed \cup S
      /\ \E S \in SUBSET Tokens : Disputed' = Disputed \cup S
  BY <1>1, LossesGrow
<1> QED BY <1>2 DEF Access!Next, Access!Elsewhere, Access!Dispute

\* Where the rows of users and tokens stay, so do the dead tokens.
LEMMA LossesStay ==
  ASSUME UNCHANGED <<user, token, expired, overtaken>>
  PROVE  UNCHANGED <<Gone, Lapsed, Disputed>>
  BY DEF Gone, Lapsed, Disputed, Issued

\* A guard turns a request away or lets it further as SessionAccess does.
LEMMA GuardsAccess ==
  ASSUME TypeOK, TypeOK', Inv, Lasting, NEW c \in Calls, Guards(c)
  PROVE  Access!Next
<1>0. call \in [Calls -> Call] /\ Done.pc = "done" /\ Idle.pc = "new" /\ HostOf[c] \in Processes
  BY UsersAssumption DEF TypeOK, Done, Idle
<1>1. UNCHANGED <<user, token, blacklist, expired, assigned, loggedOut, revoked, overtaken>>
  BY DEF Guards, Present, CheckBlacklist, CheckUser
<1>2. UNCHANGED <<Gone, Lapsed, Disputed>>
  BY <1>1, LossesStay
<1>3. ASSUME NEW t \in Tokens, NEW route \in Routes, Present(c, t, route) PROVE Access!Next
  <2>1. Request[c] = Access!Away
    BY <1>0, <1>3 DEF Present, Request, Standing, Access!Away
  <2>2. Request' = [Request EXCEPT ![c] = Access!At("door", t)]
    BY <1>3, RequestMoves DEF Present, Standing, Place, Access!At
  <2>3. Access!Knock(c, t)
    BY <1>1, <1>2, <2>1, <2>2 DEF Access!Knock, Access!Move
  <2> QED BY <2>3 DEF Access!Next
<1>4. ASSUME Goto(c, Done) PROVE Access!Next
  BY <1>0, <1>1, <1>4, GoesAway, StepElsewhere
<1>5. ASSUME CheckBlacklist(c), ~IsBlocked(c) PROVE Access!Next
  <2> DEFINE t == call[c].token
  <2>1. call[c].pc = "blocked?" /\ t \in Tokens /\ Issued(t) /\ token[t].user \in Users
    BY <1>0, <1>5, CallShape DEF CheckBlacklist, GuardCall, TypeOK, Issued
  <2>2. Request[c].at = "door" /\ Request[c].token = t
    BY <2>1 DEF Request, Standing, Place
  <2>3. Request' = [Request EXCEPT ![c] = Access!At("hall", t)]
    BY <1>5, RequestMoves DEF CheckBlacklist, On, Standing, Place, Access!At
  <2>4. t \in loggedOut => t \in Lapsed \cup Gone
    <3>1. ~Exists(token[t].user) => t \in Gone
      BY <2>1 DEF Inv, AbsentClean, TypeOK, Exists, Gone
    <3> QED BY <1>0, <1>5, <3>1 DEF Inv, LoggedOutBlocked, IsBlocked, Lapsed
  <2> HIDE DEF t
  <2>5. Access!Pass(c)
    BY <1>1, <1>2, <2>2, <2>3, <2>4 DEF Access!Pass, Access!Move
  <2> QED BY <2>5 DEF Access!Next
<1>6. ASSUME CheckUser(c), IsCurrent(c), MayRun(c) PROVE Access!Next
  <2> DEFINE t == call[c].token
  <2>1. call[c].pc = "user?" /\ t \in Tokens /\ Issued(t)
    BY <1>0, <1>6, CallShape DEF CheckUser, GuardCall, TypeOK, Issued
  <2>2. Request[c].at = "hall" /\ Request[c].token = t
    BY <2>1 DEF Request, Standing, Place
  <2>3. Request' = [Request EXCEPT ![c] = Access!At("inside", t)]
    BY <1>6, RequestMoves DEF CheckUser, On, Standing, Place, Access!At
  <2>4. Exists(token[t].user) /\ user[token[t].user].version = token[t].version
        /\ token[t].version \in Nat
    BY <1>6, VersionAssumption DEF IsCurrent, Exists, Row
  <2>5. t \notin Gone /\ (t \in revoked => t \in Disputed)
    BY <2>1, <2>4, NoRow DEF Inv, RevokedOld, Gone, Disputed, Exists
  <2> HIDE DEF t
  <2>6. Access!Enter(c)
    BY <1>1, <1>2, <2>2, <2>3, <2>5 DEF Access!Enter, Access!Move
  <2> QED BY <2>6 DEF Access!Next
<1> QED BY <1>3, <1>4, <1>5, <1>6 DEF Guards, CheckBlacklist, CheckUser

\* A request that is inside stands there in SessionAccess.
LEMMA InsideStands ==
  ASSUME NEW c \in Calls, call[c].pc = "accepted"
  PROVE  Request[c].at = "inside" /\ Request[c].token = call[c].token /\ Request[c] # Access!Away
  BY DEF Request, Standing, Place, Access!Away

\* A logout that inserts its row is one of SessionAccess.
LEMMA LogoutAccess ==
  ASSUME TypeOK, TypeOK', Lasting, NEW c \in Calls, Logout(c)
  PROVE  Access!Next
<1>1. Done.pc = "done"
  BY DEF Done
<1>2. UNCHANGED <<Gone, Lapsed, Disputed, revoked>>
  BY LossesStay DEF Logout
<1>3. CASE loggedOut' = loggedOut \cup {call[c].token}
  <2>1. Request' = [Request EXCEPT ![c] = Access!Away]
    BY <1>1, RequestMoves DEF Logout, Standing, Access!Away
  <2>2. Access!LogOut(c)
    BY <1>2, <1>3, <2>1, InsideStands DEF Logout, Access!LogOut, Access!Leave, Access!Move
  <2> QED BY <2>2 DEF Access!Next
<1>4. CASE loggedOut' = loggedOut
  BY <1>1, <1>2, <1>4, GoesAway, StepElsewhere DEF Logout
<1> QED BY <1>3, <1>4 DEF Logout

\* A revocation that finds its user is one of SessionAccess.
LEMMA RevokeAccess ==
  ASSUME TypeOK, TypeOK', Lasting, NEW c \in Calls, NEW u \in Users, Revoke(c, u)
  PROVE  Access!Next
<1>1. Done.pc = "done"
  BY DEF Done
<1>2. CASE Exists(u)
  <2>1. /\ user' = [user EXCEPT ![u] = [role |-> @.role, version |-> @.version + 1]]
        /\ revoked' = revoked \cup TokensOf(u)
        /\ UNCHANGED <<token, expired, loggedOut>>
    BY <1>2 DEF Revoke
  <2>2. Gone' = Gone
    <3>1. user[u] # Removed
      BY <1>2, NoRow DEF Exists
    <3>2. user'[u] # Removed
      BY <2>1 DEF TypeOK, Removed
    <3>3. \A v \in Users : user'[v] = Removed <=> user[v] = Removed
      BY <2>1, <3>1, <3>2 DEF TypeOK
    <3> QED BY <2>1, <3>3 DEF Gone, Issued, TypeOK
  <2>3. Lapsed' = Lapsed
    BY <2>1 DEF Lapsed
  <2>4. \E S \in SUBSET Tokens : Disputed' = Disputed \cup S
    <3>1. Disputed' \in SUBSET Tokens /\ Disputed' = Disputed \cup Disputed'
      BY LossesGrow
    <3> QED BY <3>1
  <2>5. \E S \in SUBSET Tokens : revoked' = revoked \cup S
    BY <2>1 DEF TokensOf
  <2>6. Request' = [Request EXCEPT ![c] = Access!Away]
    BY <1>1, RequestMoves DEF Revoke, Standing, Access!Away
  <2>7. Access!CutOff(c)
    BY <2>1, <2>2, <2>3, <2>4, <2>5, <2>6, InsideStands
    DEF Revoke, Access!CutOff, Access!Dispute, Access!Leave, Access!Move
  <2> QED BY <2>7 DEF Access!Next
<1>3. CASE ~Exists(u)
  BY <1>1, <1>3, GoesAway, StepElsewhere DEF Revoke
<1> QED BY <1>2, <1>3

\* Every step maps to a step or a stutter.
LEMMA StepAccess ==
  TypeOK /\ TypeOK' /\ Inv /\ Lasting /\ [Next]_vars =>
    [Access!Next]_(<<loggedOut, revoked, Gone, Lapsed, Disputed, Request>>)
<1> SUFFICES ASSUME TypeOK, TypeOK', Inv, Lasting, [Next]_vars
             PROVE  Access!Next \/ UNCHANGED <<loggedOut, revoked, Gone, Lapsed, Disputed, Request>>
  OBVIOUS
<1>0. Done.pc = "done"
  BY DEF Done
<1>1. CASE UNCHANGED vars
  BY <1>1, LossesStay DEF vars, Request
<1>2. ASSUME NEW c \in Calls, UNCHANGED <<loggedOut, revoked>>, NEW state, Goto(c, state),
             state.pc \notin {"blocked?", "user?", "accepted"}
      PROVE  Access!Next
  BY <1>2, GoesAway, StepElsewhere
<1>3. ASSUME NEW c \in Calls, AuthCall(c) PROVE Access!Next
  <2>1. CASE \E u \in Users : LoginRead(c, u)
    BY <1>2, <2>1 DEF LoginRead
  <2>2. CASE \E t \in Tokens : LoginSign(c, t)
    BY <1>0, <1>2, <2>2 DEF LoginSign
  <2> QED BY <1>3, <2>1, <2>2, LogoutAccess DEF AuthCall
<1>4. ASSUME NEW c \in Calls, UserCall(c) PROVE Access!Next
  <2>1. ASSUME NEW u \in Users, SetRole(c, u) \/ UpdateUser(c, u) PROVE Access!Next
    BY <1>2, <2>1 DEF SetRole, UpdateUser, ReadUser
  <2>2. ASSUME NEW u \in Users, UpdatePassword(c, u) \/ ReadRemoved(c, u) PROVE Access!Next
    BY <1>0, <1>2, <2>2 DEF UpdatePassword, ReadRemoved
  <2>3. CASE SaveDiff(c)
    BY <1>0, <1>2, <2>3 DEF SaveDiff
  <2>4. CASE SaveUpdate(c) \/ RemoveUser(c)
    BY <1>0, <1>2, <2>4 DEF SaveUpdate, RemoveUser
  <2> QED BY <1>4, <2>1, <2>2, <2>3, <2>4, RevokeAccess DEF UserCall
<1>5. ASSUME NEW c \in Calls, Abandon(c) PROVE Access!Next
  BY <1>0, <1>2, <1>5 DEF Abandon
<1>6. ASSUME NEW u \in Users, CreateUser(u) PROVE Access!Next
  BY <1>6, StepElsewhere DEF CreateUser, Request
<1>7. ASSUME NEW p \in Processes, Prune(p) \/ \E t \in Tokens : Expire(p, t) PROVE Access!Next
  BY <1>7, StepElsewhere DEF Prune, Expire, Request
<1> QED BY <1>1, <1>3, <1>4, <1>5, <1>6, <1>7, GuardsAccess DEF Next, Serve

\* Initially nobody has come in and no session is lost.
LEMMA InitAccess == Init => Access!Init
<1> SUFFICES ASSUME Init PROVE Access!Init
  OBVIOUS
<1>1. Request = [c \in Calls |-> Access!Away]
  BY DEF Init, Request, Standing, Idle, Access!Away
<1>2. \A t \in Tokens : Issued(t) => token[t].user \in Admins
  BY UsersAssumption DEF Init, Issued
<1>3. \A u \in Admins : u \in Users /\ user[u] # Removed
  BY UsersAssumption DEF Init, Removed
<1> QED BY <1>1, <1>2, <1>3 DEF Init, Gone, Lapsed, Disputed, Access!Init

\* The guards in front of every route let a request in only with a token that
\* was live while the request was there, and only requests that came in log out
\* and revoke, for any number of processes, users, tokens and requests.
THEOREM RefinesAccess == Spec => ImplementsAccess
<1>1. TypeOK /\ Inv /\ TypeOK' /\ [Next]_vars =>
        [Access!Next]_(<<loggedOut, revoked, Gone, Lapsed, Disputed, Request>>)
  BY StepLasting, StepAccess
<1> QED BY <1>1, InitAccess, AlwaysInv, PTL DEF Spec, ImplementsAccess, Access!Spec, Access!accessVars
=============================================================================
