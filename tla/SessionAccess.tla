--------------------------- MODULE SessionAccess ---------------------------
(***************************************************************************)
(* What JwtAuthGuard promises about sessions: a request comes in with a    *)
(* token that was not logged out at a moment of the request, and whose     *)
(* sessions were not revoked, nor its user removed, at the moment it comes *)
(* in; and only requests that came in log out and revoke.  Blacklist rows  *)
(* and their pruning, the clocks of the processes, token versions and      *)
(* saves of whole user rows cannot be seen from outside, except through    *)
(* two holes, `lapsed' and `disputed'.                                     *)
(***************************************************************************)
CONSTANTS Calls, Tokens

VARIABLES
  out,       \* tokens that were logged out
  cut,       \* tokens whose sessions were revoked
  gone,      \* tokens whose user was removed
  lapsed,    \* tokens that expired on the clock of some process
  disputed,  \* tokens of users whose version a save may have written back
  request    \* how far a request with a token has come

accessVars == <<out, cut, gone, lapsed, disputed, request>>

Away      == [at |-> "away"]
At(at, t) == [at |-> at, token |-> t]
Move(c, state) == request' = [request EXCEPT ![c] = state]

Init == /\ out = {} /\ cut = {} /\ gone = {} /\ lapsed = {} /\ disputed = {}
        /\ request = [c \in Calls |-> Away]

Knock(c, t) == /\ request[c] = Away
               /\ Move(c, At("door", t))
               /\ UNCHANGED <<out, cut, gone, lapsed, disputed>>

\* At this moment the token is not logged out, unless some clock took it for
\* expired or its user is removed.
Pass(c) == /\ request[c].at = "door"
           /\ request[c].token \in out => request[c].token \in lapsed \cup gone
           /\ Move(c, At("hall", request[c].token))
           /\ UNCHANGED <<out, cut, gone, lapsed, disputed>>

\* At this moment the user is there and the session is not revoked, unless a
\* save may have undone that.
Enter(c) == /\ request[c].at = "hall"
            /\ request[c].token \notin gone
            /\ request[c].token \in cut => request[c].token \in disputed
            /\ Move(c, At("inside", request[c].token))
            /\ UNCHANGED <<out, cut, gone, lapsed, disputed>>

Leave(c) == request[c] # Away /\ Move(c, Away)

LogOut(c) == /\ request[c].at = "inside"
             /\ out' = out \cup {request[c].token}
             /\ Leave(c)
             /\ UNCHANGED <<cut, gone, lapsed, disputed>>

Dispute == \E S \in SUBSET Tokens : disputed' = disputed \cup S

CutOff(c) == /\ request[c].at = "inside"
             /\ \E S \in SUBSET Tokens : cut' = cut \cup S
             /\ Dispute
             /\ Leave(c)
             /\ UNCHANGED <<out, gone, lapsed>>

\* Users are removed and saved, time passes; a request may be turned away.
Elsewhere == /\ \E S \in SUBSET Tokens : gone' = gone \cup S
             /\ \E S \in SUBSET Tokens : lapsed' = lapsed \cup S
             /\ Dispute
             /\ UNCHANGED request \/ \E c \in Calls : Leave(c)
             /\ UNCHANGED <<out, cut>>

Next == \/ \E c \in Calls : \/ \E t \in Tokens : Knock(c, t)
                            \/ Pass(c) \/ Enter(c) \/ LogOut(c) \/ CutOff(c)
        \/ Elsewhere

Spec == Init /\ [][Next]_accessVars
=============================================================================
