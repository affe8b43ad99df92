---------------------------- MODULE OrderEffects ----------------------------
(***************************************************************************)
(* What the orders.process pipeline promises about a message once it is    *)
(* published: its effect on the database happens at most once, it is never *)
(* taken back, and a message that has no effect ends up in the dead-letter *)
(* queue.  The two outcomes do not exclude each other: a copy may be       *)
(* dead-lettered although another copy, or a run whose commit was reported *)
(* as failed, had its effect.                                              *)
(***************************************************************************)
EXTENDS Naturals

CONSTANT Messages

VARIABLES
  sent,     \* messages published so far
  done,     \* messages that had their effect
  effects,  \* how many times a message had its effect
  dead      \* messages with a copy in the dead-letter queue

effectVars == <<sent, done, effects, dead>>

Init == /\ sent = {}
        /\ done = {}
        /\ effects = [m \in Messages |-> 0]
        /\ dead = {}

Send(m) == /\ m \in Messages \ sent
           /\ sent' = sent \cup {m}
           /\ UNCHANGED <<done, effects, dead>>

Apply(m) == /\ m \in sent \ done
            /\ done' = done \cup {m}
            /\ effects' = [effects EXCEPT ![m] = @ + 1]
            /\ UNCHANGED <<sent, dead>>

Bury(m) == /\ m \in sent \ dead
           /\ dead' = dead \cup {m}
           /\ UNCHANGED <<sent, done, effects>>

Next == \E m \in Messages : Send(m) \/ Apply(m) \/ Bury(m)

\* A message without an outcome gets one.
Settle(m) == m \notin done \cup dead /\ (Apply(m) \/ Bury(m))

Fairness == \A m \in Messages : WF_effectVars(Settle(m))

SafeSpec == Init /\ [][Next]_effectVars
Spec     == SafeSpec /\ Fairness
=============================================================================
