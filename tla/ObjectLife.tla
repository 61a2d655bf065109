------------------------------ MODULE ObjectLife ------------------------------
(***************************************************************************)
(* What the oplock entries promise to the objects they protect, without    *)
(* entries and free list: threads enter an object that is not being        *)
(* disposed of, one of them at a time runs inside, the others have         *)
(* stepped out for a while; an object is deleted once it has been disposed *)
(* of and nobody is left in it.                                            *)
(***************************************************************************)
CONSTANTS Object, Thread

VARIABLES
  life,    \* "none", "alive", "disposed" or "deleted", for every object
  users,   \* the threads that have entered an object and not left it
  inside   \* those of them that run inside: at most one

vars == <<life, users, inside>>

Init ==
  /\ life = [o \in Object |-> "none"]
  /\ users = [o \in Object |-> {}] /\ inside = [o \in Object |-> {}]

Create(o) ==
  /\ life[o] = "none" /\ life' = [life EXCEPT ![o] = "alive"]
  /\ UNCHANGED <<users, inside>>

Enter(t, o) ==
  /\ life[o] = "alive" /\ t \notin users[o] /\ inside[o] = {}
  /\ users' = [users EXCEPT ![o] = @ \cup {t}]
  /\ inside' = [inside EXCEPT ![o] = {t}]
  /\ UNCHANGED life

StepOut(t, o) ==
  /\ inside[o] = {t} /\ inside' = [inside EXCEPT ![o] = {}]
  /\ UNCHANGED <<life, users>>

StepIn(t, o) ==
  /\ t \in users[o] /\ inside[o] = {}
  /\ inside' = [inside EXCEPT ![o] = {t}]
  /\ UNCHANGED <<life, users>>

\* The thread that leaves may be the one that disposes of the object; the last
\* one out of an object disposed of may delete it.
Leave(t, o) ==
  /\ inside[o] = {t}
  /\ users' = [users EXCEPT ![o] = @ \ {t}]
  /\ inside' = [inside EXCEPT ![o] = {}]
  /\ \/ UNCHANGED life
     \/ /\ life[o] = "alive"
        /\ life' = [life EXCEPT ![o] = IF users[o] = {t} THEN "deleted" ELSE "disposed"]

Delete(o) ==
  /\ life[o] = "disposed" /\ users[o] = {}
  /\ life' = [life EXCEPT ![o] = "deleted"]
  /\ UNCHANGED <<users, inside>>

\* An object that is disposed of may be deleted just when its entry is given to
\* a new one.
Next ==
  \/ \E o \in Object : Create(o) \/ Delete(o)
  \/ \E o, q \in Object :
       /\ life[q] = "none" /\ life[o] = "disposed" /\ users[o] = {}
       /\ life' = [life EXCEPT ![o] = "deleted", ![q] = "alive"]
       /\ UNCHANGED <<users, inside>>
  \/ \E o \in Object, t \in Thread :
       Enter(t, o) \/ StepOut(t, o) \/ StepIn(t, o) \/ Leave(t, o)

Spec == Init /\ [][Next]_vars
=============================================================================
