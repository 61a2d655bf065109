------------------------------ MODULE ChangeFeed ------------------------------
(***************************************************************************)
(* What the pool of change threads promises a proxy that has registered,   *)
(* without threads, entries and collection: from its registration on it is *)
(* sent every change, once, in order, one call at a time; after the end of *)
(* its registration at most the one change that was on its way.  Once the  *)
(* pool closes nothing need be sent any more, and the pool ends.           *)
(***************************************************************************)
EXTENDS Integers

CONSTANT Node  \* registrations: each is used once

VARIABLES
  last,    \* number of changes
  next,    \* the change to be sent to a registration next, or 0
  status,  \* of each registration: "none", "on", "leaving" or "off"
  calling, \* registrations of which a call is under way
  pool     \* "open", "closed" or "gone"

vars == <<last, next, status, calling, pool>>

Init ==
  /\ last = 0 /\ next = [n \in Node |-> 0]
  /\ status = [n \in Node |-> "none"] /\ calling = {} /\ pool = "open"

Change == last' = last + 1 /\ UNCHANGED <<next, status, calling, pool>>

Register(n) ==
  /\ status[n] = "none" /\ pool = "open"
  /\ status' = [status EXCEPT ![n] = "on"]
  /\ next' = [next EXCEPT ![n] = last + 1]
  /\ UNCHANGED <<last, calling, pool>>

\* A registration that leaves may get what was on its way.
Send(n) ==
  /\ status[n] \in {"on", "leaving"} /\ n \notin calling /\ next[n] \in 1..last
  /\ calling' = calling \cup {n}
  /\ IF status[n] = "on" THEN next' = [next EXCEPT ![n] = @ + 1] /\ UNCHANGED status
     ELSE next' = [next EXCEPT ![n] = 0] /\ status' = [status EXCEPT ![n] = "off"]
  /\ UNCHANGED <<last, pool>>

\* The call was answered, or it failed, which ends the registration.
Return(n) ==
  /\ n \in calling /\ calling' = calling \ {n}
  /\ \/ UNCHANGED <<next, status>>
     \/ next' = [next EXCEPT ![n] = 0] /\ status' = [status EXCEPT ![n] = "off"]
  /\ UNCHANGED <<last, pool>>

End(n, s) ==
  /\ status' = [status EXCEPT ![n] = s]
  /\ next' = [next EXCEPT ![n] = IF s = "off" THEN 0 ELSE @]

\* A registration ends, on the client's wish or because it cannot be sent to.
Leave(n) ==
  /\ status[n] \in {"on", "leaving"}
  /\ End(n, "off") \/ (status[n] = "on" /\ End(n, "leaving"))
  /\ UNCHANGED <<last, calling, pool>>

\* One registration of a proxy takes the place of another.
Renew(n, m) ==
  /\ status[n] = "on" /\ status[m] = "none" /\ pool = "open"
  /\ \E s \in {"leaving", "off"} :
       /\ status' = [status EXCEPT ![n] = s, ![m] = "on"]
       /\ next' = [next EXCEPT ![n] = IF s = "off" THEN 0 ELSE @, ![m] = last + 1]
  /\ UNCHANGED <<last, calling, pool>>

Close == pool = "open" /\ pool' = "closed" /\ UNCHANGED <<last, next, status, calling>>

Gone ==
  /\ pool = "closed" /\ calling = {} /\ pool' = "gone"
  /\ UNCHANGED <<last, next, status, calling>>

Next ==
  \/ Change \/ Close \/ Gone
  \/ \E n \in Node : Register(n) \/ Send(n) \/ Return(n) \/ Leave(n)
  \/ \E n, m \in Node : Renew(n, m)

Spec == Init /\ [][Next]_vars

\* Every change is sent to whoever stays registered, and the pool ends.
Fairness ==
  /\ \A n \in Node : WF_vars(pool = "open" /\ status[n] = "on" /\ Send(n))
  /\ \A n \in Node : WF_vars(Return(n))
  /\ WF_vars(Gone)

FairSpec == Spec /\ Fairness
=============================================================================
