---------------------------- MODULE AdminLifecycle ----------------------------
(***************************************************************************)
(* The life of a consumer admin and its proxies: clients create proxies,   *)
(* disconnect them and destroy the admin, the object collector visits the  *)
(* admin and disposes of what is old, and the channel is destroyed.        *)
(*                                                                         *)
(* Locks.  Only the thread that destroys the admin keeps locks from one    *)
(* step to the next: those of channel, type map and admin, as long as adm  *)
(* is "iterate".  Whoever needs one of them waits for that; every other    *)
(* section with a lock is one action.  A thread in a proxy keeps its inuse *)
(* counter up while it has released the lock: in a call of the consumer,   *)
(* in the disposal, and while it waits for the lock of the channel to      *)
(* change the filters or the event types of the proxy.                     *)
(***************************************************************************)
EXTENDS Integers, FiniteSets

CONSTANTS
  Proxy,        \* proxies that may be created; each has a client thread
  Batch,        \* those of class SequenceProxyPushSupplier_i
  Unconnected,  \* those no consumer connects to: the operator may clean them up
  MaxConsumers  \* the channel's limit, or 0 for none

ASSUME LifecycleAssumption ==
  /\ IsFiniteSet(Proxy) /\ Batch \subseteq Proxy /\ Unconnected \subseteq Proxy
  /\ MaxConsumers \in Nat
  /\ {"adm", "gc", "chn", "push", "change", "none"} \cap Proxy = {}

\* Threads: the clients of the proxies, the collector, the client that destroys
\* the admin, and the one that destroys the channel.
Thread == Proxy \cup {"gc", "adm", "chn"}

VARIABLES
  pxstate, gone,  \* _pxstate of the proxies; those that have been deleted
  pushing,        \* proxies with a thread in a call of the consumer
  changing,       \* proxies whose client is about to change their filters
  registered,     \* the admin's tables of proxies
  num, consumers, \* _num_proxies, and _num_consumers of the channel
  at, on,         \* where each thread is in the disposal of which proxy
  adm, destroyer, \* how far the admin's destruction has come, and by whom
  counted, twice, \* history: proxies counted out by it, and counted out again
  gc, found,      \* whether the collector visits the admin; what it found
  chan, inTable   \* the channel's destruction; is the admin in its table?

proxies  == <<pxstate, gone, pushing, changing>>
counts   == <<registered, num, consumers>>
disposal == <<at, on>>
admin    == <<adm, destroyer, counted>>
collect  == <<gc, found>>
channel  == <<chan, inTable>>
vars == <<proxies, counts, disposal, admin, twice, collect, channel>>

Init ==
  /\ pxstate = [p \in Proxy |-> "none"] /\ gone = {} /\ pushing = {} /\ changing = {}
  /\ registered = {} /\ num = 0 /\ consumers = 0
  /\ at = [t \in Thread |-> "idle"] /\ on = [t \in Thread |-> "none"]
  /\ adm = "open" /\ destroyer = "none" /\ counted = {} /\ twice = {}
  /\ gc = FALSE /\ found = {} /\ chan = "open" /\ inTable = TRUE

-----------------------------------------------------------------------------
(* Helpers                                                                 *)

\* Nobody holds the locks of channel, type map and admin for long.
Unlocked == adm # "iterate"

\* Who keeps the inuse counter of the proxy up.
Users(p) ==
  {t \in Thread : on[t] = p} \cup {u \in {"push"} : p \in pushing}
                            \cup {u \in {"change"} : p \in changing}

\* incr_consumers: is there room for one more?
Room == MaxConsumers = 0 \/ consumers < MaxConsumers

\* Wrong: creation goes on until the tables are emptied.
Open_long == adm # "done"

\* Not _disposed: the admin can be used and destroyed.
Open == adm = "open"

\* Wrong: the channel is not told.
CountOut_local == num' = num - 1 /\ UNCHANGED consumers

\* _removed_push_proxy and _removed_pull_proxy; decr_consumers does nothing
\* once the channel shuts down.
CountOut ==
  /\ num' = num - 1
  /\ consumers' = IF chan = "open" THEN consumers - 1 ELSE consumers

-----------------------------------------------------------------------------
(* Proxies: their clients and the threads that push                        *)

\* obtain_notification_push_supplier and its variants
Create(p) ==
  /\ pxstate[p] = "none" /\ Open
  /\ chan = "open" /\ Room
  /\ pxstate' = [pxstate EXCEPT ![p] = "live"]
  /\ registered' = registered \cup {p}
  /\ num' = num + 1 /\ consumers' = consumers + 1
  /\ UNCHANGED <<gone, pushing, changing, disposal, admin, twice, collect, channel>>

PushBegins(p) ==
  /\ pxstate[p] = "live" /\ p \notin pushing \cup Unconnected
  /\ pushing' = pushing \cup {p}
  /\ UNCHANGED <<pxstate, gone, changing>>
  /\ UNCHANGED <<counts, disposal, admin, twice, collect, channel>>

PushEnds(p) ==
  /\ p \in pushing /\ pushing' = pushing \ {p}
  /\ UNCHANGED <<pxstate, gone, changing>>
  /\ UNCHANGED <<counts, disposal, admin, twice, collect, channel>>

\* add_filter, remove_all_filters and subscription_change of the proxy: the thread
\* bumps it, releases its lock and asks for those of channel, type map and proxy.
ChangeBegins(p) ==
  /\ pxstate[p] = "live" /\ p \notin changing
  /\ changing' = changing \cup {p}
  /\ UNCHANGED <<pxstate, gone, pushing>>
  /\ UNCHANGED <<counts, disposal, admin, twice, collect, channel>>

\* It has got them; whether it changes anything or throws, it lets go of the proxy.
ChangeEnds(p) ==
  /\ p \in changing /\ Unlocked /\ changing' = changing \ {p}
  /\ UNCHANGED <<pxstate, gone, pushing>>
  /\ UNCHANGED <<counts, disposal, admin, twice, collect, channel>>

\* Does _disconnect_client_and_dispose return at once?  The sequence push
\* suppliers have that test commented out.
Guarded(p) == pxstate[p] = "Disconnected" /\ p \notin Batch

\* _disconnect_client_and_dispose up to the wait for the other users
Enter(t, p) ==
  /\ pxstate' = [pxstate EXCEPT ![p] = "Disconnected"]
  /\ at' = [at EXCEPT ![t] = "inuse"] /\ on' = [on EXCEPT ![t] = p]
  /\ UNCHANGED <<gone, pushing, changing>>

\* disconnect_push_supplier and its variants.  That of the sequence push
\* suppliers leaves the rest to the collector.
Disconnect(p) ==
  /\ pxstate[p] = "live"
  /\ IF p \in Batch
     THEN /\ pxstate' = [pxstate EXCEPT ![p] = "Disconnected"]
          /\ UNCHANGED <<gone, pushing, changing, disposal>>
     ELSE Enter(p, p)
  /\ UNCHANGED <<counts, admin, twice, collect, channel>>

\* safe_cleanup
SafeCleanup(p) ==
  /\ p \in Unconnected /\ pxstate[p] = "live" /\ Enter(p, p)
  /\ UNCHANGED <<counts, admin, twice, collect, channel>>

\* Wrong: the users are not waited for.
AloneIn_notPush(t, p) == Users(p) \ {"push"} = {t}

\* inuse has dropped to one.
AloneIn(t, p) == Users(p) = {t}

\* After that the thread turns to the admin, unless the admin sent it: then the
\* locks for the update of the type map are held already, and the rest is done
\* at once.
InuseOne(t) ==
  LET p == on[t] IN
  /\ at[t] = "inuse" /\ AloneIn(t, p)
  /\ IF t = destroyer /\ adm = "iterate"
     THEN /\ at' = [at EXCEPT ![t] = "idle"] /\ on' = [on EXCEPT ![t] = "none"]
          /\ gone' = gone \cup {p}
     ELSE at' = [at EXCEPT ![t] = "remove"] /\ UNCHANGED <<on, gone>>
  /\ UNCHANGED <<pxstate, pushing, changing, counts, admin, twice, collect, channel>>

\* remove_proxy of the admin: nothing, if the admin does not know the proxy
\* any more, or if it has been disposed of itself.
RemoveProxy(t) ==
  LET p == on[t] IN
  /\ at[t] = "remove" /\ Unlocked
  /\ at' = [at EXCEPT ![t] = "update"]
  /\ IF p \in registered
     THEN /\ registered' = registered \ {p} /\ CountOut
          /\ twice' = IF p \in counted THEN twice \cup {p} ELSE twice
     ELSE UNCHANGED <<counts, twice>>
  /\ UNCHANGED <<proxies, on, admin, collect, channel>>

\* Channel, type map and proxy are locked in this order for the update of the
\* type map, unless the channel shuts down; then the proxy is disposed of.
UpdateAndDispose(t) ==
  /\ at[t] = "update" /\ Unlocked
  /\ at' = [at EXCEPT ![t] = "idle"] /\ on' = [on EXCEPT ![t] = "none"]
  /\ gone' = gone \cup {on[t]}
  /\ UNCHANGED <<pxstate, pushing, changing, counts, admin, twice, collect, channel>>

Disposes(t) == InuseOne(t) \/ RemoveProxy(t) \/ UpdateAndDispose(t)

-----------------------------------------------------------------------------
(* The destruction of the admin                                            *)

\* _disposed = 1
Dispose(t, how) == destroyer' = t /\ adm' = how

\* destroy: only the first call goes on.
Destroy ==
  /\ adm = "open" /\ Dispose("adm", "unregister")
  /\ UNCHANGED <<proxies, counts, disposal, counted, twice, collect, channel>>

\* The channel forgets the admin, unless it shuts down itself.
Unregister ==
  /\ adm = "unregister" /\ adm' = "inuse"
  /\ inTable' = (inTable /\ chan # "open")
  /\ UNCHANGED <<proxies, counts, disposal, destroyer, counted, twice, collect, chan>>

\* Wrong: the destruction overtakes the collector.
AdminAlone_atOnce == TRUE

\* The collector's visit has bumped the admin.
AdminAlone == gc => destroyer = "gc"

\* Alone, the thread locks channel, type map and admin; in a channel that shuts
\* down it skips the proxies.
AdminInuseOne ==
  /\ adm = "inuse" /\ AdminAlone
  /\ adm' = IF chan = "open" THEN "iterate" ELSE "clear"
  /\ UNCHANGED <<proxies, counts, disposal, destroyer, counted, twice, collect, channel>>

\* Every proxy is counted out, then told to dispose of itself.
NextProxy ==
  /\ adm = "iterate" /\ at[destroyer] = "idle"
  /\ \E p \in registered \ counted :
       /\ counted' = counted \cup {p} /\ CountOut
       /\ IF Guarded(p) THEN UNCHANGED <<proxies, disposal>> ELSE Enter(destroyer, p)
  /\ UNCHANGED <<registered, adm, destroyer, twice, collect, channel>>

\* The locks are released again.
AllVisited ==
  /\ adm = "iterate" /\ at[destroyer] = "idle" /\ registered \subseteq counted
  /\ adm' = "clear"
  /\ UNCHANGED <<proxies, counts, disposal, destroyer, counted, twice, collect, channel>>

\* The admin's lock has been taken again: the tables are emptied and the
\* admin is disposed of.
Clear ==
  /\ adm = "clear" /\ adm' = "done" /\ registered' = {}
  /\ UNCHANGED <<proxies, num, consumers, disposal, destroyer, counted, twice>>
  /\ UNCHANGED <<collect, channel>>

AdminEnds == Unregister \/ AdminInuseOne \/ NextProxy \/ AllVisited \/ Clear

-----------------------------------------------------------------------------
(* The object collector                                                    *)

\* obj_gc bumps an admin that is not disposed of, and notes its proxies.
Visit ==
  /\ ~gc /\ chan = "open" /\ inTable /\ adm = "open"
  /\ gc' = TRUE /\ found' = registered
  /\ UNCHANGED <<proxies, counts, disposal, admin, twice, channel>>

\* obj_gc of a proxy: young ones are left alone, and deleted ones.
ObjGc ==
  /\ gc /\ at["gc"] = "idle" /\ destroyer # "gc"
  /\ \E p \in found :
       /\ found' = found \ {p}
       /\ \/ UNCHANGED <<proxies, disposal>>
          \/ p \notin gone /\ ~Guarded(p) /\ Enter("gc", p)
  /\ UNCHANGED <<counts, admin, twice, gc, channel>>

\* An admin without proxies may be destroyed, too.
Deserted == adm = "open" /\ num = 0

VisitEnds ==
  /\ gc /\ at["gc"] = "idle" /\ found = {} /\ destroyer # "gc" /\ Unlocked
  /\ \/ gc' = FALSE /\ UNCHANGED <<adm, destroyer>>
     \/ Deserted /\ Dispose("gc", "unregister") /\ UNCHANGED gc
  /\ UNCHANGED <<proxies, counts, disposal, counted, twice, found, channel>>

\* The destruction was the end of the visit.
LeaveAdmin ==
  /\ gc /\ destroyer = "gc" /\ adm = "done" /\ gc' = FALSE
  /\ UNCHANGED <<proxies, counts, disposal, admin, twice, found, channel>>

Collector == ObjGc \/ VisitEnds \/ LeaveAdmin

-----------------------------------------------------------------------------
(* The destruction of the channel                                          *)

Shutdown ==
  /\ chan = "open" /\ Unlocked /\ chan' = "shut"
  /\ UNCHANGED <<proxies, counts, disposal, admin, twice, collect, inTable>>

\* The collector has ended; the admin is destroyed, if nobody has begun to.
DestroyAdmins ==
  /\ chan = "shut" /\ ~gc /\ chan' = "admins"
  /\ IF inTable /\ adm = "open" THEN Dispose("chn", "inuse")
     ELSE UNCHANGED <<adm, destroyer>>
  /\ UNCHANGED <<proxies, counts, disposal, counted, twice, collect, inTable>>

ChannelGone ==
  /\ chan = "admins" /\ (destroyer = "chn" => adm = "done") /\ chan' = "done"
  /\ UNCHANGED <<proxies, counts, disposal, admin, twice, collect, inTable>>

-----------------------------------------------------------------------------
Next ==
  \/ \E p \in Proxy :
       Create(p) \/ PushBegins(p) \/ PushEnds(p) \/ ChangeBegins(p) \/ ChangeEnds(p)
  \/ \E p \in Proxy : Disconnect(p) \/ SafeCleanup(p)
  \/ \E t \in Thread : Disposes(t)
  \/ Destroy \/ AdminEnds \/ Visit \/ Collector
  \/ Shutdown \/ DestroyAdmins \/ ChannelGone

Spec == Init /\ [][Next]_vars

\* Consumers answer, locks are granted, and every thread goes on with what it has begun.
Fairness ==
  /\ \A p \in Proxy : WF_vars(PushEnds(p)) /\ WF_vars(ChangeEnds(p))
  /\ \A t \in Thread : WF_vars(Disposes(t))
  /\ WF_vars(AdminEnds) /\ WF_vars(Collector)
  /\ WF_vars(DestroyAdmins) /\ WF_vars(ChannelGone)

FairSpec == Spec /\ Fairness

-----------------------------------------------------------------------------
(* Properties                                                              *)

TypeOK ==
  /\ pxstate \in [Proxy -> {"none", "live", "Disconnected"}]
  /\ gone \subseteq Proxy /\ pushing \subseteq Proxy /\ changing \subseteq Proxy
  /\ registered \subseteq Proxy
  /\ num \in Int /\ consumers \in Int
  /\ at \in [Thread -> {"idle", "inuse", "remove", "update"}]
  /\ on \in [Thread -> Proxy \cup {"none"}]
  /\ adm \in {"open", "unregister", "inuse", "iterate", "clear", "done"}
  /\ destroyer \in {"none", "adm", "chn", "gc"}
  /\ counted \subseteq Proxy /\ twice \subseteq Proxy
  /\ gc \in BOOLEAN /\ found \subseteq Proxy
  /\ chan \in {"open", "shut", "admins", "done"} /\ inTable \in BOOLEAN

\* While the admin's tables last, it knows how many proxies it has, and so does the
\* channel, except for those that the admin's destruction and their own
\* disconnection have both counted out.
CountsFollow ==
  adm # "done" =>
    /\ num = Cardinality(registered \ counted) - Cardinality(twice)
    /\ chan = "open" => consumers = num

\* A proxy is disposed of by one thread, which is alone in it when it deletes it;
\* by then the admin has counted it out.
OneDisposer ==
  /\ \A p \in Proxy : Cardinality({t \in Thread : on[t] = p}) <= 1
  /\ \A p \in gone : Users(p) = {} /\ p \notin registered \ counted

\* destroy of the admin leaves no proxy connected, not even one that was created at
\* the same time, unless the channel shuts down meanwhile.
NoneLeft ==
  adm = "done" /\ chan = "open" => \A p \in Proxy : pxstate[p] # "live"

\* The thread that destroys the admin waits, with the locks of channel, type map and
\* admin, for a client who waits for the channel's to change a proxy's filters.
Stuck == adm = "iterate" /\ \E p \in changing : on[destroyer] = p

\* Disconnections, the admin's destruction and the channel's come to their end, unless
\* the thread that destroys the admin meets a client with a change for a proxy, and
\* they wait for each other: for nobody else the locks are kept for ever.
DestructionEnds ==
  /\ \A t \in Thread : at[t] # "idle" ~> at[t] = "idle" \/ Stuck
  /\ destroyer # "none" ~> adm = "done" \/ Stuck
  /\ chan = "shut" ~> chan = "done" \/ Stuck
=============================================================================
