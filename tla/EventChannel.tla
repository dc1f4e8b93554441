---------------------------- MODULE EventChannel ----------------------------
(***************************************************************************)
(* What the eventing half of a UPnP service promises its subscribers,      *)
(* with no threads, lists or network in sight.                             *)
(*                                                                         *)
(* A subscription is active from SUBSCRIBE until it is dropped (by         *)
(* UNSUBSCRIBE or because it lapsed), and a dropped one never comes back.  *)
(* Whenever an evented state variable changes, each active subscription is *)
(* owed the new value; a new subscription is owed every evented variable.  *)
(* An owed value is either told (the service tries to deliver the current  *)
(* value) or the debt ends with the subscription.  Only once a             *)
(* subscription has been dropped may the service skip somebody: that       *)
(* weakness is in the code (Service.notify copies a list that a removal    *)
(* can shift under it), so the promise names it.                           *)
(***************************************************************************)
CONSTANTS Subs,      \* subscription identifiers that may ever be issued
          Vars,      \* state variables of the service
          Evented    \* the ones with sendEvents="yes"

VARIABLES active,    \* subscriptions being served
          gone,      \* subscriptions that were served and are no more
          owed       \* pairs <<s, v>>: s has not yet been told the value of v

vars == <<active, gone, owed>>

Init == active = {} /\ gone = {} /\ owed = {}

Subscribe(s) ==
    /\ s \notin active \cup gone
    /\ active' = active \cup {s}
    /\ owed' = owed \cup ({s} \X Evented)
    /\ UNCHANGED gone

Publish(v) ==
    /\ v \in Evented
    /\ owed' = owed \cup (active \X {v})
    /\ UNCHANGED <<active, gone>>

Tell(s, v) ==
    /\ owed' = owed \ {<<s, v>>}
    /\ UNCHANGED <<active, gone>>

Drop(s) ==
    /\ s \in active
    /\ active' = active \ {s}
    /\ gone' = gone \cup {s}
    /\ owed' = owed \ ({s} \X Vars)

Skip(v) ==
    /\ gone # {}
    /\ \E S \in SUBSET active : owed' = owed \ (S \X {v})
    /\ UNCHANGED <<active, gone>>

Next ==
    \/ \E s \in Subs : Subscribe(s) \/ Drop(s)
    \/ \E v \in Vars : Publish(v) \/ Skip(v)
    \/ \E s \in Subs, v \in Vars : Tell(s, v)

SafeSpec == Init /\ [][Next]_vars

(* No debt lasts for ever. *)
EveryDebtEnds ==
    \A s \in Subs, v \in Evented : (<<s, v>> \in owed) ~> (<<s, v>> \notin owed)

Spec == SafeSpec /\ EveryDebtEnds
=============================================================================
