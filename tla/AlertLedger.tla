---------------------------- MODULE AlertLedger ----------------------------
(***************************************************************************)
(* What the alerting part of Monihel promises, whatever its workers do in  *)
(* between: an endpoint has at most one open (TRIGGERED) alert, an alert   *)
(* is opened once and closed once, a recovery is announced only for an     *)
(* alert that is closed, and the alerts of a deleted endpoint go with it.  *)
(* PingWorker is shown to implement this module.                           *)
(***************************************************************************)
CONSTANTS
    Endpoints,  \* rows of the Endpoint table
    Alerts      \* primary keys available to the Alert table

VARIABLES
    alert,      \* alert[a]: "free" (no row yet), TRIGGERED, RESOLVED, "deleted"
    alertOf,    \* alertOf[a]: the endpoint alert a belongs to
    announced   \* the alerts a recovery has been queued for

ledger == <<alert, alertOf, announced>>

OpenAlerts(e) == {a \in Alerts : alert[a] = "TRIGGERED" /\ alertOf[a] = e}

Init ==
    /\ alert = [a \in Alerts |-> "free"]
    /\ alertOf \in [Alerts -> Endpoints]
    /\ announced = {}

\* An alert opens only when the endpoint has none open.
Trigger(e, a) ==
    /\ alert[a] = "free"
    /\ OpenAlerts(e) = {}
    /\ alert' = [alert EXCEPT ![a] = "TRIGGERED"]
    /\ alertOf' = [alertOf EXCEPT ![a] = e]
    /\ UNCHANGED announced

Resolve(a) ==
    /\ alert[a] = "TRIGGERED"
    /\ alert' = [alert EXCEPT ![a] = "RESOLVED"]
    /\ UNCHANGED <<alertOf, announced>>

Announce(a) ==
    /\ alert[a] \in {"RESOLVED", "deleted"}
    /\ announced' = announced \cup {a}
    /\ UNCHANGED <<alert, alertOf>>

\* ON DELETE CASCADE from the Endpoint table.
Delete(e) ==
    /\ alert' = [a \in Alerts |->
                    IF alertOf[a] = e /\ alert[a] # "free" THEN "deleted" ELSE alert[a]]
    /\ UNCHANGED <<alertOf, announced>>

Next ==
    \/ \E e \in Endpoints, a \in Alerts : Trigger(e, a)
    \/ \E a \in Alerts : Resolve(a) \/ Announce(a)
    \/ \E e \in Endpoints : Delete(e)

Spec == Init /\ [][Next]_ledger
=============================================================================
