---------------------------- MODULE MCAlertMail ----------------------------
(***************************************************************************)
(* Instances of AlertMail for TLC.                                         *)
(***************************************************************************)
EXTENDS AlertMail, TLC

CONSTANTS e1, e2, u1, u2, a1, a2, r1, r2

\* Each user owns one endpoint, or u1 both.
OneEach == (e1 :> u1) @@ (e2 :> u2)
Shared == (e1 :> u1) @@ (e2 :> u1)

\* Outages that last, for the digest worker, or that end, for both workers.
Outages(owner, overlap, faults, bounced) ==
    [userOf |-> owner, overlap |-> overlap, lasting |-> TRUE, faults |-> faults, bounced |-> bounced]
Recoveries(owner, faults, bounced) ==
    [userOf |-> owner, overlap |-> FALSE, lasting |-> FALSE, faults |-> faults, bounced |-> bounced]

MailModes ==
    {Outages(OneEach, TRUE, {"error", "crash", "delete"}, {}),
     Outages(Shared, TRUE, {"error", "crash", "delete"}, {}),
     Outages(OneEach, FALSE, {"error", "crash", "delete"}, {u1}),
     Recoveries(OneEach, {}, {u1}),
     Recoveries(Shared, {}, {u1}),
     Recoveries(Shared, {"error"}, {}),
     Recoveries(OneEach, {"crash"}, {}),
     Recoveries(OneEach, {"delete", "refused", "apiDown"}, {u1})}
=============================================================================
