---------------------------- MODULE MCPingProbe ----------------------------
(***************************************************************************)
(* Two ping jobs and one other client, or one job and two clients, on one   *)
(* endpoint whose row is written twice.                                     *)
(***************************************************************************)
EXTENDS PingProbe

\* All of one set and one member of the other.
WithOne(all, other) == all \cup {CHOOSE p \in other : TRUE}

ProbeMode(active, overlap, abort, first, second, elsewhere) ==
    [active |-> active, overlap |-> overlap, abort |-> abort, elsewhere |-> elsewhere,
     auth |-> [v \in Versions |-> IF v = 1 THEN first ELSE second]]

\* Credentials repaired while everything happens, here and elsewhere; no overlap
\* with a fill; two clients while everything happens.
ProbeModes ==
    {ProbeMode(WithOne(Probers, Others), TRUE, TRUE, "broken", "sound", {"plain", "broken"}),
     ProbeMode(WithOne(Others, Probers), FALSE, FALSE, "off", "broken", {"broken"}),
     ProbeMode(WithOne(Others, Probers), TRUE, TRUE, "sound", "sound", {})}

\* A user opens the endpoint's page.
ViewModes ==
    {ProbeMode(WithOne(Probers, Others), FALSE, FALSE, "sound", "sound", {})}
=============================================================================
