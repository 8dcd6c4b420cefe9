------------------------- MODULE EndpointSchedule -------------------------
(***************************************************************************)
(* How the API keeps the repeatable ping job of an endpoint in step with   *)
(* its row: endpointService.ts, the lanes of pingQueue.ts, and the startup *)
(* sync of api/src/index.ts.  Every key and row involved is one endpoint's *)
(* own, so the module is about one endpoint and the requests for it.       *)
(*                                                                         *)
(* A repeatable job is identified by its lane and interval; the jobId is   *)
(* the endpoint's in all of them.  Nothing makes the row and the lanes     *)
(* change together, and each lane is read in an await of its own.          *)
(***************************************************************************)
EXTENDS Naturals, FiniteSets

CONSTANTS
    Requests,   \* HTTP requests that can be in progress at once
    LaneCount,  \* lanes in the order of allPingQueues
    Intervals,  \* values of checkIntervalSec
    Unset,      \* a field the body of an update leaves out
    NoJob,
    Modes       \* the conditions to run under, a set of records, see mode

Lanes == 1..LaneCount
Jobs == [lane : Lanes, every : Intervals]
Operations == {"create", "update", "pause", "resume", "delete"}
FaultKinds == {"error",     \* a database write rejects
               "crash"}     \* the API process dies and is started again

Boot == "boot"              \* recreateMissingJobs runs beside the requests
Procs == Requests \cup {Boot}

ASSUME LanesAssumption     == LaneCount \in Nat \ {0} /\ Intervals # {}
ASSUME UnsetAssumption     == Unset \notin Lanes \cup Intervals /\ NoJob \notin Jobs
ASSUME RequestsAssumption  == Boot \notin Requests
ASSUME ModesAssumption     ==
    Modes \subseteq [overlap : BOOLEAN, early : BOOLEAN, ops : SUBSET Operations,
                     faults : SUBSET FaultKinds]

VARIABLES
    row,        \* the Endpoint row: state, isActive, and priority with interval
    repeats,    \* the repeatable jobs of the endpoint in all lanes
    proc,       \* proc[p]: what request p still has to do
    api,        \* "up" or "down"
    mode        \* fixed at the start: may requests overlap, may they come while
                \* the startup sync is at work, which are made, what can go wrong

vars == <<row, repeats, proc, api, mode>>

\* write: the database call to come ("todo"), the read of the startup sync
\* ("read") or its scan of the lanes ("scan").  walk: findPingQueueForEndpoint
\* reads lane at next ("look"), what it found is removed ("remove"), and want,
\* if there is something to schedule, is added ("add").
Idle == [op |-> "none", write |-> "none", walk |-> "off", at |-> 1,
         found |-> NoJob, want |-> NoJob, seen |-> NoJob,
         body |-> [lane |-> Unset, every |-> Unset]]

\* The API listens, then checks its license, then syncs.
Starting == [Idle EXCEPT !.op = Boot, !.write = "read"]

Absent(state) == [state |-> state, active |-> FALSE, job |-> NoJob]

Bodies == [lane : Lanes \cup {Unset}, every : Intervals \cup {Unset}]

Init ==
    /\ row = Absent("none")
    /\ repeats = {}
    /\ proc = [p \in Procs |-> IF p = Boot THEN Starting ELSE Idle]
    /\ api = "up"
    /\ mode \in Modes

---------------------------------------------------------------------------
Live == row.state = "live"

\* A request with nothing left to do has answered.
Becomes(p, state) ==
    proc' = [proc EXCEPT ![p] =
                IF state.write = "none" /\ state.walk = "off" THEN Idle ELSE state]

\* A request is served from the moment the API listens.  The mode may have each
\* request wait for the others to be answered, or for the sync to be over.
MayBegin(p, o) ==
    /\ api = "up"
    /\ o \in mode.ops
    /\ p \in Requests
    /\ proc[p] = Idle
    /\ mode.overlap \/ \A q \in Requests : proc[q] = Idle
    /\ mode.early \/ proc[Boot] = Idle

\* Faulty: add without remove.
SchedulingOnTop(state, job) == [state EXCEPT !.walk = "add", !.want = job]

\* schedulePingJob: remove, then add.
Scheduling(state, job) == [state EXCEPT !.walk = "look", !.want = job]

---------------------------------------------------------------------------
(* The requests.  Each begins with the read of findOwnedEndpoint.          *)

CreateEndpoint(p) ==
    /\ MayBegin(p, "create")
    /\ row.state = "none"
    /\ \E job \in Jobs :
          /\ row' = [state |-> "live", active |-> TRUE, job |-> job]
          /\ Becomes(p, Scheduling([Idle EXCEPT !.op = "create"], job))
    /\ UNCHANGED <<repeats, api, mode>>

BeginUpdate(p) ==
    /\ MayBegin(p, "update")
    /\ Live
    /\ \E body \in Bodies :
          Becomes(p, [Idle EXCEPT !.op = "update", !.write = "todo",
                                  !.seen = row.job, !.body = body])
    /\ UNCHANGED <<row, repeats, api, mode>>

\* Already paused, or already active: answered at once.
BeginPause(p) ==
    /\ MayBegin(p, "pause")
    /\ Live /\ row.active
    /\ Becomes(p, [Idle EXCEPT !.op = "pause", !.write = "todo", !.walk = "look"])
    /\ UNCHANGED <<row, repeats, api, mode>>

BeginResume(p) ==
    /\ MayBegin(p, "resume")
    /\ Live /\ ~row.active
    /\ Becomes(p, [Idle EXCEPT !.op = "resume", !.write = "todo"])
    /\ UNCHANGED <<row, repeats, api, mode>>

BeginDelete(p) ==
    /\ MayBegin(p, "delete")
    /\ Live
    /\ Becomes(p, [Idle EXCEPT !.op = "delete", !.write = "todo", !.walk = "look"])
    /\ UNCHANGED <<row, repeats, api, mode>>

---------------------------------------------------------------------------
(* Their database writes.  Pause and delete run theirs in a Promise.all     *)
(* with the removal of the job, in either order.                           *)

\* Faulty: a field the body leaves out is written all the same.
MergeAll(job, body) == [lane |-> body.lane, every |-> body.every]

Merge(job, body) ==
    [lane  |-> IF body.lane = Unset THEN job.lane ELSE body.lane,
     every |-> IF body.every = Unset THEN job.every ELSE body.every]

\* Faulty: a change of priority alone is not noticed.
IntervalDiffers(seen, body) == Merge(seen, body).every # seen.every

\* Does the body differ from the row read at the start of the request?
Differs(seen, body) == Merge(seen, body) # seen

WriteUpdate(p) ==
    LET me == proc[p]
        updated == Merge(row.job, me.body)
        rest == [Idle EXCEPT !.op = "update"]
    IN  /\ me.op = "update" /\ me.write = "todo"
        /\ Live
        /\ row' = [row EXCEPT !.job = updated]
        /\ Becomes(p, IF row.active /\ Differs(me.seen, me.body)
                      THEN Scheduling(rest, updated) ELSE rest)
        /\ UNCHANGED <<repeats, api, mode>>

WritePause(p) ==
    /\ proc[p].op = "pause" /\ proc[p].write = "todo"
    /\ Live
    /\ row' = [row EXCEPT !.active = FALSE]
    /\ Becomes(p, [proc[p] EXCEPT !.write = "none"])
    /\ UNCHANGED <<repeats, api, mode>>

WriteResume(p) ==
    /\ proc[p].op = "resume" /\ proc[p].write = "todo"
    /\ Live
    /\ row' = [row EXCEPT !.active = TRUE]
    /\ Becomes(p, Scheduling([proc[p] EXCEPT !.write = "none"], row.job))
    /\ UNCHANGED <<repeats, api, mode>>

WriteDelete(p) ==
    /\ proc[p].op = "delete" /\ proc[p].write = "todo"
    /\ Live
    /\ row' = Absent("deleted")
    /\ Becomes(p, [proc[p] EXCEPT !.write = "none"])
    /\ UNCHANGED <<repeats, api, mode>>

\* The row is gone, or the database rejects.  The request answers with an
\* error; a removal it has under way is not called off.
WriteFails(p) ==
    /\ proc[p].write = "todo"
    /\ ~Live \/ "error" \in mode.faults
    /\ Becomes(p, [proc[p] EXCEPT !.write = "none", !.seen = NoJob, !.body = Idle.body])
    /\ UNCHANGED <<row, repeats, api, mode>>

---------------------------------------------------------------------------
(* removePingRepeatJob and schedulePingJob.                                *)

AfterRemoval(state) ==
    [state EXCEPT !.walk = IF state.want = NoJob THEN "off" ELSE "add",
                  !.at = 1, !.found = NoJob]

\* One lane is read; the first job of the endpoint in it, if any, is the one.
LookInLane(p) ==
    LET me == proc[p]
        here == {job \in repeats : job.lane = me.at}
    IN  /\ me.walk = "look"
        /\ \/ \E job \in here : Becomes(p, [me EXCEPT !.walk = "remove", !.found = job])
           \/ /\ here = {}
              /\ Becomes(p, IF me.at < LaneCount
                            THEN [me EXCEPT !.at = me.at + 1] ELSE AfterRemoval(me))
        /\ UNCHANGED <<row, repeats, api, mode>>

RemoveRepeatJob(p) ==
    /\ proc[p].walk = "remove"
    /\ repeats' = repeats \ {proc[p].found}
    /\ Becomes(p, AfterRemoval(proc[p]))
    /\ UNCHANGED <<row, api, mode>>

AddRepeatJob(p) ==
    /\ proc[p].walk = "add"
    /\ repeats' = repeats \cup {proc[p].want}
    /\ Becomes(p, [proc[p] EXCEPT !.walk = "off"])
    /\ UNCHANGED <<row, api, mode>>

---------------------------------------------------------------------------
(* recreateMissingJobs.                                                    *)

BootRead ==
    /\ proc[Boot].write = "read"
    /\ proc' = [proc EXCEPT ![Boot] =
                   IF Live /\ row.active
                   THEN [Idle EXCEPT !.op = Boot, !.write = "scan",
                                     !.want = row.job]
                   ELSE Idle]
    /\ UNCHANGED <<row, repeats, api, mode>>

\* Faulty: the sync takes the first lane for all of them.
BootScanFirst ==
    LET me == proc[Boot] IN
    /\ me.write = "scan"
    /\ proc' = [proc EXCEPT ![Boot] = Idle]
    /\ UNCHANGED <<row, repeats, api, mode>>

\* The set of scheduled endpoints, lane by lane; an endpoint found in none is
\* scheduled from what was read of its row.
BootScan ==
    LET me == proc[Boot] IN
    /\ me.write = "scan"
    /\ proc' = [proc EXCEPT ![Boot] =
                   IF \E job \in repeats : job.lane = me.at THEN Idle
                   ELSE IF me.at < LaneCount THEN [me EXCEPT !.at = me.at + 1]
                   ELSE Scheduling(Idle, me.want)]
    /\ UNCHANGED <<row, repeats, api, mode>>

Crash ==
    /\ "crash" \in mode.faults
    /\ api = "up"
    /\ api' = "down"
    /\ proc' = [p \in Procs |-> Idle]
    /\ UNCHANGED <<row, repeats, mode>>

Restart ==
    /\ api = "down"
    /\ api' = "up"
    /\ proc' = [proc EXCEPT ![Boot] = Starting]
    /\ UNCHANGED <<row, repeats, mode>>

---------------------------------------------------------------------------
RequestNext(p) ==
    \/ CreateEndpoint(p)
    \/ BeginUpdate(p) \/ BeginPause(p) \/ BeginResume(p) \/ BeginDelete(p)
    \/ WriteUpdate(p) \/ WritePause(p) \/ WriteResume(p) \/ WriteDelete(p) \/ WriteFails(p)

WalkNext(p) == LookInLane(p) \/ RemoveRepeatJob(p) \/ AddRepeatJob(p)

Next ==
    \/ \E p \in Requests : RequestNext(p)
    \/ \E p \in Procs : WalkNext(p)
    \/ BootRead \/ BootScan
    \/ Crash \/ Restart

Spec == Init /\ [][Next]_vars
---------------------------------------------------------------------------
TypeOK ==
    /\ row \in [state : {"none", "live", "deleted"}, active : BOOLEAN, job : Jobs \cup {NoJob}]
    /\ repeats \subseteq Jobs
    /\ proc \in [Procs -> [op : Operations \cup {"none", Boot},
                           write : {"none", "todo", "read", "scan"},
                           walk : {"off", "look", "remove", "add"}, at : Lanes,
                           found : Jobs \cup {NoJob}, want : Jobs \cup {NoJob},
                           seen : Jobs \cup {NoJob}, body : Bodies]]
    /\ api \in {"up", "down"}
    /\ mode \in Modes

Spared(kinds) == mode.faults \cap kinds = {}
OneByOne == ~mode.overlap
Serial == OneByOne /\ ~mode.early

\* Every request has been answered and the startup sync is over.
Quiet == api = "up" /\ \A p \in Procs : proc[p] = Idle

\* Nothing beside a request and nothing failing, the lanes say what the row says:
\* one job, in the lane of the priority and with the interval of the row, for an
\* active endpoint, and none for one that is paused or deleted.
LanesMatchRow ==
    Serial /\ Spared(FaultKinds) /\ Quiet =>
        repeats = IF Live /\ row.active THEN {row.job} ELSE {}

\* As long as neither another request nor the startup sync runs beside a
\* request, no crash or rejected write leaves an endpoint with two jobs, not even
\* while the request is being handled.
OneRepeatJob == Serial => Cardinality(repeats) <= 1

\* An active endpoint is scheduled once everything is quiet, whether requests
\* wait for the startup sync or not: through crashes, thanks to that sync, when
\* requests come one at a time; and through crashes and overlapping updates, since
\* each removal is followed by an add of the same request.
ActiveIsScheduled ==
    /\ OneByOne \/ mode.ops \subseteq {"create", "update"}
    /\ Spared({"error"})
    /\ Quiet /\ Live /\ row.active
    => repeats # {}

\* "Find which lane currently owns the repeat job for an endpoint"
\* (pingQueue.ts:78): there is one such lane at most, once everything is quiet.
OneLaneOwns == Quiet => Cardinality({job.lane : job \in repeats}) <= 1
=============================================================================
