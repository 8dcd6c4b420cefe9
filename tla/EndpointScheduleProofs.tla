----------------------- MODULE EndpointScheduleProofs -----------------------
(***************************************************************************)
(* Proofs about the repeatable job of an endpoint: there is never more than *)
(* one, it is the one the row asks for, and an active endpoint has one, for *)
(* any number of requests, lanes and intervals.                             *)
(***************************************************************************)
EXTENDS EndpointSchedule, FiniteSetTheorems, TLAPS

---------------------------------------------------------------------------
(* None of the properties is inductive: they speak of quiet states or of    *)
(* the lanes, and what a request does next depends on what it has read.     *)
(* Shape says what a request can look like by itself; Steady what it knows  *)
(* of the row when it is the only request, and InStep what it knows of the  *)
(* row and the lanes when the startup sync is over too; Pending which       *)
(* requests still have an add or a pause ahead of them.                     *)

NoJobOrJob == Jobs \cup {NoJob}
ProcStates == [op : Operations \cup {"none", Boot}, write : {"none", "todo", "read", "scan"},
               walk : {"off", "look", "remove", "add"}, at : Lanes,
               found : NoJobOrJob, want : NoJobOrJob, seen : NoJobOrJob, body : Bodies]

Finished(me) == me.write = "none" /\ me.walk = "off"

Shape(p, me) ==
    /\ me.walk = "remove" => me.found \in Jobs
    /\ me.walk = "add" => me.want \in Jobs
    /\ me.walk # "off" /\ me.want = NoJob => me.op \in {"pause", "delete"}
    /\ me.write = "todo" => me.op \in {"update", "pause", "resume", "delete"}
    /\ me.write = "todo" /\ me.op \in {"update", "resume"} =>
          me.walk = "off" /\ me.want = NoJob /\ me.at = 1
    /\ me.op \in {"pause", "delete"} => me.want = NoJob
    /\ me.write \in {"read", "scan"} => p = Boot /\ me.op = Boot /\ me.walk = "off"
    /\ me.write = "scan" => me.want \in Jobs
    /\ me.op \in Operations => me.op \in mode.ops /\ p # Boot

Target == IF Live /\ row.active THEN {row.job} ELSE {}

\* The startup sync leaves the row alone: what the only request knows of it holds.
Steady(me) ==
    /\ me.write = "todo" => Live
    /\ me.op \in {"pause", "delete"} /\ me.write = "none" /\ Spared({"error"}) => ~row.active

\* Lanes already passed are empty, a job found is the only one, and one is
\* added to empty lanes; without faults, a request works from the row as it is
\* and has done what the row says when it ends, and there is one sync, before
\* any request.
InStep(me) ==
    /\ me.walk = "look" \/ me.write = "scan" => \A j \in repeats : j.lane >= me.at
    /\ me.walk = "remove" => repeats = {me.found}
    /\ me.walk = "add" => repeats = {}
    /\ Spared(FaultKinds) =>
          /\ me.op = Boot => ~Live /\ repeats = {}
          /\ me.want # NoJob => row.active /\ row.job = me.want
          /\ me.op = "update" /\ me.write = "todo" => me.seen = row.job
          /\ me.op \in {"update", "resume"} /\ me.write = "todo" => repeats = Target
          /\ me.op \in {"pause", "delete"} /\ me.walk = "off" => repeats = {}
          /\ Finished(me) => repeats = Target

Pending(me) ==
    \/ me.want # NoJob
    \/ me.write = "read"
    \/ me.op \in {"pause", "delete"} /\ me.write = "todo"

---------------------------------------------------------------------------
Types ==
    /\ row \in [state : {"none", "live", "deleted"}, active : BOOLEAN, job : NoJobOrJob]
    /\ row.state = "live" => row.job \in Jobs
    /\ row.state # "live" => ~row.active
    /\ repeats \subseteq Jobs
    /\ proc \in [Procs -> ProcStates]
    /\ api \in {"up", "down"}
    /\ mode \in Modes

Shapes ==
    /\ \A p \in Procs : proc[p] # Idle => ~Finished(proc[p]) /\ Shape(p, proc[p])
    /\ api = "down" => \A p \in Procs : proc[p] = Idle
    /\ Spared({"crash"}) => api = "up"

OneJob == \A x, y \in repeats : x = y

Alone(p) == \A q \in Procs : q # p => proc[q] = Idle

OnlyRequest(p) == p = Boot \/ \A q \in Requests : q # p => proc[q] = Idle

OneRequest ==
    OneByOne => /\ \A p, q \in Requests : proc[p] # Idle /\ proc[q] # Idle => p = q
                /\ \A p \in Procs : Steady(proc[p])

InOrder ==
    Serial => /\ OneJob
              /\ \E p \in Procs : Alone(p)
              /\ \A p \in Procs : Alone(p) => InStep(proc[p])

Regime == (OneByOne \/ mode.ops \subseteq {"create", "update"}) /\ Spared({"error"})

\* An active endpoint without a job is one that someone will still schedule.
Scheduled ==
    Regime /\ Live /\ row.active /\ repeats = {} =>
        api = "down" \/ \E p \in Procs : Pending(proc[p])

ScheduleInv == Types /\ Shapes /\ OneRequest /\ InOrder /\ Scheduled

---------------------------------------------------------------------------
LEMMA Constants ==
    /\ Boot \in Procs /\ Requests \subseteq Procs /\ Boot \notin Requests
    /\ \A p \in Procs : p = Boot \/ p \in Requests
    /\ Boot \notin Operations
    /\ Serial => OneByOne
    /\ NoJob \notin Jobs /\ 1 \in Lanes
    /\ Operations = {"create", "update", "pause", "resume", "delete"} /\ Boot = "boot"
BY LanesAssumption, UnsetAssumption, RequestsAssumption
   DEF Boot, Procs, Lanes, Operations, Serial

LEMMA IdleIs ==
    /\ Idle \in ProcStates
    /\ Idle.op = "none" /\ Idle.write = "none" /\ Idle.walk = "off" /\ Idle.at = 1
    /\ Idle.want = NoJob /\ Idle.seen = NoJob
    /\ Finished(Idle) /\ ~Pending(Idle)
BY Constants DEF Idle, ProcStates, Bodies, NoJobOrJob, Finished, Pending

LEMMA BecomesIs ==
    ASSUME proc \in [Procs -> ProcStates], NEW p \in Procs, NEW s \in ProcStates, Becomes(p, s)
    PROVE  /\ proc' \in [Procs -> ProcStates]
           /\ proc'[p] = IF Finished(s) THEN Idle ELSE s
           /\ \A q \in Procs : q # p => proc'[q] = proc[q]
BY IdleIs DEF Becomes, Finished

\* A step of one request: what it becomes must fit, and if the endpoint is left
\* without a job, either it was before and the others know, or p does.
LEMMA RequestStep ==
    ASSUME ScheduleInv, NEW p \in Procs, NEW s \in ProcStates, Becomes(p, s),
           UNCHANGED <<api, mode>>, api = "up",
           row' \in [state : {"none", "live", "deleted"}, active : BOOLEAN, job : NoJobOrJob],
           row'.state = "live" => row'.job \in Jobs,
           row'.state # "live" => ~row'.active,
           repeats' \subseteq Jobs,
           p = Boot => row' = row,
           OneByOne => OnlyRequest(p) /\ Steady(s)',
           Serial => Alone(p),
           ~Finished(s) => Shape(p, s),
           Serial => OneJob' /\ InStep(s)',
           Regime /\ Live' /\ row'.active /\ repeats' = {} =>
               \/ Live /\ row.active /\ repeats = {} /\ ~Pending(proc[p])
               \/ Pending(s) /\ ~Finished(s)
    PROVE  ScheduleInv'
<1>1. /\ proc' \in [Procs -> ProcStates]
      /\ proc'[p] = IF Finished(s) THEN Idle ELSE s
      /\ \A q \in Procs : q # p => proc'[q] = proc[q]
  BY BecomesIs DEF ScheduleInv, Types
<1>2. Types'
  BY <1>1 DEF ScheduleInv, Types
<1>3. Shapes'
  <2>1. \A q \in Procs : proc'[q] # Idle => ~Finished(proc'[q]) /\ Shape(q, proc'[q])
    BY <1>1 DEF ScheduleInv, Shapes
  <2>2. \A q \in Procs : Shape(q, proc'[q]) => Shape(q, proc[q])'
    BY DEF Shape
  <2>3. \A q \in Procs : Finished(proc'[q]) <=> Finished(proc[q])'
    BY DEF Finished
  <2> QED
    BY <2>1, <2>2, <2>3 DEF ScheduleInv, Shapes, Spared
<1>6. OneRequest'
  <2> SUFFICES ASSUME OneByOne
               PROVE  /\ \A q, r \in Requests : proc'[q] # Idle /\ proc'[r] # Idle => q = r
                      /\ \A q \in Procs : Steady(proc[q])'
    BY DEF OneRequest, OneByOne
  <2>1. /\ OnlyRequest(p) /\ Steady(s)'
        /\ \A q, r \in Requests : proc[q] # Idle /\ proc[r] # Idle => q = r
        /\ \A q \in Procs : Steady(proc[q])
    BY DEF ScheduleInv, OneRequest
  <2>2. Steady(Idle)'
    BY IdleIs DEF Steady
  <2>3. Steady(proc[p])'
    BY <1>1, <2>1, <2>2 DEF Steady
  <2>4. CASE p = Boot
    <3>1. \A q \in Procs : q # p => Steady(proc[q])'
      BY <1>1, <2>1, <2>4 DEF Steady, Live, Spared
    <3> QED
      BY <1>1, <2>1, <2>3, <2>4, <3>1, Constants
  <2>5. CASE p # Boot
    <3>1. \A q \in Requests : q # p => proc'[q] = Idle
      BY <1>1, <2>1, <2>5, Constants DEF OnlyRequest
    <3>2. Steady(proc[Boot])'
      <4>1. proc'[Boot] = proc[Boot] /\ (proc[Boot] # Idle => Shape(Boot, proc[Boot]))
        BY <1>1, <2>5, Constants DEF ScheduleInv, Shapes
      <4>2. proc[Boot].write # "todo" /\ proc[Boot].op \notin {"pause", "delete"}
        BY <4>1, IdleIs, Constants DEF Shape
      <4> QED
        BY <4>1, <4>2 DEF Steady
    <3>3. \A q \in Procs : q # p /\ q # Boot => Steady(proc[q])'
      BY <2>2, <3>1, Constants DEF Steady
    <3> QED
      BY <2>3, <3>1, <3>2, <3>3
  <2> QED
    BY <2>4, <2>5
<1>4. InOrder'
  <2> SUFFICES ASSUME Serial PROVE OneJob' /\ (\E q \in Procs : Alone(q)')
                                   /\ \A q \in Procs : Alone(q)' => InStep(proc[q])'
    BY DEF InOrder, Serial, OneByOne
  <2>1. OneJob' /\ InStep(s)' /\ Alone(p)
    OBVIOUS
  <2>2. Alone(p)'
    BY <1>1, <2>1 DEF Alone
  <2>3. InStep(Idle)' \/ ~Finished(s)
    BY <2>1, IdleIs, Constants DEF InStep, Finished, Spared, Live, Target
  <2>4. InStep(proc[p])'
    BY <1>1, <2>1, <2>3 DEF InStep, Idle
  <2>5. ASSUME NEW q \in Procs, Alone(q)' PROVE InStep(proc[q])'
    <3>1. CASE q = p
      BY <2>4, <3>1
    <3>2. CASE q # p
      <4>1. proc'[p] = Idle /\ proc'[q] = Idle
        BY <2>2, <2>5, <3>2 DEF Alone
      <4> QED
        BY <2>4, <4>1 DEF InStep
    <3> QED
      BY <3>1, <3>2
  <2> QED
    BY <2>1, <2>2, <2>5
<1>5. Scheduled'
  <2> SUFFICES ASSUME Regime, Live', row'.active, repeats' = {}
               PROVE  \E q \in Procs : Pending(proc'[q])
    BY DEF Scheduled, Regime, OneByOne, Spared, Pending
  <2>1. CASE Live /\ row.active /\ repeats = {} /\ ~Pending(proc[p])
    <3>1. PICK q \in Procs : Pending(proc[q])
      BY <2>1 DEF ScheduleInv, Scheduled
    <3> QED
      BY <1>1, <2>1, <3>1
  <2>2. CASE Pending(s) /\ ~Finished(s)
    BY <1>1, <2>2
  <2> QED
    BY <2>1, <2>2
<1> QED
  BY <1>2, <1>3, <1>4, <1>5, <1>6 DEF ScheduleInv

LEMMA BusyFacts ==
    ASSUME ScheduleInv, NEW p \in Procs, proc[p] # Idle
    PROVE  /\ api = "up" /\ ~Finished(proc[p]) /\ Shape(p, proc[p]) /\ proc[p] \in ProcStates
           /\ OneByOne => OnlyRequest(p) /\ Steady(proc[p])
           /\ Serial => OneByOne /\ Alone(p) /\ InStep(proc[p]) /\ OneJob
<1>1. api = "up" /\ ~Finished(proc[p]) /\ Shape(p, proc[p]) /\ proc[p] \in ProcStates
  BY DEF ScheduleInv, Types, Shapes
<1>2. OneByOne => OnlyRequest(p) /\ Steady(proc[p])
  BY Constants DEF ScheduleInv, OneRequest, OnlyRequest
<1>3. Serial => OneByOne /\ Alone(p) /\ InStep(proc[p]) /\ OneJob
  BY Constants DEF ScheduleInv, InOrder, Alone
<1> QED
  BY <1>1, <1>2, <1>3

LEMMA BeginFacts ==
    ASSUME ScheduleInv, NEW p \in Requests, NEW o \in Operations, MayBegin(p, o)
    PROVE  /\ p \in Procs /\ p # Boot /\ api = "up" /\ o \in mode.ops /\ proc[p] = Idle
           /\ OneByOne => OnlyRequest(p)
           /\ Serial => OneByOne /\ Alone(p) /\ InStep(Idle) /\ OneJob
<1>1. p \in Procs /\ p # Boot /\ api = "up" /\ o \in mode.ops /\ proc[p] = Idle
  BY Constants DEF MayBegin
<1>2. OneByOne => OnlyRequest(p)
  BY DEF MayBegin, OneByOne, OnlyRequest
<1>3. Serial => OneByOne /\ Alone(p)
  BY Constants DEF MayBegin, Serial, OneByOne, Alone
<1> QED
  BY <1>1, <1>2, <1>3 DEF ScheduleInv, InOrder

LEMMA RowFacts ==
    ASSUME ScheduleInv
    PROVE  /\ row \in [state : {"none", "live", "deleted"}, active : BOOLEAN, job : NoJobOrJob]
           /\ row.state = "live" => row.job \in Jobs
           /\ row.state # "live" => ~row.active
           /\ repeats \subseteq Jobs
           /\ \A j \in repeats : j.lane \in Lanes /\ j.lane >= 1
BY DEF ScheduleInv, Types, Jobs, Lanes

---------------------------------------------------------------------------
(* Requests begin.                                                         *)

LEMMA CreateKeeps ==
    ASSUME ScheduleInv, NEW p \in Requests, CreateEndpoint(p)
    PROVE  ScheduleInv'
<1>1. PICK job \in Jobs :
        /\ row' = [state |-> "live", active |-> TRUE, job |-> job]
        /\ Becomes(p, Scheduling([Idle EXCEPT !.op = "create"], job))
  BY DEF CreateEndpoint
<1>2. MayBegin(p, "create") /\ UNCHANGED <<repeats, api, mode>> /\ row.state = "none"
  BY DEF CreateEndpoint
<1>3. /\ p \in Procs /\ p # Boot /\ api = "up" /\ "create" \in mode.ops /\ proc[p] = Idle
      /\ OneByOne => OnlyRequest(p)
      /\ Serial => OneByOne /\ Alone(p) /\ InStep(Idle) /\ OneJob
  BY <1>2, BeginFacts, Constants
<1> DEFINE s == Scheduling([Idle EXCEPT !.op = "create"], job)
<1>4. /\ s \in ProcStates /\ s.op = "create" /\ s.write = "none" /\ s.walk = "look" /\ s.at = 1
      /\ s.want = job
  BY <1>1, IdleIs, Constants DEF Scheduling, ProcStates, Idle, NoJobOrJob
<1> HIDE DEF s
<1>5. Becomes(p, s)
  BY <1>1 DEF s
<1>6. ~Finished(s) /\ Shape(p, s) /\ Pending(s)
  BY <1>3, <1>4, Constants DEF Finished, Shape, Pending
<1>7. InStep(s)'
  BY <1>1, <1>2, <1>4, RowFacts, Constants DEF InStep, Finished, Spared
<1>8. Serial => OneJob'
  BY <1>2, <1>3 DEF OneJob
<1>9. row' \in [state : {"none", "live", "deleted"}, active : BOOLEAN, job : NoJobOrJob]
  BY <1>1 DEF NoJobOrJob
<1>10. Steady(s)'
  BY <1>4 DEF Steady
<1> QED
  BY <1>1, <1>2, <1>3, <1>4, <1>5, <1>6, <1>7, <1>8, <1>9, <1>10, RowFacts, RequestStep

\* The others have only read so far.
LEMMA BegunFits ==
    ASSUME ScheduleInv, NEW p \in Requests, NEW o \in Operations, MayBegin(p, o), Live,
           NEW s \in ProcStates, Becomes(p, s), UNCHANGED <<row, repeats, api, mode>>,
           s.op = o, s.write = "todo", s.at = 1, s.want = NoJob,
           \/ o \in {"pause", "delete"} /\ s.walk = "look"
           \/ o = "update" /\ s.walk = "off" /\ s.seen = row.job
           \/ o = "resume" /\ s.walk = "off"
    PROVE  ScheduleInv'
<1>1. /\ p \in Procs /\ p # Boot /\ api = "up" /\ o \in mode.ops /\ proc[p] = Idle
      /\ OneByOne => OnlyRequest(p)
      /\ Serial => OneByOne /\ Alone(p) /\ InStep(Idle) /\ OneJob
  BY BeginFacts
<1>2. ~Finished(s) /\ Shape(p, s)
  BY <1>1, Constants DEF Finished, Shape
<1>3. Serial => InStep(s)
  BY <1>1, RowFacts, IdleIs, Constants DEF InStep, Finished
<1>4. Serial => OneJob' /\ InStep(s)'
  BY <1>1, <1>3 DEF OneJob, InStep, Live, Target, Spared
<1>5. Steady(s)'
  BY DEF Steady, Live
<1> QED
  BY <1>1, <1>2, <1>4, <1>5, IdleIs, RowFacts, RequestStep DEF Live

LEMMA BeginUpdateKeeps ==
    ASSUME ScheduleInv, NEW p \in Requests, BeginUpdate(p)
    PROVE  ScheduleInv'
<1>1. PICK body \in Bodies :
         Becomes(p, [Idle EXCEPT !.op = "update", !.write = "todo", !.seen = row.job, !.body = body])
  BY DEF BeginUpdate
<1> DEFINE s == [Idle EXCEPT !.op = "update", !.write = "todo", !.seen = row.job, !.body = body]
<1>2. /\ s \in ProcStates /\ s.op = "update" /\ s.write = "todo" /\ s.walk = "off" /\ s.at = 1
      /\ s.want = NoJob /\ s.seen = row.job
  BY RowFacts, IdleIs, Constants DEF ProcStates, Idle
<1> HIDE DEF s
<1>3. Becomes(p, s)
  BY <1>1 DEF s
<1> QED
  BY <1>2, <1>3, BegunFits, Constants DEF BeginUpdate

LEMMA BeginRemovalKeeps ==
    ASSUME ScheduleInv, NEW p \in Requests, BeginPause(p) \/ BeginDelete(p)
    PROVE  ScheduleInv'
<1>1. PICK o \in {"pause", "delete"} :
         /\ MayBegin(p, o)
         /\ Becomes(p, [Idle EXCEPT !.op = o, !.write = "todo", !.walk = "look"])
  BY DEF BeginPause, BeginDelete
<1> DEFINE s == [Idle EXCEPT !.op = o, !.write = "todo", !.walk = "look"]
<1>2. /\ s \in ProcStates /\ s.op = o /\ s.write = "todo" /\ s.walk = "look" /\ s.at = 1
      /\ s.want = NoJob
  BY IdleIs, Constants DEF ProcStates, Idle
<1> HIDE DEF s
<1>3. Becomes(p, s)
  BY <1>1 DEF s
<1>4. Live /\ UNCHANGED <<row, repeats, api, mode>>
  BY DEF BeginPause, BeginDelete
<1> QED
  BY <1>1, <1>2, <1>3, <1>4, BegunFits, Constants

LEMMA BeginResumeKeeps ==
    ASSUME ScheduleInv, NEW p \in Requests, BeginResume(p)
    PROVE  ScheduleInv'
<1> DEFINE s == [Idle EXCEPT !.op = "resume", !.write = "todo"]
<1>1. /\ s \in ProcStates /\ s.op = "resume" /\ s.write = "todo" /\ s.walk = "off" /\ s.at = 1
      /\ s.want = NoJob
  BY IdleIs, Constants DEF ProcStates, Idle
<1>2. Becomes(p, s)
  BY DEF BeginResume
<1> HIDE DEF s
<1> QED
  BY <1>1, <1>2, BegunFits, Constants DEF BeginResume

---------------------------------------------------------------------------
(* Their writes.                                                           *)

LEMMA MergeFacts ==
    ASSUME NEW job \in Jobs, NEW body \in Bodies
    PROVE  /\ Merge(job, body) \in Jobs
           /\ \A seen \in Jobs : Merge(job, body) = seen /\ job = seen => Merge(job, body) = job
BY DEF Merge, Jobs, Bodies

LEMMA WriteUpdateKeeps ==
    ASSUME ScheduleInv, NEW p \in Requests, WriteUpdate(p)
    PROVE  ScheduleInv'
<1> DEFINE me == proc[p]
           updated == Merge(row.job, me.body)
           rest == [Idle EXCEPT !.op = "update"]
           next == IF row.active /\ Differs(me.seen, me.body) THEN Scheduling(rest, updated) ELSE rest
<1>1. /\ me.op = "update" /\ me.write = "todo" /\ Live
      /\ row' = [row EXCEPT !.job = updated]
      /\ Becomes(p, next)
      /\ UNCHANGED <<repeats, api, mode>>
  BY DEF WriteUpdate
<1>2. p \in Procs /\ p # Boot /\ me # Idle
  BY <1>1, Constants, IdleIs
<1>3. /\ api = "up" /\ Shape(p, me) /\ me \in ProcStates
      /\ OneByOne => OnlyRequest(p) /\ Steady(me)
      /\ Serial => OneByOne /\ Alone(p) /\ InStep(me) /\ OneJob
  BY <1>2, BusyFacts
<1>4. updated \in Jobs
  BY <1>1, <1>3, RowFacts, MergeFacts DEF Live, ProcStates
<1>5. /\ next \in ProcStates /\ next.op = "update" /\ next.write = "none" /\ next.at = 1
      /\ \/ row.active /\ next.walk = "look" /\ next.want = updated
         \/ /\ ~row.active \/ ~Differs(me.seen, me.body)
            /\ next.walk = "off" /\ next.want = NoJob
  BY <1>4, IdleIs, Constants DEF Scheduling, ProcStates, Idle, NoJobOrJob
<1> HIDE DEF next
<1>6. PICK s \in ProcStates :
        /\ Becomes(p, s) /\ s.op = "update" /\ s.write = "none" /\ s.at = 1
        /\ \/ row.active /\ s.walk = "look" /\ s.want = updated
           \/ /\ ~row.active \/ ~Differs(me.seen, me.body)
              /\ s.walk = "off" /\ s.want = NoJob
  BY <1>1, <1>5
<1>7. /\ row'.state = row.state /\ row'.active = row.active /\ row'.job = updated
      /\ row' \in [state : {"none", "live", "deleted"}, active : BOOLEAN, job : NoJobOrJob]
  BY <1>1, <1>4, RowFacts DEF NoJobOrJob
<1>8. ~Finished(s) => Shape(p, s)
  BY <1>1, <1>3, <1>4, <1>6, Constants DEF Finished, Shape
\* An update that changes nothing leaves the row as it is.
<1>9. Serial /\ Spared(FaultKinds) /\ ~Differs(me.seen, me.body) => updated = row.job
  BY <1>1, <1>3 DEF Differs, InStep
<1> HIDE DEF updated
<1>10. ASSUME Serial PROVE OneJob' /\ InStep(s)'
  <2>1. \A j \in repeats' : j.lane >= s.at
    BY <1>1, <1>6, RowFacts
  <2>2. ASSUME Spared(FaultKinds) PROVE /\ s.want # NoJob => row'.active /\ row'.job = s.want
                                        /\ Finished(s) => repeats' = Target'
    <3>1. repeats = Target
      BY <1>1, <1>3, <1>10, <2>2 DEF InStep
    <3>2. s.want # NoJob => row'.active /\ row'.job = s.want
      BY <1>6, <1>7
    <3>3. Finished(s) => ~row.active \/ updated = row.job
      BY <1>6, <1>9, <1>10, <2>2 DEF Finished
    <3> QED
      BY <1>1, <1>7, <3>1, <3>2, <3>3 DEF Target, Live
  <2>3. OneJob'
    BY <1>1, <1>3, <1>10 DEF OneJob
  <2> QED
    BY <1>1, <1>6, <2>1, <2>2, <2>3, Constants DEF InStep, Spared, Finished
<1>11. ~Pending(me)
  BY <1>1, <1>3 DEF Pending, Shape
<1>12. Live' => Live
  BY <1>7 DEF Live
<1>13. Steady(s)'
  BY <1>6 DEF Steady
<1> QED
  BY <1>1, <1>2, <1>3, <1>4, <1>6, <1>7, <1>8, <1>10, <1>11, <1>12, <1>13, RowFacts, RequestStep

\* A pause and a delete leave the endpoint inactive; the removal they run beside
\* the write goes on.
LEMMA WriteRemovalKeeps ==
    ASSUME ScheduleInv, NEW p \in Requests, WritePause(p) \/ WriteDelete(p)
    PROVE  ScheduleInv'
<1> DEFINE me == proc[p]
<1>1. /\ me.op \in {"pause", "delete"} /\ me.write = "todo" /\ Live
      /\ Becomes(p, [me EXCEPT !.write = "none"])
      /\ UNCHANGED <<repeats, api, mode>>
  BY DEF WritePause, WriteDelete
<1>2. p \in Procs /\ p # Boot /\ me # Idle
  BY <1>1, Constants, IdleIs
<1>3. /\ api = "up" /\ Shape(p, me) /\ me \in ProcStates
      /\ OneByOne => OnlyRequest(p) /\ Steady(me)
      /\ Serial => OneByOne /\ Alone(p) /\ InStep(me) /\ OneJob
  BY <1>2, BusyFacts
<1>4. PICK s \in ProcStates :
        /\ Becomes(p, s) /\ s.op = me.op /\ s.write = "none" /\ s.walk = me.walk
        /\ s.at = me.at /\ s.found = me.found /\ s.want = me.want
  <2>1. [me EXCEPT !.write = "none"] \in ProcStates
    BY <1>3 DEF ProcStates
  <2> QED
    BY <1>1, <1>3, <2>1 DEF ProcStates
<1>5. /\ row' \in [state : {"none", "live", "deleted"}, active : BOOLEAN, job : NoJobOrJob]
      /\ ~row'.active /\ (row'.state = "live" => row'.job \in Jobs)
  <2>1. CASE WritePause(p)
    <3>1. row' = [row EXCEPT !.active = FALSE]
      BY <2>1 DEF WritePause
    <3> QED
      BY <1>1, <3>1, RowFacts DEF Live
  <2>2. CASE WriteDelete(p)
    <3>1. row' = [state |-> "deleted", active |-> FALSE, job |-> NoJob]
      BY <2>2 DEF WriteDelete, Absent
    <3> QED
      BY <3>1 DEF NoJobOrJob
  <2> QED
    BY <2>1, <2>2
<1>6. ~Finished(s) => Shape(p, s)
  BY <1>1, <1>3, <1>4 DEF Shape
<1>7. Serial => OneJob' /\ InStep(s)'
  BY <1>1, <1>3, <1>4, <1>5, Constants DEF OneJob, InStep, Shape, Finished, Spared, Target
<1>8. Steady(s)'
  BY <1>4, <1>5 DEF Steady
<1> QED
  BY <1>1, <1>2, <1>3, <1>4, <1>5, <1>6, <1>7, <1>8, RowFacts, RequestStep

LEMMA WriteResumeKeeps ==
    ASSUME ScheduleInv, NEW p \in Requests, WriteResume(p)
    PROVE  ScheduleInv'
<1> DEFINE me == proc[p]
           next == Scheduling([me EXCEPT !.write = "none"], row.job)
<1>1. /\ me.op = "resume" /\ me.write = "todo" /\ Live
      /\ row' = [row EXCEPT !.active = TRUE]
      /\ Becomes(p, next)
      /\ UNCHANGED <<repeats, api, mode>>
  BY DEF WriteResume
<1>2. p \in Procs /\ p # Boot /\ me # Idle
  BY <1>1, Constants, IdleIs
<1>3. /\ api = "up" /\ Shape(p, me) /\ me \in ProcStates
      /\ OneByOne => OnlyRequest(p) /\ Steady(me)
      /\ Serial => OneByOne /\ Alone(p) /\ InStep(me) /\ OneJob
  BY <1>2, BusyFacts
<1>4. row.job \in Jobs
  BY <1>1, RowFacts DEF Live
<1>5. /\ next \in ProcStates /\ next.op = "resume" /\ next.write = "none" /\ next.walk = "look"
      /\ next.at = 1 /\ next.want = row.job
  BY <1>1, <1>3, <1>4 DEF Scheduling, ProcStates, NoJobOrJob, Shape
<1> HIDE DEF next
<1>6. PICK s \in ProcStates :
        /\ Becomes(p, s) /\ s.op = "resume" /\ s.write = "none" /\ s.walk = "look"
        /\ s.at = 1 /\ s.want = row.job
  BY <1>1, <1>5
<1>7. /\ row' \in [state : {"none", "live", "deleted"}, active : BOOLEAN, job : NoJobOrJob]
      /\ row'.active /\ row'.job = row.job /\ row'.state = "live"
  BY <1>1, RowFacts DEF Live
<1>8. ~Finished(s) /\ Shape(p, s) /\ Pending(s)
  BY <1>1, <1>3, <1>4, <1>6, Constants DEF Shape, Finished, Pending
<1>9. Serial => OneJob' /\ InStep(s)'
  BY <1>1, <1>3, <1>6, <1>7, RowFacts, Constants DEF OneJob, InStep, Finished, Spared
<1>10. Steady(s)'
  BY <1>6 DEF Steady
<1> QED
  BY <1>1, <1>2, <1>3, <1>4, <1>6, <1>7, <1>8, <1>9, <1>10, RowFacts, RequestStep

\* A write is rejected: the database failed, or the row is gone.
LEMMA WriteFailsKeeps ==
    ASSUME ScheduleInv, NEW p \in Requests, WriteFails(p)
    PROVE  ScheduleInv'
<1> DEFINE me == proc[p]
           next == [me EXCEPT !.write = "none", !.seen = NoJob, !.body = Idle.body]
<1>1. /\ me.write = "todo" /\ (~Live \/ "error" \in mode.faults)
      /\ Becomes(p, next)
      /\ UNCHANGED <<row, repeats, api, mode>>
  BY DEF WriteFails
<1>2. p \in Procs /\ p # Boot /\ me # Idle
  BY <1>1, Constants, IdleIs
<1>3. /\ api = "up" /\ Shape(p, me) /\ me \in ProcStates
      /\ OneByOne => OnlyRequest(p) /\ Steady(me)
      /\ Serial => OneByOne /\ Alone(p) /\ InStep(me) /\ OneJob
  BY <1>2, BusyFacts
<1>4. /\ next \in ProcStates /\ next.op = me.op /\ next.write = "none" /\ next.walk = me.walk
      /\ next.at = me.at /\ next.found = me.found /\ next.want = me.want
  BY <1>3, IdleIs DEF ProcStates, NoJobOrJob
<1> HIDE DEF next
<1>5. PICK s \in ProcStates :
        /\ Becomes(p, s) /\ s.op = me.op /\ s.write = "none" /\ s.walk = me.walk
        /\ s.at = me.at /\ s.found = me.found /\ s.want = me.want
  BY <1>1, <1>4
<1>6. ~Finished(s) => Shape(p, s)
  BY <1>1, <1>3, <1>5 DEF Shape, Finished
<1>7. OneByOne => ~Spared({"error"}) /\ ~Spared(FaultKinds)
  BY <1>1, <1>3 DEF Steady, Spared, FaultKinds
<1>8. Serial => OneJob' /\ InStep(s)'
  BY <1>1, <1>3, <1>5, <1>7 DEF OneJob, InStep, Spared
<1>10. OneByOne => Steady(s)'
  BY <1>1, <1>5, <1>7 DEF Steady, Spared
<1>9. Regime => ~Live'
  BY <1>1 DEF Regime, Spared, Live
<1> QED
  BY <1>1, <1>2, <1>3, <1>5, <1>6, <1>8, <1>9, <1>10, RowFacts, RequestStep

---------------------------------------------------------------------------
(* The walk through the lanes.                                             *)

\* Who removes without adding is a pause or a delete; if nothing else of it is
\* left, the endpoint is not active.
LEMMA RemoversStop ==
    ASSUME ScheduleInv, NEW p \in Procs, proc[p] # Idle, Regime, row.active,
           proc[p].want = NoJob, proc[p].walk # "off"
    PROVE  proc[p].op \in {"pause", "delete"} /\ proc[p].write = "todo"
<1>1. /\ Shape(p, proc[p]) /\ proc[p] \in ProcStates
      /\ OneByOne => Steady(proc[p])
  BY BusyFacts
<1>2. proc[p].op \in {"pause", "delete"} /\ proc[p].op \in mode.ops
  BY <1>1, Constants DEF Shape
<1>3. OneByOne
  BY <1>2 DEF Regime
<1> QED
  BY <1>1, <1>2, <1>3 DEF Steady, Regime, ProcStates, Shape

\* What a walk leaves of a request, when the lanes are found or made empty.
LEMMA AfterRemovalIs ==
    ASSUME NEW me \in ProcStates
    PROVE  LET s == AfterRemoval(me)
           IN  /\ s \in ProcStates /\ s.op = me.op /\ s.write = me.write /\ s.want = me.want
               /\ s.at = 1 /\ s.seen = me.seen
               /\ s.walk = IF me.want = NoJob THEN "off" ELSE "add"
BY Constants DEF AfterRemoval, ProcStates, NoJobOrJob

LEMMA EmptiedKeeps ==
    ASSUME ScheduleInv, NEW p \in Procs, proc[p].walk \in {"look", "remove"},
           Becomes(p, AfterRemoval(proc[p])), UNCHANGED <<row, api, mode>>,
           repeats' \subseteq repeats, Serial => repeats' = {}
    PROVE  ScheduleInv'
<1> DEFINE me == proc[p]
<1>1. me # Idle
  BY IdleIs
<1>2. /\ api = "up" /\ ~Finished(me) /\ Shape(p, me) /\ me \in ProcStates
      /\ OneByOne => OnlyRequest(p) /\ Steady(me)
      /\ Serial => OneByOne /\ Alone(p) /\ InStep(me) /\ OneJob
  BY <1>1, BusyFacts
<1>3. PICK s \in ProcStates :
        /\ Becomes(p, s) /\ s.op = me.op /\ s.write = me.write /\ s.want = me.want
        /\ s.at = 1 /\ s.seen = me.seen
        /\ s.walk = IF me.want = NoJob THEN "off" ELSE "add"
  BY <1>2, AfterRemovalIs
<1>4. ~Finished(s) => Shape(p, s)
  BY <1>2, <1>3 DEF Shape, Finished, ProcStates, NoJobOrJob
<1>5. ASSUME Serial PROVE OneJob' /\ InStep(s)'
  <2>1. me.write \in {"none", "todo"} /\ (me.write = "todo" => me.op \in {"pause", "delete"})
    BY <1>2 DEF Shape, ProcStates
  <2>2. me.want = NoJob => me.op \in {"pause", "delete"}
    BY <1>2 DEF Shape
  <2> QED
    BY <1>2, <1>3, <1>5, <2>1, <2>2, Constants
    DEF OneJob, InStep, Steady, Shape, Finished, Spared, Target, Live, FaultKinds
<1>6. Regime /\ row.active => Pending(s) /\ ~Finished(s)
  BY <1>1, <1>2, <1>3, RemoversStop DEF Pending, Finished
<1>7. OneByOne => Steady(s)'
  BY <1>2, <1>3 DEF Steady, Live, Spared
<1> QED
  BY <1>2, <1>3, <1>4, <1>5, <1>6, <1>7, RowFacts, RequestStep

LEMMA LookInLaneKeeps ==
    ASSUME ScheduleInv, NEW p \in Procs, LookInLane(p)
    PROVE  ScheduleInv'
<1> DEFINE me == proc[p]
           here == {job \in repeats : job.lane = me.at}
<1>1. me.walk = "look" /\ me # Idle /\ UNCHANGED <<row, repeats, api, mode>>
  BY IdleIs DEF LookInLane
<1>2. /\ api = "up" /\ Shape(p, me) /\ me \in ProcStates
      /\ OneByOne => OnlyRequest(p) /\ Steady(me)
      /\ Serial => OneByOne /\ Alone(p) /\ InStep(me) /\ OneJob
  BY <1>1, BusyFacts
<1>3. me.at \in 1..LaneCount /\ LaneCount \in Nat
  BY <1>2, LanesAssumption DEF ProcStates, Lanes
\* The search goes on, or has found the job.
<1>4. ASSUME NEW s \in ProcStates, Becomes(p, s), s.op = me.op, s.write = me.write,
             s.want = me.want, s.seen = me.seen,
             \/ s.walk = "look" /\ s.at = me.at + 1 /\ here = {}
             \/ s.walk = "remove" /\ s.found \in here /\ s.at = me.at
      PROVE  ScheduleInv'
  <2>1. ~Finished(s) /\ Shape(p, s)
    BY <1>1, <1>2, <1>4, RowFacts DEF Finished, Shape
  <2>2. Serial => InStep(s)
    <3>1. here = {} => \A j \in repeats : j.lane >= me.at => j.lane >= me.at + 1
      BY <1>3, RowFacts DEF Lanes
    <3> QED
      BY <1>1, <1>2, <1>4, <3>1 DEF InStep, OneJob, Finished, Shape
  <2>3. Serial => OneJob' /\ InStep(s)'
    BY <1>1, <1>2, <2>2 DEF OneJob, InStep, Live, Target, Spared
  <2>4. Pending(me) => Pending(s)
    BY <1>4 DEF Pending
  <2>5. OneByOne => Steady(s)'
    BY <1>1, <1>2, <1>4 DEF Steady, Live, Spared
  <2> QED
    BY <1>1, <1>2, <1>4, <2>1, <2>3, <2>4, <2>5, RowFacts, RequestStep DEF Live
<1>5. CASE \E job \in here : Becomes(p, [me EXCEPT !.walk = "remove", !.found = job])
  <2>1. PICK job \in here : Becomes(p, [me EXCEPT !.walk = "remove", !.found = job])
    BY <1>5
  <2> DEFINE next == [me EXCEPT !.walk = "remove", !.found = job]
  <2>2. /\ next \in ProcStates /\ next.op = me.op /\ next.write = me.write /\ next.want = me.want
        /\ next.seen = me.seen /\ next.walk = "remove" /\ next.found = job /\ next.at = me.at
    BY <1>2, RowFacts DEF ProcStates, NoJobOrJob
  <2> HIDE DEF next
  <2>3. PICK s \in ProcStates : s = next
    BY <2>2
  <2> QED
    BY <1>4, <2>1, <2>2, <2>3 DEF next
<1>6. CASE here = {} /\ me.at < LaneCount /\ Becomes(p, [me EXCEPT !.at = me.at + 1])
  <2> DEFINE next == [me EXCEPT !.at = me.at + 1]
  <2>1. /\ next \in ProcStates /\ next.op = me.op /\ next.write = me.write /\ next.want = me.want
        /\ next.seen = me.seen /\ next.walk = "look" /\ next.at = me.at + 1
    <3>1. me.at + 1 \in Lanes
      BY <1>3, <1>6 DEF Lanes
    <3> QED
      BY <1>1, <1>2, <3>1 DEF ProcStates
  <2> HIDE DEF next
  <2>2. PICK s \in ProcStates : s = next
    BY <2>1
  <2> QED
    BY <1>4, <1>6, <2>1, <2>2 DEF next
<1>7. CASE here = {} /\ ~(me.at < LaneCount) /\ Becomes(p, AfterRemoval(me))
  <2>1. Serial => repeats' = {}
    BY <1>1, <1>2, <1>3, <1>7, RowFacts DEF InStep, Lanes
  <2> QED
    BY <1>1, <1>7, <2>1, EmptiedKeeps
<1> QED
  BY <1>5, <1>6, <1>7 DEF LookInLane

LEMMA RemoveKeeps ==
    ASSUME ScheduleInv, NEW p \in Procs, RemoveRepeatJob(p)
    PROVE  ScheduleInv'
<1>1. /\ proc[p].walk = "remove" /\ repeats' = repeats \ {proc[p].found}
      /\ Becomes(p, AfterRemoval(proc[p])) /\ UNCHANGED <<row, api, mode>>
  BY DEF RemoveRepeatJob
<1>2. Serial => repeats' = {}
  BY <1>1, BusyFacts, IdleIs DEF InStep
<1> QED
  BY <1>1, <1>2, EmptiedKeeps

LEMMA AddKeeps ==
    ASSUME ScheduleInv, NEW p \in Procs, AddRepeatJob(p)
    PROVE  ScheduleInv'
<1> DEFINE me == proc[p]
           next == [me EXCEPT !.walk = "off"]
<1>1. /\ me.walk = "add" /\ me # Idle /\ repeats' = repeats \cup {me.want}
      /\ Becomes(p, next) /\ UNCHANGED <<row, api, mode>>
  BY IdleIs DEF AddRepeatJob
<1>2. /\ api = "up" /\ Shape(p, me) /\ me \in ProcStates
      /\ OneByOne => OnlyRequest(p) /\ Steady(me)
      /\ Serial => OneByOne /\ Alone(p) /\ InStep(me) /\ OneJob
  BY <1>1, BusyFacts
<1>3. /\ next \in ProcStates /\ next.op = me.op /\ next.write = me.write /\ next.walk = "off"
      /\ next.want = me.want
  BY <1>2 DEF ProcStates
<1> HIDE DEF next
<1>4. PICK s \in ProcStates :
        /\ Becomes(p, s) /\ s.op = me.op /\ s.write = me.write /\ s.walk = "off"
        /\ s.want = me.want
  BY <1>1, <1>3
<1>5. me.want \in Jobs /\ me.want # NoJob /\ me.op \notin {"pause", "delete"} /\ me.write = "none"
  BY <1>1, <1>2, Constants DEF Shape, ProcStates
<1>6. Finished(s)
  BY <1>4, <1>5 DEF Finished
<1>7. Serial => OneJob' /\ InStep(s)'
  <2>1. Serial => repeats' = {me.want}
    BY <1>1, <1>2 DEF InStep
  <2> QED
    BY <1>1, <1>2, <1>4, <1>5, <2>1, RowFacts, Constants
    DEF OneJob, InStep, Target, Live, Spared
<1>8. OneByOne => Steady(s)'
  BY <1>2, <1>4, <1>5 DEF Steady
<1> QED
  BY <1>1, <1>2, <1>4, <1>5, <1>6, <1>7, <1>8, RowFacts, RequestStep

---------------------------------------------------------------------------
(* The startup sync, and the death of the process.                         *)

\* The sync reads on, stops at a job, or has found none and schedules.
LEMMA BootStep ==
    ASSUME ScheduleInv, proc[Boot].write \in {"read", "scan"}, NEW s \in ProcStates,
           proc' = [proc EXCEPT ![Boot] = s], UNCHANGED <<row, repeats, api, mode>>,
           \/ s = Idle /\ (Live /\ row.active => repeats # {})
           \/ /\ (Live /\ row.active) \/ proc[Boot].write = "scan"
              /\ s.op \in {"none", Boot} /\ s.want \in Jobs
              /\ \/ s.write = "scan" /\ s.walk = "off" /\ s.op = Boot
                 \/ s.write = "none" /\ s.walk = "look"
              /\ Serial => \A j \in repeats : j.lane >= s.at
    PROVE  ScheduleInv'
<1>1. Boot \in Procs /\ proc[Boot] # Idle
  BY Constants, IdleIs
<1>2. /\ api = "up" /\ Shape(Boot, proc[Boot])
      /\ Serial => Alone(Boot) /\ InStep(proc[Boot]) /\ OneJob
  BY <1>1, BusyFacts
\* Without a crash there is nothing to sync yet.
<1>3. Serial /\ Spared(FaultKinds) => s = Idle /\ ~Live /\ repeats = {}
  BY <1>2, RowFacts, Constants DEF Shape, InStep, Live
<1>4. Becomes(Boot, s)
  BY IdleIs DEF Becomes, Finished
<1>5. ~Finished(s) => Shape(Boot, s)
  BY IdleIs, Constants DEF Shape, Finished
<1>6. Serial => InStep(s)
  BY <1>3, IdleIs, Constants DEF InStep, Target
<1>7. Serial => OneJob' /\ InStep(s)'
  BY <1>2, <1>6 DEF OneJob, InStep, Live, Target, Spared
<1>8. Live /\ row.active /\ repeats = {} => Pending(s) /\ ~Finished(s)
  BY Constants DEF Pending, Finished
<1>9. Steady(s)' /\ OnlyRequest(Boot)
  BY IdleIs, Constants DEF Steady, OnlyRequest
<1> QED
  BY <1>1, <1>2, <1>4, <1>5, <1>7, <1>8, <1>9, RowFacts, RequestStep DEF Live

LEMMA BootReadKeeps ==
    ASSUME ScheduleInv, BootRead
    PROVE  ScheduleInv'
<1> DEFINE next == [Idle EXCEPT !.op = Boot, !.write = "scan", !.want = row.job]
<1>1. CASE Live /\ row.active
  <2>1. /\ next \in ProcStates /\ next.op = Boot /\ next.write = "scan" /\ next.walk = "off"
        /\ next.at = 1 /\ next.want \in Jobs
    BY <1>1, RowFacts, IdleIs, Constants DEF ProcStates, Idle, NoJobOrJob, Live
  <2>2. proc[Boot].write = "read" /\ UNCHANGED <<row, repeats, api, mode>>
        /\ proc' = [proc EXCEPT ![Boot] = next]
    BY <1>1 DEF BootRead
  <2> HIDE DEF next
  <2>3. PICK s \in ProcStates : s = next
    BY <2>1
  <2> QED
    BY <1>1, <2>1, <2>2, <2>3, RowFacts, Constants, BootStep
<1>2. CASE ~(Live /\ row.active)
  BY <1>2, IdleIs, BootStep DEF BootRead
<1> QED
  BY <1>1, <1>2

LEMMA BootScanKeeps ==
    ASSUME ScheduleInv, BootScan
    PROVE  ScheduleInv'
<1> DEFINE me == proc[Boot]
<1>1. me.write = "scan" /\ me # Idle /\ UNCHANGED <<row, repeats, api, mode>>
  BY IdleIs DEF BootScan
<1>2. /\ Shape(Boot, me) /\ me \in ProcStates
      /\ Serial => InStep(me)
  BY <1>1, BusyFacts, Constants
<1>3. me.at \in 1..LaneCount /\ LaneCount \in Nat
  BY <1>2, LanesAssumption DEF ProcStates, Lanes
<1>4. me.want \in Jobs /\ me.walk = "off" /\ me.op = Boot
  BY <1>1, <1>2, Constants DEF Shape
<1>5. CASE \E job \in repeats : job.lane = me.at
  <2>1. proc' = [proc EXCEPT ![Boot] = Idle]
    BY <1>5 DEF BootScan
  <2> QED
    BY <1>1, <1>5, <2>1, IdleIs, BootStep
<1>6. CASE ~(\E job \in repeats : job.lane = me.at) /\ me.at < LaneCount
  <2> DEFINE next == [me EXCEPT !.at = me.at + 1]
  <2>1. /\ next \in ProcStates /\ next.op = me.op /\ next.write = "scan" /\ next.walk = "off"
        /\ next.at = me.at + 1 /\ next.want = me.want
    <3>1. me.at + 1 \in Lanes
      BY <1>3, <1>6 DEF Lanes
    <3> QED
      BY <1>1, <1>2, <1>4, <3>1 DEF ProcStates
  <2>2. proc' = [proc EXCEPT ![Boot] = next]
    BY <1>6 DEF BootScan
  <2> HIDE DEF next
  <2>3. PICK s \in ProcStates : s = next
    BY <2>1
  <2>4. Serial => \A j \in repeats : j.lane >= s.at
    BY <1>1, <1>2, <1>3, <1>6, <2>1, <2>3, RowFacts DEF InStep, Lanes
  <2> QED
    BY <1>1, <1>4, <2>1, <2>2, <2>3, <2>4, BootStep
<1>7. CASE ~(\E job \in repeats : job.lane = me.at) /\ ~(me.at < LaneCount)
  <2> DEFINE next == Scheduling(Idle, me.want)
  <2>1. /\ next \in ProcStates /\ next.op = "none" /\ next.write = "none" /\ next.walk = "look"
        /\ next.at = 1 /\ next.want = me.want
    BY <1>4, IdleIs DEF Scheduling, ProcStates, NoJobOrJob
  <2>2. proc' = [proc EXCEPT ![Boot] = next]
    BY <1>7 DEF BootScan
  <2> HIDE DEF next
  <2>3. PICK s \in ProcStates : s = next
    BY <2>1
  <2> QED
    BY <1>1, <1>4, <2>1, <2>2, <2>3, RowFacts, Constants, BootStep
<1> QED
  BY <1>5, <1>6, <1>7

LEMMA CrashKeeps ==
    ASSUME ScheduleInv, Crash
    PROVE  ScheduleInv'
<1>1. /\ ~Spared({"crash"}) /\ api' = "down" /\ proc' = [p \in Procs |-> Idle]
      /\ UNCHANGED <<row, repeats, mode>>
  BY DEF Crash, Spared
<1>2. \A p \in Procs : proc'[p] = Idle
  BY <1>1
<1>3. Types'
  BY <1>1, IdleIs DEF ScheduleInv, Types
<1>4. Shapes'
  BY <1>1, <1>2 DEF Shapes, Spared
<1>5. InOrder'
  <2> SUFFICES ASSUME Serial PROVE OneJob' /\ (\E p \in Procs : Alone(p)')
                                   /\ \A p \in Procs : Alone(p)' => InStep(proc[p])'
    BY <1>1 DEF InOrder, Serial, OneByOne
  <2>1. OneJob'
    BY <1>1 DEF ScheduleInv, InOrder, OneJob
  <2>2. Boot \in Procs /\ Alone(Boot)'
    BY <1>2, Constants DEF Alone
  <2>3. InStep(Idle)'
    BY <1>1, IdleIs DEF InStep, Idle, Spared, FaultKinds
  <2>4. \A p \in Procs : InStep(proc[p])'
    BY <1>2, <2>3 DEF InStep
  <2> QED
    BY <2>1, <2>2, <2>4
<1>6. Scheduled'
  BY <1>1 DEF Scheduled
<1>7. OneRequest'
  BY <1>2, IdleIs, Constants DEF OneRequest, Steady
<1> QED
  BY <1>3, <1>4, <1>5, <1>6, <1>7 DEF ScheduleInv

LEMMA StartingIs ==
    /\ Starting \in ProcStates /\ Starting.op = Boot /\ Starting.write = "read"
    /\ Starting.walk = "off" /\ Starting.at = 1 /\ Starting.want = NoJob
BY IdleIs, Constants DEF Starting, ProcStates, Idle

\* The sync starts by itself; what is missing is for it to find.
LEMMA RestartKeeps ==
    ASSUME ScheduleInv, Restart
    PROVE  ScheduleInv'
<1>1. /\ api = "down" /\ api' = "up" /\ proc' = [proc EXCEPT ![Boot] = Starting]
      /\ UNCHANGED <<row, repeats, mode>>
  BY DEF Restart
<1>3. PICK s \in ProcStates :
        /\ proc' = [proc EXCEPT ![Boot] = s] /\ s.op = Boot /\ s.write = "read"
        /\ s.walk = "off" /\ s.at = 1 /\ s.want = NoJob
  BY <1>1, StartingIs
<1>4. /\ proc' \in [Procs -> ProcStates] /\ proc'[Boot] = s
      /\ \A q \in Procs : q # Boot => proc'[q] = Idle
      /\ ~Spared({"crash"})
  BY <1>1, <1>3, Constants DEF ScheduleInv, Types, Shapes
<1>5. s # Idle /\ ~Finished(s) /\ Pending(s)
  BY <1>3, IdleIs DEF Finished, Pending
<1>6. Types'
  BY <1>1, <1>4 DEF ScheduleInv, Types
<1>7. Shapes'
  <2>1. Shape(Boot, s)'
    BY <1>3, Constants DEF Shape
  <2>2. \A q \in Procs : proc[q]' # Idle => ~Finished(proc[q])' /\ Shape(q, proc[q])'
    BY <1>4, <1>5, <2>1 DEF Finished, Shape
  <2> QED
    BY <1>1, <1>4, <2>2 DEF Shapes, Spared
<1>8. InOrder'
  <2> SUFFICES ASSUME Serial PROVE OneJob' /\ (\E p \in Procs : Alone(p)')
                                   /\ \A p \in Procs : Alone(p)' => InStep(proc[p])'
    BY <1>1 DEF InOrder, Serial, OneByOne
  <2>1. OneJob'
    BY <1>1 DEF ScheduleInv, InOrder, OneJob
  <2>2. Boot \in Procs /\ Alone(Boot)'
    BY <1>4, Constants DEF Alone
  <2>3. \A p \in Procs : Alone(p)' => p = Boot
    BY <1>4, <1>5, Constants DEF Alone
  <2>4. InStep(s)'
    BY <1>1, <1>3, <1>4, Constants DEF InStep, Finished, Spared, FaultKinds
  <2>5. InStep(proc[Boot])'
    BY <1>4, <2>4 DEF InStep
  <2> QED
    BY <2>1, <2>2, <2>3, <2>5
<1>9. Scheduled'
  <2>1. Pending(proc[Boot])'
    BY <1>4, <1>5 DEF Pending
  <2> QED
    BY <2>1, Constants DEF Scheduled
<1>10. OneRequest'
  <2>1. \A p \in Procs : proc'[p].write # "todo" /\ proc'[p].op \notin {"pause", "delete"}
    BY <1>3, <1>4, IdleIs, Constants
  <2> QED
    BY <1>4, <2>1, Constants DEF OneRequest, Steady
<1> QED
  BY <1>6, <1>7, <1>8, <1>9, <1>10 DEF ScheduleInv

---------------------------------------------------------------------------
LEMMA ScheduleInvInit == Init => ScheduleInv
<1> SUFFICES ASSUME Init PROVE ScheduleInv
  OBVIOUS
<1>1. /\ row = [state |-> "none", active |-> FALSE, job |-> NoJob] /\ repeats = {}
      /\ api = "up" /\ mode \in Modes
      /\ proc = [p \in Procs |-> IF p = Boot THEN Starting ELSE Idle]
  BY DEF Init, Absent
<1>6. proc[Boot] = Starting /\ \A p \in Procs : p # Boot => proc[p] = Idle
  BY <1>1, Constants
<1>2. Types
  <2>1. proc \in [Procs -> ProcStates]
    BY <1>1, IdleIs, StartingIs
  <2>2. row \in [state : {"none", "live", "deleted"}, active : BOOLEAN, job : NoJobOrJob]
    BY <1>1 DEF NoJobOrJob
  <2> QED
    BY <1>1, <2>1, <2>2 DEF Types
<1>3. Shapes
  <2>1. ~Finished(Starting) /\ Shape(Boot, Starting)
    BY StartingIs, Constants DEF Finished, Shape
  <2> QED
    BY <1>1, <1>6, <2>1, Constants DEF Shapes
<1>4. InOrder
  <2>1. InStep(Starting)
    BY <1>1, StartingIs, Constants DEF InStep, Target, Live, Finished
  <2>2. OneJob
    BY <1>1 DEF OneJob
  <2>3. \A p \in Procs : Alone(p) => p = Boot
    BY <1>6, StartingIs, IdleIs, Constants DEF Alone
  <2> QED
    BY <1>6, <2>1, <2>2, <2>3, Constants DEF InOrder, Alone
<1>7. OneRequest
  <2>1. \A p \in Procs : proc[p].write # "todo" /\ proc[p].op \notin {"pause", "delete"}
    BY <1>6, StartingIs, IdleIs, Constants
  <2> QED
    BY <1>6, <2>1, Constants DEF OneRequest, Steady
<1>5. Scheduled
  BY <1>1 DEF Scheduled, Live
<1> QED
  BY <1>2, <1>3, <1>4, <1>5, <1>7 DEF ScheduleInv

LEMMA ScheduleInvNext == ScheduleInv /\ [Next]_vars => ScheduleInv'
<1> SUFFICES ASSUME ScheduleInv, [Next]_vars PROVE ScheduleInv'
  OBVIOUS
<1>1. ASSUME NEW p \in Requests, RequestNext(p) PROVE ScheduleInv'
  BY <1>1, CreateKeeps, BeginUpdateKeeps, BeginRemovalKeeps, BeginResumeKeeps,
     WriteUpdateKeeps, WriteRemovalKeeps, WriteResumeKeeps, WriteFailsKeeps DEF RequestNext
<1>2. ASSUME NEW p \in Procs, WalkNext(p) PROVE ScheduleInv'
  BY <1>2, LookInLaneKeeps, RemoveKeeps, AddKeeps DEF WalkNext
<1>3. CASE UNCHANGED vars
  BY <1>3 DEF vars, ScheduleInv, Types, Shapes, InOrder, Scheduled, OneJob, Alone, InStep,
     Target, Live, Serial, OneByOne, OneRequest, Steady, Spared, Shape, Regime, Pending, Finished
<1> QED
  BY <1>1, <1>2, <1>3, BootReadKeeps, BootScanKeeps, CrashKeeps, RestartKeeps DEF Next

LEMMA ScheduleInvHolds == Spec => []ScheduleInv
<1>1. Init => ScheduleInv
  BY ScheduleInvInit
<1>2. ScheduleInv /\ [Next]_vars => ScheduleInv'
  BY ScheduleInvNext
<1> QED
  BY <1>1, <1>2, PTL DEF Spec

---------------------------------------------------------------------------
(* What follows for the endpoint.                                          *)

\* The state of the requests, of the row and of the lanes is of its type
\* throughout, for any number of requests, lanes and intervals.
THEOREM ScheduleTyped == Spec => []TypeOK
<1>1. ScheduleInv => TypeOK
  BY DEF ScheduleInv, Types, TypeOK, ProcStates, NoJobOrJob
<1> QED
  BY <1>1, ScheduleInvHolds, PTL

\* schedulePingJob removes before it adds, and the startup sync adds only what
\* it found in no lane: while neither another request nor the sync runs beside a
\* request there are never two repeatable jobs of one endpoint, whatever write
\* fails and wherever the process dies.
THEOREM AtMostOneJob == Spec => []OneRepeatJob
<1>1. ScheduleInv => OneRepeatJob
  <2> SUFFICES ASSUME ScheduleInv, Serial PROVE Cardinality(repeats) <= 1
    BY DEF OneRepeatJob
  <2>1. OneJob
    BY DEF ScheduleInv, InOrder
  <2>2. CASE repeats = {}
    BY <2>2, FS_EmptySet
  <2>3. CASE repeats # {}
    <3>1. PICK job \in repeats : repeats = {job}
      BY <2>1, <2>3 DEF OneJob
    <3> QED
      BY <3>1, FS_Singleton
  <2> QED
    BY <2>2, <2>3
<1> QED
  BY <1>1, ScheduleInvHolds, PTL

\* One request at a time, none beside the startup sync, and nothing failing: after every answer the lanes hold
\* the job the row asks for, in its lane and with its interval, and no other;
\* none when the endpoint is paused or deleted.
THEOREM JobFollowsRow == Spec => []LanesMatchRow
<1>1. ScheduleInv => LanesMatchRow
  <2> SUFFICES ASSUME ScheduleInv, Serial, Spared(FaultKinds), Quiet PROVE repeats = Target
    BY DEF LanesMatchRow, Target
  <2>1. proc[Boot] = Idle /\ Alone(Boot)
    BY Constants DEF Quiet, Alone
  <2>2. InStep(Idle)
    BY <2>1, Constants DEF ScheduleInv, InOrder
  <2> QED
    BY <2>2, IdleIs DEF InStep
<1> QED
  BY <1>1, ScheduleInvHolds, PTL

\* An active endpoint has a job once everything is answered and synced, through
\* crashes at any point and with requests beside the startup sync: when requests
\* come one at a time, and also when creates and updates overlap.
THEOREM ActiveKeepsItsJob == Spec => []ActiveIsScheduled
<1>1. ScheduleInv => ActiveIsScheduled
  <2> SUFFICES ASSUME ScheduleInv, Regime, Quiet, Live, row.active PROVE repeats # {}
    BY DEF ActiveIsScheduled, Regime
  <2>1. api = "up" /\ \A p \in Procs : ~Pending(proc[p])
    BY IdleIs DEF Quiet
  <2> QED
    BY <2>1 DEF ScheduleInv, Scheduled
<1> QED
  BY <1>1, ScheduleInvHolds, PTL
=============================================================================
