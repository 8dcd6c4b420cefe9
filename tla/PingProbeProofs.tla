-------------------------- MODULE PingProbeProofs --------------------------
(***************************************************************************)
(* Proofs about the config cache: it is typed, and current when no write    *)
(* overlaps a fill and no request is cut short.  For any number of          *)
(* processes and versions.                                                  *)
(***************************************************************************)
EXTENDS PingProbe, TLAPS

Processes == Probers \cup Others
Caches == Configs \cup {Empty}
ProcConfigs == Configs \cup Foreign
ProcShapes == [kind : Kinds, pc : Pcs, config : ProcConfigs] \cup {Idle}

(* That the cache is current says nothing of what a reader is about to put  *)
(* there.  Filled adds it: as long as no write overlaps a fill, what is     *)
(* about to be stored is what the row says; and a key that is not current   *)
(* has a DEL on its way, which in the absence of Abort arrives.             *)

Filled ==
    ~mode.overlap =>
        \A p \in Processes : /\ At(p, "fill") => proc[p].config.version = row
                             /\ At(p, "set") => row = 1

\* Before the row is written there is nothing of it anywhere.
Unwritten ==
    writes = 0 => /\ row = 0 /\ cache = Empty
                  /\ \A p \in Processes : proc[p].pc \notin {"fill", "set"}

DelByOthers == \A p \in Processes : At(p, "del") => p \in Others

\* What is about to be stored is this endpoint's.
FillsOwn == \A p \in Processes : At(p, "fill") => proc[p].config \in Configs

ProbeInv == TypeOK /\ Filled /\ FillsOwn /\ Unwritten /\ DelByOthers /\ CacheIsCurrent

---------------------------------------------------------------------------
LEMMA VersionsAreCached ==
    ASSUME mode \in Modes, NEW v \in Versions
    PROVE  /\ ConfigOf(v) \in Configs /\ ConfigOf(v).version = v
           /\ Safe(ConfigOf(v)) \in Configs /\ Safe(ConfigOf(v)).version = v
<1>1. mode.auth[v] \in Auths
  BY ModesAssumption DEF Versions
<1> QED
  BY <1>1 DEF ConfigOf, Safe, Configs, Auths

LEMMA ProbeInvInit == Init => ProbeInv
<1> SUFFICES ASSUME Init PROVE ProbeInv
  OBVIOUS
<1>1. \A p \in Processes : proc[p] = Idle
  BY DEF Init, Processes
<1>2. TypeOK
  BY BoundAssumption DEF Init, TypeOK
<1> QED
  BY <1>1, <1>2 DEF Init, ProbeInv, Filled, Unwritten, FillsOwn, DelByOthers, CacheIsCurrent, At, Idle,
                    Empty, Current

\* A step of one process that leaves row and cache alone.
LEMMA ProcStep ==
    ASSUME ProbeInv, NEW p \in Processes, NEW r \in ProcShapes,
           proc' = [proc EXCEPT ![p] = r], UNCHANGED <<row, writes, cache, mode>>,
           breaker' \in {"closed", "open", "cooled", "halfOpen"}, fails' \in 0..Threshold,
           r.pc = "fill" => r.config.version = row /\ row # 0 /\ r.config \in Configs,
           r.pc \notin {"set", "del"},
           At(p, "del") => mode.abort
    PROVE  ProbeInv'
<1>1. \A q \in Processes : proc'[q] = IF q = p THEN r ELSE proc[q]
  BY DEF ProbeInv, TypeOK, Processes
<1>2. TypeOK'
  BY DEF ProbeInv, TypeOK, Processes, ProcShapes, ProcConfigs, Caches
<1>3. Filled' /\ FillsOwn' /\ Unwritten'
  BY <1>1 DEF ProbeInv, Filled, FillsOwn, Unwritten, At
<1>4. DelByOthers'
  BY <1>1 DEF ProbeInv, DelByOthers, At
<1>6. CacheIsCurrent'
  <2> SUFFICES ASSUME ~mode.overlap, ~mode.abort, \A q \in Others : proc'[q].pc # "del"
               PROVE  Current(cache)
    BY DEF CacheIsCurrent, Current, At
  <2>1. \A q \in Others : ~At(q, "del")
    BY <1>1 DEF At, Processes
  <2> QED
    BY <2>1 DEF ProbeInv, CacheIsCurrent
<1> QED
  BY <1>2, <1>3, <1>4, <1>6 DEF ProbeInv

LEMMA IdleShape ==
    /\ Idle \in ProcShapes /\ Idle.pc = "idle" /\ Idle.kind = "none"
    /\ Empty \in Foreign /\ Empty \in ProcConfigs
BY DEF Idle, ProcShapes, ProcConfigs, Foreign, Empty

\* A process that is none of its business any more.
LEMMA FinishStep ==
    ASSUME ProbeInv, NEW p \in Processes, Finish(p), UNCHANGED <<row, writes, cache, mode>>,
           breaker' \in {"closed", "open", "cooled", "halfOpen"}, fails' \in 0..Threshold,
           At(p, "del") => mode.abort
    PROVE  ProbeInv'
BY IdleShape, ProcStep DEF Finish

---------------------------------------------------------------------------
LEMMA BeginReaderKeeps ==
    ASSUME ProbeInv, NEW p \in Processes, BeginPing(p) \/ BeginMail(p) \/ BeginGet(p)
    PROVE  ProbeInv'
<1>1. PICK kind \in {"ping", "mail", "get"} : Begin(p, kind, "get")
  BY DEF BeginPing, BeginMail, BeginGet
<1> DEFINE r == [Idle EXCEPT !.kind = kind, !.pc = "get"]
<1>2. r \in ProcShapes /\ r.pc = "get"
  BY IdleShape DEF Idle, ProcShapes, Kinds, Pcs
<1>3. /\ proc' = [proc EXCEPT ![p] = r] /\ ~At(p, "del")
      /\ UNCHANGED <<row, writes, cache, breaker, fails, mode>>
  BY <1>1, IdleShape DEF Begin, At, BeginPing, BeginMail, BeginGet
<1> HIDE DEF r
<1> QED
  BY <1>1, <1>2, <1>3, ProcStep DEF ProbeInv, TypeOK

LEMMA BeginElsewhereKeeps ==
    ASSUME ProbeInv, NEW p \in Processes, BeginElsewhere(p)
    PROVE  ProbeInv'
<1>1. PICK auth \in {"plain", "broken"} :
         proc' = [proc EXCEPT ![p] = [kind |-> "elsewhere", pc |-> "fire",
                                      config |-> [Empty EXCEPT !.auth = auth]]]
  BY ModesAssumption DEF BeginElsewhere, ProbeInv, TypeOK
<1> DEFINE r == [kind |-> "elsewhere", pc |-> "fire", config |-> [Empty EXCEPT !.auth = auth]]
<1>2. r \in ProcShapes /\ r.pc = "fire"
  BY DEF ProcShapes, ProcConfigs, Foreign, Empty, Kinds, Pcs
<1>3. ~At(p, "del") /\ UNCHANGED <<row, writes, cache, breaker, fails, mode>>
  BY IdleShape DEF BeginElsewhere, At
<1> HIDE DEF r
<1>4. proc' = [proc EXCEPT ![p] = r]
  BY <1>1 DEF r
<1> QED
  BY <1>2, <1>3, <1>4, ProcStep DEF ProbeInv, TypeOK

\* What a reader does with a config it has.
LEMMA UseShape ==
    ASSUME ProbeInv, NEW p \in Processes, NEW c \in ProcConfigs, Use(p, c)
    PROVE  \E r \in ProcShapes : proc' = [proc EXCEPT ![p] = r] /\ r.pc \in {"idle", "fire"}
<1> DEFINE r == IF proc[p].kind = "ping" /\ c.auth # "off"
                THEN [kind |-> "ping", pc |-> "fire", config |-> c] ELSE Idle
<1>1. r \in ProcShapes /\ r.pc \in {"idle", "fire"}
  BY IdleShape DEF ProcShapes, Kinds, Pcs
<1>2. proc' = [proc EXCEPT ![p] = r]
  BY DEF Use
<1> QED
  BY <1>1, <1>2

LEMMA GotoShape ==
    ASSUME ProbeInv, NEW p \in Processes, NEW pc \in Pcs, proc[p] # Idle, Goto(p, pc)
    PROVE  \E r \in ProcShapes : proc' = [proc EXCEPT ![p] = r] /\ r.pc = pc
<1> DEFINE r == [proc[p] EXCEPT !.pc = pc]
<1>1. proc[p] \in [kind : Kinds, pc : Pcs, config : ProcConfigs]
  BY DEF ProbeInv, TypeOK, Processes, ProcConfigs
<1>2. r \in ProcShapes /\ r.pc = pc
  BY <1>1 DEF ProcShapes
<1>3. proc' = [proc EXCEPT ![p] = r]
  BY DEF Goto
<1> HIDE DEF r
<1> QED
  BY <1>2, <1>3

LEMMA CacheGetKeeps ==
    ASSUME ProbeInv, NEW p \in Processes, CacheGet(p)
    PROVE  ProbeInv'
<1>1. UNCHANGED <<row, writes, cache, breaker, fails, mode>> /\ ~At(p, "del") /\ proc[p] # Idle
  BY IdleShape DEF CacheGet, At
<1>2. cache \in ProcConfigs /\ "load" \in Pcs
  BY IdleShape DEF ProbeInv, TypeOK, ProcConfigs, Pcs
<1>3. PICK r \in ProcShapes :
        /\ proc' = [proc EXCEPT ![p] = r]
        /\ r.pc \in {"idle", "fire", "load"}
  <2>1. CASE Use(p, cache)
    BY <1>2, <2>1, UseShape
  <2>2. CASE Goto(p, "load")
    BY <1>1, <1>2, <2>2, GotoShape
  <2> QED
    BY <2>1, <2>2 DEF CacheGet
<1> QED
  BY <1>1, <1>3, ProcStep DEF ProbeInv, TypeOK

LEMMA LoadKeeps ==
    ASSUME ProbeInv, NEW p \in Processes, Load(p)
    PROVE  ProbeInv'
<1>1. UNCHANGED <<row, writes, cache, breaker, fails, mode>> /\ ~At(p, "del") /\ proc[p] # Idle
  BY IdleShape DEF Load, At
<1>2. CASE Finish(p)
  BY <1>1, <1>2, FinishStep DEF ProbeInv, TypeOK
<1>3. CASE row # 0 /\ ~Finish(p)
  <2> DEFINE c == IF proc[p].kind = "get" THEN Safe(ConfigOf(row)) ELSE ConfigOf(row)
             r == [proc[p] EXCEPT !.pc = "fill", !.config = c]
  <2>1. row \in Versions /\ mode \in Modes
    BY <1>3, BoundAssumption DEF ProbeInv, TypeOK, Versions
  <2>2. c \in Configs /\ c.version = row
    BY <2>1, VersionsAreCached
  <2>3. proc' = [proc EXCEPT ![p] = r]
    BY <1>3 DEF Load
  <2>4. proc[p] \in [kind : Kinds, pc : Pcs, config : ProcConfigs]
    BY <1>1 DEF ProbeInv, TypeOK, Processes, ProcConfigs
  <2> HIDE DEF c
  <2>5. r \in ProcShapes /\ r.pc = "fill" /\ r.config = c
    BY <2>2, <2>4 DEF ProcShapes, ProcConfigs, Pcs
  <2> HIDE DEF r
  <2> QED
    BY <1>1, <1>3, <2>2, <2>3, <2>5, ProcStep DEF ProbeInv, TypeOK
<1> QED
  BY <1>2, <1>3 DEF Load

\* The cache gets a value that is current, or none of the promises apply.
LEMMA CacheStep ==
    ASSUME ProbeInv, NEW p \in Processes, NEW r \in ProcShapes,
           proc' = [proc EXCEPT ![p] = r], UNCHANGED <<row, writes, breaker, fails, mode>>,
           cache' \in Caches,
           ~mode.overlap => cache' = Empty \/ cache'.version = row,
           writes = 0 => cache' = Empty,
           r.pc \in {"idle", "fire"}
    PROVE  ProbeInv'
<1>1. \A q \in Processes : proc'[q] = IF q = p THEN r ELSE proc[q]
  BY DEF ProbeInv, TypeOK, Processes
<1>2. TypeOK'
  BY DEF ProbeInv, TypeOK, Processes, ProcShapes, ProcConfigs, Caches
<1>3. Filled' /\ FillsOwn' /\ Unwritten' /\ DelByOthers'
  BY <1>1 DEF ProbeInv, Filled, FillsOwn, Unwritten, DelByOthers, At
<1>4. CacheIsCurrent'
  BY DEF CacheIsCurrent, Current
<1> QED
  BY <1>2, <1>3, <1>4 DEF ProbeInv

LEMMA FillKeeps ==
    ASSUME ProbeInv, NEW p \in Processes, Fill(p)
    PROVE  ProbeInv'
<1>1. /\ cache' = proc[p].config /\ Use(p, proc[p].config)
      /\ UNCHANGED <<row, writes, breaker, fails, mode>>
  BY DEF Fill
<1>2. proc[p].config \in Caches /\ proc[p].config \in ProcConfigs
  BY DEF Fill, ProbeInv, FillsOwn, Caches, ProcConfigs
<1>3. /\ ~mode.overlap => proc[p].config.version = row
      /\ writes # 0
  BY DEF Fill, ProbeInv, Filled, Unwritten, At
<1>4. PICK r \in ProcShapes : proc' = [proc EXCEPT ![p] = r] /\ r.pc \in {"idle", "fire"}
  BY <1>1, <1>2, UseShape
<1> QED
  BY <1>1, <1>2, <1>3, <1>4, CacheStep

LEMMA SetOrDelKeeps ==
    ASSUME ProbeInv, NEW p \in Processes, Writer(p)
    PROVE  ProbeInv'
<1>1. /\ proc' = [proc EXCEPT ![p] = Idle]
      /\ UNCHANGED <<row, writes, breaker, fails, mode>>
  BY DEF Writer, SetCache, DelCache, Finish
<1>2. cache' \in Caches /\ (~mode.overlap => cache' = Empty \/ cache'.version = row)
      /\ (writes = 0 => cache' = Empty)
  <2>1. CASE SetCache(p)
    <3>1. 1 \in Versions /\ mode \in Modes
      BY BoundAssumption DEF Versions, ProbeInv, TypeOK
    <3> QED
      BY <2>1, <3>1, VersionsAreCached DEF SetCache, Caches, ProbeInv, Filled, Unwritten, At
  <2>2. CASE DelCache(p)
    BY <2>2 DEF DelCache, Caches
  <2> QED
    BY <2>1, <2>2 DEF Writer
<1> QED
  BY <1>1, <1>2, IdleShape, CacheStep

LEMMA ExpireKeeps ==
    ASSUME ProbeInv, Expire
    PROVE  ProbeInv'
<1>1. cache' = Empty /\ UNCHANGED <<row, writes, proc, breaker, fails, mode>>
  BY DEF Expire
<1>2. TypeOK'
  BY <1>1 DEF ProbeInv, TypeOK
<1>3. Filled' /\ FillsOwn' /\ Unwritten' /\ DelByOthers'
  BY <1>1 DEF ProbeInv, Filled, FillsOwn, Unwritten, DelByOthers, At
<1>4. CacheIsCurrent'
  BY <1>1 DEF CacheIsCurrent, Current
<1> QED
  BY <1>2, <1>3, <1>4 DEF ProbeInv

---------------------------------------------------------------------------
\* A write of the row, by a client that then stores or deletes the key.
LEMMA WriteKeeps ==
    ASSUME ProbeInv, NEW p \in Others, Create(p) \/ Update(p) \/ Delete(p)
    PROVE  ProbeInv'
<1>1. PICK pc \in {"set", "del"} :
        /\ Begin(p, "write", pc)
        /\ pc = "set" => row' = 1
        /\ (Create(p) /\ pc = "set") \/ (MayWrite /\ pc = "del")
  BY DEF Create, Update, Delete
<1> DEFINE r == [Idle EXCEPT !.kind = "write", !.pc = pc]
<1>2. r \in ProcShapes /\ r.pc = pc
  BY IdleShape DEF Idle, ProcShapes, Kinds, Pcs
<1>3. proc' = [proc EXCEPT ![p] = r] /\ p \in Processes
  BY <1>1 DEF Begin, Processes
<1> HIDE DEF r
<1>4. \A q \in Processes : proc'[q] = IF q = p THEN r ELSE proc[q]
  BY <1>3 DEF ProbeInv, TypeOK, Processes
<1>5. UNCHANGED <<cache, breaker, fails, mode>>
  BY DEF Create, Update, Delete
<1>6. row' \in 0..MaxVersion /\ writes' \in 0..MaxVersion
  BY BoundAssumption DEF Create, Update, Delete, ProbeInv, TypeOK
<1>7. TypeOK'
  BY <1>2, <1>3, <1>5, <1>6 DEF ProbeInv, TypeOK, ProcShapes, ProcConfigs, Processes
<1>8. DelByOthers'
  BY <1>4 DEF ProbeInv, DelByOthers, At
<1>9. FillsOwn'
  BY <1>1, <1>2, <1>4 DEF ProbeInv, FillsOwn, At
<1>10. Unwritten'
  BY BoundAssumption DEF Create, Update, Delete, Unwritten, ProbeInv, TypeOK
\* Without an overlap no process is about to store anything.
<1>11. ~mode.overlap => \A q \in Processes : proc[q].pc \notin {"fill", "set"}
  <2>1. DOMAIN proc = Processes
    BY DEF ProbeInv, TypeOK, Processes
  <2>2. CASE Create(p)
    BY <2>2 DEF Create, ProbeInv, Unwritten
  <2>3. CASE MayWrite
    BY <2>1, <2>3 DEF MayWrite
  <2> QED
    BY <1>1, <2>2, <2>3
<1>12. Filled'
  BY <1>1, <1>2, <1>4, <1>5, <1>11 DEF Filled, At
<1>13. CacheIsCurrent'
  <2>1. CASE pc = "del"
    BY <1>2, <1>4, <1>3, <2>1 DEF CacheIsCurrent, At
  <2>2. CASE pc = "set"
    BY <1>1, <1>5, <2>2 DEF CacheIsCurrent, Current, Create, ProbeInv, Unwritten
  <2> QED
    BY <2>1, <2>2
<1> QED
  BY <1>7, <1>8, <1>9, <1>10, <1>12, <1>13 DEF ProbeInv

---------------------------------------------------------------------------
\* The breaker: a job that throws or is rejected is done, one that gets through
\* keeps its config.
LEMMA FireKeeps ==
    ASSUME ProbeInv, NEW p \in Processes, Fire(p)
    PROVE  ProbeInv'
<1>1. UNCHANGED <<row, writes, cache, mode>> /\ ~At(p, "del") /\ proc[p] # Idle
  BY IdleShape DEF Fire, FireClosed, FireRejected, FireTrial, At
<1>2. breaker' \in {"closed", "open", "cooled", "halfOpen"} /\ fails' \in 0..Threshold
  BY BoundAssumption DEF Fire, FireClosed, FireRejected, FireTrial, Throw, ProbeInv, TypeOK
<1>3. CASE Finish(p)
  BY <1>1, <1>2, <1>3, FinishStep
<1>4. CASE Goto(p, "wire") \/ Goto(p, "trial")
  <2>1. PICK pc \in {"wire", "trial"} : Goto(p, pc)
    BY <1>4
  <2>2. pc \in Pcs
    BY DEF Pcs
  <2>3. PICK r \in ProcShapes :
          /\ proc' = [proc EXCEPT ![p] = r]
          /\ r.pc = pc
    BY <1>1, <2>1, <2>2, GotoShape
  <2> QED
    BY <1>1, <1>2, <2>3, ProcStep
<1> QED
  BY <1>3, <1>4 DEF Fire, FireClosed, FireRejected, FireTrial, Throw

LEMMA ReturnOrAbortKeeps ==
    ASSUME ProbeInv, NEW p \in Processes, Return(p) \/ Abort(p)
    PROVE  ProbeInv'
<1>1. /\ Finish(p) /\ UNCHANGED <<row, writes, cache, mode>>
      /\ At(p, "del") => mode.abort
  BY DEF Return, Abort, At
<1>2. breaker' \in {"closed", "open", "cooled", "halfOpen"} /\ fails' \in 0..Threshold
  BY BoundAssumption DEF Return, Abort, ProbeInv, TypeOK
<1> QED
  BY <1>1, <1>2, FinishStep

\* A step of the clock on the breaker, or none at all.
LEMMA CoolDownOrStutterKeeps ==
    ASSUME ProbeInv, CoolDown \/ UNCHANGED vars
    PROVE  ProbeInv'
<1>1. UNCHANGED <<row, writes, cache, proc, fails, mode>>
  BY DEF CoolDown, vars
<1>2. TypeOK'
  BY <1>1 DEF CoolDown, vars, ProbeInv, TypeOK
<1> QED
  BY <1>1, <1>2 DEF ProbeInv, Filled, Unwritten, FillsOwn, DelByOthers, CacheIsCurrent,
                    Current, At

LEMMA ProbeInvNext == ProbeInv /\ [Next]_vars => ProbeInv'
<1> SUFFICES ASSUME ProbeInv, [Next]_vars PROVE ProbeInv'
  OBVIOUS
<1>1. CASE \E p \in Probers : BeginPing(p) \/ BeginElsewhere(p) \/ Fire(p) \/ Return(p)
  BY <1>1, BeginReaderKeeps, BeginElsewhereKeeps, FireKeeps, ReturnOrAbortKeeps DEF Processes
<1>2. CASE \E p \in Others : BeginMail(p) \/ BeginGet(p)
  BY <1>2, BeginReaderKeeps DEF Processes
<1>3. CASE \E p \in Others : Create(p) \/ Update(p) \/ Delete(p)
  BY <1>3, WriteKeeps
<1>4. CASE \E p \in Others : Writer(p) \/ Abort(p)
  BY <1>4, SetOrDelKeeps, ReturnOrAbortKeeps DEF Processes
<1>5. CASE \E p \in Probers \cup Others : Reader(p)
  BY <1>5, CacheGetKeeps, LoadKeeps, FillKeeps DEF Reader, Processes
<1>6. CASE Expire
  BY <1>6, ExpireKeeps
<1>7. CASE CoolDown \/ UNCHANGED vars
  BY <1>7, CoolDownOrStutterKeeps
<1> QED
  BY <1>1, <1>2, <1>3, <1>4, <1>5, <1>6, <1>7 DEF Next

---------------------------------------------------------------------------
\* Write before DEL is enough: unless a write comes between a reader's SELECT
\* and its SETEX or a request is cut short, a key without a DEL on its way says
\* what the row says (endpointService.ts 282-283, workers/ping/index.ts 197).
THEOREM CacheStaysCurrent == Spec => []CacheIsCurrent
<1>1. ProbeInv => CacheIsCurrent
  BY DEF ProbeInv
<1> QED
  BY <1>1, ProbeInvInit, ProbeInvNext, PTL DEF Spec

\* Every variable keeps its type; no missing row is ever cached as a config.
THEOREM ProbeTyped == Spec => []TypeOK
<1>1. ProbeInv => TypeOK
  BY DEF ProbeInv
<1> QED
  BY <1>1, ProbeInvInit, ProbeInvNext, PTL DEF Spec
=============================================================================
