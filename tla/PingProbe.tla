----------------------------- MODULE PingProbe -----------------------------
(***************************************************************************)
(* What a ping is made with and whether it is made at all: the config cache *)
(* endpoint:config:<id> in Redis, read through by the ping worker, the      *)
(* alert worker and GET /endpoints/:id and invalidated by the handlers of   *)
(* api/src/services/endpointService.ts; and the circuit breaker of          *)
(* workers/ping/index.ts, through which every ping goes.                    *)
(*                                                                         *)
(* One endpoint: its row is a version, and the mode says what credentials   *)
(* each version has.  The breaker is one for all endpoints: a slot of the   *)
(* worker may also take a job of another one, of which all that matters     *)
(* here is what it does to the breaker.                                     *)
(***************************************************************************)
EXTENDS Naturals

CONSTANTS
    Probers,        \* ping jobs under way at once
    Others,         \* API requests and recovery mails under way at once
    MaxVersion,     \* writes of the row (a bound)
    Threshold,      \* ConsecutiveBreaker(3)
    Modes           \* the modes to run under

\* Without credentials, with good ones, with some that do not decrypt, paused
\* or muted.
Auths == {"plain", "sound", "broken", "off"}

ASSUME ProcessAssumption == Probers \cap Others = {}
ASSUME BoundAssumption == MaxVersion \in Nat \ {0} /\ Threshold \in Nat \ {0}
ASSUME ModesAssumption ==
    Modes \subseteq [active : SUBSET (Probers \cup Others),
                     overlap : BOOLEAN, abort : BOOLEAN,
                     auth : [1..MaxVersion -> Auths],
                     elsewhere : SUBSET {"plain", "broken"}]

VARIABLES
    row,        \* version of the row, 0 if there is none
    writes,     \* versions written
    cache,      \* the config under endpoint:config:<id>, or Empty
    proc,       \* proc[p]: what process p is doing
    breaker,    \* "closed", "open", "cooled" (open for five minutes), "halfOpen"
    fails,      \* consecutive failures it counts
    mode        \* who takes part; whether a write may begin while a reader
                \* fills the cache; requests cut short; the credentials of this
                \* endpoint and of others

vars == <<row, writes, cache, proc, breaker, fails, mode>>

Versions == 1..MaxVersion

\* A config is a version of the row, with or without its authValue.
Configs == [version : Versions, auth : Auths \cup {"stripped"}]
Empty == [version |-> 0, auth |-> "plain"]

\* Another endpoint's: it can be decrypted or not.
Foreign == [version : {0}, auth : {"plain", "broken"}]

Idle == [kind |-> "none", pc |-> "idle", config |-> Empty]
Kinds == {"ping", "elsewhere", "mail", "get", "write"}
Pcs == {"get", "load", "fill", "fire", "wire", "trial", "set", "del"}

ConfigOf(v) == [version |-> v, auth |-> mode.auth[v]]

\* What GET selects: everything but authValue.
Safe(c) == [c EXCEPT !.auth = IF @ \in {"sound", "broken"} THEN "stripped" ELSE @]

Init ==
    /\ row = 0
    /\ writes = 0
    /\ cache = Empty
    /\ proc = [p \in Probers \cup Others |-> Idle]
    /\ breaker = "closed"
    /\ fails = 0
    /\ mode \in Modes

---------------------------------------------------------------------------
At(p, pc) == proc[p].pc = pc
Goto(p, pc) == proc' = [proc EXCEPT ![p].pc = pc]
Finish(p) == proc' = [proc EXCEPT ![p] = Idle]
Begin(p, kind, pc) ==
    /\ p \in mode.active
    /\ proc[p] = Idle
    /\ proc' = [proc EXCEPT ![p] = [Idle EXCEPT !.kind = kind, !.pc = pc]]

\* A process has its config: a ping job of a paused or muted endpoint is done,
\* and so are the other readers.
Use(p, c) ==
    proc' = [proc EXCEPT ![p] =
                IF proc[p].kind = "ping" /\ c.auth # "off"
                THEN [kind |-> "ping", pc |-> "fire", config |-> c]
                ELSE Idle]

---------------------------------------------------------------------------
\* The three readers.
BeginPing(p) ==
    /\ p \in Probers
    /\ Begin(p, "ping", "get")
    /\ UNCHANGED <<row, writes, cache, breaker, fails, mode>>

\* A job of another endpoint, which has its config.
BeginElsewhere(p) ==
    /\ p \in Probers \cap mode.active
    /\ proc[p] = Idle
    /\ \E auth \in mode.elsewhere :
          proc' = [proc EXCEPT ![p] = [kind |-> "elsewhere", pc |-> "fire",
                                       config |-> [Empty EXCEPT !.auth = auth]]]
    /\ UNCHANGED <<row, writes, cache, breaker, fails, mode>>

BeginMail(p) ==
    /\ p \in Others
    /\ Begin(p, "mail", "get")
    /\ UNCHANGED <<row, writes, cache, breaker, fails, mode>>

BeginGet(p) ==
    /\ p \in Others
    /\ Begin(p, "get", "get")
    /\ UNCHANGED <<row, writes, cache, breaker, fails, mode>>

CacheGet(p) ==
    /\ At(p, "get")
    /\ \/ cache # Empty /\ Use(p, cache)
       \/ cache = Empty /\ Goto(p, "load")
    /\ UNCHANGED <<row, writes, cache, breaker, fails, mode>>

\* Faulty: a missing row is not told from a config.
LoadBlindly(p) ==
    /\ At(p, "load")
    /\ \/ /\ row = 0
          /\ proc' = [proc EXCEPT ![p].pc = "fill", ![p].config = [Empty EXCEPT !.auth = "off"]]
       \/ row # 0 /\ proc' = [proc EXCEPT ![p].pc = "fill", ![p].config = ConfigOf(row)]
    /\ UNCHANGED <<row, writes, cache, breaker, fails, mode>>

Load(p) ==
    /\ At(p, "load")
    /\ \/ row = 0 /\ Finish(p)
       \/ /\ row # 0
          /\ proc' = [proc EXCEPT ![p].pc = "fill",
                                  ![p].config = IF proc[p].kind = "get"
                                                THEN Safe(ConfigOf(row)) ELSE ConfigOf(row)]
    /\ UNCHANGED <<row, writes, cache, breaker, fails, mode>>

\* SETEX, whatever has happened to the row since.
Fill(p) ==
    /\ At(p, "fill")
    /\ cache' = proc[p].config
    /\ Use(p, proc[p].config)
    /\ UNCHANGED <<row, writes, breaker, fails, mode>>

\* Faulty: every hit renews the entry.
ExpireUnread ==
    /\ cache # Empty
    /\ \A p \in Probers : proc[p] = Idle
    /\ cache' = Empty
    /\ UNCHANGED <<row, writes, proc, breaker, fails, mode>>

\* Its 300 s are over.
Expire ==
    /\ cache # Empty
    /\ cache' = Empty
    /\ UNCHANGED <<row, writes, proc, breaker, fails, mode>>

---------------------------------------------------------------------------
\* createEndpoint: the row, then SETEX with what it returned.
Create(p) ==
    /\ p \in Others
    /\ writes = 0
    /\ row' = 1
    /\ writes' = 1
    /\ Begin(p, "write", "set")
    /\ UNCHANGED <<cache, breaker, fails, mode>>

SetCache(p) ==
    /\ At(p, "set")
    /\ cache' = ConfigOf(1)
    /\ Finish(p)
    /\ UNCHANGED <<row, writes, breaker, fails, mode>>

MayWrite == mode.overlap \/ \A p \in DOMAIN proc : proc[p].pc \notin {"fill", "set"}

\* Faulty: the key is deleted first.
UpdateAfterDel(p) ==
    /\ p \in Others \cap mode.active
    /\ proc[p] = Idle
    /\ MayWrite
    /\ row # 0
    /\ writes < MaxVersion
    /\ writes' = writes + 1
    /\ row' = writes + 1
    /\ UNCHANGED <<cache, proc, breaker, fails, mode>>

\* updateEndpoint, pauseEndpoint, resumeEndpoint: the row, then DEL.
Update(p) ==
    /\ p \in Others
    /\ MayWrite
    /\ row # 0
    /\ writes < MaxVersion
    /\ writes' = writes + 1
    /\ row' = writes + 1
    /\ Begin(p, "write", "del")
    /\ UNCHANGED <<cache, breaker, fails, mode>>

\* deleteEndpoint: the same.
Delete(p) ==
    /\ p \in Others
    /\ MayWrite
    /\ row # 0
    /\ writes' = MaxVersion
    /\ row' = 0
    /\ Begin(p, "write", "del")
    /\ UNCHANGED <<cache, breaker, fails, mode>>

DelCache(p) ==
    /\ At(p, "del")
    /\ cache' = Empty
    /\ Finish(p)
    /\ UNCHANGED <<row, writes, breaker, fails, mode>>

\* A request dies or is rejected on its way, for instance by the queue between
\* the write and the DEL.
Abort(p) ==
    /\ mode.abort
    /\ p \in Others
    /\ proc[p] # Idle
    /\ Finish(p)
    /\ UNCHANGED <<row, writes, cache, breaker, fails, mode>>

---------------------------------------------------------------------------
\* breaker.execute(pingEndpoint).  decrypt throws before anything is awaited;
\* a call that gets past it goes out on the wire.
Broken(p) == proc[p].config.auth = "broken"

\* One more failure; the job fails with it.
Throw(p) ==
    /\ fails' = IF fails < Threshold THEN fails + 1 ELSE fails
    /\ Finish(p)

FireClosed(p) ==
    /\ At(p, "fire")
    /\ breaker = "closed"
    /\ \/ /\ Broken(p)
          /\ Throw(p)
          /\ breaker' = IF fails + 1 >= Threshold THEN "open" ELSE "closed"
       \/ ~Broken(p) /\ Goto(p, "wire") /\ UNCHANGED <<breaker, fails>>
    /\ UNCHANGED <<row, writes, cache, mode>>

\* isBrokenCircuitError: recorded as TIMEOUT without a ping.
FireRejected(p) ==
    /\ At(p, "fire")
    /\ breaker = "open"
    /\ Finish(p)
    /\ UNCHANGED <<row, writes, cache, breaker, fails, mode>>

\* halfOpenAfter: the next call is a trial, the others wait for it.
CoolDown ==
    /\ breaker = "open"
    /\ breaker' = "cooled"
    /\ UNCHANGED <<row, writes, cache, proc, fails, mode>>

FireTrial(p) ==
    /\ At(p, "fire")
    /\ breaker = "cooled"
    /\ \/ Broken(p) /\ Throw(p) /\ breaker' = "open"
       \/ ~Broken(p) /\ Goto(p, "trial") /\ breaker' = "halfOpen" /\ UNCHANGED fails
    /\ UNCHANGED <<row, writes, cache, mode>>

\* Faulty: an endpoint that does not answer makes pingEndpoint throw.
ReturnThrows(p) ==
    /\ proc[p].pc \in {"wire", "trial"}
    /\ \/ fails' = 0 /\ breaker' = IF At(p, "trial") THEN "closed" ELSE breaker
       \/ /\ fails' = IF fails < Threshold THEN fails + 1 ELSE fails
          /\ breaker' = IF At(p, "trial") \/ fails + 1 >= Threshold THEN "open" ELSE breaker
    /\ Finish(p)
    /\ UNCHANGED <<row, writes, cache, mode>>

\* Faulty: the trial never comes back.
ReturnAnswered(p) ==
    /\ At(p, "wire")
    /\ fails' = 0
    /\ Finish(p)
    /\ UNCHANGED <<row, writes, cache, breaker, mode>>

\* pingEndpoint answers within its 10 s, and never throws from here on: UP,
\* DOWN and TIMEOUT are all a success to the breaker.
Return(p) ==
    /\ proc[p].pc \in {"wire", "trial"}
    /\ fails' = 0
    /\ breaker' = IF At(p, "trial") THEN "closed" ELSE breaker
    /\ Finish(p)
    /\ UNCHANGED <<row, writes, cache, mode>>

---------------------------------------------------------------------------
Fire(p) == FireClosed(p) \/ FireRejected(p) \/ FireTrial(p)

Reader(p) == CacheGet(p) \/ Load(p) \/ Fill(p)

Writer(p) == SetCache(p) \/ DelCache(p)

Next ==
    \/ \E p \in Probers : BeginPing(p) \/ BeginElsewhere(p) \/ Fire(p) \/ Return(p)
    \/ \E p \in Others : \/ BeginMail(p) \/ BeginGet(p) \/ Create(p)
                         \/ Update(p) \/ Delete(p) \/ Writer(p) \/ Abort(p)
    \/ \E p \in Probers \cup Others : Reader(p)
    \/ Expire \/ CoolDown

Spec == Init /\ [][Next]_vars

\* Repeat jobs keep coming, every command is answered, keys and the breaker's
\* pause run out; a caller that waited for the trial goes on as soon as it has
\* ended, before a later one can take the next.
Fairness ==
    /\ \A p \in Probers : WF_vars(BeginPing(p)) /\ SF_vars(Fire(p)) /\ WF_vars(Return(p))
    /\ \A p \in Probers \cup Others : WF_vars(Reader(p))
    /\ \A p \in Others : WF_vars(Writer(p))
    /\ WF_vars(Expire) /\ WF_vars(CoolDown)

FairSpec == Spec /\ Fairness
---------------------------------------------------------------------------
\* Every variable has its type; in particular no missing row is ever cached.
TypeOK ==
    /\ row \in 0..MaxVersion /\ writes \in 0..MaxVersion
    /\ cache \in Configs \cup {Empty}
    /\ proc \in [Probers \cup Others ->
                    [kind : Kinds, pc : Pcs, config : Configs \cup Foreign] \cup {Idle}]
    /\ breaker \in {"closed", "open", "cooled", "halfOpen"}
    /\ fails \in 0..Threshold /\ mode \in Modes

Current(c) == c = Empty \/ c.version = row

\* The write-then-delete order of the handlers keeps the cache true to the row
\* once the DEL is done, as long as no request is cut short and no write comes
\* between the read of a row and the SETEX of it.
CacheIsCurrent ==
    ~mode.overlap /\ ~mode.abort /\ (\A p \in Others : ~At(p, "del")) => Current(cache)

\* A config that a write has made stale, by whatever interleaving or failure,
\* is gone in the end and does not come back.
CacheConverges == <>[](Current(cache))

\* Monihel's "auth support (API key, Basic, Bearer)" (README.md:13): the ping
\* of an endpoint with credentials is made with them.
AuthSupport == \A p \in Probers : proc[p].config.auth # "stripped"

\* The pings of an endpoint do not keep the breaker of all of them open for ever:
\* once it is there for good with credentials that can be read, and no other
\* endpoint is pinged with some that cannot, the breaker closes and stays closed.
\* No stale config and no host that is down opens it again.
BreakerRecovers ==
    <>[](/\ row # 0 /\ mode.auth[row] \in {"plain", "sound"}
         /\ \A p \in Probers : ~(proc[p].kind = "elsewhere" /\ Broken(p)))
        => <>[](breaker = "closed")

\* No ping job waits for ever, for a trial or anything else.
ProbesEnd == \A p \in Probers : At(p, "fire") ~> proc[p] = Idle
=============================================================================
