--------------------------- MODULE SessionsProofs ---------------------------
(***************************************************************************)
(* Proof that a family of refresh tokens that was ended, by reuse, logout   *)
(* or logout-all, has no usable token ever again: for any number of         *)
(* browsers, requests and tokens, any overlap and every fault.              *)
(***************************************************************************)
EXTENDS Sessions, TLAPS

---------------------------------------------------------------------------
(* Revoking the live tokens of a family is not enough for the property to  *)
(* stay true: nobody may be about to add one.  A refresh that has passed   *)
(* its check holds a token of a family that is not ended (RequestFits),    *)
(* and every other request that issues starts a family of its own, whose   *)
(* number no one has seen (Seen).                                          *)

ReqShapes == [op : Ops \cup {"none"}, pc : Pcs \cup {"idle"},
              browser : Browsers \cup {NoBrowser}, token : 0..MaxTokens, link : Nat]

TokensTyped ==
    /\ link \in Nat /\ minted \in Nat /\ inbox \subseteq Nat
    /\ row \in [Tokens -> {"none", "live", "revoked"}]
    /\ family \in [Tokens -> 0..MaxTokens]
    /\ jar \in [Browsers -> 0..MaxTokens]
    /\ req \in [Slots -> ReqShapes]
    /\ ended \in [Tokens -> {"open", "loggedOut", "breached"}]

Seen ==
    /\ \A t \in Tokens : row[t] # "none" => family[t] \in Tokens /\ row[family[t]] # "none"
    /\ \A t \in Tokens : row[t] = "none" => ended[t] = "open"
    /\ \A b \in Browsers : jar[b] # None => row[jar[b]] # "none"

RequestFits(r) ==
    /\ r.token # None => row[r.token] # "none"
    /\ r.op = "refresh" => r.token # None
    /\ r.op = "refresh" /\ r.pc \in {"rotate", "issue"} => ended[family[r.token]] = "open"
    /\ r.op \in {"register", "login"} /\ r.pc \notin {"store", "answer"} => r.token = None
    /\ r.pc \in {"issue", "store"} => r.op \in IssuingOps
    /\ r.op \in IssuingOps /\ r.pc \in {"store", "answer"} => r.token # None

SessionInv ==
    /\ TokensTyped
    /\ Seen
    /\ \A s \in Slots : RequestFits(req[s])
    /\ EndedFamilyIsDead

LEMMA SessionInvInit == Init => SessionInv
BY BoundAssumption
DEF Init, SessionInv, TokensTyped, Seen, RequestFits, EndedFamilyIsDead, Idle, ReqShapes,
    Tokens, None, IssuingOps

\* A step of one request that leaves tokens, cookies and history alone.
LEMMA RequestStep ==
    ASSUME SessionInv, NEW s \in Slots, NEW r \in ReqShapes,
           req' = [req EXCEPT ![s] = r], RequestFits(r),
           link' \in Nat, minted' \in Nat, inbox' \subseteq Nat,
           UNCHANGED <<row, family, jar, ended>>
    PROVE  SessionInv'
<1>1. TokensTyped'
  BY DEF SessionInv, TokensTyped
<1>2. Seen' /\ EndedFamilyIsDead'
  BY DEF SessionInv, Seen, EndedFamilyIsDead
<1>3. \A q \in Slots : RequestFits(req[q])'
  BY DEF SessionInv, TokensTyped, RequestFits
<1> QED
  BY <1>1, <1>2, <1>3 DEF SessionInv

\* What a request becomes when it ends, or goes on.
LEMMA IdleFits == Idle \in ReqShapes /\ RequestFits(Idle)
BY BoundAssumption DEF Idle, ReqShapes, RequestFits, None, IssuingOps

LEMMA FinishStep ==
    ASSUME SessionInv, NEW s \in Slots, Finish(s),
           UNCHANGED <<accountVars, row, family, jar, ended>>
    PROVE  SessionInv'
BY IdleFits, RequestStep DEF Finish, accountVars, SessionInv, TokensTyped

LEMMA GotoStep ==
    ASSUME SessionInv, NEW s \in Slots, NEW pc \in Pcs, Goto(s, pc),
           RequestFits([req[s] EXCEPT !.pc = pc]),
           link' \in Nat, minted' \in Nat, inbox' \subseteq Nat,
           UNCHANGED <<row, family, jar, ended>>
    PROVE  SessionInv'
<1>1. [req[s] EXCEPT !.pc = pc] \in ReqShapes
  BY DEF SessionInv, TokensTyped, ReqShapes
<1>2. req' = [req EXCEPT ![s] = [req[s] EXCEPT !.pc = pc]]
  BY DEF Goto
<1> QED
  BY <1>1, <1>2, RequestStep

---------------------------------------------------------------------------
LEMMA BeginKeeps ==
    ASSUME SessionInv, NEW s \in Slots, NEW b \in Browsers, BrowserNext(s, b)
    PROVE  SessionInv'
<1>1. PICK op \in Ops, l \in inbox \cup {None} :
        Begin(s, b, op, l) /\ (op = "refresh" => jar[b] # None)
  BY DEF BrowserNext, BeginRegister, BeginLogin, BeginRefresh, BeginLogout, BeginLogoutAll,
         BeginVerify, BeginResend, Ops
<1> DEFINE r == [op |-> op, pc |-> "lookup", browser |-> b,
                 token |-> IF op \in {"refresh", "logout"} THEN jar[b] ELSE None, link |-> l]
<1>2. r \in ReqShapes
  BY BoundAssumption DEF SessionInv, TokensTyped, ReqShapes, Pcs, None
<1>3. RequestFits(r)
  BY <1>1 DEF SessionInv, Seen, TokensTyped, RequestFits, IssuingOps, None
<1>4. req' = [req EXCEPT ![s] = r] /\ UNCHANGED <<accountVars, row, family, jar, ended>>
  BY <1>1 DEF Begin, tokenVars
<1> HIDE DEF r
<1> QED
  BY <1>2, <1>3, <1>4, RequestStep DEF accountVars, SessionInv, TokensTyped

\* A request that will issue nothing may go anywhere but there; one that starts
\* a family, only there.
LEMMA NextPlaceFits ==
    ASSUME SessionInv, NEW s \in Slots, NEW pc \in Pcs,
           \/ req[s].op \notin IssuingOps /\ pc \notin {"issue", "store"}
           \/ /\ req[s].op \in {"register", "login"} /\ pc \in {"create", "issue"}
              /\ req[s].pc \in {"lookup", "create"}
    PROVE  RequestFits([req[s] EXCEPT !.pc = pc])
<1> DEFINE r == [req[s] EXCEPT !.pc = pc]
<1>1. r.op = req[s].op /\ r.token = req[s].token /\ r.pc = pc
  BY DEF SessionInv, TokensTyped, ReqShapes
<1>2. RequestFits(req[s])
  BY DEF SessionInv
<1> HIDE DEF r
<1>3. RequestFits(r)
  BY <1>1, <1>2 DEF RequestFits, IssuingOps
<1> QED
  BY <1>3 DEF r

LEMMA LinksAreNumbers ==
    ASSUME TokensTyped
    PROVE  /\ StoreLink => link' \in Nat /\ minted' \in Nat
           /\ \A l \in Nat : Mail(l) => inbox' \subseteq Nat
<1>1. minted + 1 \in Nat
  BY DEF TokensTyped
<1>2. StoreLink => link' \in Nat /\ minted' \in Nat
  BY <1>1 DEF StoreLink
<1>3. \A l \in Nat : inbox \cup {l} \subseteq Nat
  BY DEF TokensTyped
<1>4. ASSUME NEW l \in Nat, Mail(l)
      PROVE  inbox' \subseteq Nat
  <2>1. inbox' = inbox \cup {l} \/ inbox' = inbox
    BY <1>4 DEF Mail
  <2> QED
    BY <1>3, <2>1 DEF TokensTyped
<1> QED
  BY <1>2, <1>4

\* Lookups, and what leads to no token.
LEMMA LookupKeeps ==
    ASSUME SessionInv, NEW s \in Slots,
           \/ RegisterLookup(s) \/ RegisterCreate(s) \/ LoginLookup(s)
           \/ VerifyLookup(s) \/ VerifyWrite(s) \/ ResendLookup(s) \/ ResendWrite(s)
           \/ ResendMail(s)
    PROVE  SessionInv'
<1>1. CASE RegisterLookup(s) \/ LoginLookup(s) \/ VerifyLookup(s) \/ ResendLookup(s)
  <2>1. UNCHANGED <<accountVars, row, family, jar, ended>>
    BY <1>1 DEF RegisterLookup, LoginLookup, VerifyLookup, ResendLookup, tokenVars
  <2>2. \/ Finish(s)
        \/ \E pc \in Pcs : Goto(s, pc) /\ RequestFits([req[s] EXCEPT !.pc = pc])
    <3>1. \/ Finish(s)
          \/ \E pc \in Pcs :
                /\ Goto(s, pc)
                /\ \/ req[s].op \notin IssuingOps /\ pc \notin {"issue", "store"}
                   \/ /\ req[s].op \in {"register", "login"} /\ pc \in {"create", "issue"}
                      /\ req[s].pc \in {"lookup", "create"}
      BY <1>1 DEF RegisterLookup, LoginLookup, VerifyLookup, ResendLookup, At, Pcs, IssuingOps
    <3> QED
      BY <3>1, NextPlaceFits
  <2> QED
    BY <2>1, <2>2, FinishStep, GotoStep DEF accountVars, SessionInv, TokensTyped
<1>2. CASE VerifyWrite(s) \/ ResendMail(s)
  <2>1. UNCHANGED <<minted, row, family, jar, ended>> /\ Goto(s, "answer")
    BY <1>2 DEF VerifyWrite, ResendMail, tokenVars
  <2>3. link' \in Nat /\ inbox' \subseteq Nat
    <3>1. CASE VerifyWrite(s)
      BY <3>1 DEF VerifyWrite, SessionInv, TokensTyped, None
    <3>2. CASE ResendMail(s)
      <4>1. req[s].link \in Nat /\ Mail(req[s].link) /\ link' = link
        BY <3>2 DEF ResendMail, SessionInv, TokensTyped, ReqShapes
      <4> QED
        BY <4>1, LinksAreNumbers DEF SessionInv, TokensTyped
    <3> QED
      BY <1>2, <3>1, <3>2
  <2>2. "answer" \in Pcs /\ RequestFits([req[s] EXCEPT !.pc = "answer"])
    BY <1>2, NextPlaceFits DEF VerifyWrite, ResendMail, At, Pcs, IssuingOps
  <2> QED
    BY <2>1, <2>2, <2>3, GotoStep DEF SessionInv, TokensTyped
<1>3. CASE RegisterCreate(s)
  <2>1. UNCHANGED <<row, family, jar, ended>>
    BY <1>3 DEF RegisterCreate, tokenVars
  <2>2. CASE Finish(s) /\ UNCHANGED accountVars
    BY <2>1, <2>2, FinishStep
  <2>3. CASE account = "none" /\ StoreLink /\ Mail(minted + 1) /\ Goto(s, "issue")
    <3>1. link' \in Nat /\ minted' \in Nat /\ inbox' \subseteq Nat
      <4>1. minted + 1 \in Nat
        BY DEF SessionInv, TokensTyped
      <4> QED
        BY <2>3, <4>1, LinksAreNumbers DEF SessionInv
    <3>2. "issue" \in Pcs /\ RequestFits([req[s] EXCEPT !.pc = "issue"])
      BY <1>3, NextPlaceFits DEF RegisterCreate, At, Pcs, IssuingOps
    <3> QED
      BY <2>1, <2>3, <3>1, <3>2, GotoStep
  <2> QED
    BY <1>3, <2>2, <2>3 DEF RegisterCreate, Goto
<1>4. CASE ResendWrite(s)
  <2> DEFINE r == [req[s] EXCEPT !.pc = "mail", !.link = minted + 1]
  <2>1. /\ UNCHANGED <<inbox, row, family, jar, ended>>
        /\ req' = [req EXCEPT ![s] = r]
        /\ link' \in Nat /\ minted' \in Nat
    BY <1>4, LinksAreNumbers DEF ResendWrite, tokenVars, SessionInv
  <2>2. r \in ReqShapes /\ r.op = req[s].op /\ r.token = req[s].token /\ r.pc = "mail"
    <3>1. minted + 1 \in Nat /\ req[s] \in ReqShapes /\ "mail" \in Pcs
      BY DEF SessionInv, TokensTyped, Pcs
    <3> QED
      BY <3>1 DEF ReqShapes
  <2>3. RequestFits(req[s]) /\ req[s].op = "resend"
    BY <1>4 DEF ResendWrite, At, SessionInv
  <2> HIDE DEF r
  <2>4. RequestFits(r)
    BY <2>2, <2>3 DEF RequestFits, IssuingOps
  <2> QED
    BY <2>1, <2>2, <2>4, RequestStep DEF SessionInv, TokensTyped
<1> QED
  BY <1>1, <1>2, <1>3, <1>4

---------------------------------------------------------------------------
\* Families end, and their tokens with them: by a request that issues nothing.
LEMMA FamiliesEnd ==
    ASSUME SessionInv, NEW s \in Slots, NEW F, NEW r \in ReqShapes, NEW how \in {"loggedOut", "breached"},
           \A f \in F : f \in Tokens => row[f] # "none",
           RevokeFamilies(F), EndFamilies(s, F, how),
           req' = [req EXCEPT ![s] = r],
           r.pc \in {"idle", "answer"}, r.op \notin IssuingOps,
           r.token # None => row[r.token] # "none",
           UNCHANGED <<accountVars, family, jar>>
    PROVE  SessionInv'
<1>1. TokensTyped'
  BY DEF SessionInv, TokensTyped, RevokeFamilies, EndFamilies, accountVars
<1>2. \A t \in Tokens : (row[t] = "none" <=> row'[t] = "none") /\ (row'[t] = "live" => row[t] = "live" /\ family[t] \notin F)
  BY DEF SessionInv, TokensTyped, RevokeFamilies
<1>3. \A f \in Tokens : ended'[f] # ended[f] => f \in F /\ ~Rotating(s, f)
  BY DEF EndFamilies, SessionInv, TokensTyped
<1>4. Seen'
  <2>1. \A t \in Tokens : row'[t] # "none" => family'[t] \in Tokens /\ row'[family'[t]] # "none"
    BY <1>2 DEF SessionInv, Seen
  <2>2. \A t \in Tokens : row'[t] = "none" => ended'[t] = "open"
    BY <1>2, <1>3 DEF SessionInv, Seen
  <2>3. \A b \in Browsers : jar'[b] # None => row'[jar'[b]] # "none"
    BY <1>2 DEF SessionInv, Seen, TokensTyped, Tokens, None
  <2> QED
    BY <2>1, <2>2, <2>3 DEF Seen
<1>5. EndedFamilyIsDead'
  BY <1>2, <1>3 DEF SessionInv, Seen, EndedFamilyIsDead
<1>6. ASSUME NEW q \in Slots PROVE RequestFits(req[q])'
  <2>1. \A t \in 0..MaxTokens : t # None => t \in Tokens
    BY BoundAssumption DEF Tokens, None
  <2>2. CASE q = s
    BY <1>2, <2>1, <2>2 DEF RequestFits, SessionInv, TokensTyped, ReqShapes, IssuingOps
  <2>3. CASE q # s
    <3>1. req'[q] = req[q] /\ RequestFits(req[q]) /\ req[q].token \in 0..MaxTokens
      BY <2>3 DEF SessionInv, TokensTyped, ReqShapes
    <3>2. ASSUME req[q].op = "refresh", req[q].pc \in {"rotate", "issue"}
          PROVE  ended'[family[req[q].token]] = "open"
      <4>1. req[q].token \in Tokens /\ ended[family[req[q].token]] = "open"
        BY <2>1, <3>1, <3>2 DEF RequestFits
      <4>2. family[req[q].token] \in Tokens
        BY <3>1, <4>1 DEF RequestFits, SessionInv, Seen, Tokens, None
      <4>3. Rotating(s, family[req[q].token])
        BY <2>3, <3>1, <3>2, <4>1 DEF Rotating, FamilyOf, RequestFits
      <4> QED
        BY <1>3, <4>1, <4>2, <4>3
    <3>3. req[q].token # None => row'[req[q].token] # "none"
      BY <1>2, <2>1, <3>1 DEF RequestFits
    <3> QED
      BY <3>1, <3>2, <3>3 DEF RequestFits
  <2> QED
    BY <2>2, <2>3
<1> QED
  BY <1>1, <1>4, <1>5, <1>6 DEF SessionInv

LEMMA RefreshRevokeKeeps ==
    ASSUME SessionInv, NEW s \in Slots, RefreshRevoke(s)
    PROVE  SessionInv'
<1> DEFINE F == {family[req[s].token]}
<1>1. /\ RevokeFamilies(F) /\ EndFamilies(s, F, "breached") /\ Finish(s)
      /\ UNCHANGED <<accountVars, family, jar>>
  BY DEF RefreshRevoke
<1>2. req[s].token \in Tokens /\ row[req[s].token] # "none"
  BY DEF RefreshRevoke, At, SessionInv, RequestFits, TokensTyped, ReqShapes, Tokens, None
<1>3. \A f \in F : f \in Tokens => row[f] # "none"
  BY <1>2 DEF SessionInv, Seen
<1>4. Idle.pc = "idle" /\ Idle.op \notin IssuingOps /\ Idle.token = None
  BY DEF Idle, IssuingOps
<1> HIDE DEF F
<1> QED
  BY <1>1, <1>3, <1>4, IdleFits, FamiliesEnd DEF Finish

LEMMA LogoutKeeps ==
    ASSUME SessionInv, NEW s \in Slots, Logout(s) \/ LogoutAll(s)
    PROVE  SessionInv'
<1> DEFINE r == [req[s] EXCEPT !.pc = "answer"]
<1>1. PICK F :
        /\ \A f \in F : f \in Tokens => row[f] # "none"
        /\ RevokeFamilies(F) /\ EndFamilies(s, F, "loggedOut")
  <2>1. CASE Logout(s)
    <3> DEFINE G == IF req[s].token = None \/ req[s].token \in expired
                    THEN {} ELSE {family[req[s].token]}
    <3>1. RevokeFamilies(G) /\ EndFamilies(s, G, "loggedOut")
      BY <2>1 DEF Logout
    <3>2. \A f \in G : f \in Tokens => row[f] # "none"
      BY DEF SessionInv, Seen, RequestFits, TokensTyped, ReqShapes, Tokens, None
    <3> QED
      BY <3>1, <3>2
  <2>2. CASE LogoutAll(s)
    <3> DEFINE G == {family[t] : t \in Tokens \ Unused}
    <3>1. \A f \in G : f \in Tokens => row[f] # "none"
      BY DEF SessionInv, Seen, Unused
    <3>2. EndFamilies(s, G, "loggedOut") /\ RevokeFamilies(Tokens)
      BY <2>2 DEF LogoutAll
    <3>3. row' = [t \in Tokens |-> IF row[t] = "live" /\ family[t] \in G THEN "revoked" ELSE row[t]]
      <4>1. \A t \in Tokens : row[t] = "live" => family[t] \in G /\ family[t] \in Tokens
        BY DEF SessionInv, Seen, Unused
      <4> QED
        BY <3>2, <4>1 DEF RevokeFamilies
    <3>4. RevokeFamilies(G)
      BY <3>3 DEF RevokeFamilies
    <3> HIDE DEF G
    <3> QED
      BY <3>1, <3>2, <3>4
  <2> QED
    BY <2>1, <2>2
<1>2. /\ req' = [req EXCEPT ![s] = r] /\ UNCHANGED <<accountVars, family, jar>>
      /\ req[s].op \in {"logout", "logoutAll"}
  BY DEF Logout, LogoutAll, Goto, At
<1>3. r \in ReqShapes /\ r.pc = "answer" /\ r.op \notin IssuingOps
      /\ (r.token # None => row[r.token] # "none")
  BY <1>2 DEF SessionInv, TokensTyped, ReqShapes, RequestFits, Pcs, IssuingOps
<1> HIDE DEF r
<1> QED
  BY <1>1, <1>2, <1>3, FamiliesEnd

---------------------------------------------------------------------------
LEMMA RefreshLookupKeeps ==
    ASSUME SessionInv, NEW s \in Slots, RefreshLookup(s)
    PROVE  SessionInv'
<1>1. UNCHANGED <<accountVars, row, family, jar, ended>>
  BY DEF RefreshLookup, tokenVars
<1>2. req[s].op = "refresh" /\ req[s].token \in Tokens
  BY DEF RefreshLookup, At, SessionInv, RequestFits, TokensTyped, ReqShapes, Tokens, None
<1>3. \/ Finish(s)
      \/ Goto(s, "revoke")
      \/ Goto(s, "rotate") /\ row[req[s].token] = "live"
  BY DEF RefreshLookup
<1>4. CASE Goto(s, "revoke")
  <2>1. RequestFits([req[s] EXCEPT !.pc = "revoke"])
    BY <1>2 DEF SessionInv, RequestFits, TokensTyped, ReqShapes, IssuingOps
  <2> QED
    BY <1>1, <1>4, <2>1, GotoStep DEF Pcs, accountVars, SessionInv, TokensTyped
<1>5. CASE Goto(s, "rotate") /\ row[req[s].token] = "live"
  <2>1. ended[family[req[s].token]] = "open"
    BY <1>2, <1>5 DEF SessionInv, EndedFamilyIsDead
  <2>2. RequestFits([req[s] EXCEPT !.pc = "rotate"])
    BY <1>2, <2>1 DEF SessionInv, RequestFits, TokensTyped, ReqShapes, IssuingOps
  <2> QED
    BY <1>1, <1>5, <2>2, GotoStep DEF Pcs, accountVars, SessionInv, TokensTyped
<1> QED
  BY <1>1, <1>3, <1>4, <1>5, FinishStep

LEMMA RefreshRotateKeeps ==
    ASSUME SessionInv, NEW s \in Slots, RefreshRotate(s)
    PROVE  SessionInv'
<1>1. /\ row' = [row EXCEPT ![req[s].token] = "revoked"]
      /\ req' = [req EXCEPT ![s].pc = "issue"]
      /\ UNCHANGED <<accountVars, family, jar, ended>>
  BY DEF RefreshRotate, Goto
<1>2. /\ req[s].op = "refresh" /\ req[s].pc = "rotate" /\ req[s].token \in Tokens
      /\ row[req[s].token] # "none" /\ ended[family[req[s].token]] = "open"
  BY DEF RefreshRotate, At, SessionInv, RequestFits, TokensTyped, ReqShapes, Tokens, None
<1>3. \A t \in Tokens : (row[t] = "none" <=> row'[t] = "none") /\ (row'[t] = "live" => row[t] = "live")
  BY <1>1, <1>2 DEF SessionInv, TokensTyped
<1>4. TokensTyped'
  BY <1>1, <1>2 DEF SessionInv, TokensTyped, accountVars, ReqShapes, Pcs
<1>5. \A t \in 0..MaxTokens : t # None => t \in Tokens
  BY BoundAssumption DEF Tokens, None
<1>6. Seen'
  BY <1>1, <1>3, <1>5 DEF SessionInv, Seen, TokensTyped
<1>7. EndedFamilyIsDead'
  BY <1>1, <1>3 DEF SessionInv, EndedFamilyIsDead
<1>8. ASSUME NEW q \in Slots PROVE RequestFits(req[q])'
  <2>1. req'[q] = IF q = s THEN [req[s] EXCEPT !.pc = "issue"] ELSE req[q]
    BY <1>1 DEF SessionInv, TokensTyped
  <2>2. req[q].token \in 0..MaxTokens /\ RequestFits(req[q]) /\ req[q] \in ReqShapes
    BY DEF SessionInv, TokensTyped, ReqShapes
  <2>3. req[q].token # None => row'[req[q].token] # "none"
    BY <1>3, <1>5, <2>2 DEF RequestFits
  <2> QED
    BY <1>1, <1>2, <2>1, <2>2, <2>3 DEF RequestFits, ReqShapes, IssuingOps
<1> QED
  BY <1>4, <1>6, <1>7, <1>8 DEF SessionInv

LEMMA IssueCreateKeeps ==
    ASSUME SessionInv, NEW s \in Slots, IssueCreate(s)
    PROVE  SessionInv'
<1>1. PICK t \in Tokens :
        /\ row[t] = "none" /\ req[s].pc = "issue"
        /\ row' = [row EXCEPT ![t] = "live"]
        /\ family' = [family EXCEPT ![t] = IF req[s].token = None THEN t ELSE family[req[s].token]]
        /\ req' = [req EXCEPT ![s].pc = "store", ![s].token = t]
        /\ UNCHANGED <<accountVars, jar, ended>>
  BY DEF IssueCreate, Unused
<1>2. \A u \in 0..MaxTokens : u # None => u \in Tokens
  BY BoundAssumption DEF Tokens, None
<1>3. Tokens \subseteq 0..MaxTokens /\ None \notin Tokens
  BY BoundAssumption DEF Tokens, None
<1>4. /\ req[s].op \in IssuingOps
      /\ req[s].token # None => /\ req[s].op = "refresh"
                                /\ req[s].token \in Tokens
                                /\ row[req[s].token] # "none"
                                /\ ended[family[req[s].token]] = "open"
  BY <1>1, <1>2 DEF SessionInv, RequestFits, TokensTyped, ReqShapes, IssuingOps
<1>5. /\ family'[t] \in Tokens /\ ended[family'[t]] = "open"
      /\ family'[t] = t \/ row[family'[t]] # "none"
  BY <1>1, <1>4 DEF SessionInv, Seen, TokensTyped
<1>6. \A u \in Tokens \ {t} : row'[u] = row[u] /\ family'[u] = family[u]
  BY <1>1 DEF SessionInv, TokensTyped
<1>7. row'[t] = "live"
  BY <1>1 DEF SessionInv, TokensTyped
<1>8. TokensTyped'
  BY <1>1, <1>3, <1>4 DEF SessionInv, TokensTyped, accountVars, ReqShapes, Pcs
<1>9. Seen'
  <2>1. \A u \in Tokens : row[u] # "none" => row'[u] # "none" /\ family'[u] = family[u]
    BY <1>1, <1>6
  <2>2. \A u \in Tokens : row'[u] # "none" => family'[u] \in Tokens /\ row'[family'[u]] # "none"
    <3> SUFFICES ASSUME NEW u \in Tokens, row'[u] # "none"
                 PROVE  family'[u] \in Tokens /\ row'[family'[u]] # "none"
      OBVIOUS
    <3>1. CASE u = t
      BY <3>1, <1>5, <1>7, <2>1
    <3>2. CASE u # t
      BY <3>2, <1>6, <2>1 DEF SessionInv, Seen
    <3> QED
      BY <3>1, <3>2
  <2>3. \A u \in Tokens : row'[u] = "none" => ended'[u] = "open"
    BY <1>1, <1>6, <1>7 DEF SessionInv, Seen
  <2>4. \A b \in Browsers : jar'[b] # None => row'[jar'[b]] # "none"
    BY <1>1, <1>2, <2>1 DEF SessionInv, Seen, TokensTyped
  <2> QED
    BY <2>2, <2>3, <2>4 DEF Seen
<1>10. EndedFamilyIsDead'
  <2> SUFFICES ASSUME NEW u \in Tokens, row'[u] = "live"
               PROVE  ended'[family'[u]] = "open"
    BY DEF EndedFamilyIsDead
  <2>1. CASE u = t
    BY <2>1, <1>1, <1>5
  <2>2. CASE u # t
    BY <2>2, <1>1, <1>6 DEF SessionInv, EndedFamilyIsDead
  <2> QED
    BY <2>1, <2>2
<1>11. ASSUME NEW q \in Slots PROVE RequestFits(req[q])'
  <2>1. CASE q = s
    <3>1. req'[q] = [req[s] EXCEPT !.pc = "store", !.token = t]
      BY <1>1, <2>1 DEF SessionInv, TokensTyped
    <3>2. req'[q].token = t /\ req'[q].pc = "store" /\ req'[q].op = req[s].op
      BY <3>1 DEF SessionInv, TokensTyped, ReqShapes
    <3> QED
      BY <1>3, <1>4, <1>7, <3>2 DEF RequestFits
  <2>2. CASE q # s
    <3>1. req'[q] = req[q] /\ RequestFits(req[q]) /\ req[q].token \in 0..MaxTokens
      BY <1>1, <2>2 DEF SessionInv, TokensTyped, ReqShapes
    <3>2. req[q].token # None => /\ row'[req[q].token] # "none"
                                 /\ family'[req[q].token] = family[req[q].token]
      BY <1>1, <1>2, <1>6, <3>1 DEF RequestFits
    <3> QED
      BY <1>1, <3>1, <3>2 DEF RequestFits
  <2> QED
    BY <2>1, <2>2
<1> QED
  BY <1>8, <1>9, <1>10, <1>11 DEF SessionInv

---------------------------------------------------------------------------
LEMMA IssueStoreKeeps ==
    ASSUME SessionInv, NEW s \in Slots, IssueStore(s)
    PROVE  SessionInv'
<1>1. UNCHANGED <<accountVars, row, family, jar, ended>> /\ Goto(s, "answer") /\ "answer" \in Pcs
  BY DEF IssueStore, tokenVars, Pcs
<1>2. RequestFits([req[s] EXCEPT !.pc = "answer"])
  BY DEF IssueStore, SessionInv, RequestFits, TokensTyped, ReqShapes, IssuingOps
<1> QED
  BY <1>1, <1>2, GotoStep DEF accountVars, SessionInv, TokensTyped

LEMMA AnswerKeeps ==
    ASSUME SessionInv, NEW s \in Slots, Answer(s)
    PROVE  SessionInv'
<1>1. UNCHANGED <<accountVars, row, family, ended>> /\ req' = [req EXCEPT ![s] = Idle]
  BY DEF Answer, Finish, tokenVars
<1>2. \/ jar' = jar
      \/ jar' = [jar EXCEPT ![req[s].browser] = None]
      \/ jar' = [jar EXCEPT ![req[s].browser] = req[s].token]
  BY DEF Answer
<1>3. /\ jar' \in [Browsers -> 0..MaxTokens]
      /\ \A b \in Browsers : jar'[b] # None => row[jar'[b]] # "none"
  BY <1>2, BoundAssumption DEF SessionInv, TokensTyped, Seen, RequestFits, ReqShapes, None
<1>4. TokensTyped'
  BY <1>1, <1>3, IdleFits DEF SessionInv, TokensTyped, accountVars
<1>5. Seen' /\ EndedFamilyIsDead'
  BY <1>1, <1>3 DEF SessionInv, Seen, EndedFamilyIsDead
<1>6. \A q \in Slots : RequestFits(req[q])'
  BY <1>1, IdleFits DEF SessionInv, TokensTyped, RequestFits
<1> QED
  BY <1>4, <1>5, <1>6 DEF SessionInv

LEMMA StutterKeeps ==
    ASSUME SessionInv, (\E t \in Tokens : Expire(t)) \/ UNCHANGED vars
    PROVE  SessionInv'
<1>1. UNCHANGED <<accountVars, row, family, jar, req, ended>>
  BY DEF Expire, vars, tokenVars
<1> QED
  BY <1>1 DEF SessionInv, TokensTyped, Seen, RequestFits, EndedFamilyIsDead, accountVars

LEMMA SessionInvNext == SessionInv /\ [Next]_vars => SessionInv'
<1> SUFFICES ASSUME SessionInv, [Next]_vars
             PROVE  SessionInv'
  OBVIOUS
<1>1. CASE \E s \in Slots, b \in Browsers : BrowserNext(s, b)
  BY <1>1, BeginKeeps
<1>2. CASE \E s \in Slots : ServerNext(s)
  BY <1>2, LookupKeeps, RefreshLookupKeeps, RefreshRevokeKeeps, RefreshRotateKeeps,
     IssueCreateKeeps, IssueStoreKeeps, LogoutKeeps
  DEF ServerNext
<1>3. CASE \E s \in Slots : Answer(s)
  BY <1>3, AnswerKeeps
<1>4. CASE \E s \in Slots : Abort(s)
  BY <1>4, FinishStep DEF Abort, tokenVars
<1>5. CASE (\E t \in Tokens : Expire(t)) \/ UNCHANGED vars
  BY <1>5, StutterKeeps
<1> QED
  BY <1>1, <1>2, <1>3, <1>4, <1>5 DEF Next

\* A family ended by reuse, logout or logout-all ("all sessions in this family
\* have been revoked", authService.ts:290) stays without a usable token.
THEOREM EndedStaysDead == Spec => []EndedFamilyIsDead
<1>1. SessionInv => EndedFamilyIsDead
  BY DEF SessionInv
<1> QED
  BY <1>1, SessionInvInit, SessionInvNext, PTL DEF Spec
=============================================================================
