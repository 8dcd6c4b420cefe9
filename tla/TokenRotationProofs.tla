------------------------ MODULE TokenRotationProofs ------------------------
(***************************************************************************)
(* Proofs about the account and the rotation of its tokens: one usable      *)
(* token per session, a cookie that works until its user logs out, and a    *)
(* verification link that reaches its owner.                                *)
(***************************************************************************)
EXTENDS SessionsProofs, FiniteSetTheorems

---------------------------------------------------------------------------
(* The account and its links.  Links are numbered as they are stored, and   *)
(* the bound on them counts the requests that will still store one.  The    *)
(* link of an unverified account is in a mail that arrived, or in the hands *)
(* of the request that is about to send it.                                 *)

Mints(r) == r.op \in {"register", "resend"} /\ r.pc \in {"lookup", "create", "write"}

AccountTyped ==
    /\ account \in {"none", "unverified", "verified"}
    /\ minted \in Nat /\ minted + Cardinality(WillMint) <= MaxLinks
    /\ link \in 0..minted /\ inbox \subseteq 1..minted
    /\ expired \subseteq Tokens
    /\ req \in [Slots -> Requests \cup {Idle}]
    /\ \A s \in Slots : req[s].link \in 0..minted /\ (req[s].pc = "mail" => req[s].link # None)
    /\ mode \in Modes

LinkUnderWay == \E s \in Slots : req[s].pc = "mail" /\ req[s].link = link

LinkKnown ==
    account = "unverified" =>
        /\ link # None
        /\ Spared({"abort", "mail"}) => link \in inbox \/ LinkUnderWay

AccountInv == AccountTyped /\ LinkKnown

LEMMA MintCounts ==
    ASSUME NEW s \in Slots
    PROVE  /\ IsFiniteSet(WillMint) /\ Cardinality(WillMint) \in Nat
           /\ s \in WillMint <=> Mints(req[s])
<1>1. IsFiniteSet(WillMint)
  BY SlotsAssumption, FS_Subset DEF WillMint
<1> QED
  BY <1>1, FS_CardinalityType DEF WillMint, Mints

LEMMA AccountInvInit == Init => AccountInv
<1> SUFFICES ASSUME Init PROVE AccountInv
  OBVIOUS
<1>1. \A s \in Slots : req[s] = Idle
  BY DEF Init
<1>2. WillMint = {}
  BY <1>1 DEF WillMint, Idle
<1>3. Cardinality(WillMint) = 0
  BY <1>2, FS_EmptySet
<1> QED
  BY <1>1, <1>3, BoundAssumption DEF Init, AccountInv, AccountTyped, LinkKnown, Idle, None

\* A request goes on, or ends, and stores no link.
LEMMA AccountStep ==
    ASSUME AccountInv, NEW s \in Slots, NEW r \in Requests \cup {Idle},
           req' = [req EXCEPT ![s] = r],
           UNCHANGED <<minted, mode>>, link' \in 0..minted,
           account' \in {"none", "unverified", "verified"},
           account' = "unverified" => account = "unverified" /\ link' = link,
           inbox \subseteq inbox', inbox' \subseteq 1..minted,
           expired' \subseteq Tokens,
           r.link \in 0..minted, r.pc # "mail",
           req[s].pc = "mail" /\ Spared({"abort", "mail"}) => req[s].link \in inbox',
           Mints(r) => \/ Mints(req[s])
                       \/ minted + Cardinality(WillMint) < MaxLinks
    PROVE  AccountInv'
<1>1. \A q \in Slots : req'[q] = IF q = s THEN r ELSE req[q]
  BY DEF AccountInv, AccountTyped
<1>2. IsFiniteSet(WillMint) /\ Cardinality(WillMint) \in Nat
  BY MintCounts
<1>3. minted + Cardinality(WillMint') <= MaxLinks
  <2>1. WillMint' \subseteq WillMint \cup {s} /\ (s \in WillMint' <=> Mints(r))
    BY <1>1 DEF WillMint, Mints
  <2>2. CASE WillMint' \subseteq WillMint
    <3>1. Cardinality(WillMint') \in Nat /\ Cardinality(WillMint') <= Cardinality(WillMint)
      BY <1>2, <2>2, FS_Subset, FS_CardinalityType
    <3> QED
      BY <1>2, <3>1, BoundAssumption DEF AccountInv, AccountTyped
  <2>3. CASE ~(WillMint' \subseteq WillMint)
    <3>1. s \notin WillMint /\ Mints(r)
      BY <2>1, <2>3
    <3>2. minted + Cardinality(WillMint) < MaxLinks
      BY <3>1, MintCounts
    <3>3. /\ IsFiniteSet(WillMint \cup {s})
          /\ Cardinality(WillMint \cup {s}) = Cardinality(WillMint) + 1
      BY <1>2, <3>1, FS_AddElement
    <3>4. Cardinality(WillMint') \in Nat /\ Cardinality(WillMint') <= Cardinality(WillMint) + 1
      BY <1>2, <2>1, <3>3, FS_Subset, FS_CardinalityType
    <3> QED
      BY <1>2, <3>2, <3>4, BoundAssumption DEF AccountInv, AccountTyped
  <2> QED
    BY <2>2, <2>3
<1>4. AccountTyped'
  BY <1>1, <1>3 DEF AccountInv, AccountTyped
<1>5. LinkKnown'
  <2> SUFFICES ASSUME account' = "unverified"
               PROVE  /\ link # None
                      /\ Spared({"abort", "mail"}) => link \in inbox' \/ LinkUnderWay'
    BY DEF LinkKnown, Spared
  <2>1. link # None /\ (Spared({"abort", "mail"}) => link \in inbox \/ LinkUnderWay)
    BY DEF AccountInv, LinkKnown
  <2>2. ASSUME LinkUnderWay, Spared({"abort", "mail"}) PROVE link \in inbox' \/ LinkUnderWay'
    <3>1. PICK q \in Slots : req[q].pc = "mail" /\ req[q].link = link
      BY <2>2 DEF LinkUnderWay
    <3> QED
      BY <1>1, <2>2, <3>1 DEF LinkUnderWay
  <2> QED
    BY <2>1, <2>2
<1> QED
  BY <1>4, <1>5 DEF AccountInv

\* A link is stored by a request that was counted; it is mailed, or about to be.
LEMMA StoreStep ==
    ASSUME AccountInv, NEW s \in Slots, NEW r \in Requests, req' = [req EXCEPT ![s] = r],
           Mints(req[s]), ~Mints(r), StoreLink, UNCHANGED <<expired, mode>>,
           account' \in {"none", "unverified", "verified"},
           inbox' \subseteq inbox \cup {minted + 1},
           r.link \in 0..minted + 1, r.pc = "mail" => r.link # None,
           Spared({"abort", "mail"}) => minted + 1 \in inbox' \/ (r.pc = "mail" /\ r.link = minted + 1)
    PROVE  AccountInv'
<1>1. \A q \in Slots : req'[q] = IF q = s THEN r ELSE req[q]
  BY DEF AccountInv, AccountTyped
<1>2. IsFiniteSet(WillMint) /\ Cardinality(WillMint) \in Nat /\ s \in WillMint
  BY MintCounts
<1>3. WillMint' = WillMint \ {s}
  BY <1>1 DEF WillMint, Mints
<1>4. Cardinality(WillMint') = Cardinality(WillMint) - 1
  BY <1>2, <1>3, FS_RemoveElement
<1>5. minted' = minted + 1 /\ link' = minted + 1 /\ minted \in Nat /\ minted' \in Nat
  BY DEF StoreLink, AccountInv, AccountTyped
<1>6. minted' + Cardinality(WillMint') <= MaxLinks
  BY <1>2, <1>4, <1>5, BoundAssumption DEF AccountInv, AccountTyped
<1>7. AccountTyped'
  <2>1. inbox' \subseteq 1..minted' /\ link' \in 0..minted'
    BY <1>5 DEF AccountInv, AccountTyped
  <2>2. \A q \in Slots : req'[q].link \in 0..minted' /\ (req'[q].pc = "mail" => req'[q].link # None)
    BY <1>1, <1>5 DEF AccountInv, AccountTyped
  <2> QED
    BY <1>5, <1>6, <2>1, <2>2 DEF AccountInv, AccountTyped
<1>8. LinkKnown'
  BY <1>1, <1>5 DEF LinkKnown, LinkUnderWay, Spared, None
<1> QED
  BY <1>7, <1>8 DEF AccountInv

LEMMA BusyRequest ==
    ASSUME AccountInv, NEW s \in Slots, req[s].pc \in Pcs
    PROVE  req[s] \in Requests /\ req[s] # Idle
BY DEF AccountInv, AccountTyped, Idle, Pcs

LEMMA AccountGoto ==
    ASSUME AccountInv, NEW s \in Slots, req[s].pc \in Pcs, req[s].pc # "mail",
           NEW pc \in Pcs, pc # "mail", Goto(s, pc), UNCHANGED <<minted, inbox, expired, mode>>,
           \/ UNCHANGED <<account, link>>
           \/ account' = "verified" /\ link' = None,
           \/ req[s].op \in {"register", "resend"} => req[s].pc \in {"lookup", "create", "write"}
           \/ pc \notin {"lookup", "create", "write"}
    PROVE  AccountInv'
<1> DEFINE next == [req[s] EXCEPT !.pc = pc]
<1>1. next \in Requests /\ next.op = req[s].op /\ next.pc = pc /\ next.link = req[s].link
  BY BusyRequest DEF Requests
<1>2. req' = [req EXCEPT ![s] = next]
  BY DEF Goto
<1> HIDE DEF next
<1>3. Mints(next) => Mints(req[s])
  BY <1>1 DEF Mints
<1>4. link' \in 0..minted /\ next.link \in 0..minted
  BY <1>1 DEF AccountInv, AccountTyped, None
<1> QED
  BY <1>1, <1>2, <1>3, <1>4, AccountStep DEF AccountInv, AccountTyped

LEMMA AccountFinish ==
    ASSUME AccountInv, NEW s \in Slots, Finish(s), req[s].pc # "mail" \/ "abort" \in mode.faults,
           UNCHANGED <<account, link, minted, inbox, expired, mode>>
    PROVE  AccountInv'
<1>1. Idle.pc = "idle" /\ Idle.link \in 0..minted /\ ~Mints(Idle)
  BY DEF Idle, Mints, None, AccountInv, AccountTyped
<1>2. req' = [req EXCEPT ![s] = Idle]
  BY DEF Finish
<1>3. req[s].pc = "mail" => ~Spared({"abort", "mail"})
  BY DEF Spared
<1> QED
  BY <1>1, <1>2, <1>3, AccountStep DEF AccountInv, AccountTyped

LEMMA BeginAccount ==
    ASSUME AccountInv, SessionInv, NEW s \in Slots, NEW b \in Browsers, BrowserNext(s, b)
    PROVE  AccountInv'
<1>1. PICK op \in Ops, l \in inbox \cup {None} : Begin(s, b, op, l)
  BY DEF BrowserNext, BeginRegister, BeginLogin, BeginRefresh, BeginLogout, BeginLogoutAll,
         BeginVerify, BeginResend, Ops
<1>2. l \in 0..minted /\ l \in 0..MaxLinks
  BY BoundAssumption, FS_CardinalityType, MintCounts DEF AccountInv, AccountTyped, None
<1> DEFINE r == [op |-> op, pc |-> "lookup", browser |-> b,
                 token |-> IF op \in {"refresh", "logout"} THEN jar[b] ELSE None, link |-> l]
<1>3. r \in Requests /\ r.op = op /\ r.pc = "lookup" /\ r.link = l
  BY <1>2, BoundAssumption DEF Requests, Pcs, None, SessionInv, TokensTyped
<1>4. /\ req' = [req EXCEPT ![s] = r] /\ req[s] = Idle
      /\ UNCHANGED <<account, link, minted, inbox, expired, mode>>
      /\ op \in {"register", "resend"} => minted + Cardinality(WillMint) < MaxLinks
  BY <1>1 DEF Begin, accountVars, tokenVars
<1> HIDE DEF r
<1>5. req[s].pc # "mail"
  BY <1>4 DEF Idle
<1> QED
  BY <1>2, <1>3, <1>4, <1>5, AccountStep DEF AccountInv, AccountTyped, Mints

LEMMA ServerAccount ==
    ASSUME AccountInv, SessionInv, NEW s \in Slots, ServerNext(s) \/ Answer(s)
    PROVE  AccountInv'
<1>1. CASE RegisterLookup(s) \/ LoginLookup(s) \/ RefreshLookup(s) \/ VerifyLookup(s) \/ ResendLookup(s)
  <2>1. req[s].pc = "lookup" /\ UNCHANGED <<account, link, minted, inbox, expired, mode>>
    BY <1>1 DEF RegisterLookup, LoginLookup, RefreshLookup, VerifyLookup, ResendLookup, At,
       accountVars, tokenVars
  <2>2. Finish(s) \/ \E pc \in Pcs \ {"mail"} : Goto(s, pc)
    BY <1>1 DEF RegisterLookup, LoginLookup, RefreshLookup, VerifyLookup, ResendLookup, Pcs
  <2> QED
    BY <2>1, <2>2, AccountGoto, AccountFinish DEF Pcs
<1>2. CASE RefreshRotate(s) \/ IssueStore(s) \/ Logout(s) \/ LogoutAll(s)
  <2>1. req[s].pc \in {"rotate", "store", "lookup"} /\ UNCHANGED <<account, link, minted, inbox, expired, mode>>
    BY <1>2 DEF RefreshRotate, IssueStore, Logout, LogoutAll, At, accountVars, tokenVars
  <2>2. Goto(s, "issue") \/ Goto(s, "answer")
    BY <1>2 DEF RefreshRotate, IssueStore, Logout, LogoutAll
  <2> QED
    BY <2>1, <2>2, AccountGoto DEF Pcs
<1>3. CASE RefreshRevoke(s) \/ Answer(s)
  <2>1. Finish(s) /\ req[s].pc # "mail" /\ UNCHANGED <<account, link, minted, inbox, expired, mode>>
    BY <1>3 DEF RefreshRevoke, Answer, At, accountVars, tokenVars
  <2> QED
    BY <2>1, AccountFinish
<1>4. CASE VerifyWrite(s)
  <2>1. /\ req[s].pc = "write" /\ Goto(s, "answer") /\ UNCHANGED <<minted, inbox, expired, mode>>
        /\ account' = "verified" /\ link' = None
    BY <1>4 DEF VerifyWrite, At, tokenVars
  <2> QED
    BY <2>1, AccountGoto DEF Pcs
<1>5. CASE IssueCreate(s)
  <2>1. PICK t \in Tokens : req' = [req EXCEPT ![s].pc = "store", ![s].token = t]
    BY <1>5 DEF IssueCreate, Unused
  <2> DEFINE next == [req[s] EXCEPT !.pc = "store", !.token = t]
  <2>2. req[s].pc = "issue" /\ UNCHANGED <<account, link, minted, inbox, expired, mode>>
    BY <1>5 DEF IssueCreate, accountVars
  <2>3. next \in Requests /\ next.pc = "store" /\ next.link = req[s].link
    <3>1. t \in 0..MaxTokens /\ req[s] \in Requests
      BY <2>2, BusyRequest, BoundAssumption DEF Tokens, Pcs
    <3> QED
      BY <3>1 DEF Requests, Pcs
  <2>4. req' = [req EXCEPT ![s] = next]
    BY <2>1
  <2> HIDE DEF next
  <2> QED
    BY <2>2, <2>3, <2>4, AccountStep DEF AccountInv, AccountTyped, Mints
<1>6. CASE RegisterCreate(s)
  <2>1. At(s, "register", "create") /\ UNCHANGED <<expired, mode>>
    BY <1>6 DEF RegisterCreate, tokenVars
  <2>2. CASE Finish(s) /\ UNCHANGED accountVars
    BY <2>1, <2>2, AccountFinish DEF At, accountVars
  <2>3. CASE account = "none" /\ account' = "unverified" /\ StoreLink /\ Mail(minted + 1) /\ Goto(s, "issue")
    <3> DEFINE next == [req[s] EXCEPT !.pc = "issue"]
    <3>1. next \in Requests /\ next.pc = "issue" /\ next.link = req[s].link
      BY <2>1, BusyRequest DEF Requests, Pcs, At
    <3>2. req' = [req EXCEPT ![s] = next]
      BY <2>3 DEF Goto
    <3> HIDE DEF next
    <3>3. Mints(req[s]) /\ ~Mints(next)
      BY <2>1, <3>1 DEF Mints, At
    <3>4. inbox' \subseteq inbox \cup {minted + 1} /\ (Spared({"abort", "mail"}) => minted + 1 \in inbox')
      BY <2>3 DEF Mail, Spared
    <3>5. next.link \in 0..minted + 1
      BY <3>1 DEF AccountInv, AccountTyped
    <3> QED
      BY <2>1, <2>3, <3>1, <3>2, <3>3, <3>4, <3>5, StoreStep
  <2> QED
    BY <1>6, <2>2, <2>3 DEF RegisterCreate, Goto
<1>7. CASE ResendWrite(s)
  <2> DEFINE next == [req[s] EXCEPT !.pc = "mail", !.link = minted + 1]
  <2>1. /\ At(s, "resend", "write") /\ StoreLink /\ req' = [req EXCEPT ![s] = next]
        /\ UNCHANGED <<account, inbox, expired, mode>>
    BY <1>7 DEF ResendWrite, tokenVars
  <2>2. Mints(req[s])
    BY <2>1 DEF Mints, At
  <2>3. minted + 1 \in 0..MaxLinks
    <3>1. s \in WillMint /\ IsFiniteSet(WillMint) /\ Cardinality(WillMint) \in Nat
      BY <2>2, MintCounts
    <3>2. Cardinality(WillMint) # 0
      BY <3>1, FS_EmptySet
    <3> QED
      BY <3>1, <3>2, BoundAssumption DEF AccountInv, AccountTyped
  <2>4. next \in Requests /\ next.pc = "mail" /\ next.link = minted + 1
    BY <2>1, <2>3, BusyRequest DEF Requests, Pcs, At
  <2> HIDE DEF next
  <2>5. ~Mints(next) /\ next.link \in 0..minted + 1 /\ next.link # None
    BY <2>4 DEF Mints, AccountInv, AccountTyped, None
  <2> QED
    BY <2>1, <2>2, <2>4, <2>5, StoreStep DEF AccountInv, AccountTyped
<1>8. CASE ResendMail(s)
  <2> DEFINE next == [req[s] EXCEPT !.pc = "answer"]
  <2>1. /\ At(s, "resend", "mail") /\ Mail(req[s].link) /\ req' = [req EXCEPT ![s] = next]
        /\ UNCHANGED <<account, link, minted, expired, mode>>
    BY <1>8 DEF ResendMail, Goto, tokenVars
  <2>2. next \in Requests /\ next.pc = "answer" /\ next.link = req[s].link
    BY <2>1, BusyRequest DEF Requests, Pcs, At
  <2> HIDE DEF next
  <2>3. /\ inbox \subseteq inbox' /\ inbox' \subseteq inbox \cup {req[s].link}
        /\ Spared({"abort", "mail"}) => req[s].link \in inbox'
    BY <2>1 DEF Mail, Spared
  <2>4. req[s].link \in 1..minted /\ inbox' \subseteq 1..minted
    BY <2>1, <2>3 DEF AccountInv, AccountTyped, At, None
  <2> QED
    BY <2>1, <2>2, <2>3, <2>4, AccountStep DEF AccountInv, AccountTyped, Mints
<1> QED
  BY <1>1, <1>2, <1>3, <1>4, <1>5, <1>6, <1>7, <1>8 DEF ServerNext

LEMMA AccountInvNext == AccountInv /\ SessionInv /\ [Next]_vars => AccountInv'
<1> SUFFICES ASSUME AccountInv, SessionInv, [Next]_vars PROVE AccountInv'
  OBVIOUS
<1>1. ASSUME NEW s \in Slots, Abort(s) PROVE AccountInv'
  BY <1>1, AccountFinish DEF Abort, accountVars, tokenVars
<1>2. CASE (\E t \in Tokens : Expire(t)) \/ UNCHANGED vars
  <2>1. expired' \subseteq Tokens
    BY <1>2 DEF Expire, vars, tokenVars, AccountInv, AccountTyped
  <2>2. UNCHANGED <<account, link, minted, inbox, req, mode>>
    BY <1>2 DEF Expire, vars, accountVars
  <2> QED
    BY <2>1, <2>2 DEF AccountInv, AccountTyped, LinkKnown, LinkUnderWay, WillMint, Spared
<1> QED
  BY <1>1, <1>2, BeginAccount, ServerAccount DEF Next

LEMMA SessionInvHolds == Spec => []SessionInv
BY SessionInvInit, SessionInvNext, PTL DEF Spec

LEMMA AccountInvHolds == Spec => []AccountInv
<1>1. Init => AccountInv
  BY AccountInvInit
<1>2. AccountInv /\ SessionInv /\ [Next]_vars => AccountInv'
  BY AccountInvNext
<1> QED
  BY <1>1, <1>2, SessionInvHolds, PTL DEF Spec

\* Accounts, links, tokens, cookies and requests keep their types, and no more
\* links are stored than the bound on requests allows.
THEOREM SessionsTyped == Spec => []TypeOK
<1>1. SessionInv /\ AccountInv => TypeOK
  <2> SUFFICES ASSUME SessionInv, AccountInv PROVE TypeOK
    OBVIOUS
  <2>1. minted \in 0..MaxLinks
    BY FS_CardinalityType, SlotsAssumption, FS_Subset, BoundAssumption
    DEF AccountInv, AccountTyped, WillMint
  <2>2. link \in 0..MaxLinks /\ inbox \subseteq Links
    BY <2>1, BoundAssumption DEF AccountInv, AccountTyped, Links
  <2> QED
    BY <2>1, <2>2 DEF AccountInv, AccountTyped, SessionInv, TokensTyped, TypeOK
<1> QED
  BY <1>1, SessionInvHolds, AccountInvHolds, PTL

\* An account that waits for its verification has a link that works, and the
\* user has been sent it when mails arrive: registrations, resends and clicks
\* of any number of requests may interleave, each resend replacing the link.
THEOREM OwnerGetsLink == Spec => []LinkReachesOwner
<1>1. AccountInv => LinkReachesOwner
  BY DEF AccountInv, LinkKnown, LinkUnderWay, LinkReachesOwner
<1> QED
  BY <1>1, AccountInvHolds, PTL

---------------------------------------------------------------------------
(* The rotation.  When a browser sends one request at a time, no two of     *)
(* them carry tokens of one family: the one in the cookie, or the one a     *)
(* request is answering with.  So a refresh past its check is alone with    *)
(* its family, holds the only usable token of it while it is to revoke it,  *)
(* and finds none left when it issues the next.                             *)

Carries(b, t) ==
    \/ t = jar[b]
    \/ \E s \in Slots : req[s].browser = b /\ req[s].op \in IssuingOps /\ req[s].token = t

OneTabEach ==
    \A s, q \in Slots :
        req[s] # Idle => req[s].browser \in Browsers /\ (req[q].browser = req[s].browser => s = q)

OneBrowserPerFamily ==
    \A b, c \in Browsers, t, u \in Tokens :
        Carries(b, t) /\ Carries(c, u) /\ family[t] = family[u] => b = c

RotatesAlone(r) ==
    /\ r.op = "refresh" /\ r.pc = "rotate" =>
          \A u \in Tokens : row[u] = "live" /\ family[u] = family[r.token] => u = r.token
    /\ r.op = "refresh" /\ r.pc = "issue" =>
          \A u \in Tokens : row[u] = "live" => family[u] # family[r.token]

RotationInv ==
    ~mode.overlap =>
        /\ OneTabEach
        /\ OneBrowserPerFamily
        /\ \A s \in Slots : RotatesAlone(req[s])
        /\ OneLivePerFamily

LEMMA TokenFacts ==
    /\ \A t \in 0..MaxTokens : t # None => t \in Tokens
    /\ Tokens \subseteq 0..MaxTokens /\ None \notin Tokens
    /\ Idle.op = "none" /\ Idle.pc = "idle" /\ Idle.browser = NoBrowser /\ Idle.token = None
    /\ Idle.op \notin IssuingOps
    /\ "idle" \notin Pcs
BY BoundAssumption DEF Tokens, None, Idle, IssuingOps, Pcs

LEMMA RequestFacts ==
    ASSUME SessionInv, NEW s \in Slots
    PROVE  /\ req[s] \in ReqShapes /\ req[s].token \in 0..MaxTokens /\ RequestFits(req[s])
           /\ req[s].token # None => req[s].token \in Tokens
           /\ req[s].op = "refresh" => req[s].token \in Tokens
BY TokenFacts DEF SessionInv, TokensTyped, ReqShapes, RequestFits

LEMMA GotoIs ==
    ASSUME SessionInv, NEW s \in Slots, NEW pc, Goto(s, pc)
    PROVE  \E r : /\ req' = [req EXCEPT ![s] = r] /\ r.pc = pc
                  /\ r.browser = req[s].browser /\ r.op = req[s].op /\ r.token = req[s].token
<1> DEFINE r == [req[s] EXCEPT !.pc = pc]
<1>1. r.pc = pc /\ r.browser = req[s].browser /\ r.op = req[s].op /\ r.token = req[s].token
  BY DEF SessionInv, TokensTyped, ReqShapes
<1>2. req' = [req EXCEPT ![s] = r]
  BY DEF Goto
<1> HIDE DEF r
<1> QED
  BY <1>1, <1>2

\* What a browser carries has been issued, and so has the family of it.
LEMMA CarriedIsSeen ==
    ASSUME SessionInv, NEW b \in Browsers, NEW t \in Tokens, Carries(b, t)
    PROVE  row[t] # "none" /\ family[t] \in Tokens /\ row[family[t]] # "none"
BY TokenFacts, RequestFacts DEF Carries, SessionInv, Seen, RequestFits

LEMMA RotationInvInit == Init => RotationInv
BY DEF Init, RotationInv, OneTabEach, OneBrowserPerFamily, RotatesAlone, OneLivePerFamily,
       Carries, Idle, IssuingOps, Tokens, None

\* A step of one request that issues nothing.
LEMMA RotationStep ==
    ASSUME SessionInv, RotationInv, NEW s \in Slots, NEW r, req' = [req EXCEPT ![s] = r],
           UNCHANGED <<jar, family, mode>>,
           \A t \in Tokens : row'[t] = "live" => row[t] = "live",
           \/ r = Idle
           \/ /\ req[s] # Idle
              /\ r.browser = req[s].browser /\ r.op = req[s].op /\ r.token = req[s].token,
           ~mode.overlap => RotatesAlone(r)'
    PROVE  RotationInv'
<1> SUFFICES ASSUME ~mode.overlap
             PROVE  OneTabEach' /\ OneBrowserPerFamily' /\ (\A q \in Slots : RotatesAlone(req[q])')
                    /\ OneLivePerFamily'
  BY DEF RotationInv
<1>1. \A q \in Slots : req'[q] = IF q = s THEN r ELSE req[q]
  BY DEF SessionInv, TokensTyped
<1>2. OneTabEach'
  BY <1>1, TokenFacts, BrowserAssumption DEF RotationInv, OneTabEach
<1>3. ASSUME NEW b \in Browsers, NEW t \in Tokens, Carries(b, t)' PROVE Carries(b, t)
  BY <1>1, <1>3, TokenFacts DEF Carries
<1>4. OneBrowserPerFamily'
  BY <1>3 DEF RotationInv, OneBrowserPerFamily
<1>5. ASSUME NEW q \in Slots PROVE RotatesAlone(req[q])'
  <2>1. CASE q = s
    BY <1>1, <2>1 DEF RotatesAlone
  <2>2. CASE q # s
    <3>1. req'[q] = req[q] /\ RotatesAlone(req[q])
      BY <1>1, <2>2 DEF RotationInv
    <3> QED
      BY <3>1 DEF RotatesAlone
  <2> QED
    BY <2>1, <2>2
<1>6. OneLivePerFamily'
  BY DEF RotationInv, OneLivePerFamily
<1> QED
  BY <1>2, <1>4, <1>5, <1>6

LEMMA BeginRotation ==
    ASSUME SessionInv, RotationInv, NEW s \in Slots, NEW b \in Browsers, BrowserNext(s, b)
    PROVE  RotationInv'
<1>1. PICK op \in Ops, l \in inbox \cup {None} : Begin(s, b, op, l)
  BY DEF BrowserNext, BeginRegister, BeginLogin, BeginRefresh, BeginLogout, BeginLogoutAll,
         BeginVerify, BeginResend, Ops
<1>2. PICK r : /\ req' = [req EXCEPT ![s] = r]
               /\ r.op = op /\ r.pc = "lookup" /\ r.browser = b
               /\ r.token = IF op \in {"refresh", "logout"} THEN jar[b] ELSE None
  <2> DEFINE new == [op |-> op, pc |-> "lookup", browser |-> b,
                     token |-> IF op \in {"refresh", "logout"} THEN jar[b] ELSE None, link |-> l]
  <2>1. /\ new.op = op /\ new.pc = "lookup" /\ new.browser = b
        /\ new.token = IF op \in {"refresh", "logout"} THEN jar[b] ELSE None
    OBVIOUS
  <2>2. req' = [req EXCEPT ![s] = new]
    BY <1>1 DEF Begin
  <2> HIDE DEF new
  <2> QED
    BY <2>1, <2>2
<1>3. /\ req[s] = Idle /\ (mode.overlap \/ \A q \in Slots : req[q].browser # b)
      /\ UNCHANGED <<row, family, jar, mode>>
  BY <1>1 DEF Begin, tokenVars
<1> SUFFICES ASSUME ~mode.overlap
             PROVE  OneTabEach' /\ OneBrowserPerFamily' /\ (\A q \in Slots : RotatesAlone(req[q])')
                    /\ OneLivePerFamily'
  BY <1>3 DEF RotationInv
<1>4. \A q \in Slots : req'[q] = IF q = s THEN r ELSE req[q]
  BY <1>2 DEF SessionInv, TokensTyped
<1>5. OneTabEach'
  BY <1>2, <1>3, <1>4 DEF RotationInv, OneTabEach
<1>6. ASSUME NEW c \in Browsers, NEW t \in Tokens, Carries(c, t)' PROVE Carries(c, t)
  BY <1>2, <1>3, <1>4, <1>6, TokenFacts DEF Carries
<1>7. OneBrowserPerFamily'
  BY <1>3, <1>6 DEF RotationInv, OneBrowserPerFamily
<1>8. \A q \in Slots : RotatesAlone(req[q])'
  <2> SUFFICES ASSUME NEW q \in Slots PROVE RotatesAlone(req[q])'
    OBVIOUS
  <2>1. CASE q = s
    BY <1>2, <1>4, <2>1 DEF RotatesAlone
  <2>2. CASE q # s
    <3>1. req'[q] = req[q] /\ RotatesAlone(req[q])
      BY <1>4, <2>2 DEF RotationInv
    <3> QED
      BY <1>3, <3>1 DEF RotatesAlone
  <2> QED
    BY <2>1, <2>2
<1>9. OneLivePerFamily'
  BY <1>3 DEF RotationInv, OneLivePerFamily
<1> QED
  BY <1>5, <1>7, <1>8, <1>9

LEMMA AnswerRotation ==
    ASSUME SessionInv, RotationInv, NEW s \in Slots, Answer(s)
    PROVE  RotationInv'
<1>1. /\ req' = [req EXCEPT ![s] = Idle] /\ UNCHANGED <<row, family, mode>>
      /\ req[s].pc = "answer" /\ req[s] # Idle
  BY TokenFacts DEF Answer, Finish, tokenVars
<1>2. \/ jar' = jar
      \/ jar' = [jar EXCEPT ![req[s].browser] = None]
      \/ req[s].op \in IssuingOps /\ jar' = [jar EXCEPT ![req[s].browser] = req[s].token]
  BY DEF Answer
<1> SUFFICES ASSUME ~mode.overlap
             PROVE  OneTabEach' /\ OneBrowserPerFamily' /\ (\A q \in Slots : RotatesAlone(req[q])')
                    /\ OneLivePerFamily'
  BY <1>1 DEF RotationInv
<1>3. \A q \in Slots : req'[q] = IF q = s THEN Idle ELSE req[q]
  BY <1>1 DEF SessionInv, TokensTyped
<1>4. OneTabEach'
  BY <1>3, TokenFacts, BrowserAssumption DEF RotationInv, OneTabEach
<1>5. ASSUME NEW b \in Browsers, NEW t \in Tokens, Carries(b, t)' PROVE Carries(b, t)
  <2>1. jar \in [Browsers -> 0..MaxTokens]
    BY DEF SessionInv, TokensTyped
  <2>2. t = jar'[b] => t = jar[b] \/ (req[s].op \in IssuingOps /\ req[s].browser = b /\ req[s].token = t)
    BY <1>2, <2>1, TokenFacts
  <2> QED
    BY <1>3, <1>5, <2>2, TokenFacts DEF Carries
<1>6. OneBrowserPerFamily'
  BY <1>1, <1>5 DEF RotationInv, OneBrowserPerFamily
<1>7. \A q \in Slots : RotatesAlone(req[q])'
  <2> SUFFICES ASSUME NEW q \in Slots PROVE RotatesAlone(req[q])'
    OBVIOUS
  <2>1. CASE q = s
    BY <1>3, <2>1, TokenFacts DEF RotatesAlone
  <2>2. CASE q # s
    <3>1. req'[q] = req[q] /\ RotatesAlone(req[q])
      BY <1>3, <2>2 DEF RotationInv
    <3> QED
      BY <1>1, <3>1 DEF RotatesAlone
  <2> QED
    BY <2>1, <2>2
<1>8. OneLivePerFamily'
  BY <1>1 DEF RotationInv, OneLivePerFamily
<1> QED
  BY <1>4, <1>6, <1>7, <1>8

\* The next token goes to a browser that has the family already, or is the first
\* of a family no one has.
LEMMA IssueRotation ==
    ASSUME SessionInv, RotationInv, NEW s \in Slots, IssueCreate(s)
    PROVE  RotationInv'
<1> DEFINE old == req[s].token
<1>1. PICK t \in Tokens :
        /\ row[t] = "none" /\ req[s].pc = "issue"
        /\ row' = [row EXCEPT ![t] = "live"]
        /\ family' = [family EXCEPT ![t] = IF old = None THEN t ELSE family[old]]
        /\ req' = [req EXCEPT ![s].pc = "store", ![s].token = t]
        /\ UNCHANGED <<jar, mode>>
  BY DEF IssueCreate, Unused
<1>2. /\ req[s].op \in IssuingOps /\ req[s] # Idle
      /\ old # None => req[s].op = "refresh" /\ old \in Tokens /\ row[old] # "none" /\ old # t
  BY <1>1, RequestFacts, TokenFacts DEF RequestFits, IssuingOps
<1>3. /\ \A u \in Tokens \ {t} : row'[u] = row[u] /\ family'[u] = family[u]
      /\ family'[t] = IF old = None THEN t ELSE family[old]
  BY <1>1 DEF SessionInv, TokensTyped
<1>4. /\ \A q \in Slots : q # s => req'[q] = req[q]
      /\ req'[s].browser = req[s].browser /\ req'[s].op = req[s].op
      /\ req'[s].token = t /\ req'[s].pc = "store"
  BY <1>1 DEF SessionInv, TokensTyped, ReqShapes
<1> SUFFICES ASSUME ~mode.overlap
             PROVE  OneTabEach' /\ OneBrowserPerFamily' /\ (\A q \in Slots : RotatesAlone(req[q])')
                    /\ OneLivePerFamily'
  BY <1>1 DEF RotationInv
<1>5. req[s].browser \in Browsers /\ (old # None => Carries(req[s].browser, old))
  BY <1>2 DEF RotationInv, OneTabEach, Carries
<1>6. OneTabEach'
  <2>1. \A q \in Slots : req'[q].browser = req[q].browser
    BY <1>4
  <2>2. \A q \in Slots : req'[q] # Idle => req[q] # Idle
    BY <1>2, <1>4
  <2> QED
    BY <2>1, <2>2 DEF RotationInv, OneTabEach
\* Whoever carries a token carried it before, or one of its family, unless it is
\* the first of its family.
<1>7. ASSUME NEW b \in Browsers, NEW u \in Tokens, Carries(b, u)'
      PROVE  \/ u # t /\ Carries(b, u)
             \/ u = t /\ b = req[s].browser
  <2>1. CASE u = jar[b]
    <3>1. Carries(b, u)
      BY <2>1 DEF Carries
    <3> QED
      BY <1>1, <3>1, CarriedIsSeen
  <2>2. CASE u # jar[b]
    <3>1. PICK q \in Slots : req'[q].browser = b /\ req'[q].op \in IssuingOps /\ req'[q].token = u
      BY <1>1, <1>7, <2>2 DEF Carries
    <3>2. CASE q = s
      BY <1>4, <3>1, <3>2
    <3>3. CASE q # s
      <4>1. Carries(b, u)
        BY <1>4, <3>1, <3>3 DEF Carries
      <4> QED
        BY <1>1, <4>1, CarriedIsSeen
    <3> QED
      BY <3>2, <3>3
  <2> QED
    BY <2>1, <2>2
<1>8. ASSUME NEW b \in Browsers, NEW u \in Tokens, u # t, Carries(b, u), family'[t] = family[u]
      PROVE  b = req[s].browser
  <2>1. family[u] # t
    BY <1>1, <1>8, CarriedIsSeen
  <2>2. old # None /\ family[old] = family[u]
    BY <1>3, <1>8, <2>1
  <2> QED
    BY <1>2, <1>5, <1>8, <2>2 DEF RotationInv, OneBrowserPerFamily
<1>9. OneBrowserPerFamily'
  <2> SUFFICES ASSUME NEW b \in Browsers, NEW c \in Browsers, NEW u \in Tokens, NEW v \in Tokens,
                      Carries(b, u)', Carries(c, v)', family'[u] = family'[v]
               PROVE  b = c
    BY DEF OneBrowserPerFamily
  <2>1. CASE u # t /\ v # t
    BY <1>3, <1>7, <2>1 DEF RotationInv, OneBrowserPerFamily
  <2>2. CASE u = t /\ v # t
    BY <1>3, <1>7, <1>8, <2>2
  <2>3. CASE u # t /\ v = t
    BY <1>3, <1>7, <1>8, <2>3
  <2>4. CASE u = t /\ v = t
    BY <1>7, <2>4
  <2> QED
    BY <2>1, <2>2, <2>3, <2>4
<1>10. ASSUME NEW q \in Slots PROVE RotatesAlone(req[q])'
  <2>1. CASE q = s
    BY <1>4, <2>1 DEF RotatesAlone
  <2>2. CASE q # s /\ req[q].op = "refresh" /\ req[q].pc \in {"rotate", "issue"}
    <3>1. /\ req'[q] = req[q] /\ RotatesAlone(req[q]) /\ req[q].token \in Tokens
          /\ req[q].browser \in Browsers /\ req[q].browser # req[s].browser
          /\ Carries(req[q].browser, req[q].token)
      <4>1. req'[q] = req[q] /\ RotatesAlone(req[q]) /\ req[q].token \in Tokens /\ req[q] # Idle
        BY <1>4, <2>2, RequestFacts, TokenFacts DEF RotationInv
      <4>2. req[q].browser \in Browsers /\ req[q].browser # req[s].browser
        BY <2>2, <4>1 DEF RotationInv, OneTabEach
      <4>3. Carries(req[q].browser, req[q].token)
        BY <2>2 DEF Carries, IssuingOps
      <4> QED
        BY <4>1, <4>2, <4>3
    <3>2. req[q].token # t /\ family'[t] # family[req[q].token]
      BY <1>1, <1>8, <3>1, CarriedIsSeen
    <3>3. family'[req[q].token] = family[req[q].token]
      BY <1>3, <3>1, <3>2
    <3>4. \A u \in Tokens : row'[u] = "live" /\ family'[u] = family[req[q].token] =>
                              row[u] = "live" /\ family[u] = family[req[q].token]
      BY <1>3, <3>2
    <3> QED
      BY <3>1, <3>3, <3>4 DEF RotatesAlone
  <2>3. CASE q # s /\ ~(req[q].op = "refresh" /\ req[q].pc \in {"rotate", "issue"})
    BY <1>4, <2>3 DEF RotatesAlone
  <2> QED
    BY <2>1, <2>2, <2>3
<1>11. OneLivePerFamily'
  <2> SUFFICES ASSUME NEW u \in Tokens, NEW v \in Tokens, row'[u] = "live", row'[v] = "live",
                      family'[u] = family'[v]
               PROVE  u = v
    BY <1>1 DEF OneLivePerFamily
  <2>1. ASSUME NEW w \in Tokens, w # t, row'[w] = "live" PROVE family'[w] # family'[t]
    <3>1. row[w] = "live" /\ family'[w] = family[w] /\ family[w] # t
      BY <1>1, <1>3, <2>1 DEF SessionInv, Seen
    <3>2. old # None => family[old] # family[w]
      BY <1>1, <1>2, <3>1 DEF RotationInv, RotatesAlone
    <3> QED
      BY <1>3, <3>1, <3>2
  <2> QED
    BY <1>3, <2>1 DEF RotationInv, OneLivePerFamily
<1> QED
  BY <1>6, <1>9, <1>10, <1>11

LEMMA ServerRotation ==
    ASSUME SessionInv, RotationInv, NEW s \in Slots, ServerNext(s) \/ Abort(s)
    PROVE  RotationInv'
<1>1. CASE \/ RegisterLookup(s) \/ RegisterCreate(s) \/ LoginLookup(s) \/ VerifyLookup(s) \/ VerifyWrite(s)
           \/ ResendLookup(s) \/ ResendWrite(s) \/ ResendMail(s) \/ IssueStore(s) \/ Abort(s)
  <2>1. UNCHANGED <<row, jar, family, mode>> /\ req[s] # Idle
    BY <1>1, TokenFacts DEF RegisterLookup, RegisterCreate, LoginLookup, VerifyLookup, VerifyWrite,
       ResendLookup, ResendWrite, ResendMail, IssueStore, Abort, At, tokenVars
  <2>2. PICK r :
          /\ req' = [req EXCEPT ![s] = r]
          /\ \/ r = Idle
             \/ /\ r.browser = req[s].browser /\ r.op = req[s].op /\ r.token = req[s].token
                /\ r.op = "refresh" => r.pc = "answer"
    <3>1. CASE Finish(s)
      BY <3>1 DEF Finish
    <3>2. CASE ResendWrite(s)
      <4> DEFINE next == [req[s] EXCEPT !.pc = "mail", !.link = minted + 1]
      <4>1. /\ next.browser = req[s].browser /\ next.op = req[s].op /\ next.token = req[s].token
            /\ next.op # "refresh"
        BY <3>2 DEF ResendWrite, At, SessionInv, TokensTyped, ReqShapes
      <4>2. req' = [req EXCEPT ![s] = next]
        BY <3>2 DEF ResendWrite
      <4> HIDE DEF next
      <4> QED
        BY <4>1, <4>2
    <3>3. CASE ~Finish(s) /\ ~ResendWrite(s)
      <4>1. PICK pc \in Pcs : Goto(s, pc) /\ (req[s].op = "refresh" => pc = "answer")
        BY <1>1, <3>3 DEF RegisterLookup, RegisterCreate, LoginLookup, VerifyLookup, VerifyWrite,
           ResendLookup, ResendMail, IssueStore, Abort, At, Goto, Pcs
      <4> QED
        BY <4>1, GotoIs
    <3> QED
      BY <3>1, <3>2, <3>3
  <2>3. RotatesAlone(r)'
    BY <2>2, TokenFacts DEF RotatesAlone
  <2> QED
    BY <2>1, <2>2, <2>3, RotationStep
<1>2. CASE RefreshRevoke(s) \/ Logout(s) \/ LogoutAll(s)
  <2>1. /\ UNCHANGED <<jar, family, mode>> /\ req[s] # Idle /\ (req[s].op = "refresh" => Finish(s))
        /\ \A t \in Tokens : row'[t] = "live" => row[t] = "live"
    BY <1>2, TokenFacts DEF RefreshRevoke, Logout, LogoutAll, At, RevokeFamilies
  <2>2. PICK r :
          /\ req' = [req EXCEPT ![s] = r]
          /\ \/ r = Idle
             \/ /\ r.browser = req[s].browser /\ r.op = req[s].op /\ r.token = req[s].token
                /\ r.op # "refresh"
    <3>1. CASE Finish(s)
      BY <3>1 DEF Finish
    <3>2. CASE ~Finish(s)
      <4>1. Goto(s, "answer") /\ req[s].op # "refresh"
        BY <1>2, <2>1, <3>2 DEF RefreshRevoke, Logout, LogoutAll
      <4> QED
        BY <4>1, GotoIs
    <3> QED
      BY <3>1, <3>2
  <2>3. RotatesAlone(r)'
    BY <2>2, TokenFacts DEF RotatesAlone
  <2> QED
    BY <2>1, <2>2, <2>3, RotationStep
<1>3. CASE RefreshLookup(s)
  <2>1. /\ UNCHANGED <<row, jar, family, mode>> /\ req[s] # Idle /\ req[s].op = "refresh"
        /\ \/ Finish(s) \/ Goto(s, "revoke")
           \/ row[req[s].token] = "live" /\ Goto(s, "rotate")
    BY <1>3, TokenFacts DEF RefreshLookup, At, tokenVars
  <2>2. PICK r :
          /\ req' = [req EXCEPT ![s] = r]
          /\ \/ r = Idle
             \/ /\ r.browser = req[s].browser /\ r.op = req[s].op /\ r.token = req[s].token
                /\ \/ r.pc = "revoke"
                   \/ r.pc = "rotate" /\ row[r.token] = "live"
    <3>1. CASE Finish(s)
      BY <3>1 DEF Finish
    <3>2. CASE ~Finish(s)
      <4>1. PICK pc \in {"revoke", "rotate"} :
              Goto(s, pc) /\ (pc = "rotate" => row[req[s].token] = "live")
        BY <2>1, <3>2
      <4> QED
        BY <4>1, GotoIs
    <3> QED
      BY <3>1, <3>2
  <2>3. ~mode.overlap => RotatesAlone(r)'
    BY <2>1, <2>2, TokenFacts, RequestFacts DEF RotatesAlone, RotationInv, OneLivePerFamily
  <2> QED
    BY <2>1, <2>2, <2>3, RotationStep
<1>4. CASE RefreshRotate(s)
  <2>1. /\ UNCHANGED <<jar, family, mode>> /\ req[s] # Idle
        /\ req[s].op = "refresh" /\ req[s].pc = "rotate"
        /\ row' = [row EXCEPT ![req[s].token] = "revoked"]
        /\ Goto(s, "issue")
    BY <1>4, TokenFacts DEF RefreshRotate, At
  <2>2. PICK r :
          /\ req' = [req EXCEPT ![s] = r] /\ r.pc = "issue"
          /\ r.browser = req[s].browser /\ r.op = req[s].op /\ r.token = req[s].token
    BY <2>1, GotoIs
  <2>3. \A t \in Tokens : row'[t] = "live" => row[t] = "live" /\ t # req[s].token
    BY <2>1 DEF SessionInv, TokensTyped
  <2>4. ~mode.overlap => RotatesAlone(req[s])
    BY DEF RotationInv
  <2>5. ~mode.overlap => RotatesAlone(r)'
    BY <2>1, <2>2, <2>3, <2>4 DEF RotatesAlone
  <2> QED
    BY <2>1, <2>2, <2>3, <2>5, RotationStep
<1> QED
  BY <1>1, <1>2, <1>3, <1>4, IssueRotation DEF ServerNext

LEMMA RotationInvNext == SessionInv /\ RotationInv /\ [Next]_vars => RotationInv'
<1> SUFFICES ASSUME SessionInv, RotationInv, [Next]_vars PROVE RotationInv'
  OBVIOUS
<1>1. CASE (\E t \in Tokens : Expire(t)) \/ UNCHANGED vars
  <2>1. UNCHANGED <<row, family, jar, req, mode>>
    BY <1>1 DEF Expire, vars, tokenVars
  <2> QED
    BY <2>1 DEF RotationInv, OneTabEach, OneBrowserPerFamily, RotatesAlone, OneLivePerFamily, Carries
<1> QED
  BY <1>1, BeginRotation, ServerRotation, AnswerRotation DEF Next

LEMMA RotationInvHolds == Spec => []RotationInv
<1>1. Init => RotationInv
  BY RotationInvInit
<1>2. SessionInv /\ RotationInv /\ [Next]_vars => RotationInv'
  BY RotationInvNext
<1> QED
  BY <1>1, <1>2, SessionInvHolds, PTL DEF Spec

\* Rotation (authService.ts:261) keeps one refresh token of a session usable at
\* any moment, whatever fails between the revoke and the issue, for any number of
\* browsers that each send one request at a time.
THEOREM RotationLeavesOne == Spec => []OneLivePerFamily
<1>1. RotationInv => OneLivePerFamily
  BY DEF RotationInv, OneLivePerFamily
<1> QED
  BY <1>1, RotationInvHolds, PTL

---------------------------------------------------------------------------
(* The cookies.  A browser whose refresh is between the revoke of one token *)
(* and the answer with the next has a cookie that is of no use; at any      *)
(* other moment its cookie is Good.  A refresh finds its token revoked only *)
(* where the family was logged out, so that no one is taken for a thief.    *)

Careful == ~mode.overlap /\ "abort" \notin mode.faults

Good(t) == row[t] = "live" \/ t \in expired \/ ended[family[t]] = "loggedOut"

CookieFits(r) ==
    /\ r.op = "refresh" /\ r.pc \in {"lookup", "rotate", "revoke", "issue"} => r.token = jar[r.browser]
    /\ r.op = "refresh" /\ r.pc = "revoke" => ended[family[r.token]] = "loggedOut"
    /\ r.op \in IssuingOps /\ r.pc \in {"store", "answer"} => Good(r.token)

InExchange(r) == r.op = "refresh" /\ r.pc \in {"rotate", "issue", "store", "answer"}
Exchanging(b) == \E s \in Slots : req[s].browser = b /\ InExchange(req[s])

CookieInv ==
    Careful =>
        /\ \A f \in Tokens : ended[f] # "breached"
        /\ \A s \in Slots : CookieFits(req[s])
        /\ \A b \in Browsers : jar[b] # None /\ ~Exchanging(b) => Good(jar[b])

LEMMA CookieInvInit == Init => CookieInv
BY DEF Init, CookieInv, CookieFits, Idle, IssuingOps

\* When requests come one at a time, two that carry tokens of one family are the
\* same, and the cookie of a browser is in the hands of its own request.
LEMMA CarriersDiffer ==
    ASSUME SessionInv, RotationInv, ~mode.overlap, NEW s \in Slots,
           req[s].op \in IssuingOps, req[s].token \in Tokens
    PROVE  /\ req[s].browser \in Browsers /\ Carries(req[s].browser, req[s].token)
           /\ \A q \in Slots : /\ req[q].op \in IssuingOps /\ req[q].token \in Tokens
                              /\ family[req[q].token] = family[req[s].token] => q = s
           /\ \A b \in Browsers : jar[b] \in Tokens /\ family[jar[b]] = family[req[s].token] =>
                  b = req[s].browser
<1>1. req[s] # Idle /\ req[s].browser \in Browsers /\ Carries(req[s].browser, req[s].token)
  BY TokenFacts DEF RotationInv, OneTabEach, Carries
<1>2. ASSUME NEW q \in Slots, req[q].op \in IssuingOps, req[q].token \in Tokens,
             family[req[q].token] = family[req[s].token]
      PROVE  q = s
  <2>1. req[q] # Idle /\ req[q].browser \in Browsers /\ Carries(req[q].browser, req[q].token)
    BY <1>2, TokenFacts DEF RotationInv, OneTabEach, Carries
  <2>2. req[q].browser = req[s].browser
    BY <1>1, <1>2, <2>1 DEF RotationInv, OneBrowserPerFamily
  <2> QED
    BY <1>1, <2>2 DEF RotationInv, OneTabEach
<1>3. ASSUME NEW b \in Browsers, jar[b] \in Tokens, family[jar[b]] = family[req[s].token]
      PROVE  b = req[s].browser
  <2>1. Carries(b, jar[b])
    BY DEF Carries
  <2> QED
    BY <1>1, <1>3, <2>1 DEF RotationInv, OneBrowserPerFamily
<1> QED
  BY <1>1, <1>2, <1>3

\* A step of request s: the others still fit, and so does what it becomes.
LEMMA CookieStep ==
    ASSUME SessionInv, CookieInv, NEW s \in Slots, NEW r, req' = [req EXCEPT ![s] = r],
           UNCHANGED <<jar, mode>>,
           Careful =>
               /\ \A f \in Tokens : ended'[f] # "breached"
               /\ CookieFits(r)'
               /\ \A q \in Slots : q # s /\ CookieFits(req[q]) => CookieFits(req[q])'
               /\ InExchange(req[s]) => InExchange(r) /\ r.browser = req[s].browser
               /\ \A b \in Browsers :
                      jar[b] # None /\ ~Exchanging(b) /\ ~(InExchange(r) /\ r.browser = b)
                         => Good(jar[b])'
    PROVE  CookieInv'
<1> SUFFICES ASSUME Careful
             PROVE  /\ \A f \in Tokens : ended'[f] # "breached"
                    /\ \A q \in Slots : CookieFits(req[q])'
                    /\ \A b \in Browsers : jar'[b] # None /\ ~Exchanging(b)' => Good(jar[b])'
  BY DEF CookieInv, Careful
<1>1. \A q \in Slots : req'[q] = IF q = s THEN r ELSE req[q]
  BY DEF SessionInv, TokensTyped
<1>2. ASSUME NEW q \in Slots PROVE CookieFits(req[q])'
  <2>1. CASE q = s
    BY <1>1, <2>1 DEF CookieFits, Good
  <2>2. CASE q # s
    BY <2>2 DEF CookieInv
  <2> QED
    BY <2>1, <2>2
<1>3. ASSUME NEW b \in Browsers, jar'[b] # None, ~Exchanging(b)' PROVE Good(jar[b])'
  <2>1. ~(InExchange(r) /\ r.browser = b)
    BY <1>1, <1>3 DEF Exchanging, InExchange
  <2>2. ~Exchanging(b)
    BY <1>1, <1>3, <2>1 DEF Exchanging, InExchange
  <2> QED
    BY <1>3, <2>1, <2>2
<1> QED
  BY <1>2, <1>3

\* Where no token changes, only the request has to fit.
LEMMA SameTokens ==
    ASSUME SessionInv, CookieInv, NEW s \in Slots, NEW r, req' = [req EXCEPT ![s] = r],
           UNCHANGED <<row, family, expired, jar, ended, mode>>,
           Careful => CookieFits(r),
           Careful => (InExchange(req[s]) => InExchange(r) /\ r.browser = req[s].browser)
    PROVE  CookieInv'
<1>1. \A q \in Slots : req'[q] = IF q = s THEN r ELSE req[q]
  BY DEF SessionInv, TokensTyped
<1>2. Careful => CookieFits(r)'
  BY DEF CookieFits, Good
<1>3. \A q \in Slots : q # s /\ CookieFits(req[q]) => CookieFits(req[q])'
  BY <1>1 DEF CookieFits, Good
<1>4. Careful => \A b \in Browsers : jar[b] # None /\ ~Exchanging(b) => Good(jar[b])'
  BY DEF CookieInv, Good
<1>5. Careful => \A f \in Tokens : ended'[f] # "breached"
  BY DEF CookieInv
<1> QED
  BY <1>2, <1>3, <1>4, <1>5, CookieStep

LEMMA BeginCookie ==
    ASSUME SessionInv, CookieInv, NEW s \in Slots, NEW b \in Browsers, BrowserNext(s, b)
    PROVE  CookieInv'
<1>1. PICK op \in Ops, l \in inbox \cup {None} : Begin(s, b, op, l)
  BY DEF BrowserNext, BeginRegister, BeginLogin, BeginRefresh, BeginLogout, BeginLogoutAll,
         BeginVerify, BeginResend, Ops
<1> DEFINE r == [op |-> op, pc |-> "lookup", browser |-> b,
                 token |-> IF op \in {"refresh", "logout"} THEN jar[b] ELSE None, link |-> l]
<1>2. r.op = op /\ r.pc = "lookup" /\ r.browser = b /\ (op = "refresh" => r.token = jar[b])
  OBVIOUS
<1>3. /\ req' = [req EXCEPT ![s] = r] /\ req[s] = Idle
      /\ UNCHANGED <<row, family, expired, jar, ended, mode>>
  BY <1>1 DEF Begin, tokenVars
<1> HIDE DEF r
<1>4. CookieFits(r) /\ ~InExchange(req[s])
  BY <1>2, <1>3, TokenFacts DEF CookieFits, InExchange
<1> QED
  BY <1>3, <1>4, SameTokens

LEMMA FinishCookie ==
    ASSUME SessionInv, CookieInv, NEW s \in Slots, Finish(s),
           UNCHANGED <<row, family, expired, jar, ended, mode>>, Careful => ~InExchange(req[s])
    PROVE  CookieInv'
<1>1. CookieFits(Idle)
  BY TokenFacts DEF CookieFits
<1> QED
  BY <1>1, SameTokens DEF Finish

LEMMA QuietCookie ==
    ASSUME SessionInv, RotationInv, CookieInv, NEW s \in Slots,
           \/ RegisterLookup(s) \/ RegisterCreate(s) \/ LoginLookup(s) \/ VerifyLookup(s) \/ VerifyWrite(s)
           \/ ResendLookup(s) \/ ResendWrite(s) \/ ResendMail(s) \/ IssueStore(s)
    PROVE  CookieInv'
<1>1. UNCHANGED <<row, family, expired, jar, ended, mode>>
  BY DEF RegisterLookup, RegisterCreate, LoginLookup, VerifyLookup, VerifyWrite, ResendLookup,
         ResendWrite, ResendMail, IssueStore, tokenVars
<1>2. CASE Finish(s)
  <2>1. ~IssueStore(s)
    <3>1. Finish(s) => req'[s] = Idle
      BY DEF Finish, SessionInv, TokensTyped
    <3>2. IssueStore(s) => req'[s].pc = "answer"
      BY DEF IssueStore, Goto, SessionInv, TokensTyped, ReqShapes
    <3> QED
      BY <1>2, <3>1, <3>2, TokenFacts
  <2>2. ~InExchange(req[s])
    BY <2>1 DEF RegisterLookup, RegisterCreate, LoginLookup, VerifyLookup, VerifyWrite,
             ResendLookup, ResendWrite, ResendMail, At, InExchange
  <2> QED
    BY <1>1, <1>2, <2>2, FinishCookie
<1>3. CASE IssueStore(s)
  <2>1. PICK r : /\ req' = [req EXCEPT ![s] = r] /\ r.pc = "answer"
                 /\ r.browser = req[s].browser /\ r.op = req[s].op /\ r.token = req[s].token
    BY <1>3, GotoIs DEF IssueStore
  <2>2. Careful => CookieFits(req[s])
    BY DEF CookieInv
  <2>3. req[s].pc = "store"
    BY <1>3 DEF IssueStore
  <2>4. req[s].op \in IssuingOps
    BY <2>3 DEF SessionInv, RequestFits
  <2>5. Careful => CookieFits(r)
    BY <2>1, <2>2, <2>3, <2>4 DEF CookieFits
  <2> QED
    BY <1>1, <2>1, <2>5, SameTokens DEF InExchange
<1>4. CASE ~Finish(s) /\ ~IssueStore(s)
  <2>1. PICK r : /\ req' = [req EXCEPT ![s] = r] /\ r.op = req[s].op
                 /\ r.pc \notin {"store", "answer"} \/ r.op \notin IssuingOps
    <3>1. CASE ResendWrite(s)
      <4> DEFINE next == [req[s] EXCEPT !.pc = "mail", !.link = minted + 1]
      <4>1. next.op = req[s].op /\ next.pc = "mail" /\ req' = [req EXCEPT ![s] = next]
        BY <3>1 DEF ResendWrite, SessionInv, TokensTyped, ReqShapes
      <4> HIDE DEF next
      <4> QED
        BY <4>1
    <3>2. CASE ~ResendWrite(s)
      <4>1. PICK pc : Goto(s, pc) /\ (pc \notin {"store", "answer"} \/ req[s].op \notin IssuingOps)
        BY <1>4, <3>2 DEF RegisterLookup, RegisterCreate, LoginLookup, VerifyLookup, VerifyWrite,
           ResendLookup, ResendMail, At, Goto, IssuingOps
      <4> QED
        BY <4>1, GotoIs
    <3> QED
      BY <3>1, <3>2
  <2>2. req[s].op # "refresh"
    BY <1>4 DEF RegisterLookup, RegisterCreate, LoginLookup, VerifyLookup, VerifyWrite,
       ResendLookup, ResendWrite, ResendMail, At
  <2>3. CookieFits(r) /\ ~InExchange(req[s])
    BY <2>1, <2>2 DEF CookieFits, InExchange
  <2> QED
    BY <1>1, <2>1, <2>3, SameTokens
<1> QED
  BY <1>2, <1>3, <1>4

\* The cookie of a browser is presented, and what is found of it decides.
LEMMA RefreshLookupCookie ==
    ASSUME SessionInv, RotationInv, CookieInv, NEW s \in Slots, RefreshLookup(s)
    PROVE  CookieInv'
<1> DEFINE t == req[s].token
<1>1. /\ req[s].op = "refresh" /\ req[s].pc = "lookup"
      /\ UNCHANGED <<row, family, expired, jar, ended, mode>>
      /\ \/ Finish(s)
         \/ t \notin expired /\ row[t] = "revoked" /\ Goto(s, "revoke")
         \/ Goto(s, "rotate")
  BY DEF RefreshLookup, At, tokenVars
<1>2. t \in Tokens
  BY <1>1, RequestFacts
<1>3. ~InExchange(req[s])
  BY <1>1 DEF InExchange
<1>4. Careful => t = jar[req[s].browser]
  BY <1>1 DEF CookieInv, CookieFits
<1>5. Careful => Good(t)
  <2> SUFFICES ASSUME Careful PROVE Good(t)
    OBVIOUS
  <2>1. req[s].browser \in Browsers /\ req[s] # Idle
    BY <1>1, TokenFacts DEF RotationInv, OneTabEach, Careful
  <2>2. ~Exchanging(req[s].browser)
    BY <1>3, <2>1 DEF Exchanging, RotationInv, OneTabEach, Careful
  <2> QED
    BY <1>2, <1>4, <2>1, <2>2, TokenFacts DEF CookieInv
<1>6. CASE Finish(s)
  BY <1>1, <1>3, <1>6, FinishCookie
<1>7. CASE t \notin expired /\ row[t] = "revoked" /\ Goto(s, "revoke")
  <2>1. PICK r : /\ req' = [req EXCEPT ![s] = r] /\ r.pc = "revoke"
                 /\ r.browser = req[s].browser /\ r.op = req[s].op /\ r.token = req[s].token
    BY <1>7, GotoIs
  <2>2. Careful => CookieFits(r)
    BY <1>4, <1>5, <1>7, <2>1 DEF CookieFits, Good
  <2> QED
    BY <1>1, <1>3, <2>1, <2>2, SameTokens
<1>8. CASE Goto(s, "rotate")
  <2>1. PICK r : /\ req' = [req EXCEPT ![s] = r] /\ r.pc = "rotate"
                 /\ r.browser = req[s].browser /\ r.op = req[s].op /\ r.token = req[s].token
    BY <1>8, GotoIs
  <2>2. Careful => CookieFits(r)
    BY <1>4, <2>1 DEF CookieFits
  <2> QED
    BY <1>1, <1>3, <2>1, <2>2, SameTokens
<1> QED
  BY <1>1, <1>6, <1>7, <1>8

\* The token revoked is nobody else's.
LEMMA RotateCookie ==
    ASSUME SessionInv, RotationInv, CookieInv, NEW s \in Slots, RefreshRotate(s)
    PROVE  CookieInv'
<1> DEFINE t == req[s].token
<1>1. /\ req[s].op = "refresh" /\ req[s].pc = "rotate" /\ t \in Tokens
      /\ row' = [row EXCEPT ![t] = "revoked"] /\ Goto(s, "issue")
      /\ UNCHANGED <<family, expired, jar, ended, mode>>
  BY RequestFacts DEF RefreshRotate, At
<1>2. PICK r : /\ req' = [req EXCEPT ![s] = r] /\ r.pc = "issue"
               /\ r.browser = req[s].browser /\ r.op = req[s].op /\ r.token = t
  BY <1>1, GotoIs
<1>3. \A q \in Slots : q # s => req'[q] = req[q]
  BY <1>2 DEF SessionInv, TokensTyped
<1>4. \A u \in Tokens : u # t /\ Good(u) => Good(u)'
  BY <1>1 DEF Good, SessionInv, TokensTyped
<1>5. Careful => CookieFits(r)'
  BY <1>1, <1>2 DEF CookieInv, CookieFits
<1>6. ASSUME Careful, NEW q \in Slots, q # s, CookieFits(req[q]) PROVE CookieFits(req[q])'
  <2>1. req[q].op \in IssuingOps /\ req[q].pc \in {"store", "answer"} => Good(req[q].token)'
    <3> SUFFICES ASSUME req[q].op \in IssuingOps, req[q].pc \in {"store", "answer"}
                 PROVE  Good(req[q].token)'
      OBVIOUS
    <3>1. req[q].token \in Tokens
      BY RequestFacts DEF RequestFits
    <3>2. req[q].token # t
      BY <1>1, <1>6, <3>1, CarriersDiffer DEF Careful, IssuingOps
    <3>3. Good(req[q].token)
      BY <1>6 DEF CookieFits
    <3>4. req'[q].token = req[q].token
      BY <1>3, <1>6
    <3> QED
      BY <1>4, <3>1, <3>2, <3>3, <3>4 DEF Good
  <2> QED
    BY <1>1, <1>3, <1>6, <2>1 DEF CookieFits, Good
<1>7. ASSUME Careful, NEW b \in Browsers, jar[b] # None, ~Exchanging(b),
             ~(InExchange(r) /\ r.browser = b)
      PROVE  Good(jar[b])'
  <2>1. jar[b] \in Tokens
    BY <1>7, TokenFacts DEF SessionInv, TokensTyped
  <2>2. jar[b] # t
    BY <1>1, <1>2, <1>7, <2>1, CarriersDiffer DEF Careful, IssuingOps, InExchange
  <2>3. Good(jar[b])
    BY <1>7 DEF CookieInv
  <2> QED
    BY <1>1, <1>4, <2>1, <2>2, <2>3 DEF Good
<1>8. Careful => \A f \in Tokens : ended'[f] # "breached"
  BY <1>1 DEF CookieInv
<1>9. InExchange(r) /\ r.browser = req[s].browser
  BY <1>1, <1>2 DEF InExchange
<1> QED
  BY <1>1, <1>2, <1>5, <1>6, <1>7, <1>8, <1>9, CookieStep

LEMMA IssueCookie ==
    ASSUME SessionInv, RotationInv, CookieInv, NEW s \in Slots, IssueCreate(s)
    PROVE  CookieInv'
<1>1. PICK t \in Tokens :
        /\ row[t] = "none" /\ req[s].pc = "issue"
        /\ row' = [row EXCEPT ![t] = "live"]
        /\ family' = [family EXCEPT ![t] = IF req[s].token = None THEN t ELSE family[req[s].token]]
        /\ req' = [req EXCEPT ![s].pc = "store", ![s].token = t]
        /\ UNCHANGED <<expired, jar, ended, mode>>
  BY DEF IssueCreate, Unused
<1>2. PICK r : /\ req' = [req EXCEPT ![s] = r] /\ r.pc = "store" /\ r.token = t
               /\ r.browser = req[s].browser /\ r.op = req[s].op
  <2> DEFINE next == [req[s] EXCEPT !.pc = "store", !.token = t]
  <2>1. /\ next.pc = "store" /\ next.token = t
        /\ next.browser = req[s].browser /\ next.op = req[s].op
    BY DEF SessionInv, TokensTyped, ReqShapes
  <2>2. req' = [req EXCEPT ![s] = next]
    BY <1>1
  <2> HIDE DEF next
  <2> QED
    BY <2>1, <2>2
<1>3. \A q \in Slots : q # s => req'[q] = req[q]
  BY <1>2 DEF SessionInv, TokensTyped
<1>4. /\ row'[t] = "live"
      /\ \A u \in Tokens : row[u] # "none" => row'[u] = row[u] /\ family'[u] = family[u]
  BY <1>1 DEF SessionInv, TokensTyped
<1>5. \A u \in Tokens : row[u] # "none" /\ Good(u) => Good(u)'
  BY <1>1, <1>4 DEF Good
<1>6. CookieFits(r)'
  BY <1>2, <1>4 DEF CookieFits, Good
<1>7. ASSUME NEW q \in Slots, q # s, CookieFits(req[q]) PROVE CookieFits(req[q])'
  <2>1. /\ req'[q] = req[q]
        /\ req[q].token # None => req[q].token \in Tokens /\ row[req[q].token] # "none"
    BY <1>3, <1>7, RequestFacts DEF RequestFits
  <2>2. req[q].op \in IssuingOps /\ req[q].pc \in {"store", "answer"} => Good(req[q].token)'
    <3>1. req[q].op \in IssuingOps /\ req[q].pc \in {"store", "answer"} =>
            req[q].token # None /\ Good(req[q].token)
      BY <1>7, RequestFacts DEF RequestFits, CookieFits
    <3> QED
      BY <1>5, <2>1, <3>1 DEF Good
  <2>3. req[q].op = "refresh" => family'[req[q].token] = family[req[q].token]
    BY <1>4, <2>1, RequestFacts, TokenFacts
  <2> QED
    BY <1>1, <1>7, <2>1, <2>2, <2>3 DEF CookieFits, Good
<1>8. ASSUME Careful, NEW b \in Browsers, jar[b] # None, ~Exchanging(b) PROVE Good(jar[b])'
  <2>1. jar[b] \in Tokens /\ row[jar[b]] # "none"
    BY <1>8, TokenFacts DEF SessionInv, TokensTyped, Seen
  <2>2. Good(jar[b])
    BY <1>8 DEF CookieInv
  <2> QED
    BY <1>1, <1>5, <2>1, <2>2 DEF Good
<1>9. Careful => \A f \in Tokens : ended'[f] # "breached"
  BY <1>1 DEF CookieInv
<1>10. InExchange(req[s]) => InExchange(r)
  BY <1>2 DEF InExchange
<1> QED
  BY <1>1, <1>2, <1>6, <1>7, <1>8, <1>9, <1>10, CookieStep

\* Families end that are logged out, now or before; the browser of a refresh
\* past its check will have the next token.
LEMMA EndCookie ==
    ASSUME SessionInv, RotationInv, CookieInv, NEW s \in Slots, NEW r, req' = [req EXCEPT ![s] = r],
           NEW F, NEW how \in {"loggedOut", "breached"},
           RevokeFamilies(F), EndFamilies(s, F, how), UNCHANGED <<family, expired, jar, mode>>,
           Careful => how = "loggedOut" \/ \A f \in F : f \in Tokens => ended[f] = "loggedOut",
           CookieFits(r)', ~InExchange(r), ~InExchange(req[s])
    PROVE  CookieInv'
<1>1. \A q \in Slots : q # s => req'[q] = req[q]
  BY DEF SessionInv, TokensTyped
<1>2. /\ \A t \in Tokens : row'[t] = IF row[t] = "live" /\ family[t] \in F THEN "revoked" ELSE row[t]
      /\ \A f \in Tokens : ended'[f] = IF f \in F /\ ended[f] = "open" /\ ~Rotating(s, f)
                                     THEN how ELSE ended[f]
  BY DEF RevokeFamilies, EndFamilies
<1>3. ASSUME Careful, NEW f \in Tokens
      PROVE  /\ ended'[f] # "breached"
             /\ ended[f] = "loggedOut" => ended'[f] = "loggedOut"
             /\ f \in F /\ ~Rotating(s, f) => ended'[f] = "loggedOut"
  <2>1. ended[f] \in {"open", "loggedOut"}
    BY <1>3 DEF CookieInv, SessionInv, TokensTyped
  <2> QED
    BY <1>2, <1>3, <2>1
<1>4. ASSUME Careful, NEW u \in Tokens, row[u] # "none", Good(u), ~Rotating(s, family[u])
      PROVE  Good(u)'
  <2>1. family[u] \in Tokens
    BY <1>4 DEF SessionInv, Seen
  <2> QED
    BY <1>2, <1>3, <1>4, <2>1 DEF Good
<1>5. ASSUME Careful, NEW f, Rotating(s, f)
      PROVE  \E q \in Slots : /\ req[q].op = "refresh" /\ req[q].pc \in {"rotate", "issue"}
                             /\ req[q].token \in Tokens /\ family[req[q].token] = f
  BY <1>5, RequestFacts, TokenFacts DEF Rotating, FamilyOf
<1>6. ASSUME Careful, NEW q \in Slots, q # s, CookieFits(req[q]) PROVE CookieFits(req[q])'
  <2>1. req[q].op \in IssuingOps /\ req[q].pc \in {"store", "answer"} => Good(req[q].token)'
    <3> SUFFICES ASSUME req[q].op \in IssuingOps, req[q].pc \in {"store", "answer"}
                 PROVE  Good(req[q].token)'
      OBVIOUS
    <3>1. req[q].token \in Tokens /\ row[req[q].token] # "none" /\ Good(req[q].token)
      BY <1>6, RequestFacts DEF RequestFits, CookieFits
    <3>2. ~Rotating(s, family[req[q].token])
      <4> SUFFICES ASSUME Rotating(s, family[req[q].token]) PROVE FALSE
        OBVIOUS
      <4>1. PICK p \in Slots : /\ req[p].op = "refresh" /\ req[p].pc \in {"rotate", "issue"}
                               /\ req[p].token \in Tokens /\ family[req[p].token] = family[req[q].token]
        BY <1>5, <1>6
      <4>2. p = q
        BY <1>6, <3>1, <4>1, CarriersDiffer DEF Careful, IssuingOps
      <4> QED
        BY <4>1, <4>2
    <3>3. Good(req[q].token)'
      <4>1. PICK u \in Tokens : u = req[q].token
        BY <3>1
      <4>2. Good(u)'
        BY <1>4, <1>6, <3>1, <3>2, <4>1
      <4> QED
        BY <1>1, <1>6, <4>1, <4>2 DEF Good
    <3> QED
      BY <3>3
  <2>2. req[q].op = "refresh" /\ req[q].pc = "revoke" => ended'[family[req[q].token]] = "loggedOut"
    <3> SUFFICES ASSUME req[q].op = "refresh", req[q].pc = "revoke"
                 PROVE  ended'[family[req[q].token]] = "loggedOut"
      OBVIOUS
    <3>1. family[req[q].token] \in Tokens
      BY RequestFacts DEF RequestFits, SessionInv, Seen, IssuingOps
    <3> QED
      BY <1>3, <1>6, <3>1 DEF CookieFits
  <2> QED
    BY <1>1, <1>6, <2>1, <2>2 DEF CookieFits, Good
<1>7. ASSUME Careful, NEW b \in Browsers, jar[b] # None, ~Exchanging(b) PROVE Good(jar[b])'
  <2>1. PICK u \in Tokens : u = jar[b]
    BY <1>7, TokenFacts DEF SessionInv, TokensTyped
  <2>2. row[u] # "none" /\ Good(u)
    BY <1>7, <2>1 DEF SessionInv, Seen, CookieInv
  <2>3. ~Rotating(s, family[u])
    <3> SUFFICES ASSUME Rotating(s, family[u]) PROVE FALSE
      OBVIOUS
    <3>1. PICK p \in Slots : /\ req[p].op = "refresh" /\ req[p].pc \in {"rotate", "issue"}
                             /\ req[p].token \in Tokens /\ family[req[p].token] = family[u]
      BY <1>5, <1>7
    <3>2. b = req[p].browser
      BY <1>7, <2>1, <3>1, CarriersDiffer DEF Careful, IssuingOps
    <3> QED
      BY <1>7, <3>1, <3>2 DEF Exchanging, InExchange
  <2>4. Good(u)'
    BY <1>4, <1>7, <2>2, <2>3
  <2> QED
    BY <2>1, <2>4 DEF Good
<1> QED
  BY <1>3, <1>6, <1>7, CookieStep

LEMMA RevokeCookie ==
    ASSUME SessionInv, RotationInv, CookieInv, NEW s \in Slots,
           RefreshRevoke(s) \/ Logout(s) \/ LogoutAll(s)
    PROVE  CookieInv'
<1>1. CASE RefreshRevoke(s)
  <2> DEFINE F == {family[req[s].token]}
  <2>1. /\ req[s].op = "refresh" /\ req[s].pc = "revoke"
        /\ RevokeFamilies(F) /\ EndFamilies(s, F, "breached")
        /\ req' = [req EXCEPT ![s] = Idle] /\ UNCHANGED <<family, expired, jar, mode>>
    BY <1>1 DEF RefreshRevoke, At, Finish
  <2>2. Careful => \A f \in F : ended[f] = "loggedOut"
    BY <2>1 DEF CookieInv, CookieFits
  <2>3. CookieFits(Idle)' /\ ~InExchange(Idle) /\ ~InExchange(req[s])
    BY <2>1, TokenFacts DEF CookieFits, InExchange
  <2> HIDE DEF F
  <2> QED
    BY <2>1, <2>2, <2>3, EndCookie
<1>2. CASE Logout(s) \/ LogoutAll(s)
  <2>1. req[s].op \in {"logout", "logoutAll"} /\ Goto(s, "answer") /\ UNCHANGED <<family, expired, jar, mode>>
    BY <1>2 DEF Logout, LogoutAll, At
  <2>2. PICK r : req' = [req EXCEPT ![s] = r] /\ r.op = req[s].op
    BY <2>1, GotoIs
  <2>3. CookieFits(r)' /\ ~InExchange(r) /\ ~InExchange(req[s])
    BY <2>1, <2>2 DEF CookieFits, InExchange, IssuingOps
  <2>4. \E F : RevokeFamilies(F) /\ EndFamilies(s, F, "loggedOut")
    <3>1. CASE Logout(s)
      BY <3>1 DEF Logout
    <3>2. CASE LogoutAll(s)
      <4> DEFINE G == {family[t] : t \in Tokens \ Unused}
      <4>1. EndFamilies(s, G, "loggedOut") /\ RevokeFamilies(Tokens)
        BY <3>2 DEF LogoutAll
      <4>2. \A t \in Tokens : row[t] = "live" => family[t] \in G /\ family[t] \in Tokens
        BY DEF SessionInv, Seen, Unused
      <4>3. RevokeFamilies(G)
        <5>1. row' = [t \in Tokens |-> IF row[t] = "live" /\ family[t] \in G THEN "revoked" ELSE row[t]]
          BY <4>1, <4>2 DEF RevokeFamilies
        <5> QED
          BY <5>1 DEF RevokeFamilies
      <4> HIDE DEF G
      <4> QED
        BY <4>1, <4>3
    <3> QED
      BY <1>2, <3>1, <3>2
  <2> QED
    BY <2>1, <2>2, <2>3, <2>4, EndCookie
<1> QED
  BY <1>1, <1>2

\* The answer brings the token that was issued.
LEMMA AnswerCookie ==
    ASSUME SessionInv, RotationInv, CookieInv, NEW s \in Slots, Answer(s)
    PROVE  CookieInv'
<1> DEFINE home == req[s].browser
<1>1. /\ req' = [req EXCEPT ![s] = Idle] /\ UNCHANGED <<row, family, expired, ended, mode>>
      /\ req[s].pc = "answer" /\ req[s] # Idle
  BY TokenFacts DEF Answer, Finish, tokenVars
<1>2. \/ jar' = jar /\ req[s].op \notin IssuingOps
      \/ jar' = [jar EXCEPT ![home] = None]
      \/ req[s].op \in IssuingOps /\ jar' = [jar EXCEPT ![home] = req[s].token]
  BY DEF Answer
<1>3. \A q \in Slots : req'[q] = IF q = s THEN Idle ELSE req[q]
  BY <1>1 DEF SessionInv, TokensTyped
<1> SUFFICES ASSUME Careful
             PROVE  /\ \A f \in Tokens : ended'[f] # "breached"
                    /\ \A q \in Slots : CookieFits(req[q])'
                    /\ \A b \in Browsers : jar'[b] # None /\ ~Exchanging(b)' => Good(jar[b])'
  BY <1>1 DEF CookieInv, Careful
<1>4. home \in Browsers /\ \A q \in Slots : q # s => req[q].browser # home
  BY <1>1 DEF RotationInv, OneTabEach, Careful
<1>5. \A b \in Browsers : b # home => jar'[b] = jar[b]
  BY <1>2, <1>4 DEF SessionInv, TokensTyped
<1>6. \A f \in Tokens : ended'[f] # "breached"
  BY <1>1 DEF CookieInv
<1>7. ASSUME NEW q \in Slots PROVE CookieFits(req[q])'
  <2>1. CASE q = s
    BY <1>3, <2>1, TokenFacts DEF CookieFits
  <2>2. CASE q # s
    <3>1. req'[q] = req[q] /\ CookieFits(req[q]) /\ req[q].browser # home
      BY <1>3, <1>4, <2>2 DEF CookieInv
    <3>2. req[q].op = "refresh" => req[q].browser \in Browsers
      BY TokenFacts DEF RotationInv, OneTabEach, Careful, IssuingOps
    <3> QED
      BY <1>1, <1>5, <3>1, <3>2 DEF CookieFits, Good
  <2> QED
    BY <2>1, <2>2
<1>8. ASSUME NEW b \in Browsers, jar'[b] # None, ~Exchanging(b)' PROVE Good(jar[b])'
  <2>1. CASE b # home
    <3>1. ~Exchanging(b)
      BY <1>3, <1>8, <2>1 DEF Exchanging
    <3> QED
      BY <1>1, <1>5, <1>8, <2>1, <3>1 DEF CookieInv, Good
  <2>2. CASE b = home /\ req[s].op \in IssuingOps
    <3>1. Good(req[s].token)
      BY <1>1, <2>2 DEF CookieInv, CookieFits
    <3>2. jar'[b] = None \/ jar'[b] = req[s].token
      BY <1>2, <1>4, <2>2 DEF SessionInv, TokensTyped
    <3> QED
      BY <1>1, <1>8, <3>1, <3>2 DEF Good
  <2>3. CASE b = home /\ req[s].op \notin IssuingOps
    <3>1. ~Exchanging(b)
      BY <1>4, <2>3 DEF Exchanging, InExchange, IssuingOps
    <3>2. jar'[b] = None \/ jar'[b] = jar[b]
      BY <1>2, <1>4, <2>3 DEF SessionInv, TokensTyped
    <3> QED
      BY <1>1, <1>8, <3>1, <3>2 DEF CookieInv, Good
  <2> QED
    BY <2>1, <2>2, <2>3
<1> QED
  BY <1>6, <1>7, <1>8

LEMMA CookieInvNext == SessionInv /\ RotationInv /\ CookieInv /\ [Next]_vars => CookieInv'
<1> SUFFICES ASSUME SessionInv, RotationInv, CookieInv, [Next]_vars PROVE CookieInv'
  OBVIOUS
<1>1. ASSUME NEW s \in Slots, Abort(s) PROVE CookieInv'
  BY <1>1 DEF Abort, CookieInv, Careful
<1>2. CASE (\E t \in Tokens : Expire(t)) \/ UNCHANGED vars
  <2>1. UNCHANGED <<row, family, jar, req, ended, mode>> /\ expired \subseteq expired'
    BY <1>2 DEF Expire, vars, tokenVars
  <2> QED
    BY <2>1 DEF CookieInv, Careful, CookieFits, Good, Exchanging, InExchange
<1> QED
  BY <1>1, <1>2, BeginCookie, QuietCookie, RefreshLookupCookie, RotateCookie, IssueCookie,
     RevokeCookie, AnswerCookie DEF Next, ServerNext

\* A browser that sends one request at a time and gets every answer is never
\* taken for a thief: whatever the other browsers do meanwhile, between its
\* requests its cookie is good until it expires or the user logs out.
THEOREM CookieStaysGood == Spec => []CookieWorks
<1>1. Init => CookieInv
  BY CookieInvInit
<1>2. SessionInv /\ RotationInv /\ CookieInv /\ [Next]_vars => CookieInv'
  BY CookieInvNext
<1>3. CookieInv => CookieWorks
  <2> SUFFICES ASSUME CookieInv, Careful, NEW b \in Browsers, jar[b] # None,
                      \A s \in Slots : req[s].browser # b, jar[b] \notin expired
               PROVE  row[jar[b]] = "live" \/ ended[family[jar[b]]] = "loggedOut"
    BY DEF CookieWorks, Careful, Spared
  <2>1. ~Exchanging(b)
    BY DEF Exchanging
  <2> QED
    BY <2>1 DEF CookieInv, Good
<1> QED
  BY <1>1, <1>2, <1>3, SessionInvHolds, RotationInvHolds, PTL DEF Spec
=============================================================================
