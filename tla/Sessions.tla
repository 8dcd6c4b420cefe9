------------------------------ MODULE Sessions ------------------------------
(***************************************************************************)
(* One user's account and sessions: api/src/services/authService.ts and the *)
(* routes that call it, api/src/routes/auth.ts.                             *)
(*                                                                         *)
(* Every refresh revokes the token it was given and issues the next of the  *)
(* same family; a token used again ends its family.  A request is a record  *)
(* with a program counter, one action per await; requests of different      *)
(* browsers interleave, those of one browser (two tabs) only if the mode    *)
(* says so.  The access token never outlives the cookie that carries it and *)
(* changes no state: a browser holds both cookies or neither.               *)
(***************************************************************************)
EXTENDS Naturals, FiniteSets

CONSTANTS
    Browsers,       \* cookie jars of the user
    Slots,          \* requests that can be under way at once
    MaxTokens,      \* RefreshToken rows of a behaviour (a bound)
    MaxLinks,       \* verification tokens of a behaviour (a bound)
    NoBrowser,
    Modes           \* the modes to run under

FaultKinds == {"abort",     \* a query fails, the process dies, a reply is lost
               "expiry",    \* REFRESH_TOKEN_EXPIRY passes
               "mail"}      \* the mail server refuses; the error is swallowed

Tokens == 1..MaxTokens
Links == 1..MaxLinks
None == 0           \* null, or no cookie

ASSUME SlotsAssumption == IsFiniteSet(Slots)
ASSUME BoundAssumption == MaxTokens \in Nat /\ MaxLinks \in Nat
ASSUME BrowserAssumption == NoBrowser \notin Browsers
ASSUME ModeAssumption == Modes \subseteq [overlap : BOOLEAN, faults : SUBSET FaultKinds]

VARIABLES
    account,    \* "none", "unverified" or "verified"
    link,       \* verificationToken of its row
    minted,     \* links stored so far
    inbox,      \* links that reached the user by mail
    row,        \* row[t]: "none", "live" or "revoked"
    family,     \* family[t]: the first token of the family t belongs to
    expired,    \* tokens past their expiresAt
    jar,        \* jar[b]: the refresh token in browser b's cookie
    req,        \* req[s]: the request in slot s
    ended,      \* ended[f]: how family f was ended first, with no refresh of it
                \* past its check (a history of the code's answers)
    mode        \* overlap and faults, fixed at the start

accountVars == <<account, link, minted, inbox>>
tokenVars == <<row, family, expired>>
vars == <<accountVars, tokenVars, jar, req, ended, mode>>

Ops == {"register", "login", "refresh", "logout", "logoutAll", "verify", "resend"}
IssuingOps == {"register", "login", "refresh"}
Pcs == {"lookup", "create", "rotate", "revoke", "issue", "store", "write", "mail", "answer"}
Idle == [op |-> "none", pc |-> "idle", browser |-> NoBrowser, token |-> None, link |-> None]

Init ==
    /\ account = "none"
    /\ link = None
    /\ minted = 0
    /\ inbox = {}
    /\ row = [t \in Tokens |-> "none"]
    /\ family = [t \in Tokens |-> None]
    /\ expired = {}
    /\ jar = [b \in Browsers |-> None]
    /\ req = [s \in Slots |-> Idle]
    /\ ended = [t \in Tokens |-> "open"]
    /\ mode \in Modes

---------------------------------------------------------------------------
At(s, op, pc) == req[s].op = op /\ req[s].pc = pc
Goto(s, pc) == req' = [req EXCEPT ![s].pc = pc]
Finish(s) == req' = [req EXCEPT ![s] = Idle]

FamilyOf(t) == IF t = None THEN None ELSE family[t]

Unused == {t \in Tokens : row[t] = "none"}

\* Requests under way that may still create a token, or a link.
WillIssue == {s \in Slots : req[s].op \in IssuingOps /\ req[s].pc \notin {"store", "answer"}}
WillMint == {s \in Slots : req[s].op \in {"register", "resend"} /\ req[s].pc \in {"lookup", "create", "write"}}

\* A browser sends a request, within the bounds.
Begin(s, b, op, l) ==
    /\ req[s] = Idle
    /\ mode.overlap \/ \A q \in Slots : req[q].browser # b
    /\ op \in IssuingOps => Cardinality(WillIssue) < Cardinality(Unused)
    /\ op \in {"register", "resend"} => minted + Cardinality(WillMint) < MaxLinks
    /\ req' = [req EXCEPT ![s] = [op |-> op, pc |-> "lookup", browser |-> b,
                                  token |-> IF op \in {"refresh", "logout"} THEN jar[b] ELSE None,
                                  link |-> l]]
    /\ UNCHANGED <<accountVars, tokenVars, jar, ended, mode>>

\* Faulty: revoked by deleting.
DeleteFamilies(F) ==
    row' = [t \in Tokens |-> IF row[t] = "live" /\ family[t] \in F THEN "deleted" ELSE row[t]]

\* The live tokens of the families F are revoked.
RevokeFamilies(F) ==
    row' = [t \in Tokens |-> IF row[t] = "live" /\ family[t] \in F THEN "revoked" ELSE row[t]]

\* A refresh other than s of family f has read a live token and not yet issued.
Rotating(s, f) ==
    \E q \in Slots \ {s} : req[q].op = "refresh" /\ req[q].pc \in {"rotate", "issue"}
                           /\ FamilyOf(req[q].token) = f

EndFamilies(s, F, how) ==
    ended' = [f \in Tokens |->
                 IF f \in F /\ ended[f] = "open" /\ ~Rotating(s, f) THEN how ELSE ended[f]]

\* The next link replaces the one of the row.
StoreLink ==
    /\ minted' = minted + 1
    /\ link' = minted + 1

\* sendVerificationEmail swallows the errors of the mail server.
Mail(l) ==
    \/ inbox' = inbox \cup {l}
    \/ mode.faults \cap {"mail", "abort"} # {} /\ UNCHANGED inbox

---------------------------------------------------------------------------
\* POST /register: nobody may have the address yet; the row is created under
\* a unique constraint; the mail is not waited for; tokens follow.
BeginRegister(s, b) == Begin(s, b, "register", None)

RegisterLookup(s) ==
    /\ At(s, "register", "lookup")
    /\ \/ account # "none" /\ Finish(s)
       \/ account = "none" /\ Goto(s, "create")
    /\ UNCHANGED <<accountVars, tokenVars, jar, ended, mode>>

RegisterCreate(s) ==
    /\ At(s, "register", "create")
    /\ \/ /\ account = "none"
          /\ account' = "unverified"
          /\ StoreLink
          /\ Mail(minted + 1)
          /\ req' = [req EXCEPT ![s].pc = "issue"]
       \/ account # "none" /\ Finish(s) /\ UNCHANGED accountVars
    /\ UNCHANGED <<tokenVars, jar, ended, mode>>

\* POST /login, with the right password; an unverified account is refused.
BeginLogin(s, b) == Begin(s, b, "login", None)

LoginLookup(s) ==
    /\ At(s, "login", "lookup")
    /\ \/ account # "verified" /\ Finish(s)
       \/ account = "verified" /\ Goto(s, "issue")
    /\ UNCHANGED <<accountVars, tokenVars, jar, ended, mode>>

\* POST /refresh.
BeginRefresh(s, b) == jar[b] # None /\ Begin(s, b, "refresh", None)

RefreshLookup(s) ==
    LET t == req[s].token IN
    /\ At(s, "refresh", "lookup")
    /\ \/ t \in expired /\ Finish(s)
       \/ t \notin expired /\ row[t] = "revoked" /\ Goto(s, "revoke")
       \/ t \notin expired /\ row[t] = "live" /\ Goto(s, "rotate")
    /\ UNCHANGED <<accountVars, tokenVars, jar, ended, mode>>

\* Faulty: only the token presented is revoked, which it is already.
RevokeToken(s) ==
    /\ At(s, "refresh", "revoke")
    /\ UNCHANGED row
    /\ EndFamilies(s, {family[req[s].token]}, "breached")
    /\ Finish(s)
    /\ UNCHANGED <<accountVars, family, expired, jar, mode>>

\* "Reuse detected": the family is revoked and the request refused.
RefreshRevoke(s) ==
    /\ At(s, "refresh", "revoke")
    /\ RevokeFamilies({family[req[s].token]})
    /\ EndFamilies(s, {family[req[s].token]}, "breached")
    /\ Finish(s)
    /\ UNCHANGED <<accountVars, family, expired, jar, mode>>

\* Faulty: the old token stays.
RotateNothing(s) ==
    /\ At(s, "refresh", "rotate")
    /\ Goto(s, "issue")
    /\ UNCHANGED <<accountVars, tokenVars, jar, ended, mode>>

\* The token presented is revoked before the next is issued.
RefreshRotate(s) ==
    /\ At(s, "refresh", "rotate")
    /\ row' = [row EXCEPT ![req[s].token] = "revoked"]
    /\ Goto(s, "issue")
    /\ UNCHANGED <<accountVars, family, expired, jar, ended, mode>>

\* issueTokenPair: a row of the same family, or of a new one ...
IssueCreate(s) ==
    \E t \in Unused :
       /\ req[s].pc = "issue"
       /\ \A u \in Unused : t <= u
       /\ row' = [row EXCEPT ![t] = "live"]
       /\ family' = [family EXCEPT ![t] = IF req[s].token = None THEN t ELSE family[req[s].token]]
       /\ req' = [req EXCEPT ![s].pc = "store", ![s].token = t]
       /\ UNCHANGED <<accountVars, expired, jar, ended, mode>>

\* ... whose id the tokens are signed with, which are then stored in it.
IssueStore(s) ==
    /\ req[s].pc = "store"
    /\ Goto(s, "answer")
    /\ UNCHANGED <<accountVars, tokenVars, jar, ended, mode>>

---------------------------------------------------------------------------
\* POST /logout ends the family named in the token, revoked or not; it does
\* nothing without a token or with an expired one.
BeginLogout(s, b) == Begin(s, b, "logout", None)

Logout(s) ==
    LET t == req[s].token
        F == IF t = None \/ t \in expired THEN {} ELSE {family[t]}
    IN  /\ At(s, "logout", "lookup")
        /\ RevokeFamilies(F)
        /\ EndFamilies(s, F, "loggedOut")
        /\ Goto(s, "answer")
        /\ UNCHANGED <<accountVars, family, expired, jar, mode>>

\* The access cookie, which comes and goes with the refresh cookie.
Authenticate(b) == jar[b] # None

\* POST /logout-all, behind authenticate, revokes every token of the user.
BeginLogoutAll(s, b) == Authenticate(b) /\ Begin(s, b, "logoutAll", None)

LogoutAll(s) ==
    /\ At(s, "logoutAll", "lookup")
    /\ RevokeFamilies(Tokens)
    /\ EndFamilies(s, {family[t] : t \in Tokens \ Unused}, "loggedOut")
    /\ Goto(s, "answer")
    /\ UNCHANGED <<accountVars, family, expired, jar, mode>>

\* POST /verify-email, by a click on a link that was mailed.
BeginVerify(s, b) == \E l \in inbox : Begin(s, b, "verify", l)

VerifyLookup(s) ==
    /\ At(s, "verify", "lookup")
    /\ \/ req[s].link # link /\ Finish(s)
       \/ req[s].link = link /\ account = "verified" /\ Goto(s, "answer")
       \/ req[s].link = link /\ account # "verified" /\ Goto(s, "write")
    /\ UNCHANGED <<accountVars, tokenVars, jar, ended, mode>>

\* The row is found by its id, whatever its link is by now.
VerifyWrite(s) ==
    /\ At(s, "verify", "write")
    /\ account' = "verified"
    /\ link' = None
    /\ Goto(s, "answer")
    /\ UNCHANGED <<minted, inbox, tokenVars, jar, ended, mode>>

\* POST /resend-verification: a new link takes the place of the old one.
BeginResend(s, b) == Begin(s, b, "resend", None)

ResendLookup(s) ==
    /\ At(s, "resend", "lookup")
    /\ \/ account = "unverified" /\ Goto(s, "write")
       \/ account # "unverified" /\ Goto(s, "answer")
    /\ UNCHANGED <<accountVars, tokenVars, jar, ended, mode>>

\* Faulty: mails the link the row had.
ResendOldLink(s) ==
    /\ At(s, "resend", "write")
    /\ StoreLink
    /\ req' = [req EXCEPT ![s].pc = "mail", ![s].link = link]
    /\ UNCHANGED <<account, inbox, tokenVars, jar, ended, mode>>

ResendWrite(s) ==
    /\ At(s, "resend", "write")
    /\ StoreLink
    /\ req' = [req EXCEPT ![s].pc = "mail", ![s].link = minted + 1]
    /\ UNCHANGED <<account, inbox, tokenVars, jar, ended, mode>>

ResendMail(s) ==
    /\ At(s, "resend", "mail")
    /\ Mail(req[s].link)
    /\ Goto(s, "answer")
    /\ UNCHANGED <<account, link, minted, tokenVars, jar, ended, mode>>

---------------------------------------------------------------------------
\* Faulty: a refresh answers with the access token alone.
AnswerWithoutCookie(s) ==
    /\ req[s].pc = "answer"
    /\ jar' = CASE req[s].op \in {"register", "login"} -> [jar EXCEPT ![req[s].browser] = req[s].token]
                [] req[s].op \in {"logout", "logoutAll"} -> [jar EXCEPT ![req[s].browser] = None]
                [] OTHER -> jar
    /\ Finish(s)
    /\ UNCHANGED <<accountVars, tokenVars, ended, mode>>

\* The response reaches the browser, which sets or clears its cookies.
Answer(s) ==
    /\ req[s].pc = "answer"
    /\ jar' = CASE req[s].op \in IssuingOps -> [jar EXCEPT ![req[s].browser] = req[s].token]
                [] req[s].op \in {"logout", "logoutAll"} -> [jar EXCEPT ![req[s].browser] = None]
                [] OTHER -> jar
    /\ Finish(s)
    /\ UNCHANGED <<accountVars, tokenVars, ended, mode>>

\* What a request has done so far stays done.
Abort(s) ==
    /\ "abort" \in mode.faults
    /\ req[s] # Idle
    /\ Finish(s)
    /\ UNCHANGED <<accountVars, tokenVars, jar, ended, mode>>

\* Tokens expire in the order they were issued in.
Expire(t) ==
    /\ "expiry" \in mode.faults
    /\ row[t] # "none"
    /\ expired = 1..(t - 1)
    /\ expired' = expired \cup {t}
    /\ UNCHANGED <<accountVars, row, family, jar, req, ended, mode>>

---------------------------------------------------------------------------
BrowserNext(s, b) ==
    \/ BeginRegister(s, b) \/ BeginLogin(s, b) \/ BeginRefresh(s, b)
    \/ BeginLogout(s, b) \/ BeginLogoutAll(s, b)
    \/ BeginVerify(s, b) \/ BeginResend(s, b)

ServerNext(s) ==
    \/ RegisterLookup(s) \/ RegisterCreate(s) \/ LoginLookup(s)
    \/ RefreshLookup(s) \/ RefreshRevoke(s) \/ RefreshRotate(s)
    \/ IssueCreate(s) \/ IssueStore(s) \/ Logout(s) \/ LogoutAll(s)
    \/ VerifyLookup(s) \/ VerifyWrite(s) \/ ResendLookup(s)
    \/ ResendWrite(s) \/ ResendMail(s)

Next ==
    \/ \E s \in Slots : \/ \E b \in Browsers : BrowserNext(s, b)
                        \/ ServerNext(s) \/ Answer(s) \/ Abort(s)
    \/ \E t \in Tokens : Expire(t)

Spec == Init /\ [][Next]_vars
---------------------------------------------------------------------------
Requests == [op : Ops, pc : Pcs, browser : Browsers, token : 0..MaxTokens, link : 0..MaxLinks]

\* Every variable has its type, and no more than the bounds allow exists.
TypeOK ==
    /\ account \in {"none", "unverified", "verified"}
    /\ link \in 0..MaxLinks /\ minted \in 0..MaxLinks /\ inbox \subseteq Links
    /\ row \in [Tokens -> {"none", "live", "revoked"}]
    /\ family \in [Tokens -> 0..MaxTokens]
    /\ expired \subseteq Tokens
    /\ jar \in [Browsers -> 0..MaxTokens]
    /\ req \in [Slots -> Requests \cup {Idle}]
    /\ ended \in [Tokens -> {"open", "loggedOut", "breached"}]
    /\ mode \in Modes

Spared(kinds) == mode.faults \cap kinds = {}

\* Rotation (authService.ts:261) keeps one refresh token of a session usable,
\* whatever fails half-way, as long as one browser sends one request at a time.
OneLivePerFamily ==
    ~mode.overlap =>
        \A t, u \in Tokens :
            row[t] = "live" /\ row[u] = "live" /\ family[t] = family[u] => t = u

\* A family ended by reuse, logout or logout-all has no usable token ever again
\* ("all sessions in this family have been revoked", authService.ts:290),
\* under every overlap and fault, unless a refresh of it was past its check.
EndedFamilyIsDead ==
    \A t \in Tokens : row[t] = "live" => ended[family[t]] = "open"

\* A browser that sends one request at a time and gets every answer is never
\* taken for a thief: between requests its cookie is good until it expires or
\* the user logs out, whatever the other browsers do meanwhile.
CookieWorks ==
    ~mode.overlap /\ Spared({"abort"}) =>
        \A b \in Browsers :
            LET t == jar[b] IN
            /\ t # None
            /\ \A s \in Slots : req[s].browser # b
            /\ t \notin expired
            => row[t] = "live" \/ ended[family[t]] = "loggedOut"

\* An account waiting for verification always has a link that works, and when
\* mails arrive and no request is cut short the user has been sent that very
\* link, however registrations, resends and clicks interleave.
LinkReachesOwner ==
    account = "unverified" =>
        /\ link # None
        /\ Spared({"abort", "mail"}) /\ (\A s \in Slots : req[s].pc # "mail") => link \in inbox
=============================================================================
