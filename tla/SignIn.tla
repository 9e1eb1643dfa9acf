------------------------------- MODULE SignIn -------------------------------
(***************************************************************************)
(* The door of the web application: the status useAuth keeps, the screens  *)
(* AuthGate shows for it, the answers they wait for and the cookie that    *)
(* the browser holds meanwhile.  The dashboard itself is one thing here: a *)
(* source of requests, each answered 401 once the session is gone.         *)
(*                                                                         *)
(* A session of the server is a token with a state.  The cookie is the     *)
(* token the browser would send next; it changes when an answer ARRIVES,   *)
(* while the session changes when the server handles the request, and an   *)
(* answer may be lost between the two (the 20 s abort, a dead network).    *)
(***************************************************************************)
EXTENDS Naturals

CONSTANTS
    MaxTokens,      \* bound: sessions the server opens
    MaxLosses       \* bound: answers lost, sessions expired and page reloads, together

VARIABLES
    status,         \* useAuth's status
    wire,           \* per kind of request: where its one request is
    cookie,         \* the token the browser holds, 0 for none
    sessions,       \* server: the state of each token
    issued,         \* server: the tokens given out so far
    account,        \* server: "none", "new" (no second factor yet) or "enrolled"
    qr,             \* TotpSetup's `setup` and `error`
    codes,          \* the recovery codes: "none", "issued", "shown" or "lost"
    mode,           \* LoginRegister's tabs: what the registration probe said
    losses          \* the losses so far

vars == <<status, wire, cookie, sessions, issued, account, qr, codes, mode, losses>>

Tokens == 0..MaxTokens
Kinds  == {"me", "auth", "logout", "qr", "data"}
Idle   == [at |-> "idle", op |-> "none", token |-> 0, answer |-> "none", next |-> 0]

TypeOK ==
    /\ status \in {"loading", "anon", "totp_setup", "totp_required", "authed"}
    /\ \A k \in Kinds :
          /\ wire[k].at \in {"idle", "sent", "answered"}
          /\ wire[k].token \in Tokens /\ wire[k].next \in Tokens
    /\ cookie \in Tokens /\ issued \in Tokens
    /\ sessions \in [Tokens -> {"gone", "setup", "pending", "active"}]
    /\ account \in {"none", "new", "enrolled"}
    /\ qr \in {"none", "loading", "ready", "failed"}
    /\ codes \in {"none", "issued", "shown", "lost"}
    /\ mode \in {"open", "closed"}
    /\ losses \in 0..MaxLosses

Init ==
    /\ account \in {"none", "new", "enrolled"}
    /\ \E live \in BOOLEAN :
          /\ live => account = "enrolled"
          /\ cookie = IF live THEN 1 ELSE 0
          /\ sessions = [t \in Tokens |-> IF live /\ t = 1 THEN "active" ELSE "gone"]
          /\ issued = cookie
    /\ status = "loading"
    /\ wire = [k \in Kinds |-> IF k = "me" THEN [Idle EXCEPT !.at = "sent", !.op = "me", !.token = cookie]
                                           ELSE Idle]
    /\ qr = "none" /\ codes = "none" /\ mode = "open" /\ losses = 0

(***************************************************************************)
(* Sending.  AuthGate's `run` marks itself busy around every form it       *)
(* submits, and every submit button is disabled meanwhile: one request of  *)
(* kind "auth" at a time, whatever screen sent it.                         *)
(***************************************************************************)
busy == wire["auth"].at # "idle"

Send(kind, op) ==
    /\ wire[kind].at = "idle"
    /\ wire' = [wire EXCEPT ![kind] = [Idle EXCEPT !.at = "sent", !.op = op, !.token = cookie]]
    /\ UNCHANGED <<status, cookie, sessions, issued, account, qr, codes, mode, losses>>

Opens == {"login", "register", "verify", "recover", "enable"}

Submit(op) == issued < MaxTokens /\ Send("auth", op)

\* LoginRegister.submit.  The tab falls back to sign-in where signups are closed.
SubmitCredentials(op) ==
    /\ status = "anon"
    /\ op = "register" => mode = "open"
    /\ Submit(op)

\* TotpChallenge.submit: a code, or one of the recovery codes.
SubmitCode(op) == status = "totp_required" /\ Submit(op)

\* TotpSetup.submit: the button is there once the QR code is, and gone with the codes' page.
Activate == status = "totp_setup" /\ qr = "ready" /\ codes # "shown" /\ Submit("enable")

\* Any request of the mounted dashboard, and the sign-out of its menu.
AskForData == status = "authed" /\ Send("data", "data")
PressSignOut == status = "authed" /\ Send("logout", "logout")

\* "Back to sign in": offered while a code is being checked, too.
Cancel ==
    /\ status \in {"totp_required", "totp_setup"} /\ codes # "shown"
    /\ status' = "anon" /\ qr' = "none"
    /\ UNCHANGED <<wire, cookie, sessions, issued, account, codes, mode, losses>>

\* "I saved them -- open the dashboard".
FinishSetup ==
    /\ status = "totp_setup" /\ codes = "shown"
    /\ status' = "authed" /\ qr' = "none"
    /\ UNCHANGED <<wire, cookie, sessions, issued, account, codes, mode, losses>>

\* A failed probe leaves the tab; the server's answer takes it away.
LearnMode ==
    /\ status = "anon" /\ mode = "open" /\ account # "none"
    /\ mode' = "closed"
    /\ UNCHANGED <<status, wire, cookie, sessions, issued, account, qr, codes, losses>>

(***************************************************************************)
(* The server handles a request: refuses it, or does what it says.         *)
(***************************************************************************)
Session(r) == sessions[r.token]

Granted(r) ==
    CASE r.op = "login"    -> account # "none"
      [] r.op = "register" -> account = "none"
      [] r.op \in {"verify", "recover"} -> Session(r) = "pending"
      [] r.op = "enable"   -> Session(r) \in {"setup", "pending"} /\ account = "new"
      [] r.op = "qr"       -> Session(r) \in {"setup", "pending"} /\ account = "new"
      [] r.op = "logout"   -> TRUE
      [] OTHER             -> Session(r) = "active"          \* /api/auth/me, every data route

OpenedState(op) ==
    IF op = "register" \/ (op = "login" /\ account = "new") THEN "setup"
    ELSE IF op = "login" THEN "pending" ELSE "active"

Answered(kind, answer, token) ==
    wire' = [wire EXCEPT ![kind].at = "answered", ![kind].answer = answer, ![kind].next = token]

\* The cookie cleared with the last attempt stays behind: raising the refusal drops the response
\* it was cleared on.
Refuse(kind) ==
    LET r == wire[kind] IN
    /\ r.at = "sent"
    /\ ~Granted(r) \/ kind = "auth"                          \* a wrong password or code
    /\ \/ sessions' = sessions
       \/ /\ r.op \in {"verify", "recover"} /\ Session(r) = "pending"     \* too many attempts
          /\ sessions' = [sessions EXCEPT ![r.token] = "gone"]
    /\ Answered(kind, "refused", r.token)
    /\ UNCHANGED <<status, cookie, issued, account, qr, codes, mode, losses>>

\* start_session, and upgrade_session, which drops the token it replaces.
Grant(kind) ==
    LET r == wire[kind]
        fresh == issued + 1
        kept  == IF r.op \in {"verify", "recover", "enable", "logout"}
                 THEN [sessions EXCEPT ![r.token] = "gone"] ELSE sessions
    IN
    /\ r.at = "sent" /\ Granted(r)
    /\ IF r.op \in Opens
       THEN /\ issued < MaxTokens /\ issued' = fresh
            /\ sessions' = [kept EXCEPT ![fresh] = OpenedState(r.op)]
            /\ Answered(kind, OpenedState(r.op), fresh)
       ELSE /\ issued' = issued /\ sessions' = kept
            /\ Answered(kind, "ok", IF r.op = "logout" THEN 0 ELSE r.token)
    /\ account' = CASE r.op = "register" -> "new" [] r.op = "enable" -> "enrolled" [] OTHER -> account
    /\ codes' = IF r.op = "enable" THEN "issued" ELSE codes
    /\ UNCHANGED <<status, cookie, qr, mode, losses>>

Expire(token) ==
    /\ losses < MaxLosses /\ losses' = losses + 1
    /\ sessions[token] # "gone" /\ sessions' = [sessions EXCEPT ![token] = "gone"]
    /\ UNCHANGED <<status, wire, cookie, issued, account, qr, codes, mode>>

(***************************************************************************)
(* An answer arrives.  The cookie it carries is stored by the browser      *)
(* whatever the page does with the rest.                                   *)
(***************************************************************************)
SetsCookie(r) == r.op \in Opens \cup {"logout"} /\ r.next # r.token

LateCodes == IF codes = "issued" THEN "lost" ELSE codes

\* Mutant: an expired session is ignored.
AfterExpiry_ignored == status

\* onExpired: only a page that is signed in goes back to the sign-in box.
AfterExpiry == IF status = "authed" THEN "anon" ELSE status

\* Mutant: an account without a second factor is asked for a code, too.
Steps_codeFirst == [setup |-> "totp_required", pending |-> "totp_required"]

Steps == [setup |-> "totp_setup", pending |-> "totp_required"]

\* TotpSetup mounts, and asks for its QR code, when the status becomes totp_setup.
Mounts(next) == next = "totp_setup" /\ status # "totp_setup"

StatusAfter(kind, r) ==
    CASE kind = "me"     -> IF r.answer = "ok" THEN "authed" ELSE "anon"
      [] kind = "logout" -> "anon"
      [] kind = "data"   -> IF r.answer = "ok" THEN status ELSE AfterExpiry
      [] kind = "auth" /\ r.op \in {"login", "register"} /\ r.answer # "refused" -> Steps[r.answer]
      [] kind = "auth" /\ r.op \in {"verify", "recover"} /\ r.answer # "refused" -> "authed"
      [] OTHER           -> status

QrAfter(kind, r, next) ==
    IF next # "totp_setup" THEN "none"
    ELSE IF Mounts(next) THEN "loading"
    ELSE IF kind = "qr" THEN (IF r.answer = "ok" THEN "ready" ELSE "failed")
    ELSE qr

Arrive(kind) ==
    LET r == wire[kind]  next == StatusAfter(kind, r) IN
    /\ r.at = "answered"
    /\ status' = next
    /\ cookie' = IF SetsCookie(r) THEN r.next ELSE cookie
    /\ codes' = IF r.op = "enable" /\ r.answer # "refused"
                THEN (IF status = "totp_setup" THEN "shown" ELSE LateCodes) ELSE codes
    /\ qr' = QrAfter(kind, r, next)
    /\ wire' = [wire EXCEPT ![kind] = Idle]
    /\ UNCHANGED <<sessions, issued, account, mode, losses>>

AskForQr == status = "totp_setup" /\ qr = "loading" /\ Send("qr", "qr")

\* The request is given up, before or after the server handled it.  Signing out says so anyway.
Lose(kind) ==
    LET next == CASE kind \in {"me", "logout"} -> "anon" [] OTHER -> status IN
    /\ losses < MaxLosses /\ losses' = losses + 1
    /\ wire[kind].at # "idle"
    /\ wire' = [wire EXCEPT ![kind] = Idle]
    /\ status' = next
    /\ qr' = IF next # "totp_setup" THEN "none" ELSE IF kind = "qr" THEN "failed" ELSE qr
    /\ codes' = IF wire[kind].op = "enable" THEN LateCodes ELSE codes
    /\ UNCHANGED <<cookie, sessions, issued, account, mode>>

\* The page is loaded again: what it waited for is forgotten.
Reload ==
    /\ losses < MaxLosses /\ losses' = losses + 1
    /\ status' = "loading" /\ qr' = "none" /\ mode' = "open" /\ codes' = LateCodes
    /\ wire' = [k \in Kinds |-> IF k = "me" THEN [Idle EXCEPT !.at = "sent", !.op = "me", !.token = cookie]
                                            ELSE Idle]
    /\ UNCHANGED <<cookie, sessions, issued, account>>

Next ==
    \/ \E op \in {"login", "register"} : SubmitCredentials(op)
    \/ \E op \in {"verify", "recover"} : SubmitCode(op)
    \/ Activate \/ AskForQr \/ AskForData \/ PressSignOut
    \/ Cancel \/ FinishSetup \/ LearnMode
    \/ \E kind \in Kinds : Refuse(kind) \/ Grant(kind) \/ Arrive(kind) \/ Lose(kind)
    \/ \E token \in Tokens : Expire(token)
    \/ Reload

(***************************************************************************)
(* The dashboard keeps asking (every hook of it polls), the server answers *)
(* and the answers arrive; nobody is obliged to press anything.            *)
(***************************************************************************)
Fairness ==
    /\ WF_vars(AskForData) /\ WF_vars(AskForQr)
    /\ \A kind \in Kinds : WF_vars(Refuse(kind) \/ Grant(kind)) /\ WF_vars(Arrive(kind))

Spec == Init /\ [][Next]_vars /\ Fairness

\* The session the browser would show the server now.
HeldSession == sessions[cookie]

\* A dashboard whose session is gone does not stay on the screen: one of its requests is
\* answered 401 and the sign-in box returns, or a request that was on its way brings a session
\* (useAuth.js, "Session expired mid-use"; api.js 48-52).
DeadSessionEndsTheScreen ==
    (status = "authed" /\ HeldSession # "active") ~> (status # "authed" \/ HeldSession = "active")

\* The screen never asks for a step the held session is past or short of: the dashboard shows
\* under an active session or one that died, the code box under a pending one or one that died.
\* Every answer moves the cookie and the screen together, in whatever order answers come.
ScreenFollowsSession ==
    /\ status = "authed" => HeldSession \in {"active", "gone"}
    /\ status = "totp_required" => HeldSession \in {"pending", "gone"}

\* The recovery codes of an account that enrolled here were on the screen before its dashboard
\* is (useAuth.js 46-47: "caller shows the codes before continuing").
CodesBeforeDashboard == status = "authed" => codes \in {"none", "shown"}
=============================================================================
