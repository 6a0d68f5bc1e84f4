------------------------------ MODULE AuthTabs ------------------------------
(***************************************************************************)
(* Login sessions as the browser sees them: several tabs of the dashboard  *)
(* (web/src/lib/auth-session.ts, http-client.ts, auth-session-sync.ts,     *)
(* routes/__root.tsx) share ONE refresh cookie and talk to the server's    *)
(* session table (service/auth_session.go, model/user_session.go).         *)
(*                                                                         *)
(* A step is what JavaScript runs without awaiting, or one request handled *)
(* by the server.  Requests, responses and cross-tab events are in flight  *)
(* between steps; the cookie jar changes when the browser receives a       *)
(* response, whatever the tab then makes of that response.                 *)
(*                                                                         *)
(* Data abstraction.  The next refresh secret is derived from the          *)
(* presented one, so the server tells secrets apart only by age: 0 is the  *)
(* stored secret, 1 its predecessor, 2 anything older.  A rotation ages    *)
(* every copy of the session's cookie.  An access token is current or      *)
(* outdated (its session version), and fresh or about to expire.  The      *)
(* epoch counter is the flag ref.cur: no newer auth operation since the    *)
(* refresh began.  Each session belongs to an account of its own.          *)
(***************************************************************************)
EXTENDS Naturals, Sequences, FiniteSets

CONSTANTS
    Tabs,         \* open tabs of the dashboard
    Sids,         \* login sessions, each created by one login
    NoSid,        \* no session
    Environments  \* what browser, server and user may do; fields:
                  \*   locks      navigator.locks exists (secure contexts only)
                  \*   grace      the refresh replay window of 30 s may elapse
                  \*   lookup     a session lookup may fail in the database
                  \*   rotations  a password may be changed
                  \*   logins     the logins that may happen
                  \*   ops, reloads, faults  bounds: operations of the user
                  \*              and token expiries; page loads; lost
                  \*              messages and dropped events

ASSUME NoSidAssumption == NoSid \notin Sids
EnvironmentType ==
    [locks : BOOLEAN, grace : BOOLEAN, lookup : BOOLEAN, rotations : BOOLEAN,
     logins : SUBSET Sids, ops : Nat, reloads : Nat, faults : Nat]

ASSUME EnvironmentsAssumption == Environments \subseteq EnvironmentType

VARIABLES
    jar,     \* the refresh cookie of the browser
    srv,     \* user_sessions rows
    tab,     \* auth store and module flags of each tab
    ref,     \* refreshPromise of each tab
    lockq,   \* requests for the Web Lock; the first one holds it
    api,     \* an API request of each tab
    logout,  \* a sign-out of each tab
    net,     \* requests and responses in flight
    chan,    \* cross-tab events each tab has yet to receive
    env,     \* the environment, with what is left of its bounds
    left,    \* history: the sessions each tab signed out of whose row was
             \* revoked by then
    newest   \* history: the session of the latest login; quiet: no refresh or
             \* sign-out was in flight then, and none was asked for since

vars == <<jar, srv, tab, ref, lockq, api, logout, net, chan, env, left, newest>>

NoCookie == [sid |-> NoSid, age |-> 0]
Cookies == {NoCookie} \cup [sid : Sids, age : 0..2]
NoToken == [sid |-> NoSid, fresh |-> FALSE, current |-> FALSE]
Tokens == {NoToken} \cup [sid : Sids, fresh : BOOLEAN, current : BOOLEAN]

\* why: revoked_reason; behind: users.auth_version is ahead of the session's.
Row0 == [st |-> "absent", grace |-> TRUE, behind |-> FALSE, why |-> "none"]
Rows == [st : {"absent", "active", "revoked"}, grace : BOOLEAN, behind : BOOLEAN,
         why : {"none", "logout", "user_revoked", "refresh_reuse",
                "user_security_changed"}]

\* A page after it was loaded: module variables and auth store are new.
\* nav: location.replace('/sign-in') was called and has not unloaded the page.
Page(p) == [tok |-> NoToken, boot |-> "idle", out |-> FALSE,
            handled |-> FALSE, page |-> p, nav |-> FALSE]
Pages == [tok : Tokens, boot : {"idle", "checking", "complete"}, out : BOOLEAN,
          handled : BOOLEAN, page : {"app", "signin"}, nav : BOOLEAN]

NoRefresh == [pc |-> "none", cur |-> TRUE, again |-> TRUE]
Refreshes == [pc : {"none", "queued", "sent"}, cur : BOOLEAN, again : BOOLEAN]

NoApi == [pc |-> "none", rotate |-> FALSE]
Apis == [pc : {"none", "pre", "sent", "mid", "retried"}, rotate : BOOLEAN]

Kinds == {"refresh", "api", "logout"}
\* job: what an API request asks for: a password change, or the second half of
\* one, which its handler still has to do.
Jobs == {"none", "password", "advance"}
Requests == [ph : {"req"}, k : Kinds, job : Jobs, t : Tabs, live : BOOLEAN,
             cookie : Cookies, exp : Sids \cup {NoSid}, tok : Tokens]
Responses == [ph : {"rsp"}, k : Kinds, t : Tabs,
              res : {"ok", "rotated", "denied", "mismatch", "error"},
              sets : BOOLEAN, to : Cookies, tok : Tokens]
Events == [kind : {"authenticated", "signed_out"}, sid : Sids]

\* The types of the variables.
TypeOK ==
    /\ jar \in Cookies
    /\ srv \in [Sids -> Rows]
    /\ tab \in [Tabs -> Pages]
    /\ ref \in [Tabs -> Refreshes]
    /\ lockq \in Seq(Tabs)
    /\ api \in [Tabs -> Apis]
    /\ logout \in [Tabs -> {"none", "sent", "refreshing", "resent"}]
    /\ net \subseteq Requests \cup Responses
    /\ chan \in [Tabs -> Seq(Events)]
    /\ env \in EnvironmentType
    /\ left \in [Tabs -> SUBSET Sids]
    /\ newest \in [sid : Sids \cup {NoSid}, quiet : BOOLEAN]

Init ==
    /\ env \in Environments
    /\ jar = NoCookie
    /\ srv = [s \in Sids |-> Row0]
    /\ tab = [t \in Tabs |-> Page("app")]
    /\ ref = [t \in Tabs |-> NoRefresh]
    /\ lockq = <<>>
    /\ api = [t \in Tabs |-> NoApi]
    /\ logout = [t \in Tabs |-> "none"]
    /\ net = {}
    /\ chan = [t \in Tabs |-> <<>>]
    /\ left = [t \in Tabs |-> {}]
    /\ newest = [sid |-> NoSid, quiet |-> TRUE]

\* What the user does, and what time does to a token, within the bound.
Operation == env.ops > 0 /\ env' = [env EXCEPT !.ops = @ - 1]

----------------------------------------------------------------------------
\* Messages

Request(k, job, t, cookie, exp, tok) ==
    [ph |-> "req", k |-> k, job |-> job, t |-> t, live |-> TRUE,
     cookie |-> cookie, exp |-> exp, tok |-> tok]
ApiRequest(t, p, rotate) ==
    Request("api", IF rotate THEN "password" ELSE "none", t, NoCookie, NoSid, p.tok)
LogoutRequest(t, p, cookie) ==
    Request("logout", "none", t, cookie, p.tok.sid, p.tok)
RefreshRequest(t, p, cookie) ==
    Request("refresh", "none", t, cookie, p.tok.sid, NoToken)
Response(k, t, res, sets, to, tok) ==
    [ph |-> "rsp", k |-> k, t |-> t, res |-> res, sets |-> sets, to |-> to,
     tok |-> tok]
\* The answer of the server to request m; nobody waits for an orphaned one.
Answer(m, res, sets, to, tok) ==
    IF m.live THEN {Response(m.k, m.t, res, sets, to, tok)} ELSE {}

Received(m) == jar' = IF m.sets THEN m.to ELSE jar

\* publishAuthSessionEvent: every tab but the publisher gets the event.
Publish(c, t, kind, sid) ==
    [u \in Tabs |-> IF u = t THEN c[u]
                    ELSE Append(c[u], [kind |-> kind, sid |-> sid])]

----------------------------------------------------------------------------
\* The auth store and the flags of auth-session.ts, as functions of a page

setBundle(p, tok) ==
    [p EXCEPT !.tok = tok, !.boot = "complete", !.out = FALSE, !.handled = FALSE]
reset(p, boot) == [p EXCEPT !.tok = NoToken, !.boot = boot]

\* handleSessionExpiration with claimSessionExpirationHandling: the first
\* unauthorized answer of a page redirects, a sign-out in progress none.
Expire(p) ==
    IF p.out \/ p.handled THEN p
    ELSE [p EXCEPT !.handled = TRUE, !.nav = (p.page # "signin")]

\* authEpoch += 1: the refresh of the tab, if any, is no longer current.
Bumped(t) == [ref EXCEPT ![t].cur = (ref[t].pc = "none")]

\* clearAuthentication(true) announces the sign-out of the session it drops.
Announce(c, t, p) ==
    IF p.tok.sid = NoSid THEN c ELSE Publish(c, t, "signed_out", p.tok.sid)

----------------------------------------------------------------------------
\* refreshAuthentication: single flight per tab, one tab at a time under the
\* Web Lock

\* Join the refresh under way or begin one; p is the page after the caller's
\* changes and n the messages in flight after them.
StartRefresh(t, p, n) ==
    IF ref[t].pc # "none" THEN UNCHANGED <<ref, lockq>> /\ net' = n
    ELSE IF env.locks
    THEN /\ ref' = [ref EXCEPT ![t] = [NoRefresh EXCEPT !.pc = "queued"]]
         /\ lockq' = Append(lockq, t)
         /\ net' = n
    ELSE /\ ref' = [ref EXCEPT ![t] = [NoRefresh EXCEPT !.pc = "sent"]]
         /\ net' = n \cup {RefreshRequest(t, p, jar)}
         /\ UNCHANGED lockq

\* Mutant of Without: the lock request of a page that is gone stays queued.
WithoutKept(q, t) == q

\* The lock request of t, if any, is released, granted or not.
Without(q, t) ==
    IF \A i \in DOMAIN q : q[i] # t THEN q
    ELSE LET k == CHOOSE i \in DOMAIN q : q[i] = t
         IN  SubSeq(q, 1, k - 1) \o SubSeq(q, k + 1, Len(q))

\* The refresh promise of t resolves with outcome o and page p; n and c are
\* the messages and events in flight, and jar' is already known.  The callers
\* that await it go on: the request interceptor, the 401 retry, executeLogout.
Resolve(t, o, p, n, c) ==
    LET dead == o \in {"anonymous", "out_of_sync"}
        waits == api[t].pc \in {"pre", "mid"}
        q == IF waits /\ dead THEN Expire(p) ELSE p
        signedOut == logout[t] = "refreshing" /\ o = "anonymous"
        again == logout[t] = "refreshing" /\ o = "authenticated"
        sends == api[t].pc = "pre" \/ (api[t].pc = "mid" /\ o = "authenticated")
    IN  /\ ref' = [ref EXCEPT ![t] = NoRefresh]
        /\ lockq' = Without(lockq, t)
        /\ api' = [api EXCEPT ![t] =
                     IF ~waits THEN @
                     ELSE IF ~sends THEN NoApi
                     ELSE [@ EXCEPT !.pc = IF api[t].pc = "pre" THEN "sent" ELSE "retried"]]
        /\ logout' = [logout EXCEPT ![t] =
                        IF @ # "refreshing" THEN @
                        ELSE IF again THEN "resent" ELSE "none"]
        /\ tab' = [tab EXCEPT ![t] =
                     IF signedOut THEN [q EXCEPT !.page = "signin"]
                     ELSE IF logout[t] = "refreshing" /\ ~again
                     THEN [q EXCEPT !.out = FALSE] ELSE q]
        /\ net' = n \cup (IF sends THEN {ApiRequest(t, q, api[t].rotate)} ELSE {})
                    \cup (IF again THEN {LogoutRequest(t, q, jar')} ELSE {})
        /\ chan' = c

\* The lock is granted: the runner starts, unless a newer auth operation came
\* while the tab was queueing.
GrantLock(t) ==
    /\ ref[t].pc = "queued" /\ Head(lockq) = t
    /\ UNCHANGED <<jar, srv, env, left, newest>>
    /\ \/ /\ ref[t].cur
          /\ ref' = [ref EXCEPT ![t].pc = "sent"]
          /\ net' = net \cup {RefreshRequest(t, tab[t], jar)}
          /\ UNCHANGED <<tab, lockq, api, logout, chan>>
       \/ /\ ~ref[t].cur
          /\ Resolve(t, "transient_error", tab[t], net, chan)

\* Mutant of StillCurrent: a late response is applied whatever came since.
StillCurrentUnchecked(t) == TRUE

\* runtime.isCurrent after the await.
StillCurrent(t) == ref[t].cur

\* The response of a refresh reaches the tab.  The browser has stored its
\* cookie before the runner looks at it.
RefreshResponse(t, m) ==
    LET n == net \ {m}  p == tab[t]
    IN  /\ m \in net /\ m.ph = "rsp" /\ m.k = "refresh" /\ m.t = t
        /\ Received(m)
        /\ UNCHANGED <<srv, env, left, newest>>
        /\ \/ /\ ~StillCurrent(t)
              /\ Resolve(t, "transient_error", p, n, chan)
           \/ /\ StillCurrent(t) /\ m.res = "ok"
              /\ Resolve(t, "authenticated", setBundle(p, m.tok), n, chan)
           \/ /\ StillCurrent(t) /\ m.res = "mismatch" /\ ref[t].again
              /\ tab' = [tab EXCEPT ![t] = reset(p, "idle")]
              /\ ref' = [ref EXCEPT ![t].again = FALSE]
              /\ net' = n \cup {RefreshRequest(t, reset(p, "idle"), jar)}
              /\ UNCHANGED <<lockq, api, logout, chan>>
           \/ /\ StillCurrent(t) /\ m.res = "mismatch" /\ ~ref[t].again
              /\ Resolve(t, "out_of_sync", reset(p, "complete"), n, chan)
           \/ /\ StillCurrent(t) /\ m.res = "denied"
              /\ Resolve(t, "anonymous", reset(p, "complete"), n, Announce(chan, t, p))
           \/ /\ StillCurrent(t) /\ m.res = "error"
              /\ Resolve(t, "transient_error", [p EXCEPT !.boot = "idle"], n, chan)

----------------------------------------------------------------------------
\* The server

\* Every copy of a cookie of session s ages when the stored secret rotates.
Aged(c, s) == IF c.sid = s /\ c.age < 2 THEN [c EXCEPT !.age = @ + 1] ELSE c
AgedNet(n, s) ==
    {IF m.ph = "req" THEN [m EXCEPT !.cookie = Aged(@, s)]
     ELSE [m EXCEPT !.to = Aged(@, s)] : m \in n}

Bundle(s) == [sid |-> s, fresh |-> TRUE, current |-> TRUE]
Fresh(s) == [sid |-> s, age |-> 0]
\* Only an active row is revoked.
Revoked(s, why) ==
    IF srv[s].st # "active" THEN srv
    ELSE [srv EXCEPT ![s] = [@ EXCEPT !.st = "revoked", !.why = why]]
Deny(m) == Answer(m, "denied", TRUE, NoCookie, NoToken)

\* Mutant of Recovered: the previous token is refused even inside its window.
RecoveredNever(c) == FALSE

\* RotateUserSessionRefresh found the previous secret inside the replay window:
\* the successor it derives is the stored secret, which is issued again.
Recovered(c) == c.age = 1 /\ srv[c.sid].grace

\* The session of cookie c is active, at the auth version of its user.
InForce(c) == srv[c.sid].st = "active" /\ ~srv[c.sid].behind

\* RefreshAuth and RefreshLoginSession.  A session whose user has a newer auth
\* version is revoked by the refresh itself, whatever secret it presents.
ServeRefresh(m) ==
    LET c == m.cookie  n == net \ {m}
        named == c # NoCookie /\ m.exp \in {NoSid, c.sid}
    IN  /\ m \in net /\ m.ph = "req" /\ m.k = "refresh"
        /\ UNCHANGED <<tab, ref, lockq, api, logout, chan, env, left, newest>>
        /\ \/ /\ c = NoCookie
              /\ net' = n \cup Deny(m)
              /\ UNCHANGED <<jar, srv>>
           \/ /\ c # NoCookie /\ ~named
              /\ net' = n \cup Answer(m, "mismatch", FALSE, NoCookie, NoToken)
              /\ UNCHANGED <<jar, srv>>
           \/ /\ named
              /\ \/ env.lookup \/ srv[c.sid].st # "active"
                 \/ InForce(c) /\ c.age = 2
              /\ net' = n \cup Deny(m)
              /\ UNCHANGED <<jar, srv>>
           \/ /\ named /\ srv[c.sid].st = "active" /\ srv[c.sid].behind
              /\ srv' = Revoked(c.sid, "user_security_changed")
              /\ net' = n \cup Deny(m)
              /\ UNCHANGED jar
           \/ /\ named /\ InForce(c) /\ c.age = 0
              /\ srv' = [srv EXCEPT ![c.sid].grace = TRUE]
              /\ jar' = Aged(jar, c.sid)
              /\ net' = AgedNet(n, c.sid)
                          \cup Answer(m, "ok", TRUE, Fresh(c.sid), Bundle(c.sid))
           \/ /\ named /\ InForce(c) /\ Recovered(c)
              /\ net' = n \cup Answer(m, "ok", TRUE, Fresh(c.sid), Bundle(c.sid))
              /\ UNCHANGED <<jar, srv>>
           \/ /\ named /\ InForce(c) /\ c.age = 1 /\ ~Recovered(c)
              /\ srv' = Revoked(c.sid, "refresh_reuse")
              /\ net' = n \cup Deny(m)
              /\ UNCHANGED jar

\* ValidateLoginSession: the token has the versions of its session and user,
\* and its session is active.  A token in its last minute may have expired.
Accepted(tok) == tok.sid # NoSid /\ tok.current /\ srv[tok.sid].st = "active"

Outdated(tok, s) == IF tok.sid = s THEN [tok EXCEPT !.current = FALSE] ELSE tok

\* An API request, but for what a password change does.
ServeApi(m) ==
    LET n == net \ {m}
    IN  /\ m \in net /\ m.ph = "req" /\ m.k = "api" /\ m.job # "advance"
        /\ UNCHANGED <<jar, srv, tab, ref, lockq, api, logout, chan, env, left, newest>>
        /\ \/ /\ ~Accepted(m.tok) \/ ~m.tok.fresh
              /\ net' = n \cup Answer(m, "denied", FALSE, NoCookie, NoToken)
           \/ /\ Accepted(m.tok) /\ m.job = "none"
              /\ net' = n \cup Answer(m, "ok", FALSE, NoCookie, NoToken)

\* First half of a password change (or of a 2FA or passkey change): the new
\* users.auth_version is committed and published, and no token of the older one
\* is accepted from then on.
ChangePassword(m) ==
    LET s == m.tok.sid
    IN  /\ m \in net /\ m.ph = "req" /\ m.k = "api" /\ m.job = "password"
        /\ Accepted(m.tok)
        /\ srv' = [srv EXCEPT ![s].behind = TRUE]
        /\ net' = {[x EXCEPT !.tok = Outdated(@, s)] :
                      x \in (net \ {m}) \cup {[m EXCEPT !.job = "advance"]}}
        /\ tab' = [t \in Tabs |-> [tab[t] EXCEPT !.tok = Outdated(@, s)]]
        /\ UNCHANGED <<jar, ref, lockq, api, logout, chan, env, left, newest>>

\* Second half, a transaction of its own: AdvanceUserSessionAuthVersion brings
\* the session the request came from to that version, and the answer has a
\* replacement token.  A session that is no longer active is not advanced: the
\* handler answers without a token.
AdvanceSession(m) ==
    LET s == m.tok.sid  n == net \ {m}
    IN  /\ m \in net /\ m.ph = "req" /\ m.k = "api" /\ m.job = "advance"
        /\ UNCHANGED <<jar, tab, ref, lockq, api, logout, chan, env, left, newest>>
        /\ \/ /\ s # NoSid /\ srv[s].st = "active" /\ srv[s].behind
              /\ srv' = [srv EXCEPT ![s].behind = FALSE]
              /\ net' = n \cup Answer(m, "rotated", FALSE, NoCookie, Bundle(s))
           \/ /\ s = NoSid \/ srv[s].st # "active"
              /\ net' = n \cup Answer(m, "ok", FALSE, NoCookie, NoToken)
              /\ UNCHANGED srv

\* RevokeUserSessionByRefreshHash accepts the previous secret in its window.
Redeemable(c) == srv[c.sid].st = "active" /\ (c.age = 0 \/ Recovered(c))

\* AuthLogout.  The access token only has to parse; without it the cookie
\* authenticates the request.  Success is answered even if nothing was revoked.
ServeLogout(m) ==
    LET c == m.cookie  n == net \ {m}
        Done(sets) == Answer(m, "ok", sets, NoCookie, NoToken)
    IN  /\ m \in net /\ m.ph = "req" /\ m.k = "logout"
        /\ UNCHANGED <<jar, tab, ref, lockq, api, logout, chan, env, left, newest>>
        /\ \/ /\ c # NoCookie /\ m.exp \notin {NoSid, c.sid}
              /\ net' = n \cup Answer(m, "mismatch", FALSE, NoCookie, NoToken)
              /\ UNCHANGED srv
           \/ /\ c = NoCookie \/ m.exp \in {NoSid, c.sid}
              /\ m.tok.sid # NoSid
              /\ srv' = Revoked(m.tok.sid, "logout")
              /\ net' = n \cup Done(c.sid = m.tok.sid)
           \/ /\ c = NoCookie \/ m.exp \in {NoSid, c.sid}
              /\ m.tok.sid = NoSid \/ ~m.tok.fresh
              /\ srv' = IF c # NoCookie /\ Redeemable(c) THEN Revoked(c.sid, "logout") ELSE srv
              /\ net' = n \cup Done(TRUE)

\* Another device, an administrator or a security change revokes the session.
RevokeElsewhere(s) ==
    /\ srv[s].st = "active"
    /\ srv' = Revoked(s, "user_revoked")
    /\ UNCHANGED <<jar, tab, ref, lockq, api, logout, net, chan, env, left, newest>>

\* previous_valid_until passes.
GraceElapses(s) ==
    /\ env.grace /\ srv[s].st = "active" /\ srv[s].grace
    /\ srv' = [srv EXCEPT ![s].grace = FALSE]
    /\ UNCHANGED <<jar, tab, ref, lockq, api, logout, net, chan, env, left, newest>>

----------------------------------------------------------------------------
\* API requests of a tab

\* The request interceptor refreshes a token in its last minute first.
ApiStart(t, rotate) ==
    /\ api[t].pc = "none" /\ ~tab[t].nav /\ Operation
    /\ rotate => env.rotations /\ tab[t].tok # NoToken
    /\ UNCHANGED <<jar, srv, tab, logout, chan, left, newest>>
    /\ \/ /\ tab[t].tok # NoToken /\ ~tab[t].tok.fresh
          /\ api' = [api EXCEPT ![t] = [pc |-> "pre", rotate |-> rotate]]
          /\ StartRefresh(t, tab[t], net)
       \/ /\ tab[t].tok = NoToken \/ tab[t].tok.fresh
          /\ api' = [api EXCEPT ![t] = [pc |-> "sent", rotate |-> rotate]]
          /\ net' = net \cup {ApiRequest(t, tab[t], rotate)}
          /\ UNCHANGED <<ref, lockq>>

\* Mutant of RotationEpoch: an explicit rotation leaves the epoch alone.
RotationEpochKept(t) == ref

\* applyAuthRotation goes through applyAuthBundle, which bumps the epoch.
RotationEpoch(t) == Bumped(t)

\* The response interceptor.
ApiResponse(t, m) ==
    LET n == net \ {m}  p == tab[t]
    IN  /\ m \in net /\ m.ph = "rsp" /\ m.k = "api" /\ m.t = t
        /\ Received(m)
        /\ UNCHANGED <<srv, logout, chan, env, left, newest>>
        /\ \/ /\ \/ m.res = "ok"
                 \/ m.res = "rotated" /\ p.tok.sid # m.tok.sid  \* AuthRotationError
                 \/ m.res = "error"
              /\ api' = [api EXCEPT ![t] = NoApi]
              /\ net' = n
              /\ UNCHANGED <<tab, ref, lockq>>
           \/ /\ m.res = "rotated" /\ p.tok.sid = m.tok.sid
              /\ tab' = [tab EXCEPT ![t] = setBundle(p, m.tok)]
              /\ ref' = RotationEpoch(t)
              /\ api' = [api EXCEPT ![t] = NoApi]
              /\ net' = n
              /\ UNCHANGED lockq
           \/ /\ m.res = "denied" /\ api[t].pc = "sent"
              /\ api' = [api EXCEPT ![t].pc = "mid"]
              /\ StartRefresh(t, p, n)
              /\ UNCHANGED tab
           \/ /\ m.res = "denied" /\ api[t].pc = "retried"
              /\ tab' = [tab EXCEPT ![t] = Expire(reset(p, "complete"))]
              /\ ref' = Bumped(t)
              /\ api' = [api EXCEPT ![t] = NoApi]
              /\ net' = n
              /\ UNCHANGED lockq

----------------------------------------------------------------------------
\* Navigation, login and sign-out

\* beforeLoad of the root route: bootstrapAuthentication.
Bootstrap(t) ==
    LET p == tab[t]  q == [p EXCEPT !.boot = "checking"]
    IN  /\ ~p.nav /\ Operation
        /\ UNCHANGED <<jar, srv, api, logout, chan, left, newest>>
        /\ \/ /\ p.tok.fresh /\ p.boot # "complete"
              /\ tab' = [tab EXCEPT ![t].boot = "complete"]
              /\ UNCHANGED <<ref, lockq, net>>
           \/ /\ ~p.tok.fresh /\ (p.boot # "complete" \/ p.tok # NoToken)
              /\ tab' = [tab EXCEPT ![t] = q]
              /\ StartRefresh(t, q, net)

\* The access token comes within a minute of its expiry.
TokenAges(t) ==
    /\ tab[t].tok.fresh /\ Operation
    /\ tab' = [tab EXCEPT ![t].tok.fresh = FALSE]
    /\ UNCHANGED <<jar, srv, ref, lockq, api, logout, net, chan, left, newest>>

\* A login is answered: createLoginSession made the row, the browser stores
\* the cookie and applyAuthBundle(bundle) runs in the tab.
Login(t, s) ==
    /\ tab[t].tok = NoToken /\ tab[t].boot = "complete" /\ ~tab[t].nav /\ Operation
    /\ srv[s].st = "absent" /\ s \in env.logins
    /\ srv' = [srv EXCEPT ![s].st = "active"]
    /\ jar' = Fresh(s)
    /\ tab' = [tab EXCEPT ![t] = [setBundle(@, Bundle(s)) EXCEPT !.page = "app"]]
    /\ ref' = Bumped(t)
    /\ chan' = Publish(chan, t, "authenticated", s)
    /\ newest' = [sid |-> s, quiet |-> \A m \in net : m.k = "api"]
    /\ UNCHANGED <<lockq, api, logout, net, left>>

\* History: t has left session s.
SignedOut(t, s) ==
    [left EXCEPT ![t] = @ \cup {x \in Sids : x = s /\ srv[x].st = "revoked"}]

\* handleSignOut of the sign-out dialog: logout() and executeLogout.
LogoutStart(t) ==
    /\ tab[t].tok # NoToken /\ logout[t] = "none" /\ ~tab[t].nav /\ Operation
    /\ tab' = [tab EXCEPT ![t].out = TRUE]
    /\ logout' = [logout EXCEPT ![t] = "sent"]
    /\ net' = net \cup {LogoutRequest(t, tab[t], jar)}
    /\ newest' = [newest EXCEPT !.quiet = FALSE]
    /\ UNCHANGED <<jar, srv, ref, lockq, api, chan, left>>

LogoutResponse(t, m) ==
    LET n == net \ {m}  p == tab[t]
    IN  /\ m \in net /\ m.ph = "rsp" /\ m.k = "logout" /\ m.t = t
        /\ Received(m)
        /\ UNCHANGED <<srv, api, env, newest>>
        /\ \/ /\ m.res = "ok"
              /\ tab' = [tab EXCEPT ![t] = [reset(p, "complete") EXCEPT !.page = "signin"]]
              /\ ref' = Bumped(t)
              /\ chan' = Announce(chan, t, p)
              /\ left' = SignedOut(t, p.tok.sid)
              /\ logout' = [logout EXCEPT ![t] = "none"]
              /\ net' = n
              /\ UNCHANGED lockq
           \/ /\ m.res = "mismatch" /\ logout[t] = "sent"
              /\ logout' = [logout EXCEPT ![t] = "refreshing"]
              /\ StartRefresh(t, p, n)
              /\ UNCHANGED <<tab, chan, left>>
           \/ /\ m.res = "error" \/ (m.res = "mismatch" /\ logout[t] = "resent")
              /\ tab' = [tab EXCEPT ![t].out = FALSE]
              /\ logout' = [logout EXCEPT ![t] = "none"]
              /\ net' = n
              /\ UNCHANGED <<ref, lockq, chan, left>>

\* The page of t is loaded anew.  Its lock request goes, its requests may still
\* reach the server, their responses reach nobody.
Load(t, p) ==
    /\ tab' = [tab EXCEPT ![t] = Page(p)]
    /\ ref' = [ref EXCEPT ![t] = NoRefresh]
    /\ lockq' = Without(lockq, t)
    /\ api' = [api EXCEPT ![t] = NoApi]
    /\ logout' = [logout EXCEPT ![t] = "none"]
    /\ net' = {IF m.t = t /\ m.ph = "req" THEN [m EXCEPT !.live = FALSE] ELSE m :
                 m \in {x \in net : ~(x.t = t /\ x.ph = "rsp")}}

Reload(t) ==
    /\ env.reloads > 0
    /\ env' = [env EXCEPT !.reloads = @ - 1]
    /\ Load(t, tab[t].page)
    /\ chan' = [chan EXCEPT ![t] = <<>>]
    /\ UNCHANGED <<jar, srv, left, newest>>

\* location.replace('/sign-in') takes effect.
RedirectToSignIn(t) ==
    /\ tab[t].nav
    /\ Load(t, "signin")
    /\ chan' = [chan EXCEPT ![t] = <<>>]
    /\ UNCHANGED <<jar, srv, env, left, newest>>

\* The listener of RootComponent.
SyncEvent(t) ==
    /\ chan[t] # <<>>
    /\ LET e == Head(chan[t])  p == tab[t]
       IN  /\ UNCHANGED <<jar, srv, env, newest>>
           /\ \/ /\ e.kind = "authenticated" /\ e.sid # p.tok.sid
                 /\ Load(t, p.page)
                 /\ chan' = [chan EXCEPT ![t] = <<>>]
                 /\ UNCHANGED left
              \/ /\ e.kind = "signed_out" /\ e.sid = p.tok.sid
                 /\ tab' = [tab EXCEPT ![t] =
                              [reset(p, "complete") EXCEPT !.out = TRUE, !.page = "signin"]]
                 /\ ref' = Bumped(t)
                 /\ chan' = [chan EXCEPT ![t] = Tail(@)]
                 /\ left' = SignedOut(t, e.sid)
                 /\ UNCHANGED <<lockq, api, logout, net>>
              \/ /\ (e.kind = "authenticated") = (e.sid = p.tok.sid)
                 /\ chan' = [chan EXCEPT ![t] = Tail(@)]
                 /\ UNCHANGED <<tab, ref, lockq, api, logout, net, left>>

----------------------------------------------------------------------------
\* Faults

Fault == env.faults > 0 /\ env' = [env EXCEPT !.faults = @ - 1]

\* A request is lost, answered 5xx or 429, or its response is lost: the tab
\* sees an error and no cookie is stored.
NetworkError(m) ==
    /\ m \in net /\ Fault
    /\ m.ph = "req" => m.live
    /\ m.ph = "rsp" => m.res # "error"
    /\ net' = (net \ {m}) \cup {Response(m.k, m.t, "error", FALSE, NoCookie, NoToken)}
    /\ UNCHANGED <<jar, srv, tab, ref, lockq, api, logout, chan, left, newest>>

\* A frozen tab drops an event older than a minute.
EventExpires(t) ==
    /\ chan[t] # <<>> /\ Fault
    /\ chan' = [chan EXCEPT ![t] = Tail(@)]
    /\ UNCHANGED <<jar, srv, tab, ref, lockq, api, logout, net, left, newest>>

----------------------------------------------------------------------------
Server == \E m \in net :
    \/ ServeRefresh(m) \/ ServeApi(m) \/ ServeLogout(m)
    \/ ChangePassword(m) \/ AdvanceSession(m)
Deliver(t) == \E m \in net :
    RefreshResponse(t, m) \/ ApiResponse(t, m) \/ LogoutResponse(t, m)

Next ==
    \/ Server
    \/ \E s \in Sids : RevokeElsewhere(s) \/ GraceElapses(s)
    \/ \E t \in Tabs :
          \/ GrantLock(t) \/ Deliver(t) \/ SyncEvent(t) \/ RedirectToSignIn(t)
          \/ \E r \in BOOLEAN : ApiStart(t, r)
          \/ Bootstrap(t) \/ TokenAges(t) \/ LogoutStart(t) \/ Reload(t)
          \/ \E s \in Sids : Login(t, s)
          \/ EventExpires(t)
    \/ \E m \in net : NetworkError(m)

Spec == Init /\ [][Next]_vars

\* The browser grants the lock and delivers what has arrived; the server
\* answers each request, or the request times out there.
Fairness ==
    \A t \in Tabs :
      /\ WF_vars(GrantLock(t))
      /\ WF_vars(\E m \in net : RefreshResponse(t, m))
      /\ WF_vars(\E m \in net : m.t = t /\ ServeRefresh(m))

FairSpec == Spec /\ Fairness

----------------------------------------------------------------------------
\* Properties

\* Nobody signed out of or revoked the session of the latest login.
Wanted == newest.sid # NoSid /\ srv[newest.sid].why \notin {"logout", "user_revoked"}

\* A refresh came between the two halves of a password change, or may still
\* come: the second half has not been done.
Overtaken ==
    \/ srv[newest.sid].behind
    \/ srv[newest.sid].why = "user_security_changed"

\* That session is active and the cookie of the browser can be exchanged for it.
Usable == srv[newest.sid].st = "active" /\ jar.sid = newest.sid /\ jar.age <= 1

\* A browser with Web Locks, responses that come within the replay window, and a
\* database that answers.
Sheltered == env.locks /\ ~env.grace /\ ~env.lookup

\* Refreshing never signs the user out: tabs that refresh at once, lose the
\* response or are reloaded in the middle leave the browser with a cookie that
\* the server still accepts (refreshAuthentication under the Web Lock, and the
\* replay window of RotateUserSessionRefresh).  The exception is the refresh that
\* meets a password change halfway: it revokes the session that the change is
\* documented to preserve (AdvanceUserSessionAuthVersion).
SessionKept == Sheltered /\ Wanted /\ newest.quiet /\ ~Overtaken => Usable

\* A sign-out is final in the tab that made it or was told of it: once the
\* session was revoked with it, no response that was still under way, whatever
\* asked for it, brings the session back.
SignedOutForGood ==
    \A t \in Tabs : tab[t].tok.sid \notin left[t]

\* The token of a tab becomes outdated only by a password change on the server,
\* never by a refresh that installs an older token than the one an
\* explicit rotation brought since it began.  The answer of such a rotation is
\* installed by applyAuthRotation however late it comes: it is the exception.
TokenNeverRegresses ==
    [][\A t \in Tabs :
         tab'[t].tok.sid = tab[t].tok.sid /\ tab[t].tok.current /\ ~tab'[t].tok.current
           => \E m \in net : ChangePassword(m) \/ ApiResponse(t, m)]_vars

\* A refresh comes to its end: no tab waits for ever for the lock, for a
\* response, or for a tab that was closed while it held the lock.
RefreshSettles == \A t \in Tabs : ref[t].pc # "none" ~> ref[t].pc = "none"
=============================================================================
