-------------------------- MODULE AuthTabs_proofs --------------------------
(***************************************************************************)
(* The safety properties of AuthTabs, for any number of tabs and sessions. *)
(* The argument for SessionKept: under the Web Lock at most one answer to  *)
(* a refresh is awaited in the whole browser (OneRefresh, LockHeld), every *)
(* request that is awaited presents the cookie the browser still has, and  *)
(* an answer that sets a cookie brings the stored secret to a browser that *)
(* has its predecessor (Kept).  Orphaned requests present the same or an   *)
(* older secret, and nobody receives what the server makes of them.        *)
(*                                                                         *)
(* For SignedOutForGood and TokenNeverRegresses: the answer of a refresh   *)
(* that is still current was asked for after the last change of the tab's  *)
(* authentication (Timely).                                                *)
(***************************************************************************)
EXTENDS AuthTabs, SequenceTheorems, TLAPS

\* A message of a refresh whose answer tab t will receive.
Refreshing(m, t) == m.k = "refresh" /\ m.t = t /\ (m.ph = "rsp" \/ m.live)

\* A tab awaits at most one answer to a refresh, and only after it sent one.
OneRefresh ==
    \A t \in Tabs :
        /\ \A m, x \in net : Refreshing(m, t) /\ Refreshing(x, t) => m = x
        /\ ref[t].pc # "sent" => \A m \in net : ~Refreshing(m, t)

\* Under the Web Lock only the first in the queue has sent a refresh.
LockHeld ==
    env.locks => \A t \in Tabs :
        /\ ref[t].pc = "sent" => lockq # <<>> /\ Head(lockq) = t
        /\ ref[t].pc = "queued" => \E i \in DOMAIN lockq : lockq[i] = t

\* The rows: only revoked ones have a reason, and without the end of the replay
\* window the previous secret is always accepted.
SessionsOK ==
    \A s \in Sids :
        /\ srv[s].why # "none" => srv[s].st = "revoked"
        /\ ~env.grace => srv[s].grace
        /\ \A t \in Tabs : s \in left[t] => srv[s].st = "revoked"

\* What a response brings: API answers, errors and mismatches no cookie, the
\* success of a refresh a fresh token.
ResponseOK(m) ==
    /\ m.sets => m.k # "api" /\ m.res \in {"ok", "denied"}
    /\ m.k = "refresh" /\ m.res = "ok" => m.sets /\ m.tok.sid \in Sids /\ m.tok.fresh

\* The answer of a refresh that is still current is not of a session the tab
\* signed out of, and not older than the token the tab has.
Timely(m) ==
    m.k = "refresh" /\ m.res = "ok" /\ ref[m.t].cur =>
        /\ m.tok.sid \notin left[m.t]
        /\ m.tok.sid = tab[m.t].tok.sid /\ tab[m.t].tok.current => m.tok.current

ResponsesOK == \A m \in net : m.ph = "rsp" => ResponseOK(m) /\ Timely(m)

\* The session of the latest login, while nothing but refreshing has ended it.
Keeping ==
    /\ Sheltered /\ Wanted /\ newest.quiet
    /\ srv[newest.sid].why # "user_security_changed"

\* Requests on behalf of that session s: no refresh presents a secret newer than
\* the browser's, one that is awaited presents the browser's own; a sign-out
\* names the session.
RequestKeeps(m, s) ==
    /\ m.k = "refresh" => /\ m.cookie.sid = s /\ jar.age <= m.cookie.age
                          /\ m.live => m.cookie = jar
    /\ m.k = "logout" => m.tok.sid = s /\ m.tok.fresh
\* Responses: a refresh brings the stored secret to a browser that has its
\* predecessor; no sign-out succeeded.
ResponseKeeps(m, s) ==
    /\ m.k = "refresh" /\ m.sets => m.to = Fresh(s) /\ jar.age = 1
    /\ m.k = "refresh" /\ m.res = "ok" => m.tok.sid = s
    /\ m.k = "logout" => ~m.sets

Kept ==
    Keeping =>
        /\ Usable
        /\ \A m \in net : IF m.ph = "req" THEN RequestKeeps(m, newest.sid)
                          ELSE ResponseKeeps(m, newest.sid)

IInv ==
    /\ TypeOK
    /\ OneRefresh /\ LockHeld /\ SessionsOK /\ ResponsesOK
    /\ SignedOutForGood /\ Kept

-----------------------------------------------------------------------------
(* The lock queue.                                                         *)

\* Taking t out of the queue leaves the others there, and the first one first.
LEMMA WithoutFacts ==
    ASSUME NEW q \in Seq(Tabs), NEW t \in Tabs
    PROVE  /\ Without(q, t) \in Seq(Tabs)
           /\ \A u \in Tabs \ {t} :
                 /\ q # <<>> /\ Head(q) = u =>
                       Without(q, t) # <<>> /\ Head(Without(q, t)) = u
                 /\ (\E i \in DOMAIN q : q[i] = u) =>
                       \E i \in DOMAIN Without(q, t) : Without(q, t)[i] = u
  <1>1. CASE \A i \in DOMAIN q : q[i] # t
     BY <1>1 DEF Without
  <1>2. CASE \E i \in DOMAIN q : q[i] = t
    <2>1. PICK k \in DOMAIN q : /\ q[k] = t
                                /\ Without(q, t) = SubSeq(q, 1, k - 1) \o SubSeq(q, k + 1, Len(q))
       BY <1>2 DEF Without
    <2>2. k \in 1 .. Len(q) /\ Len(q) \in Nat
       BY <2>1
    <2>. DEFINE a == SubSeq(q, 1, k - 1)
                b == SubSeq(q, k + 1, Len(q))
                w == a \o b
    <2>3. /\ a \in Seq(Tabs) /\ Len(a) = k - 1
          /\ \A i \in 1 .. k - 1 : a[i] = q[i]
       BY <2>2
    <2>4. /\ b \in Seq(Tabs) /\ Len(b) = Len(q) - k
          /\ \A i \in 1 .. Len(q) - k : b[i] = q[k + i]
       BY <2>2
    <2>. HIDE DEF a, b
    <2>5. /\ w \in Seq(Tabs) /\ Len(w) = Len(q) - 1
          /\ \A i \in 1 .. k - 1 : w[i] = q[i]
          /\ \A i \in k .. Len(q) - 1 : w[i] = q[i + 1]
      <3>1. w \in Seq(Tabs) /\ Len(w) = Len(a) + Len(b)
         BY <2>3, <2>4, ConcatProperties
      <3>2. \A i \in 1 .. Len(a) + Len(b) :
               w[i] = IF i <= Len(a) THEN a[i] ELSE b[i - Len(a)]
         BY <2>3, <2>4, ConcatProperties
      <3>3. Len(w) = Len(q) - 1
         BY <2>2, <2>3, <2>4, <3>1
      <3>4. ASSUME NEW i \in 1 .. k - 1 PROVE w[i] = q[i]
         BY <2>2, <2>3, <2>4, <3>2
      <3>5. ASSUME NEW i \in k .. Len(q) - 1 PROVE w[i] = q[i + 1]
        <4>1. i \in 1 .. Len(a) + Len(b) /\ ~(i <= Len(a))
           BY <2>2, <2>3, <2>4
        <4>2. PICK j : j = i - Len(a)
           OBVIOUS
        <4>3. j \in 1 .. Len(q) - k /\ k + j = i + 1
          <5>1. \A n, x, y \in Int : y \in x .. n - 1 =>
                   y - (x - 1) \in 1 .. n - x /\ x + (y - (x - 1)) = y + 1
             OBVIOUS
          <5>2. Len(q) \in Int /\ k \in Int /\ i \in Int
             BY <2>2
          <5>3. j = i - (k - 1)
             BY <2>3, <4>2
          <5>. QED  BY <5>1, <5>2, <5>3
        <4>4. w[i] = b[j] /\ b[j] = q[k + j]
           BY <2>4, <3>2, <4>1, <4>2, <4>3
        <4>. QED  BY <4>3, <4>4
      <3>. QED  BY <3>1, <3>3, <3>4, <3>5
    <2>. HIDE DEF w
    <2>6. ASSUME NEW u \in Tabs \ {t}, q # <<>>, Head(q) = u
          PROVE  w # <<>> /\ Head(w) = u
      <3>1. q[1] = u /\ k # 1 /\ 1 \in 1 .. k - 1
         BY <2>1, <2>2, <2>6
      <3>2. w[1] = u /\ Len(w) >= 1
         BY <2>2, <2>5, <3>1
      <3>. QED  BY <2>5, <3>2
    <2>7. ASSUME NEW u \in Tabs \ {t}, NEW i \in DOMAIN q, q[i] = u
          PROVE  \E j \in DOMAIN w : w[j] = u
      <3>1. i \in 1 .. Len(q) /\ i # k
         BY <2>1, <2>7
      <3>2. CASE i < k
         BY <2>2, <2>5, <2>7, <3>1, <3>2
      <3>3. CASE i > k
        <4>1. i - 1 \in k .. Len(q) - 1 /\ i - 1 + 1 = i
           BY <2>2, <3>1, <3>3
        <4>2. w[i - 1] = u /\ i - 1 \in 1 .. Len(w)
           BY <2>2, <2>5, <2>7, <4>1
        <4>. QED  BY <2>5, <4>2
      <3>. QED  BY <2>2, <3>1, <3>2, <3>3
    <2>8. Without(q, t) = w
       BY <2>1 DEF w, a, b
    <2>. QED  BY <2>5, <2>6, <2>7, <2>8
  <1>. QED  BY <1>1, <1>2

-----------------------------------------------------------------------------
(* Cookies, tokens, pages and messages.                                    *)

\* A cookie with a session has its secret's age.
LEMMA CookieFacts ==
    ASSUME NEW c \in Cookies
    PROVE  /\ c.sid \in Sids \cup {NoSid} /\ c.age \in 0 .. 2
           /\ c # NoCookie => c.sid \in Sids /\ c \in [sid : Sids, age : 0..2]
           /\ c.sid = NoSid => c = NoCookie
  BY NoSidAssumption DEF Cookies, NoCookie

\* A rotation ages a copy of the cookie by one, at most to two.
LEMMA AgedFacts ==
    ASSUME NEW c \in Cookies, NEW s \in Sids
    PROVE  /\ Aged(c, s) \in Cookies /\ Aged(c, s).sid = c.sid
           /\ c.sid # s => Aged(c, s) = c
           /\ c.sid = s => Aged(c, s).age = IF c.age < 2 THEN c.age + 1 ELSE 2
  <1>1. CASE c.sid = s /\ c.age < 2
    <2>1. c \in [sid : Sids, age : 0..2]
       BY <1>1, NoSidAssumption, CookieFacts DEF NoCookie
    <2>2. Aged(c, s) = [c EXCEPT !.age = @ + 1]
       BY <1>1 DEF Aged
    <2>3. /\ Aged(c, s) \in [sid : Sids, age : 0..2] /\ Aged(c, s).sid = c.sid
          /\ Aged(c, s).age = c.age + 1
       BY <1>1, <2>1, <2>2
    <2>. QED  BY <1>1, <2>3 DEF Cookies
  <1>2. CASE ~(c.sid = s /\ c.age < 2)
     BY <1>2, CookieFacts DEF Aged
  <1>. QED  BY <1>1, <1>2

\* A token with a session is fresh or not, current or not.
LEMMA TokenFacts ==
    ASSUME NEW k \in Tokens
    PROVE  /\ k.sid \in Sids \cup {NoSid} /\ k.fresh \in BOOLEAN /\ k.current \in BOOLEAN
           /\ k # NoToken =>
                 k.sid \in Sids /\ k \in [sid : Sids, fresh : BOOLEAN, current : BOOLEAN]
           /\ k.sid = NoSid => k = NoToken
  <1>1. CASE k = NoToken
    <2>1. NoToken.sid = NoSid /\ NoToken.fresh = FALSE /\ NoToken.current = FALSE
       BY DEF NoToken
    <2>. QED  BY <1>1, <2>1
  <1>2. CASE k \in [sid : Sids, fresh : BOOLEAN, current : BOOLEAN]
    <2>1. k.sid \in Sids /\ k.fresh \in BOOLEAN /\ k.current \in BOOLEAN
       BY <1>2
    <2>. QED  BY <1>2, <2>1, NoSidAssumption
  <1>. QED  BY <1>1, <1>2 DEF Tokens

\* No token and no cookie.
LEMMA NoneFacts ==
    /\ NoToken \in Tokens /\ NoToken.sid = NoSid /\ ~NoToken.fresh /\ ~NoToken.current
    /\ NoCookie \in Cookies /\ NoCookie.sid = NoSid /\ NoCookie.age = 0
  BY DEF Tokens, NoToken, Cookies, NoCookie

\* What a refresh brings.
LEMMA BundleFacts ==
    ASSUME NEW s \in Sids
    PROVE  /\ Bundle(s) \in Tokens /\ Bundle(s).sid = s /\ Bundle(s).fresh /\ Bundle(s).current
           /\ Fresh(s) \in Cookies /\ Fresh(s).sid = s /\ Fresh(s).age = 0
           /\ Fresh(s) # NoCookie
  BY NoSidAssumption DEF Bundle, Tokens, Fresh, Cookies, NoCookie

\* A token of session s is outdated, others are left alone.
LEMMA OutdatedFacts ==
    ASSUME NEW k \in Tokens, NEW s \in Sids
    PROVE  /\ Outdated(k, s) \in Tokens /\ Outdated(k, s).sid = k.sid
           /\ Outdated(k, s).fresh = k.fresh
           /\ k.sid # s => Outdated(k, s) = k
           /\ k.sid = s => Outdated(k, s).current = FALSE
  <1>1. CASE k.sid = s
    <2>1. k \in [sid : Sids, fresh : BOOLEAN, current : BOOLEAN]
       BY <1>1, NoSidAssumption, TokenFacts DEF NoToken
    <2>2. Outdated(k, s) = [k EXCEPT !.current = FALSE]
       BY <1>1 DEF Outdated
    <2>3. /\ Outdated(k, s) \in [sid : Sids, fresh : BOOLEAN, current : BOOLEAN]
          /\ Outdated(k, s).sid = k.sid /\ Outdated(k, s).fresh = k.fresh
          /\ Outdated(k, s).current = FALSE
       BY <2>1, <2>2
    <2>. QED  BY <1>1, <2>3 DEF Tokens
  <1>2. CASE k.sid # s
     BY <1>2 DEF Outdated
  <1>. QED  BY <1>1, <1>2

\* A page with another token, or another state of its flags.
LEMMA PageFacts ==
    ASSUME NEW p \in Pages
    PROVE  /\ p.tok \in Tokens /\ p.page \in {"app", "signin"}
           /\ Expire(p) \in Pages /\ Expire(p).tok = p.tok
           /\ \A k \in Tokens : setBundle(p, k) \in Pages /\ setBundle(p, k).tok = k
           /\ \A b \in {"idle", "checking", "complete"} :
                 /\ reset(p, b) \in Pages /\ reset(p, b).tok = NoToken
                 /\ [p EXCEPT !.boot = b] \in Pages /\ [p EXCEPT !.boot = b].tok = p.tok
           /\ \A b \in BOOLEAN :
                 [p EXCEPT !.out = b] \in Pages /\ [p EXCEPT !.out = b].tok = p.tok
           /\ \A g \in {"app", "signin"} :
                 [p EXCEPT !.page = g] \in Pages /\ [p EXCEPT !.page = g].tok = p.tok
  <1>1. p.tok \in Tokens /\ p.page \in {"app", "signin"}
     BY DEF Pages
  <1>2. Expire(p) \in Pages /\ Expire(p).tok = p.tok
     BY DEF Pages, Expire
  <1>3. \A k \in Tokens : setBundle(p, k) \in Pages /\ setBundle(p, k).tok = k
     BY DEF Pages, setBundle
  <1>4. \A b \in {"idle", "checking", "complete"} :
           reset(p, b) \in Pages /\ reset(p, b).tok = NoToken
     BY NoneFacts DEF Pages, reset
  <1>5. \A b \in {"idle", "checking", "complete"} :
           [p EXCEPT !.boot = b] \in Pages /\ [p EXCEPT !.boot = b].tok = p.tok
     BY DEF Pages
  <1>6. \A b \in BOOLEAN :
           [p EXCEPT !.out = b] \in Pages /\ [p EXCEPT !.out = b].tok = p.tok
     BY DEF Pages
  <1>7. \A g \in {"app", "signin"} :
           [p EXCEPT !.page = g] \in Pages /\ [p EXCEPT !.page = g].tok = p.tok
     BY DEF Pages
  <1>. QED  BY <1>1, <1>2, <1>3, <1>4, <1>5, <1>6, <1>7

\* A page just loaded has no token.
LEMMA LoadedFacts ==
    ASSUME NEW g \in {"app", "signin"}
    PROVE  Page(g) \in Pages /\ Page(g).tok = NoToken
  BY NoneFacts DEF Page, Pages

Messages == Requests \cup Responses

\* The fields of a message.
LEMMA MessageFacts ==
    ASSUME NEW m \in Messages
    PROVE  /\ m.k \in Kinds /\ m.t \in Tabs /\ m.tok \in Tokens
           /\ m.ph = "req" => m \in Requests /\ m.live \in BOOLEAN /\ m.cookie \in Cookies
                              /\ m.exp \in Sids \cup {NoSid} /\ m.job \in Jobs
           /\ m.ph = "rsp" => m \in Responses /\ m.sets \in BOOLEAN /\ m.to \in Cookies
           /\ m.ph # "req" => m.ph = "rsp"
           /\ m.ph # "rsp" => m.ph = "req"
  BY DEF Messages, Requests, Responses

\* A request that was just sent.
LEMMA RequestFacts ==
    ASSUME NEW k \in Kinds, NEW j \in Jobs, NEW t \in Tabs, NEW c \in Cookies,
           NEW e \in Sids \cup {NoSid}, NEW tok \in Tokens
    PROVE  LET m == Request(k, j, t, c, e, tok)
           IN  /\ m \in Messages /\ m.ph = "req" /\ m.k = k /\ m.t = t /\ m.live
               /\ m.cookie = c /\ m.exp = e /\ m.tok = tok
  BY DEF Request, Messages, Requests

\* A message with aged cookies, with an outdated token, or without its page.
AgedMsg(m, s) == IF m.ph = "req" THEN [m EXCEPT !.cookie = Aged(@, s)]
                 ELSE [m EXCEPT !.to = Aged(@, s)]
OutdatedMsg(m, s) == [m EXCEPT !.tok = Outdated(@, s)]
Orphan(m) == [m EXCEPT !.live = FALSE]

\* Ageing changes nothing but the cookie.
LEMMA AgedMsgFacts ==
    ASSUME NEW m \in Messages, NEW s \in Sids
    PROVE  /\ AgedMsg(m, s) \in Messages
           /\ AgedMsg(m, s).ph = m.ph /\ AgedMsg(m, s).k = m.k /\ AgedMsg(m, s).t = m.t
           /\ AgedMsg(m, s).tok = m.tok
           /\ m.ph = "req" => /\ AgedMsg(m, s).live = m.live
                              /\ AgedMsg(m, s).cookie = Aged(m.cookie, s)
           /\ m.ph = "rsp" => /\ AgedMsg(m, s).res = m.res /\ AgedMsg(m, s).sets = m.sets
                              /\ AgedMsg(m, s).to = Aged(m.to, s)
  <1>1. CASE m.ph = "req"
    <2>1. m \in Requests /\ Aged(m.cookie, s) \in Cookies
       BY <1>1, MessageFacts, AgedFacts
    <2>2. PICK c \in Cookies : c = Aged(m.cookie, s)
       BY <2>1
    <2>3. AgedMsg(m, s) = [m EXCEPT !.cookie = c]
       BY <1>1, <2>2 DEF AgedMsg
    <2>. QED  BY <1>1, <2>1, <2>2, <2>3 DEF Requests, Messages
  <1>2. CASE m.ph = "rsp"
    <2>1. m \in Responses /\ Aged(m.to, s) \in Cookies
       BY <1>2, MessageFacts, AgedFacts
    <2>2. PICK c \in Cookies : c = Aged(m.to, s)
       BY <2>1
    <2>3. AgedMsg(m, s) = [m EXCEPT !.to = c]
       BY <1>2, <2>2 DEF AgedMsg
    <2>. QED  BY <1>2, <2>1, <2>2, <2>3 DEF Responses, Messages
  <1>. QED  BY <1>1, <1>2, MessageFacts

\* Outdating changes nothing but the token.
LEMMA OutdatedMsgFacts ==
    ASSUME NEW m \in Messages, NEW s \in Sids
    PROVE  /\ OutdatedMsg(m, s) \in Messages
           /\ OutdatedMsg(m, s).ph = m.ph /\ OutdatedMsg(m, s).k = m.k
           /\ OutdatedMsg(m, s).t = m.t
           /\ OutdatedMsg(m, s).tok = Outdated(m.tok, s)
           /\ m.ph = "req" => /\ OutdatedMsg(m, s).live = m.live
                              /\ OutdatedMsg(m, s).cookie = m.cookie
           /\ m.ph = "rsp" => /\ OutdatedMsg(m, s).res = m.res
                              /\ OutdatedMsg(m, s).sets = m.sets
                              /\ OutdatedMsg(m, s).to = m.to
  <1>1. PICK k \in Tokens : k = Outdated(m.tok, s)
     BY MessageFacts, OutdatedFacts
  <1>2. OutdatedMsg(m, s) = [m EXCEPT !.tok = k]
     BY <1>1 DEF OutdatedMsg
  <1>3. CASE m \in Requests
     BY <1>1, <1>2, <1>3 DEF Requests, Messages
  <1>4. CASE m \in Responses
     BY <1>1, <1>2, <1>4 DEF Responses, Messages
  <1>. QED  BY <1>3, <1>4 DEF Messages

\* An orphaned request is as it was, but for its page.
LEMMA OrphanFacts ==
    ASSUME NEW m \in Requests
    PROVE  /\ Orphan(m) \in Messages /\ Orphan(m).ph = "req" /\ Orphan(m).k = m.k
           /\ Orphan(m).t = m.t /\ ~Orphan(m).live /\ Orphan(m).cookie = m.cookie
           /\ Orphan(m).tok = m.tok
  BY DEF Orphan, Requests, Messages

-----------------------------------------------------------------------------
(* What a step may do to keep the invariant, part by part.                 *)

\* The state, one variable after the other.
LEMMA Facts ==
    ASSUME IInv
    PROVE  /\ jar \in Cookies /\ lockq \in Seq(Tabs) /\ net \subseteq Messages
           /\ srv \in [Sids -> Rows] /\ tab \in [Tabs -> Pages]
           /\ ref \in [Tabs -> Refreshes] /\ left \in [Tabs -> SUBSET Sids]
           /\ env \in EnvironmentType
           /\ newest \in [sid : Sids \cup {NoSid}, quiet : BOOLEAN]
           /\ \A t \in Tabs : tab[t] \in Pages /\ tab[t].tok \in Tokens
           /\ \A t \in Tabs : ref[t] \in Refreshes /\ ref[t].cur \in BOOLEAN
  <1>1. TypeOK
     BY DEF IInv
  <1>2. \A t \in Tabs : tab[t] \in Pages /\ tab[t].tok \in Tokens
     BY <1>1, PageFacts DEF TypeOK
  <1>3. \A t \in Tabs : ref[t] \in Refreshes /\ ref[t].cur \in BOOLEAN
     BY <1>1 DEF TypeOK, Refreshes
  <1>. QED  BY <1>1, <1>2, <1>3 DEF TypeOK, Messages

\* Only tab t moves.
Apart(t) ==
    \A u \in Tabs \ {t} : tab'[u] = tab[u] /\ ref'[u] = ref[u] /\ left'[u] = left[u]

\* What browser and server may do is settled.
SameEnv == env'.locks = env.locks /\ env'.grace = env.grace /\ env'.lookup = env.lookup

\* A tab gets no second refresh under way.
LEMMA OneRefreshKept ==
    ASSUME IInv, NEW t \in Tabs, Apart(t),
           \A x \in net' : \A u \in Tabs \ {t} : Refreshing(x, u) => x \in net,
           \/ /\ \A x \in net' : Refreshing(x, t) => x \in net
              /\ ref'[t].pc = ref[t].pc \/ \A x \in net' : ~Refreshing(x, t)
           \/ /\ ref'[t].pc = "sent"
              /\ \E a : \A x \in net' : Refreshing(x, t) => x = a
    PROVE  OneRefresh'
  <1>1. OneRefresh
     BY DEF IInv
  <1>2. ASSUME NEW u \in Tabs
        PROVE  /\ \A m, x \in net' : Refreshing(m, u) /\ Refreshing(x, u) => m = x
               /\ ref'[u].pc # "sent" => \A m \in net' : ~Refreshing(m, u)
    <2>1. CASE u # t
       BY <1>1, <2>1 DEF OneRefresh, Apart
    <2>2. CASE u = t
       BY <1>1, <2>2 DEF OneRefresh
    <2>. QED  BY <2>1, <2>2
  <1>. QED  BY <1>2 DEF OneRefresh

\* The lock queue follows the refreshes.
LEMMA LockKept ==
    ASSUME IInv, NEW t \in Tabs, Apart(t), SameEnv,
           \/ lockq' = lockq /\ ref'[t].pc = ref[t].pc
           \/ /\ lockq' = Append(lockq, t)
              /\ ref[t].pc = "none" /\ ref'[t].pc = "queued"
           \/ lockq' = Without(lockq, t) /\ ref'[t].pc = "none"
           \/ /\ lockq' = lockq /\ ref'[t].pc = "sent"
              /\ ref[t].pc = "queued" /\ Head(lockq) = t
           \/ ~env.locks
    PROVE  LockHeld'
  <1>. SUFFICES ASSUME env.locks, NEW u \in Tabs
                PROVE  /\ ref'[u].pc = "sent" => lockq' # <<>> /\ Head(lockq') = u
                       /\ ref'[u].pc = "queued" => \E i \in DOMAIN lockq' : lockq'[i] = u
     BY DEF LockHeld, SameEnv
  <1>1. /\ lockq \in Seq(Tabs)
        /\ \A v \in Tabs :
             /\ ref[v].pc = "sent" => lockq # <<>> /\ Head(lockq) = v
             /\ ref[v].pc = "queued" => \E i \in DOMAIN lockq : lockq[i] = v
     BY Facts DEF IInv, LockHeld
  <1>2. CASE lockq' = lockq /\ ref'[t].pc = ref[t].pc
    <2>1. ref'[u].pc = ref[u].pc
       BY <1>2 DEF Apart
    <2>. QED  BY <1>1, <1>2, <2>1
  <1>3. CASE /\ lockq' = Append(lockq, t)
             /\ ref[t].pc = "none" /\ ref'[t].pc = "queued"
    <2>1. /\ lockq' \in Seq(Tabs) /\ Len(lockq') = Len(lockq) + 1
          /\ lockq'[Len(lockq) + 1] = t
          /\ \A i \in 1 .. Len(lockq) : lockq'[i] = lockq[i]
       BY <1>1, <1>3
    <2>2. CASE u = t
      <3>1. Len(lockq) + 1 \in DOMAIN lockq'
         BY <1>1, <2>1
      <3>. QED  BY <1>3, <2>1, <2>2, <3>1
    <2>3. CASE u # t
      <3>1. ref'[u] = ref[u]
         BY <2>3 DEF Apart
      <3>2. ref[u].pc = "sent" => lockq' # <<>> /\ Head(lockq') = u
         BY <1>1, <2>1
      <3>3. ref[u].pc = "queued" => \E i \in DOMAIN lockq' : lockq'[i] = u
         BY <1>1, <2>1
      <3>. QED  BY <3>1, <3>2, <3>3
    <2>. QED  BY <2>2, <2>3
  <1>4. CASE lockq' = Without(lockq, t) /\ ref'[t].pc = "none"
    <2>1. CASE u = t
       BY <1>4, <2>1
    <2>2. CASE u # t
      <3>1. /\ lockq # <<>> /\ Head(lockq) = u => lockq' # <<>> /\ Head(lockq') = u
            /\ (\E i \in DOMAIN lockq : lockq[i] = u) =>
                  \E i \in DOMAIN lockq' : lockq'[i] = u
        <4>1. u \in Tabs \ {t}
           BY <2>2
        <4>2. PICK w : w = Without(lockq, t)
           OBVIOUS
        <4>3. \A v \in Tabs \ {t} :
                 /\ lockq # <<>> /\ Head(lockq) = v =>
                       Without(lockq, t) # <<>> /\ Head(Without(lockq, t)) = v
                 /\ (\E i \in DOMAIN lockq : lockq[i] = v) =>
                       \E i \in DOMAIN Without(lockq, t) : Without(lockq, t)[i] = v
           BY <1>1, WithoutFacts
        <4>4. lockq' = w
           BY <1>4, <4>2
        <4>. QED  BY <4>1, <4>2, <4>3, <4>4
      <3>2. ref'[u] = ref[u]
         BY <2>2 DEF Apart
      <3>. QED  BY <1>1, <3>1, <3>2
    <2>. QED  BY <2>1, <2>2
  <1>5. CASE /\ lockq' = lockq /\ ref'[t].pc = "sent"
             /\ ref[t].pc = "queued" /\ Head(lockq) = t
    <2>1. lockq # <<>>
       BY <1>1, <1>5
    <2>. QED  BY <1>1, <1>5, <2>1 DEF Apart
  <1>. QED  BY <1>2, <1>3, <1>4, <1>5

\* The rows do not change, and only sessions with revoked rows are left.
LEMMA SessionsKept ==
    ASSUME IInv, srv' = srv, SameEnv,
           \A u \in Tabs : \A s \in Sids :
              s \in left'[u] => s \in left[u] \/ srv[s].st = "revoked"
    PROVE  SessionsOK'
  BY DEF IInv, SessionsOK, SameEnv

\* No response is new.  Those for tab t: none is of a refresh, or the refresh is
\* no longer current, or the tab has the same token as before or none that counts.
LEMMA ResponsesKept ==
    ASSUME IInv, NEW t \in Tabs, Apart(t),
           \A x \in net' : x.ph = "rsp" => x \in net,
           \/ \A x \in net' : x.ph = "rsp" /\ x.t = t => x.k # "refresh"
           \/ ~ref'[t].cur
           \/ /\ ref[t].cur /\ left'[t] = left[t]
              /\ tab'[t].tok.current =>
                    tab[t].tok.current /\ tab'[t].tok.sid = tab[t].tok.sid
    PROVE  ResponsesOK'
  <1>. SUFFICES ASSUME NEW x \in net', x.ph = "rsp"
                PROVE  ResponseOK(x) /\ Timely(x)'
     BY DEF ResponsesOK, ResponseOK
  <1>1. x \in net /\ ResponseOK(x) /\ Timely(x) /\ x.t \in Tabs
     BY Facts, MessageFacts DEF IInv, ResponsesOK
  <1>2. Timely(x)'
    <2>1. CASE x.t # t
       BY <1>1, <2>1 DEF Timely, Apart
    <2>2. CASE x.t = t
       BY <1>1, <2>2 DEF Timely
    <2>. QED  BY <2>1, <2>2
  <1>. QED  BY <1>1, <1>2

\* Tab t does not take up a session it left.
LEMMA SignedOutKept ==
    ASSUME IInv, NEW t \in Tabs, Apart(t), tab'[t].tok.sid \notin left'[t]
    PROVE  SignedOutForGood'
  BY DEF IInv, SignedOutForGood, Apart

\* Under the Web Lock at most one answer to a refresh is awaited in all tabs.
LEMMA OneInAll ==
    ASSUME IInv, env.locks, NEW m \in net, NEW x \in net, NEW t \in Tabs, NEW u \in Tabs,
           Refreshing(m, t), Refreshing(x, u)
    PROVE  m = x
  <1>1. ref[t].pc = "sent" /\ ref[u].pc = "sent"
     BY DEF IInv, OneRefresh
  <1>2. t = u
     BY <1>1 DEF IInv, LockHeld
  <1>. QED  BY <1>2 DEF IInv, OneRefresh

\* Why a session ends for other reasons than refreshing.
Ended == {"logout", "user_revoked", "user_security_changed"}

\* The session of the latest login is still wanted only if it was before.
LEMMA KeepingBefore ==
    ASSUME IInv, SameEnv, newest'.sid = newest.sid, newest'.quiet => newest.quiet,
           \A s \in Sids : srv'[s].why \notin Ended => srv[s].why \notin Ended,
           Keeping'
    PROVE  Keeping /\ newest.sid \in Sids
  BY Facts DEF Keeping, Sheltered, Wanted, SameEnv, Ended

\* The session is kept by a step that leaves cookie and rows alone and sends
\* refreshes with the cookie only.
LEMMA KeptKept ==
    ASSUME IInv, SameEnv, srv' = srv,
           newest'.sid = newest.sid, newest'.quiet => newest.quiet,
           Keeping => jar' = jar,
           \A x \in net' :
              \/ x \in net
              \/ \E m \in net : m.ph = "req" /\ x = Orphan(m)
              \/ /\ x.ph = "req" /\ x.k = "refresh" => x.cookie = jar
                 /\ x.ph = "req"
                 /\ x.k = "logout" /\ Keeping' => x.tok.sid = newest.sid /\ x.tok.fresh
    PROVE  Kept'
  <1>. SUFFICES ASSUME Keeping'
                PROVE  /\ Usable'
                       /\ \A x \in net' : IF x.ph = "req" THEN RequestKeeps(x, newest.sid)'
                                          ELSE ResponseKeeps(x, newest.sid)'
     BY DEF Kept
  <1>1. Keeping /\ newest.sid \in Sids
     BY KeepingBefore
  <1>2. /\ Usable /\ jar' = jar
        /\ \A m \in net : IF m.ph = "req" THEN RequestKeeps(m, newest.sid)
                          ELSE ResponseKeeps(m, newest.sid)
     BY <1>1 DEF IInv, Kept
  <1>3. Usable'
     BY <1>2 DEF Usable
  <1>4. ASSUME NEW x \in net'
        PROVE  IF x.ph = "req" THEN RequestKeeps(x, newest.sid)'
               ELSE ResponseKeeps(x, newest.sid)'
    <2>1. CASE x \in net
       BY <1>2, <2>1 DEF RequestKeeps, ResponseKeeps
    <2>2. CASE \E m \in net : m.ph = "req" /\ x = Orphan(m)
      <3>1. PICK m \in net : m.ph = "req" /\ x = Orphan(m)
         BY <2>2
      <3>2. /\ m \in Requests /\ x.ph = "req" /\ x.k = m.k /\ x.cookie = m.cookie
            /\ ~x.live /\ x.tok = m.tok
         BY <3>1, Facts, MessageFacts, OrphanFacts
      <3>3. RequestKeeps(m, newest.sid)
         BY <1>2, <3>1
      <3>. QED  BY <1>2, <3>2, <3>3 DEF RequestKeeps
    <2>3. CASE /\ x.ph = "req" /\ x.k = "refresh" => x.cookie = jar
               /\ x.ph = "req"
               /\ x.k = "logout" /\ Keeping' => x.tok.sid = newest.sid /\ x.tok.fresh
      <3>1. jar.sid = newest.sid /\ jar.age <= jar.age
         BY <1>2, Facts, CookieFacts DEF Usable
      <3>. QED  BY <1>2, <2>3, <3>1 DEF RequestKeeps
    <2>. QED  BY <2>1, <2>2, <2>3
  <1>. QED  BY <1>3, <1>4

-----------------------------------------------------------------------------
(* Steps of one tab.                                                       *)

\* While no refresh of t is sent, no message of one is under way.
LEMMA NothingSent ==
    ASSUME IInv, NEW t \in Tabs, ref[t].pc # "sent", NEW x \in net
    PROVE  /\ ~Refreshing(x, t)
           /\ x.ph = "rsp" /\ x.t = t => x.k # "refresh"
  <1>1. ~Refreshing(x, t)
     BY DEF IInv, OneRefresh
  <1>. QED  BY <1>1 DEF Refreshing

\* authEpoch += 1 in tab t.
LEMMA BumpedFacts ==
    ASSUME IInv, NEW t \in Tabs
    PROVE  /\ Bumped(t) \in [Tabs -> Refreshes]
           /\ Bumped(t)[t].pc = ref[t].pc /\ Bumped(t)[t].cur = (ref[t].pc = "none")
           /\ \A u \in Tabs \ {t} : Bumped(t)[u] = ref[u]
  <1>1. ref \in [Tabs -> Refreshes] /\ ref[t] \in Refreshes
     BY Facts
  <1>2. PICK b \in BOOLEAN : b = (ref[t].pc = "none")
     OBVIOUS
  <1>3. PICK r : r = [ref[t] EXCEPT !.cur = b]
     OBVIOUS
  <1>4. r \in Refreshes /\ r.pc = ref[t].pc /\ r.cur = b
     BY <1>1, <1>3 DEF Refreshes
  <1>5. Bumped(t) = [ref EXCEPT ![t] = r]
     BY <1>2, <1>3 DEF Bumped
  <1>6. /\ Bumped(t) \in [Tabs -> Refreshes] /\ Bumped(t)[t] = r
        /\ \A u \in Tabs \ {t} : Bumped(t)[u] = ref[u]
     BY <1>1, <1>4, <1>5
  <1>. QED  BY <1>2, <1>4, <1>6

\* A step of tab t that begins and ends no refresh.
LEMMA PlainStep ==
    ASSUME IInv, TypeOK', NEW t \in Tabs, Apart(t), srv' = srv, SameEnv, lockq' = lockq,
           newest'.sid = newest.sid, newest'.quiet => newest.quiet,
           Keeping => jar' = jar,
           \A x \in net' : \/ x \in net
                           \/ /\ x.ph = "req" /\ x.k \in {"api", "logout"}
                              /\ x.k = "logout" => ~newest'.quiet,
           ref'[t].pc = ref[t].pc,
           \/ /\ ref'[t] = ref[t] /\ left'[t] = left[t]
              /\ tab'[t].tok.current =>
                    tab[t].tok.current /\ tab'[t].tok.sid = tab[t].tok.sid
           \/ ref'[t].cur = (ref[t].pc = "none"),
           \A s \in Sids : s \in left'[t] => s \in left[t] \/ srv[s].st = "revoked",
           tab'[t].tok.sid \notin left'[t]
    PROVE  IInv'
  <1>1. \A x \in net' : x \in net \/ (x.ph = "req" /\ x.k # "refresh")
     OBVIOUS
  <1>2. OneRefresh'
    <2>1. \A x \in net' : \A u \in Tabs : Refreshing(x, u) => x \in net
       BY <1>1 DEF Refreshing
    <2>. QED  BY <2>1, OneRefreshKept
  <1>3. LockHeld'
     BY LockKept
  <1>4. SessionsOK'
     BY SessionsKept DEF Apart
  <1>5. ResponsesOK'
    <2>1. \A x \in net' : x.ph = "rsp" => x \in net
       BY <1>1
    <2>2. CASE ref[t].pc = "none"
      <3>1. \A x \in net' : x.ph = "rsp" /\ x.t = t => x.k # "refresh"
         BY <2>1, <2>2, NothingSent
      <3>. QED  BY <2>1, <3>1, ResponsesKept
    <2>3. CASE ref[t].pc # "none"
      <3>1. CASE ref'[t].cur = (ref[t].pc = "none")
         BY <2>1, <2>3, <3>1, ResponsesKept
      <3>2. CASE /\ ref'[t] = ref[t] /\ left'[t] = left[t]
                 /\ tab'[t].tok.current =>
                       tab[t].tok.current /\ tab'[t].tok.sid = tab[t].tok.sid
         BY <2>1, <3>2, ResponsesKept
      <3>. QED  BY <3>1, <3>2
    <2>. QED  BY <2>2, <2>3
  <1>6. SignedOutForGood'
     BY SignedOutKept
  <1>7. Kept'
    <2>1. Keeping' => newest'.quiet
       BY DEF Keeping
    <2>. QED  BY <2>1, KeptKept
  <1>. QED  BY <1>2, <1>3, <1>4, <1>5, <1>6, <1>7 DEF IInv

\* What a tab sends.
LEMMA SentFacts ==
    ASSUME NEW t \in Tabs, NEW p \in Pages, NEW c \in Cookies
    PROVE  /\ \A r : /\ ApiRequest(t, p, r) \in Messages /\ ApiRequest(t, p, r).ph = "req"
                     /\ ApiRequest(t, p, r).k = "api"
           /\ LogoutRequest(t, p, c) \in Messages /\ LogoutRequest(t, p, c).ph = "req"
           /\ LogoutRequest(t, p, c).k = "logout" /\ LogoutRequest(t, p, c).tok = p.tok
           /\ RefreshRequest(t, p, c) \in Messages /\ RefreshRequest(t, p, c).ph = "req"
           /\ RefreshRequest(t, p, c).k = "refresh" /\ RefreshRequest(t, p, c).t = t
           /\ RefreshRequest(t, p, c).cookie = c /\ RefreshRequest(t, p, c).live
  <1>1. p.tok \in Tokens /\ p.tok.sid \in Sids \cup {NoSid}
     BY PageFacts, TokenFacts
  <1>2. {"api", "logout", "refresh"} \subseteq Kinds
     BY DEF Kinds
  <1>a. {"none", "password"} \subseteq Jobs
     BY DEF Jobs
  <1>3. ASSUME NEW r
        PROVE  /\ ApiRequest(t, p, r) \in Messages /\ ApiRequest(t, p, r).ph = "req"
               /\ ApiRequest(t, p, r).k = "api"
    <2>1. PICK j \in Jobs : j = IF r THEN "password" ELSE "none"
       BY <1>a
    <2>2. ApiRequest(t, p, r) = Request("api", j, t, NoCookie, NoSid, p.tok)
       BY <2>1 DEF ApiRequest
    <2>. QED  BY <1>1, <1>2, <2>2, NoneFacts, RequestFacts
  <1>4. /\ LogoutRequest(t, p, c) \in Messages /\ LogoutRequest(t, p, c).ph = "req"
        /\ LogoutRequest(t, p, c).k = "logout" /\ LogoutRequest(t, p, c).tok = p.tok
     BY <1>1, <1>2, <1>a, RequestFacts DEF LogoutRequest
  <1>5. /\ RefreshRequest(t, p, c) \in Messages /\ RefreshRequest(t, p, c).ph = "req"
        /\ RefreshRequest(t, p, c).k = "refresh" /\ RefreshRequest(t, p, c).t = t
        /\ RefreshRequest(t, p, c).cookie = c /\ RefreshRequest(t, p, c).live
     BY <1>1, <1>2, <1>a, NoneFacts, RequestFacts DEF RefreshRequest
  <1>. QED  BY <1>3, <1>4, <1>5

\* The three outcomes of refreshAuthentication when it is called.
LEMMA StartFacts ==
    ASSUME IInv, NEW t \in Tabs, NEW p \in Pages, NEW n \in SUBSET net,
           StartRefresh(t, p, n)
    PROVE  /\ ref' \in [Tabs -> Refreshes] /\ lockq' \in Seq(Tabs)
           /\ net' \subseteq Messages
           /\ \A u \in Tabs \ {t} : ref'[u] = ref[u]
           /\ \/ ref' = ref /\ lockq' = lockq /\ net' = n
              \/ /\ env.locks /\ ref[t].pc = "none" /\ ref'[t].pc = "queued"
                 /\ lockq' = Append(lockq, t) /\ net' = n
              \/ /\ ~env.locks /\ ref[t].pc = "none" /\ ref'[t].pc = "sent"
                 /\ lockq' = lockq /\ net' = n \cup {RefreshRequest(t, p, jar)}
  <1>1. /\ ref \in [Tabs -> Refreshes] /\ lockq \in Seq(Tabs) /\ n \subseteq Messages
        /\ jar \in Cookies
     BY Facts
  <1>2. RefreshRequest(t, p, jar) \in Messages
     BY <1>1, SentFacts
  <1>3. \A pc \in {"queued", "sent"} :
           /\ [NoRefresh EXCEPT !.pc = pc] \in Refreshes
           /\ [NoRefresh EXCEPT !.pc = pc].pc = pc
     BY DEF NoRefresh, Refreshes
  <1>4. CASE ref[t].pc # "none"
     BY <1>1, <1>4 DEF StartRefresh
  <1>5. CASE ref[t].pc = "none" /\ env.locks
    <2>1. PICK r : r = [NoRefresh EXCEPT !.pc = "queued"]
       OBVIOUS
    <2>2. r \in Refreshes /\ r.pc = "queued"
       BY <1>3, <2>1
    <2>3. ref' = [ref EXCEPT ![t] = r] /\ lockq' = Append(lockq, t) /\ net' = n
       BY <1>5, <2>1 DEF StartRefresh
    <2>4. lockq' \in Seq(Tabs)
       BY <1>1, <2>3
    <2>. QED  BY <1>1, <1>5, <2>2, <2>3, <2>4
  <1>6. CASE ref[t].pc = "none" /\ ~env.locks
    <2>1. PICK r : r = [NoRefresh EXCEPT !.pc = "sent"]
       OBVIOUS
    <2>2. r \in Refreshes /\ r.pc = "sent"
       BY <1>3, <2>1
    <2>3. /\ ref' = [ref EXCEPT ![t] = r] /\ lockq' = lockq
          /\ net' = n \cup {RefreshRequest(t, p, jar)}
       BY <1>6, <2>1 DEF StartRefresh
    <2>. QED  BY <1>1, <1>2, <1>6, <2>2, <2>3
  <1>. QED  BY <1>4, <1>5, <1>6

\* A step of tab t that calls refreshAuthentication.
LEMMA StartStep ==
    ASSUME IInv, TypeOK', NEW t \in Tabs, NEW p \in Pages, NEW n \in SUBSET net,
           StartRefresh(t, p, n), jar' = jar, srv' = srv, SameEnv, left' = left,
           newest' = newest, tab'[t].tok = tab[t].tok,
           \A u \in Tabs \ {t} : tab'[u] = tab[u]
    PROVE  IInv'
  <1>. DEFINE x0 == RefreshRequest(t, p, jar)
  <1>1. /\ \A u \in Tabs \ {t} : ref'[u] = ref[u]
        /\ \/ ref' = ref /\ lockq' = lockq /\ net' = n
           \/ /\ env.locks /\ ref[t].pc = "none" /\ ref'[t].pc = "queued"
              /\ lockq' = Append(lockq, t) /\ net' = n
           \/ /\ ~env.locks /\ ref[t].pc = "none" /\ ref'[t].pc = "sent"
              /\ lockq' = lockq /\ net' = n \cup {x0}
     BY StartFacts
  <1>2. x0.ph = "req" /\ x0.k = "refresh" /\ x0.t = t /\ x0.cookie = jar
     BY Facts, SentFacts
  <1>. HIDE DEF x0
  <1>3. Apart(t)
     BY <1>1 DEF Apart
  <1>4. tab'[t].tok.sid \notin left'[t]
     BY DEF IInv, SignedOutForGood
  <1>5. OneRefresh'
    <2>1. \A x \in net' : \A u \in Tabs \ {t} : Refreshing(x, u) => x \in net
       BY <1>1, <1>2 DEF Refreshing
    <2>2. CASE net' = n
      <3>1. \A x \in net' : Refreshing(x, t) => x \in net
         BY <2>2
      <3>2. ref'[t].pc = ref[t].pc \/ \A x \in net' : ~Refreshing(x, t)
        <4>1. CASE ref' = ref
           BY <4>1
        <4>2. CASE ref[t].pc = "none"
           BY <2>2, <4>2, NothingSent
        <4>. QED  BY <1>1, <4>1, <4>2
      <3>. QED  BY <1>3, <2>1, <3>1, <3>2, OneRefreshKept
    <2>3. CASE ref[t].pc = "none" /\ ref'[t].pc = "sent" /\ net' = n \cup {x0}
      <3>1. \A x \in net' : Refreshing(x, t) => x = x0
         BY <2>3, NothingSent
      <3>. QED  BY <1>3, <2>1, <2>3, <3>1, OneRefreshKept
    <2>. QED  BY <1>1, <2>2, <2>3
  <1>6. LockHeld'
     BY <1>1, <1>3, LockKept
  <1>7. SessionsOK'
     BY SessionsKept
  <1>8. ResponsesOK'
    <2>1. \A x \in net' : x.ph = "rsp" => x \in net
       BY <1>1, <1>2
    <2>2. CASE ref' = ref
       BY <1>3, <2>1, <2>2, ResponsesKept
    <2>3. CASE ref[t].pc = "none"
      <3>1. \A x \in net' : x.ph = "rsp" /\ x.t = t => x.k # "refresh"
         BY <2>1, <2>3, NothingSent
      <3>. QED  BY <1>3, <2>1, <3>1, ResponsesKept
    <2>. QED  BY <1>1, <2>2, <2>3
  <1>9. SignedOutForGood'
     BY <1>3, <1>4, SignedOutKept
  <1>10. Kept'
    <2>1. \A x \in net' : x \in net \/ (x.ph = "req" /\ x.k = "refresh" /\ x.cookie = jar)
       BY <1>1, <1>2
    <2>. QED  BY <2>1, KeptKept
  <1>. QED  BY <1>5, <1>6, <1>7, <1>8, <1>9, <1>10 DEF IInv

-----------------------------------------------------------------------------
(* The end of a refresh.                                                   *)

\* What the end of a refresh of tab t with outcome o and page p comes to.
Resolved(t, o, p, n, c) ==
    /\ ref' \in [Tabs -> Refreshes] /\ ref'[t].pc = "none"
    /\ \A u \in Tabs \ {t} : ref'[u] = ref[u] /\ tab'[u] = tab[u]
    /\ lockq' = Without(lockq, t) /\ lockq' \in Seq(Tabs)
    /\ api' \in [Tabs -> Apis]
    /\ logout' \in [Tabs -> {"none", "sent", "refreshing", "resent"}]
    /\ tab' \in [Tabs -> Pages] /\ tab'[t].tok = p.tok
    /\ net' \subseteq Messages
    /\ \A x \in net' :
          \/ x \in n
          \/ /\ x.ph = "req" /\ x.k \in {"api", "logout"}
             /\ x.k = "logout" => o = "authenticated" /\ x.tok = p.tok
    /\ chan' = c

\* The callers of refreshAuthentication go on: the tab has no refresh any more,
\* and repeats its sign-out only with the token the refresh brought.
LEMMA ResolveFacts ==
    ASSUME IInv, NEW t \in Tabs, NEW o, NEW p \in Pages, NEW n \in SUBSET net, NEW c,
           jar' \in Cookies, Resolve(t, o, p, n, c)
    PROVE  Resolved(t, o, p, n, c)
  <1>1. /\ TypeOK /\ ref \in [Tabs -> Refreshes] /\ tab \in [Tabs -> Pages]
        /\ lockq \in Seq(Tabs) /\ n \subseteq Messages
     BY Facts DEF IInv
  <1>2. /\ ref' = [ref EXCEPT ![t] = NoRefresh] /\ NoRefresh \in Refreshes
        /\ NoRefresh.pc = "none"
     BY DEF Resolve, NoRefresh, Refreshes
  <1>3. lockq' = Without(lockq, t) /\ lockq' \in Seq(Tabs)
     BY <1>1, WithoutFacts DEF Resolve
  <1>4. api' \in [Tabs -> Apis]
    <2>1. api \in [Tabs -> Apis] /\ api[t] \in Apis /\ NoApi \in Apis
       BY <1>1 DEF TypeOK, NoApi, Apis
    <2>2. \A pc \in {"sent", "retried"} : [api[t] EXCEPT !.pc = pc] \in Apis
       BY <2>1 DEF Apis
    <2>3. PICK b : b = IF ~(api[t].pc \in {"pre", "mid"}) THEN api[t]
                       ELSE IF ~(api[t].pc = "pre" \/ (api[t].pc = "mid" /\ o = "authenticated"))
                       THEN NoApi
                       ELSE [api[t] EXCEPT !.pc = IF api[t].pc = "pre" THEN "sent" ELSE "retried"]
       OBVIOUS
    <2>4. b \in Apis
       BY <2>1, <2>2, <2>3
    <2>5. api' = [api EXCEPT ![t] = b]
       BY <2>3 DEF Resolve
    <2>. QED  BY <2>1, <2>4, <2>5
  <1>5. logout' \in [Tabs -> {"none", "sent", "refreshing", "resent"}]
     BY <1>1 DEF TypeOK, Resolve
  <1>6. PICK q \in Pages :
           /\ q.tok = p.tok
           /\ \/ tab' = [tab EXCEPT ![t] = q]
              \/ tab' = [tab EXCEPT ![t] = [q EXCEPT !.page = "signin"]]
              \/ tab' = [tab EXCEPT ![t] = [q EXCEPT !.out = FALSE]]
           /\ \A x \in net' :
                 \/ x \in n
                 \/ x = ApiRequest(t, q, api[t].rotate)
                 \/ o = "authenticated" /\ x = LogoutRequest(t, q, jar')
    <2>1. p \in Pages /\ Expire(p) \in Pages /\ Expire(p).tok = p.tok
       BY PageFacts
    <2>2. CASE api[t].pc \in {"pre", "mid"} /\ o \in {"anonymous", "out_of_sync"}
       BY <2>1, <2>2 DEF Resolve
    <2>3. CASE ~(api[t].pc \in {"pre", "mid"} /\ o \in {"anonymous", "out_of_sync"})
       BY <2>1, <2>3 DEF Resolve
    <2>. QED  BY <2>2, <2>3
  <1>7. PICK r \in Pages : r.tok = p.tok /\ tab' = [tab EXCEPT ![t] = r]
    <2>1. PICK fl \in BOOLEAN : fl = FALSE
       OBVIOUS
    <2>2. /\ [q EXCEPT !.page = "signin"] \in Pages
          /\ [q EXCEPT !.page = "signin"].tok = q.tok
          /\ [q EXCEPT !.out = fl] \in Pages /\ [q EXCEPT !.out = fl].tok = q.tok
       BY PageFacts
    <2>3. /\ [q EXCEPT !.out = FALSE] \in Pages /\ [q EXCEPT !.out = FALSE].tok = q.tok
       BY <2>1, <2>2
    <2>. QED  BY <1>6, <2>2, <2>3
  <1>8. ASSUME NEW x \in net'
        PROVE  /\ x \in Messages
               /\ \/ x \in n
                  \/ /\ x.ph = "req" /\ x.k \in {"api", "logout"}
                     /\ x.k = "logout" => o = "authenticated" /\ x.tok = p.tok
    <2>1. CASE x \in n
       BY <1>1, <2>1
    <2>2. CASE x = ApiRequest(t, q, api[t].rotate)
       BY <2>2, SentFacts
    <2>3. CASE o = "authenticated" /\ x = LogoutRequest(t, q, jar')
       BY <1>6, <2>3, SentFacts
    <2>. QED  BY <1>6, <2>1, <2>2, <2>3
  <1>9. tab' \in [Tabs -> Pages] /\ tab'[t].tok = p.tok /\ \A u \in Tabs \ {t} : tab'[u] = tab[u]
     BY <1>1, <1>7
  <1>10. chan' = c
     BY DEF Resolve
  <1>11. /\ ref' \in [Tabs -> Refreshes] /\ ref'[t].pc = "none"
         /\ \A u \in Tabs \ {t} : ref'[u] = ref[u]
     BY <1>1, <1>2
  <1>. QED  BY <1>3, <1>4, <1>5, <1>8, <1>9, <1>10, <1>11 DEF Resolved

\* A step that ends the refresh of tab t keeps all but perhaps the session.
LEMMA ResolveStep ==
    ASSUME IInv, NEW t \in Tabs, NEW o, NEW p \in Pages, NEW n \in SUBSET net,
           NEW c \in [Tabs -> Seq(Events)], Resolve(t, o, p, n, c), jar' \in Cookies,
           srv' = srv, env' = env, left' = left, newest' = newest,
           \A x \in n : ~Refreshing(x, t), p.tok.sid \notin left[t], Kept'
    PROVE  IInv'
  <1>1. /\ ref' \in [Tabs -> Refreshes] /\ ref'[t].pc = "none"
        /\ \A u \in Tabs \ {t} : ref'[u] = ref[u] /\ tab'[u] = tab[u]
        /\ lockq' = Without(lockq, t) /\ lockq' \in Seq(Tabs)
        /\ api' \in [Tabs -> Apis]
        /\ logout' \in [Tabs -> {"none", "sent", "refreshing", "resent"}]
        /\ tab' \in [Tabs -> Pages] /\ tab'[t].tok = p.tok
        /\ net' \subseteq Messages
        /\ \A x \in net' :
              \/ x \in n
              \/ /\ x.ph = "req" /\ x.k \in {"api", "logout"}
                 /\ x.k = "logout" => o = "authenticated" /\ x.tok = p.tok
        /\ chan' = c
    <2>1. Resolved(t, o, p, n, c)
       BY ResolveFacts
    <2>. QED  BY <2>1 DEF Resolved
  <1>2. TypeOK'
     BY <1>1 DEF IInv, TypeOK, Messages
  <1>3. Apart(t) /\ SameEnv
     BY <1>1 DEF Apart, SameEnv
  <1>4. OneRefresh'
    <2>1. \A x \in net' : /\ \A u \in Tabs : Refreshing(x, u) => x \in n
                          /\ ~Refreshing(x, t)
       BY <1>1 DEF Refreshing
    <2>. QED  BY <1>3, <2>1, OneRefreshKept
  <1>5. LockHeld'
     BY <1>1, <1>3, LockKept
  <1>6. SessionsOK'
     BY <1>3, SessionsKept
  <1>7. ResponsesOK'
    <2>1. /\ \A x \in net' : x.ph = "rsp" => x \in net
          /\ \A x \in net' : x.ph = "rsp" /\ x.t = t => x.k # "refresh"
       BY <1>1 DEF Refreshing
    <2>. QED  BY <1>3, <2>1, ResponsesKept
  <1>8. SignedOutForGood'
     BY <1>1, <1>3, SignedOutKept
  <1>. QED  BY <1>2, <1>4, <1>5, <1>6, <1>7, <1>8 DEF IInv

\* The browser stores the cookie of a refresh: it is the secret the server has,
\* and no other answer is awaited that could bring an older one.
LEMMA ReceivedKept ==
    ASSUME IInv, NEW m \in net, m.ph = "rsp", m.k = "refresh", Received(m),
           srv' = srv, env' = env, newest' = newest,
           \A x \in net' :
              \/ x \in net \ {m}
              \/ /\ x.ph = "req"
                 /\ x.k = "refresh" => x.cookie = jar /\ ~m.sets
                 /\ x.k = "logout" /\ Keeping => x.tok.sid = newest.sid /\ x.tok.fresh
    PROVE  Kept'
  <1>1. SameEnv /\ (Keeping' => Keeping)
     BY DEF SameEnv, Keeping, Sheltered, Wanted
  <1>2. CASE ~m.sets
    <2>1. jar' = jar
       BY <1>2 DEF Received
    <2>. QED  BY <1>1, <2>1, KeptKept
  <1>3. CASE m.sets
    <2>. SUFFICES ASSUME Keeping'
                  PROVE  /\ Usable'
                         /\ \A x \in net' : IF x.ph = "req" THEN RequestKeeps(x, newest.sid)'
                                            ELSE ResponseKeeps(x, newest.sid)'
       BY DEF Kept
    <2>1. /\ Usable /\ Keeping /\ newest.sid \in Sids /\ env.locks
          /\ \A x \in net : IF x.ph = "req" THEN RequestKeeps(x, newest.sid)
                            ELSE ResponseKeeps(x, newest.sid)
       BY <1>1, KeepingBefore DEF IInv, Kept, Keeping, Sheltered
    <2>2. m.to = Fresh(newest.sid)
       BY <1>3, <2>1 DEF ResponseKeeps
    <2>3. jar'.sid = newest.sid /\ jar'.age = 0
       BY <1>3, <2>1, <2>2, BundleFacts DEF Received
    <2>4. Usable'
       BY <2>1, <2>3 DEF Usable
    <2>5. ASSUME NEW x \in net \ {m} PROVE ~(x.k = "refresh" /\ (x.ph = "rsp" \/ x.live))
      <3>1. m.t \in Tabs /\ x.t \in Tabs /\ Refreshing(m, m.t)
         BY Facts, MessageFacts DEF Refreshing
      <3>. QED  BY <2>1, <3>1, OneInAll DEF Refreshing
    <2>6. ASSUME NEW x \in net'
          PROVE  IF x.ph = "req" THEN RequestKeeps(x, newest.sid)'
                 ELSE ResponseKeeps(x, newest.sid)'
      <3>1. CASE x \in net \ {m} /\ x.ph = "req"
        <4>1. x.cookie \in Cookies /\ 0 <= x.cookie.age
           BY <3>1, Facts, MessageFacts, CookieFacts
        <4>. QED  BY <2>1, <2>3, <2>5, <3>1, <4>1 DEF RequestKeeps
      <3>2. CASE x \in net \ {m} /\ x.ph # "req"
        <4>1. x.ph = "rsp"
           BY <3>2, Facts, MessageFacts
        <4>. QED  BY <2>1, <2>5, <3>2, <4>1 DEF ResponseKeeps
      <3>3. CASE x \notin net \ {m}
         BY <1>3, <2>1, <3>3 DEF RequestKeeps
      <3>. QED  BY <3>1, <3>2, <3>3
    <2>. QED  BY <2>4, <2>6
  <1>4. m.sets \in BOOLEAN
     BY Facts, MessageFacts
  <1>. QED  BY <1>2, <1>3, <1>4

\* The lock is granted to the tab at the head of the queue.
LEMMA GrantStep ==
    ASSUME IInv, NEW t \in Tabs, GrantLock(t)
    PROVE  IInv'
  <1>1. /\ jar \in Cookies /\ tab[t] \in Pages /\ tab[t].tok \in Tokens
        /\ ref \in [Tabs -> Refreshes]
        /\ net \subseteq Messages /\ tab[t].tok.sid \notin left[t] /\ TypeOK
     BY Facts DEF IInv, SignedOutForGood
  <1>2. /\ ref[t].pc = "queued" /\ Head(lockq) = t
        /\ UNCHANGED <<jar, srv, env, left, newest>> /\ SameEnv
     BY DEF GrantLock, SameEnv
  <1>3. \A x \in net : ~Refreshing(x, t) /\ (x.ph = "rsp" /\ x.t = t => x.k # "refresh")
     BY <1>2, NothingSent
  <1>4. CASE /\ ref' = [ref EXCEPT ![t].pc = "sent"]
             /\ net' = net \cup {RefreshRequest(t, tab[t], jar)}
             /\ UNCHANGED <<tab, lockq, api, logout, chan>>
    <2>1. PICK x0 : x0 = RefreshRequest(t, tab[t], jar)
       OBVIOUS
    <2>2. /\ x0 \in Messages /\ x0.ph = "req" /\ x0.k = "refresh" /\ x0.t = t
          /\ x0.cookie = jar /\ net' = net \cup {x0}
       BY <1>1, <1>4, <2>1, SentFacts
    <2>3. /\ ref' \in [Tabs -> Refreshes] /\ ref'[t].pc = "sent"
          /\ \A u \in Tabs \ {t} : ref'[u] = ref[u]
       BY <1>1, <1>4 DEF Refreshes
    <2>4. TypeOK'
       BY <1>1, <1>2, <1>4, <2>2, <2>3 DEF TypeOK, Messages
    <2>5. Apart(t)
       BY <1>2, <1>4, <2>3 DEF Apart
    <2>6. OneRefresh'
      <3>1. \A x \in net' : \A u \in Tabs \ {t} : Refreshing(x, u) => x \in net
         BY <2>2 DEF Refreshing
      <3>2. \A x \in net' : Refreshing(x, t) => x = x0
         BY <1>3, <2>2
      <3>. QED  BY <2>3, <2>5, <3>1, <3>2, OneRefreshKept
    <2>7. LockHeld'
       BY <1>2, <1>4, <2>3, <2>5, LockKept
    <2>8. SessionsOK'
       BY <1>2, SessionsKept
    <2>9. ResponsesOK'
      <3>1. \A x \in net' : x.ph = "rsp" => x \in net /\ (x.t = t => x.k # "refresh")
         BY <1>3, <2>2
      <3>. QED  BY <2>5, <3>1, ResponsesKept
    <2>10. SignedOutForGood'
       BY <1>1, <1>2, <1>4, <2>5, SignedOutKept
    <2>11. Kept'
      <3>1. \A x \in net' : x \in net \/ (x.ph = "req" /\ x.k = "refresh" /\ x.cookie = jar)
         BY <2>2
      <3>. QED  BY <1>2, <3>1, KeptKept
    <2>. QED  BY <2>4, <2>6, <2>7, <2>8, <2>9, <2>10, <2>11 DEF IInv
  <1>5. CASE Resolve(t, "transient_error", tab[t], net, chan)
    <2>0. PICK n \in SUBSET net : n = net
       OBVIOUS
    <2>1. \A x \in net' : x \in net \/ (x.ph = "req" /\ x.k \in {"api", "logout"} /\ x.k # "logout")
      <3>1. /\ Resolve(t, "transient_error", tab[t], n, chan) /\ jar' \in Cookies
            /\ "transient_error" # "authenticated"
         BY <1>1, <1>2, <1>5, <2>0
      <3>2. \A x \in net' :
              \/ x \in n
              \/ /\ x.ph = "req" /\ x.k \in {"api", "logout"}
                 /\ x.k = "logout" =>
                       "transient_error" = "authenticated" /\ x.tok = tab[t].tok
        <4>1. Resolved(t, "transient_error", tab[t], n, chan)
           BY <1>1, <3>1, ResolveFacts
        <4>. QED  BY <4>1 DEF Resolved
      <3>. QED  BY <2>0, <3>1, <3>2
    <2>2. Kept'
       BY <1>2, <2>1, KeptKept
    <2>3. chan \in [Tabs -> Seq(Events)]
       BY <1>1 DEF TypeOK
    <2>. QED  BY <1>1, <1>2, <1>3, <1>5, <2>0, <2>2, <2>3, ResolveStep
  <1>. QED  BY <1>4, <1>5 DEF GrantLock

\* The operations of the user and the faults only use up their bounds.
LEMMA BoundFacts ==
    ASSUME IInv, Operation \/ Fault
    PROVE  env' \in EnvironmentType /\ SameEnv
  <1>1. env \in EnvironmentType
     BY Facts
  <1>2. CASE Operation
    <2>1. env.ops \in Nat /\ env.ops > 0 /\ env' = [env EXCEPT !.ops = env.ops - 1]
       BY <1>1, <1>2 DEF EnvironmentType, Operation
    <2>2. PICK k \in Nat : k = env.ops - 1
       BY <2>1
    <2>. QED  BY <1>1, <2>1, <2>2 DEF EnvironmentType, SameEnv
  <1>3. CASE Fault
    <2>1. env.faults \in Nat /\ env.faults > 0 /\ env' = [env EXCEPT !.faults = env.faults - 1]
       BY <1>1, <1>3 DEF EnvironmentType, Fault
    <2>2. PICK k \in Nat : k = env.faults - 1
       BY <2>1
    <2>. QED  BY <1>1, <2>1, <2>2 DEF EnvironmentType, SameEnv
  <1>. QED  BY <1>2, <1>3

\* Events reach the other tabs.
LEMMA PublishFacts ==
    ASSUME NEW c \in [Tabs -> Seq(Events)], NEW t \in Tabs, NEW s \in Sids,
           NEW kind \in {"authenticated", "signed_out"}
    PROVE  Publish(c, t, kind, s) \in [Tabs -> Seq(Events)]
  <1>1. PICK e : e = [kind |-> kind, sid |-> s]
     OBVIOUS
  <1>2. e \in Events
     BY <1>1 DEF Events
  <1>3. \A u \in Tabs : c[u] \in Seq(Events) /\ Append(c[u], e) \in Seq(Events)
     BY <1>2
  <1>. QED  BY <1>1, <1>3 DEF Publish

\* A sign-out is announced, if there was a session.
LEMMA AnnounceFacts ==
    ASSUME NEW c \in [Tabs -> Seq(Events)], NEW t \in Tabs, NEW p \in Pages
    PROVE  Announce(c, t, p) \in [Tabs -> Seq(Events)]
  <1>1. p.tok.sid \in Sids \cup {NoSid}
     BY PageFacts, TokenFacts
  <1>2. CASE p.tok.sid = NoSid
     BY <1>2 DEF Announce
  <1>3. CASE p.tok.sid \in Sids
    <2>1. Publish(c, t, "signed_out", p.tok.sid) \in [Tabs -> Seq(Events)]
       BY <1>3, PublishFacts
    <2>. QED  BY <2>1 DEF Announce
  <1>. QED  BY <1>1, <1>2, <1>3

\* The answer of a refresh reaches the tab.
LEMMA RefreshResponseStep ==
    ASSUME IInv, NEW t \in Tabs, NEW m \in net, RefreshResponse(t, m)
    PROVE  IInv'
  <1>1. /\ jar \in Cookies /\ ref \in [Tabs -> Refreshes] /\ net \subseteq Messages
        /\ tab \in [Tabs -> Pages] /\ tab[t] \in Pages /\ TypeOK
        /\ tab[t].tok.sid \notin left[t] /\ chan \in [Tabs -> Seq(Events)]
        /\ left[t] \subseteq Sids
     BY Facts DEF IInv, SignedOutForGood, TypeOK
  <1>2. /\ m.ph = "rsp" /\ m.k = "refresh" /\ m.t = t /\ Received(m)
        /\ UNCHANGED <<srv, env, left, newest>> /\ SameEnv
        /\ m \in Messages /\ m.tok \in Tokens /\ m.to \in Cookies
        /\ ResponseOK(m) /\ Timely(m) /\ Refreshing(m, t)
     BY <1>1, MessageFacts
        DEF RefreshResponse, SameEnv, IInv, ResponsesOK, Refreshing
  <1>3. jar' \in Cookies
     BY <1>1, <1>2 DEF Received
  <1>4. PICK n \in SUBSET net : n = net \ {m}
     OBVIOUS
  <1>5. /\ \A x \in n : ~Refreshing(x, t)
        /\ ref[t].pc = "sent"
     BY <1>2, <1>4 DEF IInv, OneRefresh
  <1>6. NoSid \notin left[t] /\ NoToken.sid = NoSid
     BY <1>1, NoSidAssumption, NoneFacts
  <1>7. ASSUME NEW o, NEW p \in Pages, NEW c \in [Tabs -> Seq(Events)],
               Resolve(t, o, p, n, c), p.tok.sid \notin left[t],
               o = "authenticated" => m.res = "ok" /\ p.tok = m.tok
        PROVE  IInv'
    <2>1. Resolved(t, o, p, n, c)
       BY <1>3, <1>7, ResolveFacts
    <2>2. m.res = "ok" /\ Keeping => m.tok.sid = newest.sid /\ m.tok.fresh
       BY <1>2 DEF IInv, Kept, ResponseKeeps, ResponseOK
    <2>3. \A x \in net' :
              \/ x \in net \ {m}
              \/ /\ x.ph = "req"
                 /\ x.k = "refresh" => x.cookie = jar /\ ~m.sets
                 /\ x.k = "logout" /\ Keeping => x.tok.sid = newest.sid /\ x.tok.fresh
       BY <1>4, <1>7, <2>1, <2>2 DEF Resolved
    <2>4. Kept'
       BY <1>2, <2>3, ReceivedKept
    <2>. QED  BY <1>2, <1>3, <1>5, <1>7, <2>4, ResolveStep
  <1>8. CASE Resolve(t, "transient_error", tab[t], n, chan)
     BY <1>1, <1>7, <1>8
  <1>9. CASE /\ StillCurrent(t) /\ m.res = "ok"
             /\ Resolve(t, "authenticated", setBundle(tab[t], m.tok), n, chan)
    <2>0. \A k \in Tokens : setBundle(tab[t], k) \in Pages /\ setBundle(tab[t], k).tok = k
       BY <1>1, PageFacts
    <2>1. PICK q \in Pages : q = setBundle(tab[t], m.tok) /\ q.tok = m.tok
       BY <1>2, <2>0
    <2>2. m.tok.sid \notin left[t]
       BY <1>2, <1>9 DEF Timely, StillCurrent
    <2>. QED  BY <1>1, <1>7, <1>9, <2>1, <2>2
  <1>10. CASE /\ m.res = "mismatch"
              /\ tab' = [tab EXCEPT ![t] = reset(tab[t], "idle")]
              /\ ref' = [ref EXCEPT ![t].again = FALSE]
              /\ net' = n \cup {RefreshRequest(t, reset(tab[t], "idle"), jar)}
              /\ UNCHANGED <<lockq, api, logout, chan>>
    <2>1. PICK q \in Pages : q = reset(tab[t], "idle") /\ q.tok = NoToken
       BY <1>1, PageFacts
    <2>2. PICK x0 : x0 = RefreshRequest(t, q, jar)
       OBVIOUS
    <2>3. /\ x0 \in Messages /\ x0.ph = "req" /\ x0.k = "refresh" /\ x0.t = t
          /\ x0.cookie = jar /\ net' = n \cup {x0}
       BY <1>1, <1>10, <2>1, <2>2, SentFacts
    <2>4. tab' \in [Tabs -> Pages] /\ tab'[t] = q /\ \A u \in Tabs \ {t} : tab'[u] = tab[u]
       BY <1>1, <1>10, <2>1
    <2>5. /\ ref' \in [Tabs -> Refreshes] /\ ref'[t].pc = ref[t].pc
          /\ \A u \in Tabs \ {t} : ref'[u] = ref[u]
       BY <1>1, <1>10 DEF Refreshes
    <2>6. ~m.sets /\ jar' = jar
       BY <1>2, <1>10 DEF ResponseOK, Received
    <2>7. TypeOK'
       BY <1>1, <1>2, <1>3, <1>10, <2>3, <2>4, <2>5 DEF TypeOK, Messages
    <2>8. Apart(t)
       BY <1>2, <2>4, <2>5 DEF Apart
    <2>9. OneRefresh'
      <3>1. \A x \in net' : \A u \in Tabs \ {t} : Refreshing(x, u) => x \in net
         BY <2>3 DEF Refreshing
      <3>2. \A x \in net' : Refreshing(x, t) => x = x0
         BY <1>5, <2>3
      <3>. QED  BY <1>5, <2>5, <2>8, <3>1, <3>2, OneRefreshKept
    <2>10. LockHeld'
       BY <1>2, <1>10, <2>5, <2>8, LockKept
    <2>11. SessionsOK'
       BY <1>2, SessionsKept
    <2>12. ResponsesOK'
      <3>1. \A x \in net' : x.ph = "rsp" => x \in net /\ (x.t = t => x.k # "refresh")
         BY <1>5, <2>3 DEF Refreshing
      <3>. QED  BY <2>8, <3>1, ResponsesKept
    <2>13. SignedOutForGood'
       BY <1>2, <1>6, <2>1, <2>4, <2>8, SignedOutKept
    <2>14. Kept'
      <3>1. \A x \in net' : \/ x \in net \ {m}
                            \/ /\ x.ph = "req" /\ x.k = "refresh" /\ x.cookie = jar /\ ~m.sets
         BY <1>4, <2>3, <2>6
      <3>. QED  BY <1>2, <3>1, ReceivedKept
    <2>. QED  BY <2>7, <2>9, <2>10, <2>11, <2>12, <2>13, <2>14 DEF IInv
  <1>11. CASE Resolve(t, "out_of_sync", reset(tab[t], "complete"), n, chan)
    <2>1. PICK q \in Pages : q = reset(tab[t], "complete") /\ q.tok = NoToken
       BY <1>1, PageFacts
    <2>. QED  BY <1>1, <1>6, <1>7, <1>11, <2>1
  <1>12. CASE Resolve(t, "anonymous", reset(tab[t], "complete"), n, Announce(chan, t, tab[t]))
    <2>1. PICK q \in Pages : q = reset(tab[t], "complete") /\ q.tok = NoToken
       BY <1>1, PageFacts
    <2>2. Announce(chan, t, tab[t]) \in [Tabs -> Seq(Events)]
       BY <1>1, AnnounceFacts
    <2>. QED  BY <1>6, <1>7, <1>12, <2>1, <2>2
  <1>13. CASE Resolve(t, "transient_error", [tab[t] EXCEPT !.boot = "idle"], n, chan)
    <2>1. PICK q \in Pages : q = [tab[t] EXCEPT !.boot = "idle"] /\ q.tok = tab[t].tok
       BY <1>1, PageFacts
    <2>. QED  BY <1>1, <1>7, <1>13, <2>1
  <1>. QED  BY <1>4, <1>8, <1>9, <1>10, <1>11, <1>12, <1>13 DEF RefreshResponse

-----------------------------------------------------------------------------
(* API requests, navigation and sign-out.                                  *)

\* The request interceptor.
LEMMA ApiStartStep ==
    ASSUME IInv, NEW t \in Tabs, NEW r \in BOOLEAN, ApiStart(t, r)
    PROVE  IInv'
  <1>1. /\ tab[t] \in Pages /\ net \subseteq Messages /\ TypeOK
        /\ tab[t].tok.sid \notin left[t]
     BY Facts DEF IInv, SignedOutForGood
  <1>2. env' \in EnvironmentType /\ SameEnv
     BY BoundFacts DEF ApiStart
  <1>3. UNCHANGED <<jar, srv, tab, logout, chan, left, newest>>
     BY DEF ApiStart
  <1>4. \A pc \in {"pre", "sent"} : [pc |-> pc, rotate |-> r] \in Apis
     BY DEF Apis
  <1>5. CASE /\ api' = [api EXCEPT ![t] = [pc |-> "pre", rotate |-> r]]
             /\ StartRefresh(t, tab[t], net)
    <2>1. PICK n \in SUBSET net : n = net
       OBVIOUS
    <2>2. /\ ref' \in [Tabs -> Refreshes] /\ lockq' \in Seq(Tabs) /\ net' \subseteq Messages
       BY <1>1, <1>5, <2>1, StartFacts
    <2>3. api' \in [Tabs -> Apis]
       BY <1>1, <1>4, <1>5 DEF TypeOK
    <2>4. TypeOK'
       BY <1>1, <1>2, <1>3, <2>2, <2>3 DEF TypeOK, Messages
    <2>. QED  BY <1>1, <1>2, <1>3, <1>5, <2>1, <2>4, StartStep
  <1>6. CASE /\ api' = [api EXCEPT ![t] = [pc |-> "sent", rotate |-> r]]
             /\ net' = net \cup {ApiRequest(t, tab[t], r)}
             /\ UNCHANGED <<ref, lockq>>
    <2>1. PICK x0 : x0 = ApiRequest(t, tab[t], r)
       OBVIOUS
    <2>2. x0 \in Messages /\ x0.ph = "req" /\ x0.k = "api" /\ net' = net \cup {x0}
       BY <1>1, <1>6, <2>1, NoneFacts, SentFacts
    <2>3. api' \in [Tabs -> Apis]
       BY <1>1, <1>4, <1>6 DEF TypeOK
    <2>4. TypeOK'
       BY <1>1, <1>2, <1>3, <1>6, <2>2, <2>3 DEF TypeOK, Messages
    <2>5. Apart(t)
       BY <1>3, <1>6 DEF Apart
    <2>6. \A x \in net' : x \in net \/ (x.ph = "req" /\ x.k = "api")
       BY <2>2
    <2>. QED  BY <1>1, <1>2, <1>3, <1>6, <2>4, <2>5, <2>6, PlainStep
  <1>. QED  BY <1>5, <1>6 DEF ApiStart

\* The response interceptor.
LEMMA ApiResponseStep ==
    ASSUME IInv, NEW t \in Tabs, NEW m \in net, ApiResponse(t, m)
    PROVE  IInv'
  <1>1. /\ tab \in [Tabs -> Pages] /\ tab[t] \in Pages /\ net \subseteq Messages /\ TypeOK
        /\ tab[t].tok.sid \notin left[t] /\ left[t] \subseteq Sids
        /\ ref \in [Tabs -> Refreshes]
     BY Facts DEF IInv, SignedOutForGood
  <1>2. /\ m.ph = "rsp" /\ m.k = "api" /\ Received(m) /\ m.tok \in Tokens
        /\ UNCHANGED <<srv, logout, chan, env, left, newest>> /\ SameEnv
        /\ ResponseOK(m)
     BY <1>1, MessageFacts DEF ApiResponse, SameEnv, IInv, ResponsesOK
  <1>3. jar' = jar
     BY <1>2 DEF ResponseOK, Received
  <1>4. PICK n \in SUBSET net : n = net \ {m}
     OBVIOUS
  <1>5. NoSid \notin left[t] /\ NoToken.sid = NoSid /\ ~NoToken.current
     BY <1>1, NoSidAssumption, NoneFacts
  <1>6. api \in [Tabs -> Apis] /\ NoApi \in Apis /\ n \subseteq Messages
     BY <1>1 DEF TypeOK, NoApi, Apis
  <1>7. CASE api' = [api EXCEPT ![t] = NoApi] /\ net' = n /\ UNCHANGED <<tab, ref, lockq>>
    <2>1. TypeOK'
       BY <1>1, <1>2, <1>3, <1>6, <1>7 DEF TypeOK, Messages
    <2>2. Apart(t)
       BY <1>2, <1>7 DEF Apart
    <2>. QED  BY <1>1, <1>2, <1>3, <1>7, <2>1, <2>2, PlainStep
  <1>8. ASSUME NEW q \in Pages, tab' = [tab EXCEPT ![t] = q], q.tok.sid \notin left[t],
               ref' = Bumped(t), api' = [api EXCEPT ![t] = NoApi], net' = n,
               UNCHANGED lockq
        PROVE  IInv'
    <2>1. tab' \in [Tabs -> Pages] /\ tab'[t] = q /\ \A u \in Tabs \ {t} : tab'[u] = tab[u]
       BY <1>1, <1>8
    <2>2. /\ ref' \in [Tabs -> Refreshes] /\ ref'[t].pc = ref[t].pc
          /\ ref'[t].cur = (ref[t].pc = "none")
          /\ \A u \in Tabs \ {t} : ref'[u] = ref[u]
       BY <1>8, BumpedFacts
    <2>3. TypeOK'
       BY <1>1, <1>2, <1>3, <1>6, <1>8, <2>1, <2>2 DEF TypeOK, Messages
    <2>4. Apart(t)
       BY <1>2, <2>1, <2>2 DEF Apart
    <2>. QED  BY <1>1, <1>2, <1>3, <1>8, <2>1, <2>2, <2>3, <2>4, PlainStep
  <1>9. CASE /\ m.res = "rotated" /\ tab[t].tok.sid = m.tok.sid
             /\ tab' = [tab EXCEPT ![t] = setBundle(tab[t], m.tok)]
             /\ ref' = RotationEpoch(t)
             /\ api' = [api EXCEPT ![t] = NoApi]
             /\ net' = n
             /\ UNCHANGED lockq
    <2>0. \A k \in Tokens : setBundle(tab[t], k) \in Pages /\ setBundle(tab[t], k).tok = k
       BY <1>1, PageFacts
    <2>1. PICK q \in Pages : q = setBundle(tab[t], m.tok) /\ q.tok = m.tok
       BY <1>2, <2>0
    <2>. QED  BY <1>1, <1>8, <1>9, <2>1 DEF RotationEpoch
  <1>10. CASE /\ api' = [api EXCEPT ![t].pc = "mid"]
              /\ StartRefresh(t, tab[t], n)
              /\ UNCHANGED tab
    <2>1. ref' \in [Tabs -> Refreshes] /\ lockq' \in Seq(Tabs) /\ net' \subseteq Messages
       BY <1>1, <1>10, StartFacts
    <2>2. api' \in [Tabs -> Apis]
       BY <1>6, <1>10 DEF Apis
    <2>3. TypeOK'
       BY <1>1, <1>2, <1>3, <1>10, <2>1, <2>2 DEF TypeOK, Messages
    <2>. QED  BY <1>1, <1>2, <1>3, <1>10, <2>3, StartStep
  <1>11. CASE /\ tab' = [tab EXCEPT ![t] = Expire(reset(tab[t], "complete"))]
              /\ ref' = Bumped(t)
              /\ api' = [api EXCEPT ![t] = NoApi]
              /\ net' = n
              /\ UNCHANGED lockq
    <2>1. PICK p \in Pages : p = reset(tab[t], "complete") /\ p.tok = NoToken
       BY <1>1, PageFacts
    <2>2. PICK q \in Pages : q = Expire(p) /\ q.tok = NoToken
       BY <2>1, PageFacts
    <2>. QED  BY <1>5, <1>8, <1>11, <2>1, <2>2
  <1>. QED  BY <1>4, <1>7, <1>9, <1>10, <1>11 DEF ApiResponse

\* bootstrapAuthentication.
LEMMA BootstrapStep ==
    ASSUME IInv, NEW t \in Tabs, Bootstrap(t)
    PROVE  IInv'
  <1>1. /\ tab \in [Tabs -> Pages] /\ tab[t] \in Pages /\ net \subseteq Messages /\ TypeOK
        /\ tab[t].tok.sid \notin left[t]
     BY Facts DEF IInv, SignedOutForGood
  <1>2. env' \in EnvironmentType /\ SameEnv
     BY BoundFacts DEF Bootstrap
  <1>3. UNCHANGED <<jar, srv, api, logout, chan, left, newest>>
     BY DEF Bootstrap
  <1>4. \A b \in {"complete", "checking"} :
           [tab[t] EXCEPT !.boot = b] \in Pages /\ [tab[t] EXCEPT !.boot = b].tok = tab[t].tok
     BY <1>1, PageFacts
  <1>5. CASE tab' = [tab EXCEPT ![t].boot = "complete"] /\ UNCHANGED <<ref, lockq, net>>
    <2>1. PICK q \in Pages : q = [tab[t] EXCEPT !.boot = "complete"] /\ q.tok = tab[t].tok
       BY <1>4
    <2>2. tab' = [tab EXCEPT ![t] = q]
       BY <1>5, <2>1
    <2>3. tab' \in [Tabs -> Pages] /\ tab'[t] = q /\ \A u \in Tabs \ {t} : tab'[u] = tab[u]
       BY <1>1, <2>2
    <2>4. TypeOK'
       BY <1>1, <1>2, <1>3, <1>5, <2>3 DEF TypeOK
    <2>5. Apart(t)
       BY <1>3, <1>5, <2>3 DEF Apart
    <2>. QED  BY <1>1, <1>2, <1>3, <1>5, <2>1, <2>3, <2>4, <2>5, PlainStep
  <1>6. CASE /\ tab' = [tab EXCEPT ![t] = [tab[t] EXCEPT !.boot = "checking"]]
             /\ StartRefresh(t, [tab[t] EXCEPT !.boot = "checking"], net)
    <2>1. PICK q \in Pages : q = [tab[t] EXCEPT !.boot = "checking"] /\ q.tok = tab[t].tok
       BY <1>4
    <2>2. PICK n \in SUBSET net : n = net
       OBVIOUS
    <2>3. tab' = [tab EXCEPT ![t] = q] /\ StartRefresh(t, q, n)
       BY <1>6, <2>1, <2>2
    <2>4. tab' \in [Tabs -> Pages] /\ tab'[t] = q /\ \A u \in Tabs \ {t} : tab'[u] = tab[u]
       BY <1>1, <2>3
    <2>5. ref' \in [Tabs -> Refreshes] /\ lockq' \in Seq(Tabs) /\ net' \subseteq Messages
       BY <2>3, StartFacts
    <2>6. TypeOK'
       BY <1>1, <1>2, <1>3, <2>4, <2>5 DEF TypeOK, Messages
    <2>. QED  BY <1>2, <1>3, <2>1, <2>3, <2>4, <2>6, StartStep
  <1>. QED  BY <1>5, <1>6 DEF Bootstrap

\* The access token comes within a minute of its expiry.
LEMMA TokenAgesStep ==
    ASSUME IInv, NEW t \in Tabs, TokenAges(t)
    PROVE  IInv'
  <1>1. /\ tab \in [Tabs -> Pages] /\ tab[t] \in Pages /\ tab[t].tok \in Tokens /\ TypeOK
        /\ tab[t].tok.sid \notin left[t]
     BY Facts DEF IInv, SignedOutForGood
  <1>2. env' \in EnvironmentType /\ SameEnv
     BY BoundFacts DEF TokenAges
  <1>3. /\ tab[t].tok.fresh /\ tab' = [tab EXCEPT ![t].tok.fresh = FALSE]
        /\ UNCHANGED <<jar, srv, ref, lockq, api, logout, net, chan, left, newest>>
     BY DEF TokenAges
  <1>4. tab[t].tok \in [sid : Sids, fresh : BOOLEAN, current : BOOLEAN]
     BY <1>1, <1>3, TokenFacts, NoneFacts
  <1>5. PICK k : k = [tab[t].tok EXCEPT !.fresh = FALSE]
     OBVIOUS
  <1>6. /\ k \in [sid : Sids, fresh : BOOLEAN, current : BOOLEAN]
        /\ k.sid = tab[t].tok.sid /\ k.current = tab[t].tok.current
     BY <1>4, <1>5
  <1>7. PICK q : q = [tab[t] EXCEPT !.tok = k]
     OBVIOUS
  <1>8. q \in Pages /\ q.tok = k
     BY <1>1, <1>6, <1>7 DEF Pages, Tokens
  <1>9. tab' = [tab EXCEPT ![t] = q]
     BY <1>3, <1>5, <1>7
  <1>10. tab' \in [Tabs -> Pages] /\ tab'[t] = q /\ \A u \in Tabs \ {t} : tab'[u] = tab[u]
     BY <1>1, <1>8, <1>9
  <1>11. TypeOK'
     BY <1>1, <1>2, <1>3, <1>10 DEF TypeOK
  <1>12. Apart(t)
     BY <1>3, <1>10 DEF Apart
  <1>. QED  BY <1>1, <1>2, <1>3, <1>6, <1>8, <1>10, <1>11, <1>12, PlainStep

\* The user signs out in tab t.
LEMMA LogoutStartStep ==
    ASSUME IInv, NEW t \in Tabs, LogoutStart(t)
    PROVE  IInv'
  <1>1. /\ tab \in [Tabs -> Pages] /\ tab[t] \in Pages /\ net \subseteq Messages /\ TypeOK
        /\ tab[t].tok.sid \notin left[t] /\ jar \in Cookies
        /\ newest \in [sid : Sids \cup {NoSid}, quiet : BOOLEAN]
     BY Facts DEF IInv, SignedOutForGood
  <1>2. env' \in EnvironmentType /\ SameEnv
     BY BoundFacts DEF LogoutStart
  <1>3. /\ tab' = [tab EXCEPT ![t].out = TRUE]
        /\ logout' = [logout EXCEPT ![t] = "sent"]
        /\ net' = net \cup {LogoutRequest(t, tab[t], jar)}
        /\ newest' = [newest EXCEPT !.quiet = FALSE]
        /\ UNCHANGED <<jar, srv, ref, lockq, api, chan, left>>
     BY DEF LogoutStart
  <1>4. PICK x0 : x0 = LogoutRequest(t, tab[t], jar)
     OBVIOUS
  <1>5. x0 \in Messages /\ x0.ph = "req" /\ x0.k = "logout" /\ net' = net \cup {x0}
     BY <1>1, <1>3, <1>4, SentFacts
  <1>6. PICK q : q = [tab[t] EXCEPT !.out = TRUE]
     OBVIOUS
  <1>7. q \in Pages /\ q.tok = tab[t].tok
     BY <1>1, <1>6 DEF Pages
  <1>8. tab' = [tab EXCEPT ![t] = q]
     BY <1>3, <1>6
  <1>9. tab' \in [Tabs -> Pages] /\ tab'[t] = q /\ \A u \in Tabs \ {t} : tab'[u] = tab[u]
     BY <1>1, <1>7, <1>8
  <1>10. /\ newest' \in [sid : Sids \cup {NoSid}, quiet : BOOLEAN]
         /\ newest'.sid = newest.sid /\ ~newest'.quiet
     BY <1>1, <1>3
  <1>11. logout' \in [Tabs -> {"none", "sent", "refreshing", "resent"}]
     BY <1>1, <1>3 DEF TypeOK
  <1>12. TypeOK'
     BY <1>1, <1>2, <1>3, <1>5, <1>9, <1>10, <1>11 DEF TypeOK, Messages
  <1>13. Apart(t)
     BY <1>3, <1>9 DEF Apart
  <1>14. \A x \in net' : x \in net \/ (x.ph = "req" /\ x.k = "logout")
     BY <1>5
  <1>. QED  BY <1>1, <1>2, <1>3, <1>7, <1>9, <1>10, <1>12, <1>13, <1>14, PlainStep

\* Only a session whose row is revoked counts as left.
LEMMA SignedOutFacts ==
    ASSUME IInv, NEW t \in Tabs, NEW s
    PROVE  /\ SignedOut(t, s) \in [Tabs -> SUBSET Sids]
           /\ \A u \in Tabs \ {t} : SignedOut(t, s)[u] = left[u]
           /\ \A x \in Sids : x \in SignedOut(t, s)[t] => x \in left[t] \/ srv[x].st = "revoked"
           /\ NoSid \notin SignedOut(t, s)[t]
  <1>1. left \in [Tabs -> SUBSET Sids]
     BY Facts
  <1>2. PICK r \in SUBSET Sids : r = {x \in Sids : x = s /\ srv[x].st = "revoked"}
     OBVIOUS
  <1>3. SignedOut(t, s) = [left EXCEPT ![t] = left[t] \cup r]
     BY <1>2 DEF SignedOut
  <1>4. /\ SignedOut(t, s) \in [Tabs -> SUBSET Sids]
        /\ \A u \in Tabs \ {t} : SignedOut(t, s)[u] = left[u]
        /\ SignedOut(t, s)[t] = left[t] \cup r
     BY <1>1, <1>2, <1>3
  <1>5. \A x \in Sids : x \in r => srv[x].st = "revoked"
     BY <1>2
  <1>. QED  BY <1>1, <1>4, <1>5, NoSidAssumption

\* A step of tab t that drops its token and counts the session as left.
LEMMA DropStep ==
    ASSUME IInv, NEW t \in Tabs, NEW q \in Pages, q.tok = NoToken, NEW s,
           tab' = [tab EXCEPT ![t] = q], ref' = Bumped(t), left' = SignedOut(t, s),
           srv' = srv, env' = env, newest' = newest, lockq' = lockq, api' = api,
           jar' \in Cookies, Keeping => jar' = jar, net' \subseteq net,
           logout' \in [Tabs -> {"none", "sent", "refreshing", "resent"}],
           chan' \in [Tabs -> Seq(Events)]
    PROVE  IInv'
  <1>1. tab \in [Tabs -> Pages] /\ TypeOK /\ NoToken.sid = NoSid
     BY Facts, NoneFacts DEF IInv
  <1>2. tab' \in [Tabs -> Pages] /\ tab'[t] = q /\ \A u \in Tabs \ {t} : tab'[u] = tab[u]
     BY <1>1
  <1>3. /\ ref' \in [Tabs -> Refreshes] /\ ref'[t].pc = ref[t].pc
        /\ ref'[t].cur = (ref[t].pc = "none")
        /\ \A u \in Tabs \ {t} : ref'[u] = ref[u]
     BY BumpedFacts
  <1>4. /\ left' \in [Tabs -> SUBSET Sids]
        /\ \A u \in Tabs \ {t} : left'[u] = left[u]
        /\ \A x \in Sids : x \in left'[t] => x \in left[t] \/ srv[x].st = "revoked"
        /\ NoSid \notin left'[t]
     BY SignedOutFacts
  <1>5. TypeOK'
     BY <1>1, <1>2, <1>3, <1>4 DEF TypeOK
  <1>6. Apart(t) /\ SameEnv
     BY <1>2, <1>3, <1>4 DEF Apart, SameEnv
  <1>7. tab'[t].tok.sid \notin left'[t]
     BY <1>1, <1>2, <1>4
  <1>. QED  BY <1>3, <1>4, <1>5, <1>6, <1>7, PlainStep

\* The answer of a sign-out reaches the tab.
LEMMA LogoutResponseStep ==
    ASSUME IInv, NEW t \in Tabs, NEW m \in net, LogoutResponse(t, m)
    PROVE  IInv'
  <1>1. /\ tab \in [Tabs -> Pages] /\ tab[t] \in Pages /\ net \subseteq Messages /\ TypeOK
        /\ tab[t].tok.sid \notin left[t] /\ jar \in Cookies /\ chan \in [Tabs -> Seq(Events)]
        /\ logout \in [Tabs -> {"none", "sent", "refreshing", "resent"}]
     BY Facts DEF IInv, SignedOutForGood, TypeOK
  <1>2. /\ m.ph = "rsp" /\ m.k = "logout" /\ Received(m) /\ m.to \in Cookies
        /\ UNCHANGED <<srv, api, env, newest>> /\ SameEnv
        /\ ResponseOK(m)
     BY <1>1, MessageFacts DEF LogoutResponse, SameEnv, IInv, ResponsesOK
  <1>3. jar' \in Cookies
     BY <1>1, <1>2 DEF Received
  <1>4. Keeping => jar' = jar
    <2>1. Keeping => ~m.sets
       BY <1>2 DEF IInv, Kept, ResponseKeeps
    <2>. QED  BY <1>2, <2>1 DEF Received
  <1>5. PICK n \in SUBSET net : n = net \ {m}
     OBVIOUS
  <1>6. \A v \in {"none", "refreshing"} :
           [logout EXCEPT ![t] = v] \in [Tabs -> {"none", "sent", "refreshing", "resent"}]
     BY <1>1
  <1>7. CASE /\ tab' = [tab EXCEPT ![t] = [reset(tab[t], "complete") EXCEPT !.page = "signin"]]
             /\ ref' = Bumped(t)
             /\ chan' = Announce(chan, t, tab[t])
             /\ left' = SignedOut(t, tab[t].tok.sid)
             /\ logout' = [logout EXCEPT ![t] = "none"]
             /\ net' = n
             /\ UNCHANGED lockq
    <2>1. PICK p \in Pages : p = reset(tab[t], "complete") /\ p.tok = NoToken
       BY <1>1, PageFacts
    <2>a. [p EXCEPT !.page = "signin"] \in Pages /\ [p EXCEPT !.page = "signin"].tok = p.tok
       BY PageFacts
    <2>2. PICK q \in Pages : q = [p EXCEPT !.page = "signin"] /\ q.tok = NoToken
       BY <2>1, <2>a
    <2>3. chan' \in [Tabs -> Seq(Events)]
       BY <1>1, <1>7, AnnounceFacts
    <2>4. tab' = [tab EXCEPT ![t] = q]
       BY <1>7, <2>1, <2>2
    <2>. QED  BY <1>2, <1>3, <1>4, <1>6, <1>7, <2>2, <2>3, <2>4, DropStep
  <1>8. CASE /\ m.res = "mismatch"
             /\ logout' = [logout EXCEPT ![t] = "refreshing"]
             /\ StartRefresh(t, tab[t], n)
             /\ UNCHANGED <<tab, chan, left>>
    <2>1. ref' \in [Tabs -> Refreshes] /\ lockq' \in Seq(Tabs) /\ net' \subseteq Messages
       BY <1>1, <1>8, StartFacts
    <2>2. TypeOK'
       BY <1>1, <1>2, <1>3, <1>6, <1>8, <2>1 DEF TypeOK, Messages
    <2>3. jar' = jar
       BY <1>2, <1>8 DEF ResponseOK, Received
    <2>. QED  BY <1>1, <1>2, <1>8, <2>2, <2>3, StartStep
  <1>9. CASE /\ tab' = [tab EXCEPT ![t].out = FALSE]
             /\ logout' = [logout EXCEPT ![t] = "none"]
             /\ net' = n
             /\ UNCHANGED <<ref, lockq, chan, left>>
    <2>1. PICK q : q = [tab[t] EXCEPT !.out = FALSE]
       OBVIOUS
    <2>2. q \in Pages /\ q.tok = tab[t].tok
       BY <1>1, <2>1 DEF Pages
    <2>3. tab' = [tab EXCEPT ![t] = q]
       BY <1>9, <2>1
    <2>4. tab' \in [Tabs -> Pages] /\ tab'[t] = q /\ \A u \in Tabs \ {t} : tab'[u] = tab[u]
       BY <1>1, <2>2, <2>3
    <2>5. TypeOK'
       BY <1>1, <1>2, <1>3, <1>6, <1>9, <2>4 DEF TypeOK, Messages
    <2>6. Apart(t)
       BY <1>9, <2>4 DEF Apart
    <2>. QED  BY <1>1, <1>2, <1>4, <1>9, <2>2, <2>4, <2>5, <2>6, PlainStep
  <1>. QED  BY <1>5, <1>7, <1>8, <1>9 DEF LogoutResponse

\* The page of tab t is loaded anew: its refresh is forgotten, its requests are
\* orphaned.
LEMMA LoadStep ==
    ASSUME IInv, NEW t \in Tabs, NEW g \in {"app", "signin"}, Load(t, g),
           chan' \in [Tabs -> Seq(Events)], env' \in EnvironmentType, SameEnv,
           jar' = jar, srv' = srv, left' = left, newest' = newest
    PROVE  IInv'
  <1>1. /\ tab \in [Tabs -> Pages] /\ ref \in [Tabs -> Refreshes] /\ lockq \in Seq(Tabs)
        /\ net \subseteq Messages /\ TypeOK /\ left[t] \subseteq Sids
     BY Facts DEF IInv
  <1>2. PICK q \in Pages : q = Page(g) /\ q.tok = NoToken
     BY LoadedFacts
  <1>3. tab' \in [Tabs -> Pages] /\ tab'[t] = q /\ \A u \in Tabs \ {t} : tab'[u] = tab[u]
     BY <1>1, <1>2 DEF Load
  <1>4. NoRefresh \in Refreshes /\ NoRefresh.pc = "none"
     BY DEF NoRefresh, Refreshes
  <1>5. /\ ref' \in [Tabs -> Refreshes] /\ ref'[t].pc = "none"
        /\ \A u \in Tabs \ {t} : ref'[u] = ref[u]
     BY <1>1, <1>4 DEF Load
  <1>6. lockq' = Without(lockq, t) /\ lockq' \in Seq(Tabs)
     BY <1>1, WithoutFacts DEF Load
  <1>7. api' \in [Tabs -> Apis]
     BY <1>1 DEF Load, TypeOK, NoApi, Apis
  <1>8. logout' \in [Tabs -> {"none", "sent", "refreshing", "resent"}]
     BY <1>1 DEF Load, TypeOK
  <1>9. ASSUME NEW x \in net'
        PROVE  \/ x \in net /\ x.t # t
               \/ \E m \in net : m.ph = "req" /\ m.t = t /\ x = Orphan(m)
    <2>1. PICK m \in net : /\ ~(m.t = t /\ m.ph = "rsp")
                           /\ x = IF m.t = t /\ m.ph = "req" THEN Orphan(m) ELSE m
       BY DEF Load, Orphan
    <2>2. m.ph = "rsp" \/ m.ph = "req"
       BY <1>1, MessageFacts
    <2>. QED  BY <2>1, <2>2
  <1>10. ASSUME NEW x \in net'
         PROVE  /\ x \in Messages /\ ~Refreshing(x, t)
                /\ x.ph = "rsp" => x \in net /\ x.t # t
                /\ \A u \in Tabs \ {t} : Refreshing(x, u) => x \in net
    <2>1. CASE x \in net /\ x.t # t
       BY <1>1, <2>1 DEF Refreshing
    <2>2. CASE \E m \in net : m.ph = "req" /\ m.t = t /\ x = Orphan(m)
      <3>1. PICK m \in net : m.ph = "req" /\ m.t = t /\ x = Orphan(m)
         BY <2>2
      <3>2. x \in Messages /\ x.ph = "req" /\ x.t = t /\ ~x.live
         BY <1>1, <3>1, MessageFacts, OrphanFacts
      <3>. QED  BY <3>2 DEF Refreshing
    <2>. QED  BY <1>9, <2>1, <2>2
  <1>11. TypeOK'
    <2>1. net' \subseteq Requests \cup Responses
       BY <1>10 DEF Messages
    <2>. QED  BY <1>1, <1>3, <1>5, <1>6, <1>7, <1>8, <2>1 DEF TypeOK
  <1>12. Apart(t)
     BY <1>3, <1>5 DEF Apart
  <1>13. OneRefresh'
     BY <1>10, <1>12, OneRefreshKept
  <1>14. LockHeld'
     BY <1>5, <1>6, <1>12, LockKept
  <1>15. SessionsOK'
     BY SessionsKept
  <1>16. ResponsesOK'
     BY <1>10, <1>12, ResponsesKept
  <1>17. SignedOutForGood'
    <2>1. tab'[t].tok.sid \notin left'[t]
       BY <1>1, <1>2, <1>3, NoSidAssumption, NoneFacts
    <2>. QED  BY <1>12, <2>1, SignedOutKept
  <1>18. Kept'
    <2>1. \A x \in net' : x \in net \/ \E m \in net : m.ph = "req" /\ x = Orphan(m)
       BY <1>9
    <2>. QED  BY <2>1, KeptKept
  <1>. QED  BY <1>11, <1>13, <1>14, <1>15, <1>16, <1>17, <1>18 DEF IInv

\* A reload, and the redirect to the sign-in page.
LEMMA ReloadStep ==
    ASSUME IInv, NEW t \in Tabs, Reload(t) \/ RedirectToSignIn(t)
    PROVE  IInv'
  <1>1. /\ env \in EnvironmentType /\ tab[t] \in Pages /\ tab[t].page \in {"app", "signin"}
        /\ chan \in [Tabs -> Seq(Events)]
     BY Facts, PageFacts DEF IInv, TypeOK
  <1>2. <<>> \in Seq(Events)
     OBVIOUS
  <1>3. chan' \in [Tabs -> Seq(Events)]
     BY <1>1, <1>2 DEF Reload, RedirectToSignIn
  <1>4. CASE Reload(t)
    <2>1. env.reloads \in Nat /\ env.reloads > 0 /\ env' = [env EXCEPT !.reloads = env.reloads - 1]
       BY <1>1, <1>4 DEF EnvironmentType, Reload
    <2>2. PICK k \in Nat : k = env.reloads - 1
       BY <2>1
    <2>3. env' \in EnvironmentType /\ SameEnv
       BY <1>1, <2>1, <2>2 DEF EnvironmentType, SameEnv
    <2>4. Load(t, tab[t].page) /\ UNCHANGED <<jar, srv, left, newest>>
       BY <1>4 DEF Reload
    <2>. QED  BY <1>1, <1>3, <2>3, <2>4, LoadStep
  <1>5. CASE RedirectToSignIn(t)
    <2>1. Load(t, "signin") /\ UNCHANGED <<jar, srv, env, left, newest>>
       BY <1>5 DEF RedirectToSignIn
    <2>2. env' \in EnvironmentType /\ SameEnv
       BY <1>1, <2>1 DEF SameEnv
    <2>. QED  BY <1>3, <2>1, <2>2, LoadStep
  <1>. QED  BY <1>4, <1>5

\* The listener of RootComponent.
LEMMA SyncStep ==
    ASSUME IInv, NEW t \in Tabs, SyncEvent(t)
    PROVE  IInv'
  <1>1. /\ tab \in [Tabs -> Pages] /\ tab[t] \in Pages /\ TypeOK /\ jar \in Cookies
        /\ tab[t].tok.sid \notin left[t] /\ chan \in [Tabs -> Seq(Events)]
        /\ env \in EnvironmentType /\ tab[t].page \in {"app", "signin"}
     BY Facts, PageFacts DEF IInv, SignedOutForGood, TypeOK
  <1>2. chan[t] # <<>> /\ UNCHANGED <<jar, srv, env, newest>> /\ SameEnv
     BY DEF SyncEvent, SameEnv
  <1>3. chan[t] \in Seq(Events) /\ Tail(chan[t]) \in Seq(Events) /\ <<>> \in Seq(Events)
     BY <1>1, <1>2
  <1>4. CASE /\ Load(t, tab[t].page)
             /\ chan' = [chan EXCEPT ![t] = <<>>]
             /\ UNCHANGED left
    <2>1. chan' \in [Tabs -> Seq(Events)]
       BY <1>1, <1>3, <1>4
    <2>. QED  BY <1>1, <1>2, <1>4, <2>1, LoadStep
  <1>5. CASE /\ tab' = [tab EXCEPT ![t] =
                          [reset(tab[t], "complete") EXCEPT !.out = TRUE, !.page = "signin"]]
             /\ ref' = Bumped(t)
             /\ chan' = [chan EXCEPT ![t] = Tail(@)]
             /\ left' = SignedOut(t, Head(chan[t]).sid)
             /\ UNCHANGED <<lockq, api, logout, net>>
    <2>1. chan' \in [Tabs -> Seq(Events)]
       BY <1>1, <1>3, <1>5
    <2>2. PICK p \in Pages : p = reset(tab[t], "complete") /\ p.tok = NoToken
       BY <1>1, PageFacts
    <2>3. PICK q : q = [p EXCEPT !.out = TRUE, !.page = "signin"]
       OBVIOUS
    <2>4. q \in Pages /\ q.tok = NoToken
       BY <2>2, <2>3 DEF Pages
    <2>5. tab' = [tab EXCEPT ![t] = q]
       BY <1>5, <2>2, <2>3
    <2>6. logout' \in [Tabs -> {"none", "sent", "refreshing", "resent"}]
       BY <1>1, <1>5 DEF TypeOK
    <2>. QED  BY <1>1, <1>2, <1>5, <2>1, <2>4, <2>5, <2>6, DropStep
  <1>6. CASE /\ chan' = [chan EXCEPT ![t] = Tail(@)]
             /\ UNCHANGED <<tab, ref, lockq, api, logout, net, left>>
    <2>1. chan' \in [Tabs -> Seq(Events)]
       BY <1>1, <1>3, <1>6
    <2>2. TypeOK'
       BY <1>1, <1>2, <1>6, <2>1 DEF TypeOK
    <2>3. Apart(t)
       BY <1>6 DEF Apart
    <2>. QED  BY <1>1, <1>2, <1>6, <2>2, <2>3, PlainStep
  <1>. QED  BY <1>4, <1>5, <1>6 DEF SyncEvent

\* A frozen tab drops an event.
LEMMA EventExpiresStep ==
    ASSUME IInv, NEW t \in Tabs, EventExpires(t)
    PROVE  IInv'
  <1>1. /\ tab[t].tok.sid \notin left[t] /\ chan \in [Tabs -> Seq(Events)] /\ TypeOK
     BY DEF IInv, SignedOutForGood, TypeOK
  <1>2. env' \in EnvironmentType /\ SameEnv
     BY BoundFacts DEF EventExpires
  <1>3. /\ chan[t] # <<>> /\ chan' = [chan EXCEPT ![t] = Tail(chan[t])]
        /\ UNCHANGED <<jar, srv, tab, ref, lockq, api, logout, net, left, newest>>
     BY DEF EventExpires
  <1>4. Tail(chan[t]) \in Seq(Events)
     BY <1>1, <1>3
  <1>5. chan' \in [Tabs -> Seq(Events)]
     BY <1>1, <1>3, <1>4
  <1>6. TypeOK'
     BY <1>1, <1>2, <1>3, <1>5 DEF TypeOK
  <1>7. Apart(t)
     BY <1>3 DEF Apart
  <1>. QED  BY <1>1, <1>2, <1>3, <1>6, <1>7, PlainStep

-----------------------------------------------------------------------------
(* Logins and the server.                                                  *)

\* A login is answered.
LEMMA LoginStep ==
    ASSUME IInv, NEW t \in Tabs, NEW s \in Sids, Login(t, s)
    PROVE  IInv'
  <1>1. /\ tab \in [Tabs -> Pages] /\ tab[t] \in Pages /\ TypeOK /\ srv \in [Sids -> Rows]
        /\ chan \in [Tabs -> Seq(Events)] /\ OneRefresh /\ SessionsOK
     BY Facts DEF IInv, TypeOK
  <1>2. env' \in EnvironmentType /\ SameEnv
     BY BoundFacts DEF Login
  <1>3. /\ srv[s].st = "absent" /\ srv' = [srv EXCEPT ![s].st = "active"]
        /\ jar' = Fresh(s)
        /\ tab' = [tab EXCEPT ![t] = [setBundle(tab[t], Bundle(s)) EXCEPT !.page = "app"]]
        /\ ref' = Bumped(t)
        /\ chan' = Publish(chan, t, "authenticated", s)
        /\ newest' = [sid |-> s, quiet |-> \A m \in net : m.k = "api"]
        /\ UNCHANGED <<lockq, api, logout, net, left>>
     BY DEF Login
  <1>4. /\ Bundle(s) \in Tokens /\ Bundle(s).sid = s
        /\ jar' \in Cookies /\ jar'.sid = s /\ jar'.age = 0
     BY <1>3, BundleFacts
  <1>5. PICK q \in Pages : q.tok = Bundle(s) /\ tab' = [tab EXCEPT ![t] = q]
    <2>1. PICK p \in Pages : p = setBundle(tab[t], Bundle(s)) /\ p.tok = Bundle(s)
      <3>1. \A k \in Tokens : setBundle(tab[t], k) \in Pages /\ setBundle(tab[t], k).tok = k
         BY <1>1, PageFacts
      <3>. QED  BY <1>4, <3>1
    <2>2. [p EXCEPT !.page = "app"] \in Pages /\ [p EXCEPT !.page = "app"].tok = p.tok
       BY PageFacts
    <2>. QED  BY <1>3, <2>1, <2>2
  <1>6. tab' \in [Tabs -> Pages] /\ tab'[t] = q /\ \A u \in Tabs \ {t} : tab'[u] = tab[u]
     BY <1>1, <1>5
  <1>7. /\ ref' \in [Tabs -> Refreshes] /\ ref'[t].pc = ref[t].pc
        /\ ref'[t].cur = (ref[t].pc = "none")
        /\ \A u \in Tabs \ {t} : ref'[u] = ref[u]
     BY <1>3, BumpedFacts
  <1>8. /\ srv' \in [Sids -> Rows] /\ srv'[s].st = "active"
        /\ \A r \in Sids : srv'[r].why = srv[r].why /\ srv'[r].grace = srv[r].grace
        /\ \A r \in Sids \ {s} : srv'[r] = srv[r]
     BY <1>1, <1>3 DEF Rows
  <1>9. /\ newest' \in [sid : Sids \cup {NoSid}, quiet : BOOLEAN] /\ newest'.sid = s
        /\ newest'.quiet => \A m \in net : m.k = "api"
    <2>1. PICK b \in BOOLEAN : b = \A m \in net : m.k = "api"
       OBVIOUS
    <2>2. newest' = [sid |-> s, quiet |-> b]
       BY <1>3, <2>1
    <2>3. newest' \in [sid : Sids \cup {NoSid}, quiet : BOOLEAN] /\ newest'.sid = s
          /\ newest'.quiet = b
       BY <2>2
    <2>. QED  BY <2>1, <2>3
  <1>10. chan' \in [Tabs -> Seq(Events)]
     BY <1>1, <1>3, PublishFacts
  <1>11. TypeOK'
     BY <1>1, <1>2, <1>3, <1>4, <1>6, <1>7, <1>8, <1>9, <1>10 DEF TypeOK
  <1>12. Apart(t)
     BY <1>3, <1>6, <1>7 DEF Apart
  <1>13. OneRefresh'
     BY <1>3, <1>7, <1>12, OneRefreshKept
  <1>14. LockHeld'
     BY <1>2, <1>3, <1>7, <1>12, LockKept
  <1>15. SessionsOK'
     BY <1>1, <1>2, <1>3, <1>8 DEF SessionsOK, SameEnv
  <1>16. ResponsesOK'
    <2>1. CASE ref[t].pc = "none"
      <3>1. \A x \in net' : x.ph = "rsp" /\ x.t = t => x.k # "refresh"
         BY <1>3, <2>1, NothingSent
      <3>. QED  BY <1>3, <1>12, <3>1, ResponsesKept
    <2>2. CASE ref[t].pc # "none"
       BY <1>3, <1>7, <1>12, <2>2, ResponsesKept
    <2>. QED  BY <2>1, <2>2
  <1>17. SignedOutForGood'
    <2>1. s \notin left[t]
       BY <1>1, <1>3 DEF SessionsOK
    <2>. QED  BY <1>3, <1>4, <1>5, <1>6, <1>12, <2>1, SignedOutKept
  <1>18. Kept'
    <2>. SUFFICES ASSUME newest'.quiet
                  PROVE  /\ Usable'
                         /\ \A x \in net' : IF x.ph = "req" THEN RequestKeeps(x, newest.sid)'
                                            ELSE ResponseKeeps(x, newest.sid)'
       BY DEF Kept, Keeping
    <2>1. Usable'
       BY <1>4, <1>8, <1>9 DEF Usable
    <2>2. \A x \in net' : x.k = "api"
       BY <1>3, <1>9
    <2>3. \A x \in net' : IF x.ph = "req" THEN RequestKeeps(x, newest.sid)'
                          ELSE ResponseKeeps(x, newest.sid)'
       BY <2>2 DEF RequestKeeps, ResponseKeeps
    <2>. QED  BY <2>1, <2>3
  <1>. QED  BY <1>11, <1>13, <1>14, <1>15, <1>16, <1>17, <1>18 DEF IInv

\* The fields of a response.
LEMMA ResponseFacts ==
    ASSUME NEW k \in Kinds, NEW t \in Tabs,
           NEW res \in {"ok", "rotated", "denied", "mismatch", "error"},
           NEW sets \in BOOLEAN, NEW to \in Cookies, NEW tok \in Tokens
    PROVE  LET x == Response(k, t, res, sets, to, tok)
           IN  /\ x \in Messages /\ x.ph = "rsp" /\ x.k = k /\ x.t = t /\ x.res = res
               /\ x.sets = sets /\ x.to = to /\ x.tok = tok
  BY DEF Response, Messages, Responses

\* In flight after m was answered by a: the answer, if the page of m still waits,
\* or what f made of another message.
Served(x, m, a, f) ==
    \/ x = a /\ (m.ph = "rsp" \/ m.live)
    \/ \E y \in net \ {m} :
          x = f[y] /\ \A u \in Tabs : Refreshing(x, u) => Refreshing(y, u)

\* The answer to a refresh takes the place of the request.
LEMMA OneAnswer ==
    ASSUME IInv, NEW m \in net, NEW a, NEW f, ref' = ref,
           \A u \in Tabs : Refreshing(a, u) => m.k = "refresh" /\ m.t = u,
           \A x \in net' : Served(x, m, a, f)
    PROVE  OneRefresh'
  <1>. SUFFICES ASSUME NEW u \in Tabs
                PROVE  /\ \A x, z \in net' : Refreshing(x, u) /\ Refreshing(z, u) => x = z
                       /\ ref[u].pc # "sent" => \A x \in net' : ~Refreshing(x, u)
     BY DEF OneRefresh, Refreshing
  <1>1. /\ \A x, z \in net : Refreshing(x, u) /\ Refreshing(z, u) => x = z
        /\ ref[u].pc # "sent" => \A x \in net : ~Refreshing(x, u)
     BY DEF IInv, OneRefresh
  <1>2. ASSUME NEW x \in net', Refreshing(x, u)
        PROVE  \/ x = a /\ Refreshing(m, u)
               \/ \E y \in net \ {m} : x = f[y] /\ Refreshing(y, u)
    <2>1. CASE x = a /\ (m.ph = "rsp" \/ m.live)
       BY <1>2, <2>1 DEF Refreshing
    <2>2. CASE \E y \in net \ {m} :
                  x = f[y] /\ \A v \in Tabs : Refreshing(x, v) => Refreshing(y, v)
       BY <1>2, <2>2
    <2>. QED  BY <2>1, <2>2 DEF Served
  <1>3. ASSUME NEW x \in net', NEW z \in net', Refreshing(x, u), Refreshing(z, u)
        PROVE  x = z
     BY <1>1, <1>2, <1>3
  <1>4. ASSUME NEW x \in net', Refreshing(x, u), ref[u].pc # "sent"
        PROVE  FALSE
     BY <1>1, <1>2, <1>4
  <1>. QED  BY <1>3, <1>4

\* A message m is answered by a, and nothing else happens but to the rows.
LEMMA ServedStep ==
    ASSUME IInv, TypeOK', NEW m \in net, NEW a, a.ph = "rsp", a.k = m.k, a.t = m.t,
           \A x \in net' : x \in net \ {m} \/ (x = a /\ (m.ph = "rsp" \/ m.live)),
           ResponseOK(a), Timely(a), SameEnv,
           tab' = tab, ref' = ref, lockq' = lockq, left' = left, SessionsOK', Kept'
    PROVE  IInv'
  <1>1. OneRefresh'
    <2>1. PICK f : f = [y \in net |-> y]
       OBVIOUS
    <2>2. \A y \in net : y = f[y]
       BY <2>1
    <2>3. \A u \in Tabs : Refreshing(a, u) => m.k = "refresh" /\ m.t = u
       BY DEF Refreshing
    <2>4. \A x \in net' : Served(x, m, a, f)
       BY <2>2 DEF Served
    <2>. QED  BY <2>3, <2>4, OneAnswer
  <1>2. LockHeld'
     BY DEF IInv, LockHeld, SameEnv
  <1>3. ResponsesOK'
    <2>1. \A x \in net' : x.ph = "rsp" => ResponseOK(x) /\ Timely(x)
       BY DEF IInv, ResponsesOK
    <2>2. \A x : Timely(x) => Timely(x)'
       BY DEF Timely
    <2>. QED  BY <2>1, <2>2 DEF ResponsesOK, ResponseOK
  <1>4. SignedOutForGood'
     BY DEF IInv, SignedOutForGood
  <1>. QED  BY <1>1, <1>2, <1>3, <1>4 DEF IInv

\* An answer keeps the session when it says so.
LEMMA ServedKept ==
    ASSUME IInv, jar' = jar, newest' = newest, Keeping' => Keeping /\ Usable',
           \A x \in net' : \/ x \in net
                           \/ x.ph = "rsp" /\ (Keeping' => ResponseKeeps(x, newest.sid))
    PROVE  Kept'
  <1>. SUFFICES ASSUME Keeping'
                PROVE  \A x \in net' : IF x.ph = "req" THEN RequestKeeps(x, newest.sid)'
                                       ELSE ResponseKeeps(x, newest.sid)'
     BY DEF Kept
  <1>1. \A x \in net : IF x.ph = "req" THEN RequestKeeps(x, newest.sid)
                       ELSE ResponseKeeps(x, newest.sid)
     BY DEF IInv, Kept
  <1>. QED  BY <1>1 DEF RequestKeeps, ResponseKeeps

\* A row is revoked, if it is active.
LEMMA RevokedFacts ==
    ASSUME IInv, NEW s \in Sids, NEW w \in Ended \cup {"refresh_reuse"},
           srv' = Revoked(s, w)
    PROVE  /\ srv' \in [Sids -> Rows]
           /\ \A r \in Sids \ {s} : srv'[r] = srv[r]
           /\ srv[s].st = "active" => srv'[s].st = "revoked" /\ srv'[s].why = w
           /\ srv[s].st # "active" => srv' = srv
           /\ \A r \in Sids : srv'[r].why \notin Ended => srv[r].why \notin Ended
           /\ SameEnv /\ left' = left => SessionsOK'
  <1>1. srv \in [Sids -> Rows] /\ srv[s] \in Rows /\ SessionsOK
     BY Facts DEF IInv
  <1>2. CASE srv[s].st # "active"
    <2>1. srv' = srv
       BY <1>2 DEF Revoked
    <2>. QED  BY <1>1, <1>2, <2>1 DEF SessionsOK, SameEnv
  <1>3. CASE srv[s].st = "active"
    <2>0. PICK x : x = [srv[s] EXCEPT !.st = "revoked", !.why = w]
       OBVIOUS
    <2>1. srv' = [srv EXCEPT ![s] = x]
       BY <1>3, <2>0 DEF Revoked
    <2>a. x \in Rows /\ x.st = "revoked" /\ x.why = w /\ x.grace = srv[s].grace
       BY <1>1, <2>0 DEF Rows, Ended
    <2>2. /\ srv' \in [Sids -> Rows] /\ srv'[s].st = "revoked" /\ srv'[s].why = w
          /\ srv'[s].grace = srv[s].grace
          /\ \A r \in Sids \ {s} : srv'[r] = srv[r]
       BY <1>1, <2>1, <2>a
    <2>3. srv[s].why = "none"
       BY <1>1, <1>3 DEF SessionsOK
    <2>. QED  BY <1>1, <1>3, <2>2, <2>3 DEF SessionsOK, SameEnv, Ended
  <1>. QED  BY <1>2, <1>3

\* The user's auth version moves ahead of a session's, or the session follows.
LEMMA BehindFacts ==
    ASSUME IInv, NEW s \in Sids, NEW b \in BOOLEAN,
           srv' = [srv EXCEPT ![s].behind = b]
    PROVE  /\ srv' \in [Sids -> Rows]
           /\ \A r \in Sids : srv'[r].st = srv[r].st /\ srv'[r].why = srv[r].why
           /\ SameEnv /\ left' = left => SessionsOK'
  <1>1. srv \in [Sids -> Rows] /\ srv[s] \in Rows /\ SessionsOK
     BY Facts DEF IInv
  <1>2. PICK row : row = [srv[s] EXCEPT !.behind = b]
     OBVIOUS
  <1>3. /\ row \in Rows /\ row.st = srv[s].st /\ row.why = srv[s].why
        /\ row.grace = srv[s].grace
     BY <1>1, <1>2 DEF Rows
  <1>4. srv' = [srv EXCEPT ![s] = row]
     BY <1>2
  <1>5. srv'[s] = row /\ \A r \in Sids \ {s} : srv'[r] = srv[r]
     BY <1>1, <1>4
  <1>6. srv' \in [Sids -> Rows]
     BY <1>1, <1>3, <1>4
  <1>. QED  BY <1>1, <1>3, <1>5, <1>6 DEF SessionsOK, SameEnv

\* Another device revokes a session, or the replay window of one ends.
LEMMA RowStep ==
    ASSUME IInv, NEW s \in Sids, RevokeElsewhere(s) \/ GraceElapses(s)
    PROVE  IInv'
  <1>1. /\ TypeOK /\ srv \in [Sids -> Rows] /\ SessionsOK /\ OneRefresh /\ LockHeld
        /\ ResponsesOK /\ SignedOutForGood /\ Kept
     BY Facts DEF IInv
  <1>2. /\ UNCHANGED <<jar, tab, ref, lockq, api, logout, net, chan, env, left, newest>>
        /\ SameEnv /\ srv[s].st = "active"
     BY DEF RevokeElsewhere, GraceElapses, SameEnv
  <1>3. /\ OneRefresh' /\ LockHeld' /\ SignedOutForGood'
     BY <1>1, <1>2 DEF OneRefresh, Refreshing, LockHeld, SignedOutForGood
  <1>4. ResponsesOK'
     BY <1>1, <1>2 DEF ResponsesOK, ResponseOK, Timely
  <1>5. CASE RevokeElsewhere(s)
    <2>1. srv' = Revoked(s, "user_revoked")
       BY <1>5 DEF RevokeElsewhere
    <2>2. /\ srv' \in [Sids -> Rows] /\ SessionsOK'
          /\ \A r \in Sids \ {s} : srv'[r] = srv[r]
          /\ srv'[s].why = "user_revoked"
          /\ \A r \in Sids : srv'[r].why \notin Ended => srv[r].why \notin Ended
       BY <1>2, <2>1, RevokedFacts DEF Ended
    <2>3. TypeOK'
       BY <1>1, <1>2, <2>2 DEF TypeOK
    <2>4. Kept'
      <3>1. ASSUME Keeping' PROVE Keeping /\ Usable'
        <4>1. Keeping /\ newest.sid \in Sids
           BY <1>2, <2>2, <3>1, KeepingBefore
        <4>2. newest.sid # s
           BY <1>2, <2>2, <3>1 DEF Keeping, Wanted
        <4>. QED  BY <1>1, <1>2, <2>2, <4>1, <4>2 DEF Kept, Usable
      <3>. QED  BY <1>2, <3>1, ServedKept
    <2>. QED  BY <1>3, <1>4, <2>2, <2>3, <2>4 DEF IInv
  <1>6. CASE GraceElapses(s)
    <2>1. env.grace /\ srv' = [srv EXCEPT ![s].grace = FALSE]
       BY <1>6 DEF GraceElapses
    <2>2. /\ srv' \in [Sids -> Rows]
          /\ \A r \in Sids : srv'[r].st = srv[r].st /\ srv'[r].why = srv[r].why
       BY <1>1, <2>1 DEF Rows
    <2>3. TypeOK'
       BY <1>1, <1>2, <2>2 DEF TypeOK
    <2>4. SessionsOK'
       BY <1>1, <1>2, <2>1, <2>2 DEF SessionsOK
    <2>5. Kept'
       BY <1>2, <2>1 DEF Kept, Keeping, Sheltered
    <2>. QED  BY <1>3, <1>4, <2>3, <2>4, <2>5 DEF IInv
  <1>. QED  BY <1>5, <1>6

\* A request or its response is lost.
LEMMA NetworkErrorStep ==
    ASSUME IInv, NEW m \in net, NetworkError(m)
    PROVE  IInv'
  <1>1. TypeOK /\ net \subseteq Messages /\ m.k \in Kinds /\ m.t \in Tabs
        /\ (m.ph = "rsp" \/ m.ph = "req") /\ SessionsOK
     BY Facts, MessageFacts DEF IInv
  <1>2. env' \in EnvironmentType /\ SameEnv
     BY BoundFacts DEF NetworkError
  <1>3. PICK a : a = Response(m.k, m.t, "error", FALSE, NoCookie, NoToken)
     OBVIOUS
  <1>4. /\ net' = (net \ {m}) \cup {a} /\ (m.ph = "rsp" \/ m.live)
        /\ UNCHANGED <<jar, srv, tab, ref, lockq, api, logout, chan, left, newest>>
     BY <1>1, <1>3 DEF NetworkError
  <1>5. /\ a \in Messages /\ a.ph = "rsp" /\ a.k = m.k /\ a.t = m.t /\ a.res = "error"
        /\ a.sets = FALSE
    <2>1. PICK b \in BOOLEAN : b = FALSE
       OBVIOUS
    <2>2. a = Response(m.k, m.t, "error", b, NoCookie, NoToken)
       BY <1>3, <2>1
    <2>3. /\ a \in Messages /\ a.ph = "rsp" /\ a.k = m.k /\ a.t = m.t /\ a.res = "error"
          /\ a.sets = b
       BY <1>1, <2>2, NoneFacts, ResponseFacts
    <2>. QED  BY <2>1, <2>3
  <1>6. TypeOK'
     BY <1>1, <1>2, <1>4, <1>5 DEF TypeOK, Messages
  <1>7. ResponseOK(a) /\ Timely(a)
     BY <1>5 DEF ResponseOK, Timely
  <1>8. SessionsOK'
     BY <1>2, <1>4, SessionsKept
  <1>9. Kept'
    <2>1. Keeping' => Keeping /\ Usable'
      <3>1. Keeping' => Keeping
         BY <1>2, <1>4 DEF Keeping, Sheltered, Wanted, SameEnv
      <3>. QED  BY <1>4, <3>1 DEF IInv, Kept, Usable
    <2>2. \A s : ResponseKeeps(a, s)
       BY <1>5 DEF ResponseKeeps
    <2>. QED  BY <1>4, <1>5, <2>1, <2>2, ServedKept
  <1>. QED  BY <1>2, <1>4, <1>5, <1>6, <1>7, <1>8, <1>9, ServedStep

\* An answer to request m, if its page still waits for it.
LEMMA AnswerIs ==
    ASSUME NEW m \in Requests, NEW res \in {"ok", "rotated", "denied", "mismatch", "error"},
           NEW sets \in BOOLEAN, NEW to \in Cookies, NEW tok \in Tokens
    PROVE  \E a \in Messages :
              /\ a.ph = "rsp" /\ a.k = m.k /\ a.t = m.t /\ a.res = res
              /\ a.sets = sets /\ a.to = to /\ a.tok = tok
              /\ \A x \in Answer(m, res, sets, to, tok) : x = a /\ m.live
  <1>1. PICK a : a = Response(m.k, m.t, res, sets, to, tok)
     OBVIOUS
  <1>2. m.k \in Kinds /\ m.t \in Tabs
     BY DEF Requests
  <1>3. /\ a \in Messages /\ a.ph = "rsp" /\ a.k = m.k /\ a.t = m.t /\ a.res = res
        /\ a.sets = sets /\ a.to = to /\ a.tok = tok
     BY <1>1, <1>2, ResponseFacts
  <1>4. \A x \in Answer(m, res, sets, to, tok) : x = a /\ m.live
     BY <1>1 DEF Answer
  <1>. QED  BY <1>3, <1>4

\* The server answers m and the rows are as they were, or one is revoked.
LEMMA SimpleAnswer ==
    ASSUME IInv, NEW m \in net, m.ph = "req",
           NEW res \in {"ok", "rotated", "denied", "mismatch"},
           NEW sets \in BOOLEAN, NEW to \in Cookies, NEW tok \in Tokens,
           net' = (net \ {m}) \cup Answer(m, res, sets, to, tok),
           UNCHANGED <<jar, tab, ref, lockq, api, logout, chan, env, left, newest>>,
           \/ srv' = srv
           \/ \E s \in Sids : \E w \in Ended \cup {"refresh_reuse"} : srv' = Revoked(s, w)
           \/ \E s \in Sids : \E b \in BOOLEAN : srv' = [srv EXCEPT ![s].behind = b],
           sets => m.k # "api" /\ res \in {"ok", "denied"},
           m.k = "refresh" /\ res = "ok" =>
              sets /\ tok.sid \in Sids /\ srv[tok.sid].st = "active" /\ tok.fresh /\ tok.current,
           Keeping /\ Keeping' =>
              /\ \A r \in Sids : srv'[r].st = srv[r].st
              /\ m.live /\ m.k = "refresh" =>
                    /\ sets => to = Fresh(newest.sid) /\ jar.age = 1
                    /\ res = "ok" => tok.sid = newest.sid
              /\ m.k = "logout" => ~sets
    PROVE  IInv'
  <1>1. TypeOK /\ net \subseteq Messages /\ m \in Requests /\ SessionsOK /\ SameEnv
     BY Facts, MessageFacts DEF IInv, SameEnv
  <1>2. PICK a \in Messages :
              /\ a.ph = "rsp" /\ a.k = m.k /\ a.t = m.t /\ a.res = res
              /\ a.sets = sets /\ a.to = to /\ a.tok = tok
              /\ \A x \in Answer(m, res, sets, to, tok) : x = a /\ m.live
    <2>1. res \in {"ok", "rotated", "denied", "mismatch", "error"}
       OBVIOUS
    <2>. QED  BY <1>1, <2>1, AnswerIs
  <1>3. \A x \in net' : x \in net \ {m} \/ (x = a /\ m.live)
     BY <1>2
  <1>4. /\ srv' \in [Sids -> Rows] /\ SessionsOK'
        /\ \A r \in Sids : srv'[r].why \notin Ended => srv[r].why \notin Ended
    <2>1. CASE srv' = srv
       BY <1>1, <2>1, SessionsKept DEF TypeOK
    <2>2. CASE \E s \in Sids : \E w \in Ended \cup {"refresh_reuse"} : srv' = Revoked(s, w)
      <3>1. PICK s \in Sids, w \in Ended \cup {"refresh_reuse"} : srv' = Revoked(s, w)
         BY <2>2
      <3>. QED  BY <1>1, <3>1, RevokedFacts
    <2>3. CASE \E s \in Sids : \E b \in BOOLEAN : srv' = [srv EXCEPT ![s].behind = b]
      <3>1. PICK s \in Sids, b \in BOOLEAN : srv' = [srv EXCEPT ![s].behind = b]
         BY <2>3
      <3>. QED  BY <1>1, <3>1, BehindFacts
    <2>. QED  BY <2>1, <2>2, <2>3
  <1>5. TypeOK'
    <2>1. net' \subseteq Requests \cup Responses
       BY <1>1, <1>2, <1>3 DEF Messages
    <2>. QED  BY <1>1, <1>4, <2>1 DEF TypeOK
  <1>6. ResponseOK(a)
     BY <1>2 DEF ResponseOK
  <1>7. Timely(a)
    <2>1. SUFFICES ASSUME m.k = "refresh", res = "ok"
                   PROVE  a.tok.sid \notin left[m.t] /\ a.tok.current
       BY <1>2 DEF Timely
    <2>2. m.t \in Tabs
       BY <1>1, MessageFacts
    <2>. QED  BY <1>1, <1>2, <2>1, <2>2 DEF SessionsOK
  <1>8. Kept'
    <2>1. ASSUME Keeping'
          PROVE  Keeping /\ Usable'
      <3>1. Keeping /\ newest.sid \in Sids
         BY <1>1, <1>4, <2>1, KeepingBefore
      <3>2. srv'[newest.sid].st = srv[newest.sid].st /\ Usable
         BY <2>1, <3>1 DEF IInv, Kept
      <3>. QED  BY <3>1, <3>2 DEF Usable
    <2>2. ASSUME NEW x \in net'
          PROVE  x \in net \/ (x.ph = "rsp" /\ (Keeping' => ResponseKeeps(x, newest.sid)))
      <3>1. CASE x \in net \ {m}
         BY <3>1
      <3>2. CASE x = a /\ m.live
         BY <1>2, <2>1, <3>2 DEF ResponseKeeps
      <3>. QED  BY <1>3, <3>1, <3>2
    <2>. QED  BY <2>1, <2>2, ServedKept
  <1>. QED  BY <1>1, <1>2, <1>3, <1>4, <1>5, <1>6, <1>7, <1>8, ServedStep

\* What a kept session says of a request to refresh it.
LEMMA RefreshKeeps ==
    ASSUME IInv, Keeping, NEW m \in net, m.ph = "req", m.k = "refresh"
    PROVE  /\ newest.sid \in Sids /\ m.cookie.sid = newest.sid /\ m.cookie # NoCookie
           /\ jar.age <= m.cookie.age /\ (m.live => m.cookie = jar)
           /\ srv[newest.sid].st = "active" /\ srv[newest.sid].grace
           /\ jar.sid = newest.sid /\ jar.age <= 1 /\ ~env.lookup
  <1>1. Usable /\ RequestKeeps(m, newest.sid)
     BY DEF IInv, Kept
  <1>2. newest.sid \in Sids /\ ~env.lookup /\ ~env.grace
     BY Facts DEF Keeping, Wanted, Sheltered
  <1>3. srv[newest.sid].grace
     BY <1>2 DEF IInv, SessionsOK
  <1>4. m.cookie # NoCookie
     BY <1>1, <1>2, NoneFacts, NoSidAssumption DEF RequestKeeps
  <1>. QED  BY <1>1, <1>2, <1>3, <1>4 DEF RequestKeeps, Usable

\* The stored secret rotates: every copy of the session's cookie ages.
LEMMA RotateStep ==
    ASSUME IInv, NEW m \in net, m.ph = "req", m.k = "refresh", NEW s \in Sids,
           m.cookie.sid = s, srv[s].st = "active", m.cookie.age = 0,
           srv' = [srv EXCEPT ![s].grace = TRUE], jar' = Aged(jar, s),
           net' = AgedNet(net \ {m}, s) \cup Answer(m, "ok", TRUE, Fresh(s), Bundle(s)),
           UNCHANGED <<tab, ref, lockq, api, logout, chan, env, left, newest>>
    PROVE  IInv'
  <1>1. /\ TypeOK /\ net \subseteq Messages /\ m \in Requests /\ SessionsOK /\ ResponsesOK
        /\ srv \in [Sids -> Rows] /\ jar \in Cookies /\ m.cookie \in Cookies /\ m.t \in Tabs
        /\ SameEnv /\ LockHeld /\ SignedOutForGood
     BY Facts, MessageFacts DEF IInv, SameEnv
  <1>2. PICK a \in Messages :
              /\ a.ph = "rsp" /\ a.k = "refresh" /\ a.t = m.t /\ a.res = "ok"
              /\ a.sets = TRUE /\ a.to = Fresh(s) /\ a.tok = Bundle(s)
              /\ \A x \in Answer(m, "ok", TRUE, Fresh(s), Bundle(s)) : x = a /\ m.live
    <2>1. PICK b \in BOOLEAN : b = TRUE
       OBVIOUS
    <2>2. PICK to \in Cookies, tok \in Tokens : to = Fresh(s) /\ tok = Bundle(s)
       BY BundleFacts
    <2>3. PICK a \in Messages :
              /\ a.ph = "rsp" /\ a.k = m.k /\ a.t = m.t /\ a.res = "ok"
              /\ a.sets = b /\ a.to = to /\ a.tok = tok
              /\ \A x \in Answer(m, "ok", b, to, tok) : x = a /\ m.live
       BY <1>1, AnswerIs
    <2>. QED  BY <2>1, <2>2, <2>3
  <1>3. ASSUME NEW x \in net'
        PROVE  \/ x = a /\ m.live
               \/ \E y \in net \ {m} : x = AgedMsg(y, s)
     BY <1>2 DEF AgedNet, AgedMsg
  <1>4. /\ srv' \in [Sids -> Rows]
        /\ \A r \in Sids : srv'[r].st = srv[r].st /\ srv'[r].why = srv[r].why
        /\ \A r \in Sids : srv[r].grace => srv'[r].grace
    <2>1. PICK b \in BOOLEAN : b = TRUE
       OBVIOUS
    <2>2. PICK row : row = [srv[s] EXCEPT !.grace = b]
       OBVIOUS
    <2>3. row \in Rows /\ row.st = srv[s].st /\ row.why = srv[s].why /\ row.grace = b
       BY <1>1, <2>2 DEF Rows
    <2>4. srv' = [srv EXCEPT ![s] = row]
       BY <2>1, <2>2
    <2>5. srv'[s] = row /\ \A r \in Sids \ {s} : srv'[r] = srv[r]
       BY <1>1, <2>4
    <2>6. srv' \in [Sids -> Rows]
       BY <1>1, <2>3, <2>4
    <2>. QED  BY <2>1, <2>3, <2>5, <2>6
  <1>5. SessionsOK'
     BY <1>1, <1>4 DEF SessionsOK
  <1>6. TypeOK'
    <2>1. net' \subseteq Requests \cup Responses
      <3>1. \A y \in net : AgedMsg(y, s) \in Messages
         BY <1>1, AgedMsgFacts
      <3>2. ASSUME NEW x \in net' PROVE x \in Messages
         BY <1>2, <1>3, <3>1
      <3>3. Messages = Requests \cup Responses
         BY DEF Messages
      <3>. QED  BY <3>2, <3>3
    <2>2. jar' \in Cookies
       BY <1>1, AgedFacts
    <2>. QED  BY <1>1, <1>4, <2>1, <2>2 DEF TypeOK
  <1>7. OneRefresh'
    <2>1. PICK f : f = [y \in net |-> AgedMsg(y, s)]
       OBVIOUS
    <2>2. \A y \in net : f[y] = AgedMsg(y, s)
       BY <2>1
    <2>3. \A u \in Tabs : Refreshing(a, u) => m.k = "refresh" /\ m.t = u
       BY <1>2 DEF Refreshing
    <2>4. ASSUME NEW y \in net, NEW u \in Tabs, Refreshing(AgedMsg(y, s), u)
          PROVE  Refreshing(y, u)
       BY <1>1, <2>4, AgedMsgFacts, MessageFacts DEF Refreshing
    <2>5. ASSUME NEW x \in net' PROVE Served(x, m, a, f)
      <3>1. CASE x = a /\ m.live
         BY <3>1 DEF Served
      <3>2. CASE \E y \in net \ {m} : x = AgedMsg(y, s)
        <4>1. PICK y \in net \ {m} : x = AgedMsg(y, s)
           BY <3>2
        <4>2. x = f[y] /\ \A u \in Tabs : Refreshing(x, u) => Refreshing(y, u)
           BY <2>2, <2>4, <4>1
        <4>. QED  BY <4>2 DEF Served
      <3>. QED  BY <1>3, <3>1, <3>2
    <2>. QED  BY <2>3, <2>5, OneAnswer
  <1>8. LockHeld' /\ SignedOutForGood'
     BY <1>1 DEF LockHeld, SignedOutForGood
  <1>9. ResponsesOK'
    <2>1. ASSUME NEW x \in net', x.ph = "rsp"
          PROVE  ResponseOK(x) /\ Timely(x)
      <3>1. CASE x = a
        <4>1. Bundle(s).sid = s /\ Bundle(s).fresh /\ Bundle(s).current
           BY BundleFacts
        <4>2. s \notin left[m.t]
           BY <1>1 DEF SessionsOK
        <4>. QED  BY <1>2, <3>1, <4>1, <4>2 DEF ResponseOK, Timely
      <3>2. CASE \E y \in net \ {m} : x = AgedMsg(y, s)
        <4>1. PICK y \in net : x = AgedMsg(y, s)
           BY <3>2
        <4>2. /\ y.ph = "rsp" /\ x.k = y.k /\ x.t = y.t /\ x.res = y.res
              /\ x.sets = y.sets /\ x.tok = y.tok
           BY <1>1, <2>1, <4>1, AgedMsgFacts, MessageFacts
        <4>3. ResponseOK(y) /\ Timely(y)
           BY <1>1, <4>2 DEF ResponsesOK
        <4>. QED  BY <4>2, <4>3 DEF ResponseOK, Timely
      <3>. QED  BY <1>3, <3>1, <3>2
    <2>2. \A x : Timely(x) => Timely(x)'
       BY DEF Timely
    <2>. QED  BY <2>1, <2>2 DEF ResponsesOK, ResponseOK
  <1>10. Kept'
    <2>. SUFFICES ASSUME Keeping'
                  PROVE  /\ Usable'
                         /\ \A x \in net' : IF x.ph = "req" THEN RequestKeeps(x, newest.sid)'
                                            ELSE ResponseKeeps(x, newest.sid)'
       BY DEF Kept
    <2>1. Keeping
       BY <1>1, <1>4, KeepingBefore
    <2>2. /\ newest.sid = s /\ jar.age <= 0 /\ jar.sid = s /\ jar.age \in 0 .. 2
       BY <1>1, <2>1, RefreshKeeps, CookieFacts
    <2>3. jar.age = 0
       BY <2>2
    <2>4. jar'.sid = s /\ jar'.age = 1
       BY <1>1, <2>2, <2>3, AgedFacts
    <2>5. Usable'
       BY <1>4, <2>2, <2>4 DEF Usable
    <2>6. \A y \in net : IF y.ph = "req" THEN RequestKeeps(y, s) ELSE ResponseKeeps(y, s)
       BY <2>1, <2>2 DEF IInv, Kept
    <2>7. ASSUME NEW x \in net'
          PROVE  IF x.ph = "req" THEN RequestKeeps(x, newest.sid)'
                 ELSE ResponseKeeps(x, newest.sid)'
      <3>1. CASE x = a
         BY <1>2, <2>2, <2>4, <3>1, BundleFacts DEF ResponseKeeps
      <3>2. CASE \E y \in net \ {m} : x = AgedMsg(y, s)
        <4>1. PICK y \in net : x = AgedMsg(y, s)
           BY <3>2
        <4>2. CASE y.ph = "req"
          <5>1. /\ x.ph = "req" /\ x.k = y.k /\ x.live = y.live /\ x.tok = y.tok
                /\ x.cookie = Aged(y.cookie, s) /\ y.cookie \in Cookies
             BY <1>1, <4>1, <4>2, AgedMsgFacts, MessageFacts
          <5>2. RequestKeeps(y, s)
             BY <2>6, <4>2
          <5>3. CASE y.k = "refresh"
            <6>1. /\ y.cookie.sid = s /\ (y.live => y.cookie = jar) /\ y.cookie.age \in 0 .. 2
               BY <5>1, <5>2, <5>3, CookieFacts DEF RequestKeeps
            <6>2. /\ x.cookie.sid = s
                  /\ x.cookie.age = IF y.cookie.age < 2 THEN y.cookie.age + 1 ELSE 2
               BY <5>1, <6>1, AgedFacts
            <6>3. 1 <= x.cookie.age
               BY <6>1, <6>2
            <6>4. x.live => x.cookie = jar'
               BY <5>1, <6>1
            <6>. QED  BY <2>2, <2>4, <5>1, <5>3, <6>2, <6>3, <6>4 DEF RequestKeeps
          <5>4. CASE y.k # "refresh"
             BY <2>2, <5>1, <5>2, <5>4 DEF RequestKeeps
          <5>. QED  BY <5>3, <5>4
        <4>3. CASE y.ph = "rsp"
          <5>1. /\ x.ph = "rsp" /\ x.k = y.k /\ x.res = y.res /\ x.sets = y.sets
                /\ x.tok = y.tok
             BY <1>1, <4>1, <4>3, AgedMsgFacts
          <5>2. ResponseKeeps(y, s)
             BY <2>6, <4>3
          <5>. QED  BY <2>2, <2>3, <5>1, <5>2 DEF ResponseKeeps
        <4>. QED  BY <1>1, <4>2, <4>3, MessageFacts
      <3>. QED  BY <1>3, <3>1, <3>2
    <2>. QED  BY <2>5, <2>7
  <1>. QED  BY <1>5, <1>6, <1>7, <1>8, <1>9, <1>10 DEF IInv

\* The server answers a refresh.
LEMMA ServeRefreshStep ==
    ASSUME IInv, NEW m \in net, ServeRefresh(m)
    PROVE  IInv'
  <1>1. /\ m.ph = "req" /\ m.k = "refresh" /\ m.cookie \in Cookies /\ m.live \in BOOLEAN
        /\ UNCHANGED <<tab, ref, lockq, api, logout, chan, env, left, newest>>
     BY Facts, MessageFacts DEF ServeRefresh
  <1>2. NoCookie \in Cookies /\ NoToken \in Tokens /\ NoCookie.sid = NoSid
     BY NoneFacts
  <1>3. PICK yes \in BOOLEAN, no \in BOOLEAN : yes = TRUE /\ no = FALSE
     OBVIOUS
  <1>4. m.cookie # NoCookie => m.cookie.sid \in Sids
     BY <1>1, CookieFacts
  <1>5. Keeping => /\ newest.sid \in Sids /\ m.cookie.sid = newest.sid /\ m.cookie # NoCookie
                   /\ m.live => m.cookie = jar
                   /\ srv[newest.sid].st = "active" /\ srv[newest.sid].grace
                   /\ jar.age <= 1 /\ ~env.lookup
     BY <1>1, RefreshKeeps
  <1>6. CASE /\ m.cookie = NoCookie
             /\ net' = (net \ {m}) \cup Deny(m)
             /\ UNCHANGED <<jar, srv>>
    <2>1. net' = (net \ {m}) \cup Answer(m, "denied", yes, NoCookie, NoToken)
       BY <1>3, <1>6 DEF Deny
    <2>. QED  BY <1>1, <1>2, <1>3, <1>5, <1>6, <2>1, SimpleAnswer
  <1>7. CASE /\ net' = (net \ {m}) \cup Answer(m, "mismatch", FALSE, NoCookie, NoToken)
             /\ UNCHANGED <<jar, srv>>
    <2>1. net' = (net \ {m}) \cup Answer(m, "mismatch", no, NoCookie, NoToken)
       BY <1>3, <1>7
    <2>. QED  BY <1>1, <1>2, <1>3, <1>7, <2>1, SimpleAnswer
  <1>8. CASE /\ env.lookup \/ srv[m.cookie.sid].st # "active" \/ m.cookie.age = 2
             /\ net' = (net \ {m}) \cup Deny(m)
             /\ UNCHANGED <<jar, srv>>
    <2>1. net' = (net \ {m}) \cup Answer(m, "denied", yes, NoCookie, NoToken)
       BY <1>3, <1>8 DEF Deny
    <2>2. ~(Keeping /\ m.live)
       BY <1>5, <1>8
    <2>. QED  BY <1>1, <1>2, <1>3, <1>8, <2>1, <2>2, SimpleAnswer
  <1>9. CASE /\ m.cookie # NoCookie /\ srv[m.cookie.sid].st = "active" /\ m.cookie.age = 0
             /\ srv' = [srv EXCEPT ![m.cookie.sid].grace = TRUE]
             /\ jar' = Aged(jar, m.cookie.sid)
             /\ net' = AgedNet(net \ {m}, m.cookie.sid)
                         \cup Answer(m, "ok", TRUE, Fresh(m.cookie.sid), Bundle(m.cookie.sid))
    <2>1. PICK s \in Sids : s = m.cookie.sid
       BY <1>4, <1>9
    <2>2. /\ m.cookie.sid = s /\ srv[s].st = "active" /\ m.cookie.age = 0
          /\ srv' = [srv EXCEPT ![s].grace = TRUE] /\ jar' = Aged(jar, s)
          /\ net' = AgedNet(net \ {m}, s) \cup Answer(m, "ok", TRUE, Fresh(s), Bundle(s))
       BY <1>9, <2>1
    <2>. QED  BY <1>1, <2>2, RotateStep
  <1>10. CASE /\ m.cookie # NoCookie /\ srv[m.cookie.sid].st = "active" /\ Recovered(m.cookie)
              /\ net' = (net \ {m})
                          \cup Answer(m, "ok", TRUE, Fresh(m.cookie.sid), Bundle(m.cookie.sid))
              /\ UNCHANGED <<jar, srv>>
    <2>1. PICK s \in Sids : s = m.cookie.sid
       BY <1>4, <1>10
    <2>2. PICK to \in Cookies, tok \in Tokens : to = Fresh(s) /\ tok = Bundle(s)
       BY BundleFacts
    <2>3. tok.sid = s /\ tok.fresh /\ tok.current
       BY <2>2, BundleFacts
    <2>4. net' = (net \ {m}) \cup Answer(m, "ok", yes, to, tok)
       BY <1>3, <1>10, <2>1, <2>2
    <2>5. m.cookie.age = 1
       BY <1>10 DEF Recovered
    <2>6. Keeping => newest.sid = s /\ to = Fresh(newest.sid) /\ (m.live => jar.age = 1)
       BY <1>5, <2>1, <2>2, <2>5
    <2>7. yes /\ tok.sid \in Sids /\ srv[tok.sid].st = "active" /\ tok.fresh /\ tok.current
       BY <1>3, <1>10, <2>1, <2>3
    <2>8. Keeping /\ Keeping' =>
              /\ srv' = srv
              /\ m.live /\ m.k = "refresh" =>
                    /\ yes => to = Fresh(newest.sid) /\ jar.age = 1
                    /\ "ok" = "ok" => tok.sid = newest.sid
              /\ m.k = "logout" => ~yes
       BY <1>1, <1>10, <2>3, <2>6
    <2>9. m.k # "api" /\ srv' = srv /\ jar' = jar
       BY <1>1, <1>10
    <2>. QED  BY <1>1, <2>4, <2>7, <2>8, <2>9, SimpleAnswer
  <1>12. CASE /\ m.cookie # NoCookie /\ srv[m.cookie.sid].st = "active"
              /\ srv' = Revoked(m.cookie.sid, "user_security_changed")
              /\ net' = (net \ {m}) \cup Deny(m)
              /\ UNCHANGED jar
    <2>1. net' = (net \ {m}) \cup Answer(m, "denied", yes, NoCookie, NoToken)
       BY <1>3, <1>12 DEF Deny
    <2>2. ~(Keeping /\ Keeping')
      <3>1. SUFFICES ASSUME Keeping PROVE ~Keeping'
         OBVIOUS
      <3>2. PICK s \in Sids : /\ s = newest.sid /\ srv[s].st = "active"
                              /\ srv' = Revoked(s, "user_security_changed")
         BY <1>5, <1>12, <3>1
      <3>3. srv'[s].why = "user_security_changed"
         BY <3>2, RevokedFacts DEF Ended
      <3>. QED  BY <1>1, <3>2, <3>3 DEF Keeping
    <2>3. \E s \in Sids : \E w \in Ended \cup {"refresh_reuse"} : srv' = Revoked(s, w)
       BY <1>4, <1>12 DEF Ended
    <2>. QED  BY <1>1, <1>2, <1>3, <1>12, <2>1, <2>2, <2>3, SimpleAnswer
  <1>11. CASE /\ m.cookie # NoCookie /\ m.cookie.age = 1 /\ ~Recovered(m.cookie)
              /\ srv' = Revoked(m.cookie.sid, "refresh_reuse")
              /\ net' = (net \ {m}) \cup Deny(m)
              /\ UNCHANGED jar
    <2>1. net' = (net \ {m}) \cup Answer(m, "denied", yes, NoCookie, NoToken)
       BY <1>3, <1>11 DEF Deny
    <2>2. ~Keeping
       BY <1>5, <1>11 DEF Recovered
    <2>3. \E s \in Sids : \E w \in Ended \cup {"refresh_reuse"} : srv' = Revoked(s, w)
       BY <1>4, <1>11
    <2>. QED  BY <1>1, <1>2, <1>3, <1>11, <2>1, <2>2, <2>3, SimpleAnswer
  <1>. QED  BY <1>6, <1>7, <1>8, <1>9, <1>10, <1>11, <1>12 DEF ServeRefresh, InForce

\* The server answers a sign-out.
LEMMA ServeLogoutStep ==
    ASSUME IInv, NEW m \in net, ServeLogout(m)
    PROVE  IInv'
  <1>1. /\ m.ph = "req" /\ m.k = "logout" /\ m.cookie \in Cookies /\ m.tok \in Tokens
        /\ UNCHANGED <<jar, tab, ref, lockq, api, logout, chan, env, left, newest>>
     BY Facts, MessageFacts DEF ServeLogout
  <1>2. NoCookie \in Cookies /\ NoToken \in Tokens /\ NoCookie.sid = NoSid
     BY NoneFacts
  <1>3. /\ m.cookie # NoCookie => m.cookie.sid \in Sids
        /\ m.tok.sid # NoSid => m.tok.sid \in Sids
     BY <1>1, CookieFacts, TokenFacts
  <1>4. Keeping => /\ newest.sid \in Sids /\ m.tok.sid = newest.sid /\ m.tok.fresh
                   /\ srv[newest.sid].st = "active"
     BY <1>1, Facts DEF IInv, Kept, Keeping, Wanted, RequestKeeps, Usable
  <1>5. ASSUME NEW sets \in BOOLEAN,
               net' = (net \ {m}) \cup Answer(m, "ok", sets, NoCookie, NoToken),
               \/ srv' = srv
               \/ \E s \in Sids : \E w \in Ended \cup {"refresh_reuse"} : srv' = Revoked(s, w),
               ~(Keeping /\ Keeping')
        PROVE  IInv'
     BY <1>1, <1>2, <1>5, SimpleAnswer
  <1>6. CASE /\ net' = (net \ {m}) \cup Answer(m, "mismatch", FALSE, NoCookie, NoToken)
             /\ UNCHANGED srv
    <2>1. PICK no \in BOOLEAN : no = FALSE
       OBVIOUS
    <2>2. net' = (net \ {m}) \cup Answer(m, "mismatch", no, NoCookie, NoToken)
       BY <1>6, <2>1
    <2>. QED  BY <1>1, <1>2, <1>6, <2>1, <2>2, SimpleAnswer
  <1>7. CASE /\ m.tok.sid # NoSid
             /\ srv' = Revoked(m.tok.sid, "logout")
             /\ net' = (net \ {m}) \cup Answer(m, "ok", m.cookie.sid = m.tok.sid, NoCookie, NoToken)
    <2>1. PICK b \in BOOLEAN : b = (m.cookie.sid = m.tok.sid)
       OBVIOUS
    <2>2. net' = (net \ {m}) \cup Answer(m, "ok", b, NoCookie, NoToken)
       BY <1>7, <2>1
    <2>3. ~(Keeping /\ Keeping')
      <3>1. SUFFICES ASSUME Keeping PROVE ~Keeping'
         OBVIOUS
      <3>2. PICK s \in Sids : s = newest.sid /\ srv[s].st = "active" /\ srv' = Revoked(s, "logout")
         BY <1>4, <1>7, <3>1
      <3>3. srv'[s].why = "logout"
         BY <3>2, RevokedFacts DEF Ended
      <3>. QED  BY <1>1, <3>2, <3>3 DEF Keeping, Wanted
    <2>4. \E s \in Sids : \E w \in Ended \cup {"refresh_reuse"} : srv' = Revoked(s, w)
       BY <1>3, <1>7 DEF Ended
    <2>. QED  BY <1>5, <2>2, <2>3, <2>4
  <1>8. CASE /\ m.tok.sid = NoSid \/ ~m.tok.fresh
             /\ srv' = IF m.cookie # NoCookie /\ Redeemable(m.cookie)
                       THEN Revoked(m.cookie.sid, "logout") ELSE srv
             /\ net' = (net \ {m}) \cup Answer(m, "ok", TRUE, NoCookie, NoToken)
    <2>1. PICK yes \in BOOLEAN : yes = TRUE
       OBVIOUS
    <2>2. net' = (net \ {m}) \cup Answer(m, "ok", yes, NoCookie, NoToken)
       BY <1>8, <2>1
    <2>3. ~Keeping
       BY <1>4, <1>8, NoSidAssumption
    <2>4. \/ srv' = srv
          \/ \E s \in Sids : \E w \in Ended \cup {"refresh_reuse"} : srv' = Revoked(s, w)
       BY <1>3, <1>8 DEF Ended
    <2>. QED  BY <1>5, <2>2, <2>3, <2>4
  <1>. QED  BY <1>6, <1>7, <1>8 DEF ServeLogout

\* The user's auth version advances: every token of the session is outdated, and
\* the request goes on to its second half.
LEMMA OutdateStep ==
    ASSUME IInv, NEW m \in net, m.ph = "req", m.k = "api", NEW s \in Sids,
           srv' = [srv EXCEPT ![s].behind = TRUE],
           net' = {[x EXCEPT !.tok = Outdated(@, s)] :
                     x \in (net \ {m}) \cup {[m EXCEPT !.job = "advance"]}},
           tab' = [t \in Tabs |-> [tab[t] EXCEPT !.tok = Outdated(@, s)]],
           UNCHANGED <<jar, ref, lockq, api, logout, chan, env, left, newest>>
    PROVE  IInv'
  <1>1. /\ TypeOK /\ net \subseteq Messages /\ m \in Requests /\ SessionsOK /\ ResponsesOK
        /\ SameEnv /\ LockHeld /\ SignedOutForGood /\ \A t \in Tabs : tab[t] \in Pages
     BY Facts, MessageFacts DEF IInv, SameEnv
  <1>2. PICK a \in Messages :
              /\ a.ph = "req" /\ a.k = "api"
              /\ a = OutdatedMsg([m EXCEPT !.job = "advance"], s)
    <2>1. PICK m2 : m2 = [m EXCEPT !.job = "advance"]
       OBVIOUS
    <2>2. m2 \in Messages /\ m2.ph = "req" /\ m2.k = "api"
       BY <1>1, <2>1 DEF Requests, Messages, Jobs
    <2>3. /\ OutdatedMsg(m2, s) \in Messages /\ OutdatedMsg(m2, s).ph = "req"
          /\ OutdatedMsg(m2, s).k = "api"
       BY <2>2, OutdatedMsgFacts
    <2>. QED  BY <2>1, <2>3
  <1>3. ASSUME NEW x \in net'
        PROVE  \/ x = a
               \/ \E y \in net \ {m} : x = OutdatedMsg(y, s)
     BY <1>2 DEF OutdatedMsg
  <1>a. /\ srv' \in [Sids -> Rows] /\ SessionsOK'
        /\ \A r \in Sids : srv'[r].st = srv[r].st /\ srv'[r].why = srv[r].why
    <2>1. PICK b \in BOOLEAN : b = TRUE
       OBVIOUS
    <2>2. srv' = [srv EXCEPT ![s].behind = b]
       BY <2>1
    <2>. QED  BY <1>1, <2>2, BehindFacts
  <1>4. ASSUME NEW t \in Tabs
        PROVE  tab'[t] \in Pages /\ tab'[t].tok = Outdated(tab[t].tok, s)
    <2>1. PICK k \in Tokens : k = Outdated(tab[t].tok, s)
       BY <1>1, PageFacts, OutdatedFacts
    <2>2. tab'[t] = [tab[t] EXCEPT !.tok = k]
       BY <2>1
    <2>3. tab[t] \in Pages
       BY <1>1
    <2>4. [tab[t] EXCEPT !.tok = k] \in Pages /\ [tab[t] EXCEPT !.tok = k].tok = k
       BY <2>3 DEF Pages
    <2>. QED  BY <2>1, <2>2, <2>4
  <1>5. TypeOK'
    <2>1. net' \subseteq Requests \cup Responses
      <3>1. \A y \in net : OutdatedMsg(y, s) \in Messages
         BY <1>1, OutdatedMsgFacts
      <3>2. ASSUME NEW x \in net' PROVE x \in Messages
         BY <1>2, <1>3, <3>1
      <3>3. Messages = Requests \cup Responses
         BY DEF Messages
      <3>. QED  BY <3>2, <3>3
    <2>2. tab' \in [Tabs -> Pages]
      <3>1. tab' = [t \in Tabs |-> tab'[t]]
         OBVIOUS
      <3>. QED  BY <1>4, <3>1
    <2>. QED  BY <1>1, <1>a, <2>1, <2>2 DEF TypeOK
  <1>6. OneRefresh'
    <2>1. ASSUME NEW y \in net, NEW u \in Tabs, Refreshing(OutdatedMsg(y, s), u)
          PROVE  Refreshing(y, u)
       BY <1>1, <2>1, OutdatedMsgFacts, MessageFacts DEF Refreshing
    <2>2. ASSUME NEW x \in net', NEW u \in Tabs, Refreshing(x, u)
          PROVE  \E y \in net : x = OutdatedMsg(y, s) /\ Refreshing(y, u)
      <3>1. x # a
         BY <1>2, <2>2 DEF Refreshing
      <3>2. PICK y \in net : x = OutdatedMsg(y, s)
         BY <1>3, <3>1
      <3>. QED  BY <2>1, <2>2, <3>2
    <2>3. OneRefresh
       BY DEF IInv
    <2>4. ASSUME NEW u \in Tabs, NEW x \in net', NEW z \in net',
                 Refreshing(x, u), Refreshing(z, u)
          PROVE  x = z
      <3>1. PICK y \in net : x = OutdatedMsg(y, s) /\ Refreshing(y, u)
         BY <2>2, <2>4
      <3>2. PICK v \in net : z = OutdatedMsg(v, s) /\ Refreshing(v, u)
         BY <2>2, <2>4
      <3>3. y = v
         BY <2>3, <3>1, <3>2 DEF OneRefresh
      <3>. QED  BY <3>1, <3>2, <3>3
    <2>5. ASSUME NEW u \in Tabs, ref'[u].pc # "sent", NEW x \in net', Refreshing(x, u)
          PROVE  FALSE
      <3>1. PICK y \in net : Refreshing(y, u)
         BY <2>2, <2>5
      <3>. QED  BY <2>3, <2>5, <3>1 DEF OneRefresh
    <2>. QED  BY <2>4, <2>5 DEF OneRefresh, Refreshing
  <1>7. LockHeld'
     BY <1>1 DEF LockHeld
  <1>8. SessionsOK'
     BY <1>a
  <1>9. ResponsesOK'
    <2>1. ASSUME NEW x \in net', x.ph = "rsp"
          PROVE  ResponseOK(x) /\ Timely(x)'
      <3>1. CASE x = a
         BY <1>2, <2>1, <3>1
      <3>2. CASE \E y \in net \ {m} : x = OutdatedMsg(y, s)
        <4>1. PICK y \in net : x = OutdatedMsg(y, s)
           BY <3>2
        <4>2. /\ y.ph = "rsp" /\ x.k = y.k /\ x.t = y.t /\ x.res = y.res
              /\ x.sets = y.sets /\ x.tok = Outdated(y.tok, s) /\ y.tok \in Tokens
              /\ y.t \in Tabs
           BY <1>1, <2>1, <4>1, OutdatedMsgFacts, MessageFacts
        <4>3. ResponseOK(y) /\ Timely(y)
           BY <1>1, <4>2 DEF ResponsesOK
        <4>4. /\ x.tok.sid = y.tok.sid /\ x.tok.fresh = y.tok.fresh
              /\ y.tok.sid # s => x.tok = y.tok
          <5>1. PICK k \in Tokens : k = y.tok
             BY <4>2
          <5>2. /\ Outdated(k, s).sid = k.sid /\ Outdated(k, s).fresh = k.fresh
                /\ k.sid # s => Outdated(k, s) = k
             BY OutdatedFacts
          <5>. QED  BY <4>2, <5>1, <5>2
        <4>5. PICK k \in Tokens : k = tab[y.t].tok /\ tab'[y.t].tok = Outdated(k, s)
          <5>1. PICK u \in Tabs : u = y.t
             BY <4>2
          <5>2. tab[u] \in Pages /\ tab'[u].tok = Outdated(tab[u].tok, s)
             BY <1>1, <1>4
          <5>3. tab[u].tok \in Tokens
             BY <5>2, PageFacts
          <5>. QED  BY <5>1, <5>2, <5>3
        <4>6. /\ tab'[y.t].tok.sid = k.sid
              /\ tab'[y.t].tok.current => k.sid # s /\ k.current
          <5>1. /\ Outdated(k, s).sid = k.sid
                /\ k.sid # s => Outdated(k, s) = k
                /\ k.sid = s => Outdated(k, s).current = FALSE
             BY OutdatedFacts
          <5>. QED  BY <4>5, <5>1
        <4>7. ResponseOK(x)
           BY <4>2, <4>3, <4>4 DEF ResponseOK
        <4>8. Timely(x)'
           BY <4>2, <4>3, <4>4, <4>5, <4>6 DEF Timely
        <4>. QED  BY <4>7, <4>8
      <3>. QED  BY <1>3, <3>1, <3>2
    <2>. QED  BY <2>1 DEF ResponsesOK, ResponseOK
  <1>10. SignedOutForGood'
    <2>1. ASSUME NEW t \in Tabs PROVE tab'[t].tok.sid \notin left'[t]
      <3>1. tab'[t].tok.sid = tab[t].tok.sid
        <4>1. PICK k \in Tokens : k = tab[t].tok
           BY <1>1, PageFacts
        <4>2. Outdated(k, s).sid = k.sid
           BY OutdatedFacts
        <4>. QED  BY <1>4, <4>1, <4>2
      <3>. QED  BY <1>1, <3>1 DEF SignedOutForGood
    <2>. QED  BY <2>1 DEF SignedOutForGood
  <1>11. Kept'
    <2>. SUFFICES ASSUME Keeping'
                  PROVE  /\ Usable'
                         /\ \A x \in net' : IF x.ph = "req" THEN RequestKeeps(x, newest.sid)'
                                            ELSE ResponseKeeps(x, newest.sid)'
       BY DEF Kept
    <2>1. Keeping /\ newest.sid \in Sids
       BY <1>1, <1>a, KeepingBefore
    <2>2. /\ Usable
          /\ \A y \in net : IF y.ph = "req" THEN RequestKeeps(y, newest.sid)
                            ELSE ResponseKeeps(y, newest.sid)
       BY <2>1 DEF IInv, Kept
    <2>3. Usable'
       BY <1>a, <2>1, <2>2 DEF Usable
    <2>4. ASSUME NEW x \in net'
          PROVE  IF x.ph = "req" THEN RequestKeeps(x, newest.sid)'
                 ELSE ResponseKeeps(x, newest.sid)'
      <3>1. CASE x = a
         BY <1>2, <3>1 DEF RequestKeeps
      <3>2. CASE \E y \in net \ {m} : x = OutdatedMsg(y, s)
        <4>1. PICK y \in net : x = OutdatedMsg(y, s)
           BY <3>2
        <4>2. /\ y \in Messages /\ x.ph = y.ph /\ x.k = y.k
              /\ x.tok.sid = y.tok.sid /\ x.tok.fresh = y.tok.fresh
          <5>1. y \in Messages /\ y.tok \in Tokens
             BY <1>1, MessageFacts
          <5>2. PICK k \in Tokens : k = y.tok
             BY <5>1
          <5>3. Outdated(k, s).sid = k.sid /\ Outdated(k, s).fresh = k.fresh
             BY OutdatedFacts
          <5>4. x.ph = y.ph /\ x.k = y.k /\ x.tok = Outdated(y.tok, s)
             BY <4>1, <5>1, OutdatedMsgFacts
          <5>. QED  BY <5>1, <5>2, <5>3, <5>4
        <4>3. CASE y.ph = "req"
          <5>1. x.live = y.live /\ x.cookie = y.cookie
             BY <4>1, <4>2, <4>3, OutdatedMsgFacts
          <5>2. RequestKeeps(y, newest.sid)
             BY <2>2, <4>3
          <5>. QED  BY <4>2, <4>3, <5>1, <5>2 DEF RequestKeeps
        <4>4. CASE y.ph = "rsp"
          <5>1. x.sets = y.sets /\ x.res = y.res /\ x.to = y.to
             BY <4>1, <4>2, <4>4, OutdatedMsgFacts
          <5>2. ResponseKeeps(y, newest.sid)
             BY <2>2, <4>4
          <5>. QED  BY <4>2, <4>4, <5>1, <5>2 DEF ResponseKeeps
        <4>. QED  BY <4>2, <4>3, <4>4, MessageFacts
      <3>. QED  BY <1>3, <3>1, <3>2
    <2>. QED  BY <2>3, <2>4
  <1>. QED  BY <1>5, <1>6, <1>7, <1>8, <1>9, <1>10, <1>11 DEF IInv

\* The server answers an API request.
LEMMA ServeApiStep ==
    ASSUME IInv, NEW m \in net, ServeApi(m)
    PROVE  IInv'
  <1>1. /\ m.ph = "req" /\ m.k = "api"
        /\ UNCHANGED <<jar, srv, tab, ref, lockq, api, logout, chan, env, left, newest>>
     BY DEF ServeApi
  <1>2. NoCookie \in Cookies /\ NoToken \in Tokens
     BY NoneFacts
  <1>3. PICK no \in BOOLEAN : no = FALSE
     OBVIOUS
  <1>4. PICK res \in {"ok", "rotated", "denied", "mismatch"} :
           net' = (net \ {m}) \cup Answer(m, res, FALSE, NoCookie, NoToken)
     BY DEF ServeApi
  <1>5. net' = (net \ {m}) \cup Answer(m, res, no, NoCookie, NoToken)
     BY <1>3, <1>4
  <1>. QED  BY <1>1, <1>2, <1>3, <1>5, SimpleAnswer

\* The first half of a password change.
LEMMA ChangePasswordStep ==
    ASSUME IInv, NEW m \in net, ChangePassword(m)
    PROVE  IInv'
  <1>1. m.tok \in Tokens /\ m.ph = "req" /\ m.k = "api" /\ Accepted(m.tok)
     BY Facts, MessageFacts DEF ChangePassword
  <1>2. PICK s \in Sids : s = m.tok.sid
     BY <1>1, TokenFacts DEF Accepted
  <1>3. /\ srv' = [srv EXCEPT ![s].behind = TRUE]
        /\ net' = {[x EXCEPT !.tok = Outdated(@, s)] :
                      x \in (net \ {m}) \cup {[m EXCEPT !.job = "advance"]}}
        /\ tab' = [t \in Tabs |-> [tab[t] EXCEPT !.tok = Outdated(@, s)]]
        /\ UNCHANGED <<jar, ref, lockq, api, logout, chan, env, left, newest>>
     BY <1>2 DEF ChangePassword
  <1>. QED  BY <1>1, <1>3, OutdateStep

\* The second half of a password change.
LEMMA AdvanceSessionStep ==
    ASSUME IInv, NEW m \in net, AdvanceSession(m)
    PROVE  IInv'
  <1>1. /\ m.ph = "req" /\ m.k = "api" /\ m.tok \in Tokens
        /\ UNCHANGED <<jar, tab, ref, lockq, api, logout, chan, env, left, newest>>
     BY Facts, MessageFacts DEF AdvanceSession
  <1>2. NoCookie \in Cookies /\ NoToken \in Tokens
     BY NoneFacts
  <1>3. PICK no \in BOOLEAN : no = FALSE
     OBVIOUS
  <1>4. CASE /\ net' = (net \ {m}) \cup Answer(m, "ok", FALSE, NoCookie, NoToken)
             /\ UNCHANGED srv
    <2>1. net' = (net \ {m}) \cup Answer(m, "ok", no, NoCookie, NoToken)
       BY <1>3, <1>4
    <2>. QED  BY <1>1, <1>2, <1>3, <1>4, <2>1, SimpleAnswer
  <1>5. CASE /\ m.tok.sid # NoSid
             /\ srv' = [srv EXCEPT ![m.tok.sid].behind = FALSE]
             /\ net' = (net \ {m})
                         \cup Answer(m, "rotated", FALSE, NoCookie, Bundle(m.tok.sid))
    <2>1. CASE m.tok.sid \in Sids
      <3>1. PICK s \in Sids : s = m.tok.sid
         BY <2>1
      <3>2. PICK tok \in Tokens : tok = Bundle(s)
         BY BundleFacts
      <3>3. net' = (net \ {m}) \cup Answer(m, "rotated", no, NoCookie, tok)
         BY <1>3, <1>5, <3>1, <3>2
      <3>4. srv' = [srv EXCEPT ![s].behind = no]
         BY <1>3, <1>5, <3>1
      <3>5. \A r \in Sids : srv'[r].st = srv[r].st
         BY <3>4, BehindFacts
      <3>. QED  BY <1>1, <1>2, <1>3, <3>3, <3>4, <3>5, SimpleAnswer
    <2>2. m.tok.sid \in Sids
       BY <1>1, <1>5, TokenFacts
    <2>. QED  BY <2>1, <2>2
  <1>. QED  BY <1>4, <1>5 DEF AdvanceSession

-----------------------------------------------------------------------------
(* The invariant, and what follows from it.                                *)

\* The dashboard is opened.
LEMMA InitIInv == Init => IInv
  <1>. SUFFICES ASSUME Init PROVE IInv
     OBVIOUS
  <1>1. /\ env \in EnvironmentType /\ jar = NoCookie /\ lockq = <<>> /\ net = {}
        /\ srv = [s \in Sids |-> Row0] /\ tab = [t \in Tabs |-> Page("app")]
        /\ ref = [t \in Tabs |-> NoRefresh] /\ api = [t \in Tabs |-> NoApi]
        /\ logout = [t \in Tabs |-> "none"] /\ chan = [t \in Tabs |-> <<>>]
        /\ left = [t \in Tabs |-> {}] /\ newest = [sid |-> NoSid, quiet |-> TRUE]
     BY EnvironmentsAssumption DEF Init
  <1>2. Page("app") \in Pages /\ Page("app").tok = NoToken
     BY LoadedFacts
  <1>3. /\ NoRefresh \in Refreshes /\ NoRefresh.pc = "none" /\ NoApi \in Apis
     BY DEF NoRefresh, Refreshes, NoApi, Apis
  <1>4. Row0 \in Rows /\ Row0.why = "none" /\ Row0.grace
     BY DEF Row0, Rows
  <1>5. newest \in [sid : Sids \cup {NoSid}, quiet : BOOLEAN] /\ newest.sid = NoSid
     BY <1>1
  <1>6. TypeOK
    <2>1. jar \in Cookies /\ lockq \in Seq(Tabs) /\ net \subseteq Requests \cup Responses
       BY <1>1, NoneFacts
    <2>2. srv \in [Sids -> Rows] /\ tab \in [Tabs -> Pages] /\ ref \in [Tabs -> Refreshes]
       BY <1>1, <1>2, <1>3, <1>4
    <2>3. /\ api \in [Tabs -> Apis] /\ left \in [Tabs -> SUBSET Sids]
          /\ logout \in [Tabs -> {"none", "sent", "refreshing", "resent"}]
       BY <1>1, <1>3
    <2>4. chan \in [Tabs -> Seq(Events)]
      <3>1. <<>> \in Seq(Events)
         OBVIOUS
      <3>. QED  BY <1>1, <3>1
    <2>. QED  BY <1>1, <1>5, <2>1, <2>2, <2>3, <2>4 DEF TypeOK
  <1>7. OneRefresh /\ ResponsesOK
     BY <1>1 DEF OneRefresh, ResponsesOK
  <1>8. LockHeld
     BY <1>1, <1>3 DEF LockHeld
  <1>9. SessionsOK /\ SignedOutForGood
     BY <1>1, <1>4 DEF SessionsOK, SignedOutForGood
  <1>10. Kept
     BY <1>5 DEF Kept, Keeping, Wanted
  <1>. QED  BY <1>6, <1>7, <1>8, <1>9, <1>10 DEF IInv

\* Every step keeps the invariant.
LEMMA NextIInv == IInv /\ [Next]_vars => IInv'
  <1>. SUFFICES ASSUME IInv, [Next]_vars PROVE IInv'
     OBVIOUS
  <1>1. CASE UNCHANGED vars
     BY <1>1 DEF vars, IInv, TypeOK, OneRefresh, Refreshing, LockHeld, SessionsOK, ResponsesOK,
                 ResponseOK, Timely, SignedOutForGood, Kept, Keeping, Sheltered, Wanted, Usable,
                 RequestKeeps, ResponseKeeps
  <1>2. CASE Server
    <2>1. PICK m \in net : \/ ServeRefresh(m) \/ ServeApi(m) \/ ServeLogout(m)
                           \/ ChangePassword(m) \/ AdvanceSession(m)
       BY <1>2 DEF Server
    <2>. QED  BY <2>1, ServeRefreshStep, ServeApiStep, ServeLogoutStep,
                 ChangePasswordStep, AdvanceSessionStep
  <1>3. CASE \E s \in Sids : RevokeElsewhere(s) \/ GraceElapses(s)
     BY <1>3, RowStep
  <1>4. ASSUME NEW t \in Tabs, Deliver(t)
        PROVE  IInv'
    <2>1. PICK m \in net : RefreshResponse(t, m) \/ ApiResponse(t, m) \/ LogoutResponse(t, m)
       BY <1>4 DEF Deliver
    <2>. QED  BY <2>1, RefreshResponseStep, ApiResponseStep, LogoutResponseStep
  <1>5. ASSUME NEW t \in Tabs,
               \/ GrantLock(t) \/ SyncEvent(t) \/ RedirectToSignIn(t)
               \/ \E r \in BOOLEAN : ApiStart(t, r)
               \/ Bootstrap(t) \/ TokenAges(t) \/ LogoutStart(t) \/ Reload(t)
               \/ \E s \in Sids : Login(t, s)
               \/ EventExpires(t)
        PROVE  IInv'
    <2>1. CASE GrantLock(t)
       BY <2>1, GrantStep
    <2>2. CASE SyncEvent(t)
       BY <2>2, SyncStep
    <2>3. CASE RedirectToSignIn(t) \/ Reload(t)
       BY <2>3, ReloadStep
    <2>4. CASE \E r \in BOOLEAN : ApiStart(t, r)
       BY <2>4, ApiStartStep
    <2>5. CASE Bootstrap(t)
       BY <2>5, BootstrapStep
    <2>6. CASE TokenAges(t)
       BY <2>6, TokenAgesStep
    <2>7. CASE LogoutStart(t)
       BY <2>7, LogoutStartStep
    <2>8. CASE \E s \in Sids : Login(t, s)
       BY <2>8, LoginStep
    <2>9. CASE EventExpires(t)
       BY <2>9, EventExpiresStep
    <2>. QED  BY <1>5, <2>1, <2>2, <2>3, <2>4, <2>5, <2>6, <2>7, <2>8, <2>9
  <1>6. CASE \E m \in net : NetworkError(m)
     BY <1>6, NetworkErrorStep
  <1>. QED  BY <1>1, <1>2, <1>3, <1>4, <1>5, <1>6 DEF Next

\* The invariant holds in every state the browser and the server can reach.
THEOREM InductiveInvariant == Spec => []IInv
  BY InitIInv, NextIInv, PTL DEF Spec

\* Every variable keeps its type: messages, cookies, tokens and pages are what
\* auth-session.ts and the session service make of them.
THEOREM TypeCorrect == Spec => []TypeOK
  <1>1. IInv => TypeOK
     BY DEF IInv
  <1>. QED  BY <1>1, InductiveInvariant, PTL

\* Refreshing never signs the user out, for any number of tabs, sessions, lost
\* messages and reloads: under the Web Lock and within the replay window of
\* RotateUserSessionRefresh, the browser keeps a cookie the server accepts,
\* unless a refresh meets a password change between its two transactions.
THEOREM SessionIsKept == Spec => []SessionKept
  <1>1. IInv => SessionKept
     BY DEF IInv, Kept, Keeping, SessionKept, Overtaken
  <1>. QED  BY <1>1, InductiveInvariant, PTL

\* A sign-out is final: no late response brings back a session that was revoked
\* when the tab left it (runtime.isCurrent in refreshAuthentication).
THEOREM SignOutIsFinal == Spec => []SignedOutForGood
  <1>1. IInv => SignedOutForGood
     BY DEF IInv
  <1>. QED  BY <1>1, InductiveInvariant, PTL

\* The token of tab t is as current as it was, if it is of the same session.
KeepsToken(t) ==
    tab'[t].tok.sid = tab[t].tok.sid /\ tab[t].tok.current => tab'[t].tok.current

\* A step of tab u that leaves the token alone, drops it or replaces it by one
\* as current.
LEMMA TokenKept ==
    ASSUME IInv, NEW t \in Tabs, NEW u \in Tabs, \A v \in Tabs \ {u} : tab'[v] = tab[v],
           tab'[u].tok = tab[u].tok \/ tab'[u].tok = NoToken \/ KeepsToken(u)
    PROVE  KeepsToken(t)
  <1>1. CASE t # u
     BY <1>1 DEF KeepsToken
  <1>2. CASE t = u /\ tab'[u].tok = NoToken
    <2>1. tab[t].tok \in Tokens
       BY Facts
    <2>2. tab[t].tok.sid = NoSid => ~tab[t].tok.current
       BY <2>1, TokenFacts, NoneFacts
    <2>. QED  BY <1>2, <2>2, NoneFacts DEF KeepsToken
  <1>3. CASE t = u /\ (tab'[u].tok = tab[u].tok \/ KeepsToken(u))
     BY <1>3 DEF KeepsToken
  <1>. QED  BY <1>1, <1>2, <1>3

\* The answer of a refresh that is still current brings no older token.
LEMMA RefreshKeepsToken ==
    ASSUME IInv, NEW t \in Tabs, NEW u \in Tabs, NEW m \in net, RefreshResponse(u, m)
    PROVE  KeepsToken(t)
  <1>1. /\ tab \in [Tabs -> Pages] /\ tab[u] \in Pages /\ net \subseteq Messages /\ jar \in Cookies
     BY Facts
  <1>2. /\ m.ph = "rsp" /\ m.k = "refresh" /\ m.t = u /\ Received(m)
        /\ m.tok \in Tokens /\ m.to \in Cookies /\ Timely(m)
     BY <1>1, MessageFacts DEF RefreshResponse, IInv, ResponsesOK
  <1>3. jar' \in Cookies
     BY <1>1, <1>2 DEF Received
  <1>4. PICK n \in SUBSET net : n = net \ {m}
     OBVIOUS
  <1>5. ASSUME NEW o, NEW p \in Pages, NEW c, Resolve(u, o, p, n, c),
               \/ p.tok = tab[u].tok \/ p.tok = NoToken
               \/ p.tok.sid = tab[u].tok.sid /\ tab[u].tok.current => p.tok.current
        PROVE  KeepsToken(t)
    <2>1. Resolved(u, o, p, n, c)
       BY <1>3, <1>5, ResolveFacts
    <2>2. tab'[u].tok = p.tok /\ \A v \in Tabs \ {u} : tab'[v] = tab[v]
       BY <2>1 DEF Resolved
    <2>3. tab'[u].tok = tab[u].tok \/ tab'[u].tok = NoToken \/ KeepsToken(u)
       BY <1>5, <2>2 DEF KeepsToken
    <2>. QED  BY <2>2, <2>3, TokenKept
  <1>6. CASE Resolve(u, "transient_error", tab[u], n, chan)
     BY <1>1, <1>5, <1>6
  <1>7. CASE /\ StillCurrent(u) /\ m.res = "ok"
             /\ Resolve(u, "authenticated", setBundle(tab[u], m.tok), n, chan)
    <2>1. \A k \in Tokens : setBundle(tab[u], k) \in Pages /\ setBundle(tab[u], k).tok = k
       BY <1>1, PageFacts
    <2>2. PICK q \in Pages : q = setBundle(tab[u], m.tok) /\ q.tok = m.tok
       BY <1>2, <2>1
    <2>3. q.tok.sid = tab[u].tok.sid /\ tab[u].tok.current => q.tok.current
       BY <1>2, <1>7, <2>2 DEF Timely, StillCurrent
    <2>. QED  BY <1>5, <1>7, <2>2, <2>3
  <1>8. CASE tab' = [tab EXCEPT ![u] = reset(tab[u], "idle")]
    <2>1. PICK q \in Pages : q = reset(tab[u], "idle") /\ q.tok = NoToken
       BY <1>1, PageFacts
    <2>2. tab'[u] = q /\ \A v \in Tabs \ {u} : tab'[v] = tab[v]
       BY <1>1, <1>8, <2>1
    <2>. QED  BY <2>1, <2>2, TokenKept
  <1>9. ASSUME NEW o, NEW c, Resolve(u, o, reset(tab[u], "complete"), n, c)
        PROVE  KeepsToken(t)
    <2>1. PICK q \in Pages : q = reset(tab[u], "complete") /\ q.tok = NoToken
       BY <1>1, PageFacts
    <2>. QED  BY <1>5, <1>9, <2>1
  <1>10. CASE Resolve(u, "transient_error", [tab[u] EXCEPT !.boot = "idle"], n, chan)
    <2>1. PICK q \in Pages : q = [tab[u] EXCEPT !.boot = "idle"] /\ q.tok = tab[u].tok
       BY <1>1, PageFacts
    <2>. QED  BY <1>5, <1>10, <2>1
  <1>. QED  BY <1>4, <1>6, <1>7, <1>8, <1>9, <1>10 DEF RefreshResponse

\* So do the other steps of a tab, but for the answer of an explicit rotation.
LEMMA TabKeepsToken ==
    ASSUME IInv, NEW t \in Tabs, NEW u \in Tabs,
           \/ GrantLock(u) \/ SyncEvent(u) \/ RedirectToSignIn(u)
           \/ \E r \in BOOLEAN : ApiStart(u, r)
           \/ Bootstrap(u) \/ TokenAges(u) \/ LogoutStart(u) \/ Reload(u)
           \/ \E s \in Sids : Login(u, s)
           \/ EventExpires(u)
           \/ \E m \in net : LogoutResponse(u, m)
           \/ \E m \in net : u # t /\ ApiResponse(u, m)
    PROVE  KeepsToken(t)
  <1>1. tab \in [Tabs -> Pages] /\ tab[u] \in Pages /\ tab[u].tok \in Tokens /\ jar \in Cookies
     BY Facts
  <1>2. ASSUME NEW q, tab' = [tab EXCEPT ![u] = q],
               q.tok = tab[u].tok \/ q.tok = NoToken
        PROVE  KeepsToken(t)
    <2>1. tab'[u] = q /\ \A v \in Tabs \ {u} : tab'[v] = tab[v]
       BY <1>1, <1>2
    <2>. QED  BY <1>2, <2>1, TokenKept
  <1>3. ASSUME tab' = tab PROVE KeepsToken(t)
     BY <1>3 DEF KeepsToken
  <1>4. ASSUME NEW g \in {"app", "signin"}, Load(u, g) PROVE KeepsToken(t)
    <2>1. tab' = [tab EXCEPT ![u] = Page(g)] /\ Page(g).tok = NoToken
       BY <1>4, LoadedFacts DEF Load
    <2>. QED  BY <1>2, <2>1
  <1>5. PICK p \in Pages : p = reset(tab[u], "complete") /\ p.tok = NoToken
     BY <1>1, PageFacts
  <1>6. CASE GrantLock(u)
    <2>1. CASE tab' = tab
       BY <1>3, <2>1
    <2>2. CASE Resolve(u, "transient_error", tab[u], net, chan)
      <3>1. PICK n \in SUBSET net : n = net
         OBVIOUS
      <3>2. jar' \in Cookies
         BY <1>1, <1>6 DEF GrantLock
      <3>3. Resolve(u, "transient_error", tab[u], n, chan)
         BY <2>2, <3>1
      <3>4. Resolved(u, "transient_error", tab[u], n, chan)
         BY <1>1, <3>2, <3>3, ResolveFacts
      <3>5. tab'[u].tok = tab[u].tok /\ \A v \in Tabs \ {u} : tab'[v] = tab[v]
         BY <3>4 DEF Resolved
      <3>. QED  BY <3>5, TokenKept
    <2>. QED  BY <1>6, <2>1, <2>2 DEF GrantLock
  <1>7. CASE SyncEvent(u)
    <2>1. CASE Load(u, tab[u].page)
       BY <1>1, <1>4, <2>1, PageFacts
    <2>2. CASE tab' = [tab EXCEPT ![u] =
                          [reset(tab[u], "complete") EXCEPT !.out = TRUE, !.page = "signin"]]
      <3>1. PICK q : q = [p EXCEPT !.out = TRUE, !.page = "signin"]
         OBVIOUS
      <3>2. q.tok = NoToken
         BY <1>5, <3>1 DEF Pages
      <3>3. tab' = [tab EXCEPT ![u] = q]
         BY <1>5, <2>2, <3>1
      <3>. QED  BY <1>2, <3>2, <3>3
    <2>3. CASE tab' = tab
       BY <1>3, <2>3
    <2>. QED  BY <1>7, <2>1, <2>2, <2>3 DEF SyncEvent
  <1>8. CASE RedirectToSignIn(u) \/ Reload(u)
    <2>1. Load(u, "signin") \/ Load(u, tab[u].page)
       BY <1>8 DEF RedirectToSignIn, Reload
    <2>2. tab[u].page \in {"app", "signin"}
       BY <1>1, PageFacts
    <2>. QED  BY <1>4, <2>1, <2>2
  <1>9. CASE (\E r \in BOOLEAN : ApiStart(u, r)) \/ EventExpires(u)
    <2>1. tab' = tab
       BY <1>9 DEF ApiStart, EventExpires
    <2>. QED  BY <1>3, <2>1
  <1>10. CASE Bootstrap(u)
    <2>1. \/ tab' = [tab EXCEPT ![u] = [tab[u] EXCEPT !.boot = "complete"]]
          \/ tab' = [tab EXCEPT ![u] = [tab[u] EXCEPT !.boot = "checking"]]
       BY <1>10 DEF Bootstrap
    <2>2. \A b \in {"complete", "checking"} : [tab[u] EXCEPT !.boot = b].tok = tab[u].tok
       BY <1>1, PageFacts
    <2>3. PICK b \in {"complete", "checking"} :
             tab' = [tab EXCEPT ![u] = [tab[u] EXCEPT !.boot = b]]
       BY <2>1
    <2>4. PICK q : q = [tab[u] EXCEPT !.boot = b]
       OBVIOUS
    <2>. QED  BY <1>2, <2>2, <2>3, <2>4
  <1>11. CASE TokenAges(u)
    <2>1. tab[u].tok.fresh /\ tab' = [tab EXCEPT ![u].tok.fresh = FALSE]
       BY <1>11 DEF TokenAges
    <2>2. tab[u].tok \in [sid : Sids, fresh : BOOLEAN, current : BOOLEAN]
       BY <1>1, <2>1, TokenFacts, NoneFacts
    <2>3. PICK k : k = [tab[u].tok EXCEPT !.fresh = FALSE]
       OBVIOUS
    <2>4. k.sid = tab[u].tok.sid /\ k.current = tab[u].tok.current
       BY <2>2, <2>3
    <2>5. PICK q : q = [tab[u] EXCEPT !.tok = k]
       OBVIOUS
    <2>6. q.tok = k
       BY <1>1, <2>5 DEF Pages
    <2>7. tab' = [tab EXCEPT ![u] = q]
       BY <2>1, <2>3, <2>5
    <2>8. tab'[u] = q /\ \A v \in Tabs \ {u} : tab'[v] = tab[v]
       BY <1>1, <2>7
    <2>9. KeepsToken(u)
       BY <2>4, <2>6, <2>8 DEF KeepsToken
    <2>. QED  BY <2>8, <2>9, TokenKept
  <1>12. \A b \in BOOLEAN : [tab[u] EXCEPT !.out = b].tok = tab[u].tok
     BY <1>1, PageFacts
  <1>13. ASSUME tab' = [tab EXCEPT ![u].out = TRUE] \/ tab' = [tab EXCEPT ![u].out = FALSE]
         PROVE  KeepsToken(t)
    <2>1. PICK b \in BOOLEAN : tab' = [tab EXCEPT ![u] = [tab[u] EXCEPT !.out = b]]
       BY <1>13
    <2>2. PICK q : q = [tab[u] EXCEPT !.out = b]
       OBVIOUS
    <2>. QED  BY <1>2, <1>12, <2>1, <2>2
  <1>14. CASE LogoutStart(u)
    <2>1. tab' = [tab EXCEPT ![u].out = TRUE]
       BY <1>14 DEF LogoutStart
    <2>. QED  BY <1>13, <2>1
  <1>15. CASE \E s \in Sids : Login(u, s)
    <2>1. PICK s \in Sids : Login(u, s)
       BY <1>15
    <2>2. /\ tab[u].tok = NoToken
          /\ tab' = [tab EXCEPT ![u] = [setBundle(tab[u], Bundle(s)) EXCEPT !.page = "app"]]
       BY <2>1 DEF Login
    <2>3. \A v \in Tabs \ {u} : tab'[v] = tab[v]
       BY <1>1, <2>2
    <2>4. KeepsToken(u)
       BY <2>2, NoneFacts DEF KeepsToken
    <2>. QED  BY <2>3, <2>4, TokenKept
  <1>16. CASE \E m \in net : LogoutResponse(u, m)
    <2>1. PICK m \in net : LogoutResponse(u, m)
       BY <1>16
    <2>2. CASE tab' = [tab EXCEPT ![u] = [reset(tab[u], "complete") EXCEPT !.page = "signin"]]
      <3>1. PICK q : q = [p EXCEPT !.page = "signin"]
         OBVIOUS
      <3>2. q.tok = NoToken
         BY <1>5, <3>1 DEF Pages
      <3>3. tab' = [tab EXCEPT ![u] = q]
         BY <1>5, <2>2, <3>1
      <3>. QED  BY <1>2, <3>2, <3>3
    <2>3. CASE tab' = tab
       BY <1>3, <2>3
    <2>4. CASE tab' = [tab EXCEPT ![u].out = FALSE]
       BY <1>13, <2>4
    <2>. QED  BY <2>1, <2>2, <2>3, <2>4 DEF LogoutResponse
  <1>17. CASE \E m \in net : u # t /\ ApiResponse(u, m)
    <2>1. u # t /\ tab'[t] = tab[t]
       BY <1>1, <1>17 DEF ApiResponse
    <2>. QED  BY <2>1 DEF KeepsToken
  <1>. QED  BY <1>6, <1>7, <1>8, <1>9, <1>10, <1>11, <1>14, <1>15, <1>16, <1>17

\* The token of a tab becomes outdated only when the server advances the session
\* or the answer of an explicit rotation comes late: a refresh that an explicit
\* rotation overtook is not applied (RotationEpoch and runtime.isCurrent).
THEOREM TokensNeverRegress == Spec => TokenNeverRegresses
  <1>1. ASSUME IInv, [Next]_vars, NEW t \in Tabs,
               tab'[t].tok.sid = tab[t].tok.sid, tab[t].tok.current, ~tab'[t].tok.current
        PROVE  \E m \in net : ChangePassword(m) \/ ApiResponse(t, m)
    <2>1. ~KeepsToken(t)
       BY <1>1 DEF KeepsToken
    <2>2. tab' # tab
       BY <2>1 DEF KeepsToken
    <2>3. CASE Server
      <3>1. PICK m \in net : \/ ServeRefresh(m) \/ ServeApi(m) \/ ServeLogout(m)
                             \/ ChangePassword(m) \/ AdvanceSession(m)
         BY <2>3 DEF Server
      <3>2. ChangePassword(m)
         BY <2>2, <3>1 DEF ServeRefresh, ServeApi, ServeLogout, AdvanceSession
      <3>. QED  BY <3>2
    <2>4. CASE \E u \in Tabs : Deliver(u)
      <3>1. PICK u \in Tabs, m \in net :
               RefreshResponse(u, m) \/ ApiResponse(u, m) \/ LogoutResponse(u, m)
         BY <2>4 DEF Deliver
      <3>2. ~RefreshResponse(u, m)
         BY <1>1, <2>1, RefreshKeepsToken
      <3>3. ~LogoutResponse(u, m)
         BY <1>1, <2>1, TabKeepsToken
      <3>4. ApiResponse(u, m) /\ u = t
         BY <1>1, <2>1, <3>1, <3>2, <3>3, TabKeepsToken
      <3>. QED  BY <3>4
    <2>5. ASSUME NEW u \in Tabs,
                 \/ GrantLock(u) \/ SyncEvent(u) \/ RedirectToSignIn(u)
                 \/ \E r \in BOOLEAN : ApiStart(u, r)
                 \/ Bootstrap(u) \/ TokenAges(u) \/ LogoutStart(u) \/ Reload(u)
                 \/ \E s \in Sids : Login(u, s)
                 \/ EventExpires(u)
          PROVE  FALSE
       BY <1>1, <2>1, <2>5, TabKeepsToken
    <2>6. CASE \/ UNCHANGED vars
               \/ \E s \in Sids : RevokeElsewhere(s) \/ GraceElapses(s)
               \/ \E m \in net : NetworkError(m)
       BY <2>2, <2>6 DEF vars, RevokeElsewhere, GraceElapses, NetworkError
    <2>. QED  BY <1>1, <2>3, <2>4, <2>5, <2>6 DEF Next
  <1>2. IInv /\ [Next]_vars =>
           [\A t \in Tabs :
              tab'[t].tok.sid = tab[t].tok.sid /\ tab[t].tok.current /\ ~tab'[t].tok.current
                => \E m \in net : ChangePassword(m) \/ ApiResponse(t, m)]_vars
     BY <1>1
  <1>. QED  BY <1>2, InductiveInvariant, PTL DEF Spec, TokenNeverRegresses
============================================================================
