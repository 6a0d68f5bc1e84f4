----------------------- MODULE PlaygroundChat_proofs -----------------------
(***************************************************************************)
(* The safety properties of the playground, for any number of requests,    *)
(* any replies, cut into chunks in any way, and any number of clicks and   *)
(* visits.                                                                 *)
(*                                                                         *)
(* What is shown next is a fold of the queued updates over what is shown   *)
(* now.  The invariant speaks of that fold itself (Now): an event appends  *)
(* one update, so it changes Now by one application (DrawnAppend), and a   *)
(* rendering makes Now what is shown.  No induction over the queue is      *)
(* needed beyond these two equations, which are proved by taking a         *)
(* smallest set of indices for which the fold has no value.                *)
(***************************************************************************)
EXTENDS PlaygroundChat, FiniteSetTheorems, SequenceTheorems, WellFoundedInduction, TLAPS

----------------------------------------------------------------------------
\* Folds

\* One step of the two folds of the model: an update, or a message to be kept.
Step(fold, s, x, p) ==
    IF fold = "draw" THEN Applied(s, x, p)
    ELSE IF KeyOf(x) = p THEN s ELSE Append(s, x)

\* f gives the fold of q, from ms on, over every set of indices in S.
Steps(fold, ms, q, p, S, f) ==
    f = [s \in SUBSET S |-> IF s = {} THEN ms
                            ELSE Step(fold, f[s \ {Max(s)}], q[Max(s)], p)]

\* A finite set of numbers.
Indices(S) == IsFiniteSet(S) /\ S \subseteq Int

\* A set of subsets of a finite set has a smallest member.
LEMMA Smallest ==
    ASSUME NEW S, Indices(S), NEW T, T \subseteq SUBSET S, T # {}
    PROVE  \E s \in T : \A u \in T : u \subseteq s => u = s
  <1>1. IsWellFoundedOn(StrictSubsetOrdering(S), SUBSET S)
     BY FS_StrictSubsetOrderingWellFounded, FS_FiniteSubsetsOfFinite DEF Indices
  <1>2. PICK s \in T : \A u \in T : ~(<<u, s>> \in StrictSubsetOrdering(S))
     BY <1>1, WFMin
  <1>3. \A u \in T : u \subseteq s => u = s
    <2>. SUFFICES ASSUME NEW u \in T, u \subseteq s, u # s PROVE FALSE
       OBVIOUS
    <2>1. <<u, s>> \in StrictSubsetOrdering(S)
       BY DEF StrictSubsetOrdering
    <2>. QED  BY <1>2, <2>1
  <1>. QED  BY <1>3

\* Max takes an index of the set.
LEMMA MaxIn ==
    ASSUME NEW S, Indices(S), NEW s \in SUBSET S, s # {}
    PROVE  Max(s) \in s /\ \A y \in s : y <= Max(s)
  <1>. DEFINE T == {{y \in s : y > x} : x \in s}
  <1>1. T \subseteq SUBSET S /\ T # {}
     OBVIOUS
  <1>2. PICK v \in T : \A w \in T : w \subseteq v => w = v
    <2>. HIDE DEF T
    <2>. QED  BY <1>1, Smallest
  <1>3. PICK x \in s : v = {y \in s : y > x}
     BY <1>2
  <1>4. ASSUME NEW y \in s PROVE x >= y
    <2>. SUFFICES ASSUME y > x PROVE FALSE
       BY DEF Indices
    <2>. DEFINE w == {z \in s : z > y}
    <2>1. w \in T
       OBVIOUS
    <2>2. \A z \in w : z \in v
       BY <1>3 DEF Indices
    <2>3. y \in v /\ y \notin w
       BY <1>3 DEF Indices
    <2>. HIDE DEF T, w
    <2>. QED  BY <1>2, <2>1, <2>2, <2>3
  <1>5. \E z \in s : \A y \in s : z >= y
     BY <1>4
  <1>6. Max(s) \in s /\ \A y \in s : Max(s) >= y
     BY <1>5, Zenon DEF Max
  <1>. QED  BY <1>6 DEF Indices

\* Two sequences have the same elements at the indices S.
Alike(S, q, r) == \A x \in S : r[x] = q[x]

\* Two such functions agree where both are defined.
LEMMA StepsAgree ==
    ASSUME NEW S, Indices(S), NEW fold, NEW ms, NEW p,
           NEW q, NEW r, Alike(S, q, r),
           NEW A \in SUBSET S, NEW B, NEW f, NEW h,
           Steps(fold, ms, q, p, A, f), Steps(fold, ms, r, p, B, h)
    PROVE  \A u \in SUBSET A : u \subseteq B => f[u] = h[u]
  <1>. DEFINE T == {u \in SUBSET A : u \subseteq B /\ f[u] # h[u]}
  <1>. SUFFICES ASSUME T # {} PROVE FALSE
     OBVIOUS
  <1>1. PICK s \in T : \A u \in T : u \subseteq s => u = s
    <2>1. T \subseteq SUBSET S
       OBVIOUS
    <2>. HIDE DEF T
    <2>. QED  BY <2>1, Smallest
  <1>2. s # {}
     BY DEF Steps
  <1>. DEFINE v == s \ {Max(s)}
  <1>3. Max(s) \in s /\ s \subseteq S
     BY <1>2, MaxIn
  <1>4. v \subseteq s /\ v # s /\ v \in SUBSET A /\ v \in SUBSET B
     BY <1>3
  <1>5. f[v] = h[v]
     BY <1>1, <1>4
  <1>6. /\ f[s] = Step(fold, f[v], q[Max(s)], p)
        /\ h[s] = Step(fold, h[v], r[Max(s)], p)
     BY <1>2 DEF Steps
  <1>. QED  BY <1>3, <1>5, <1>6 DEF Alike

\* The function of a set follows from the one of a set without its last index.
LEMMA StepsPart ==
    ASSUME NEW S, Indices(S), NEW fold, NEW ms, NEW p, NEW q, NEW u \in SUBSET S, u # {},
           NEW v, v = u \ {Max(u)}, NEW a, NEW b,
           Steps(fold, ms, q, p, u, a), Steps(fold, ms, q, p, v, b)
    PROVE  a[u] = Step(fold, b[v], q[Max(u)], p)
  <1>1. a[u] = Step(fold, a[v], q[Max(u)], p)
     BY DEF Steps
  <1>2. Alike(S, q, q)
     BY DEF Alike
  <1>3. \A w \in SUBSET u : w \subseteq v => a[w] = b[w]
     BY <1>2, StepsAgree
  <1>. QED  BY <1>1, <1>3

\* There is such a function: a smallest set without one would get it from the
\* functions of its subsets.
LEMMA StepsExist ==
    ASSUME NEW S, Indices(S), NEW fold, NEW ms, NEW p, NEW q
    PROVE  \E f : Steps(fold, ms, q, p, S, f)
  <1>. DEFINE T == {s \in SUBSET S : ~\E f : Steps(fold, ms, q, p, s, f)}
  <1>. SUFFICES ASSUME T # {} PROVE FALSE
     OBVIOUS
  <1>1. PICK s \in T : \A u \in T : u \subseteq s => u = s
    <2>1. T \subseteq SUBSET S
       OBVIOUS
    <2>. HIDE DEF T
    <2>. QED  BY <2>1, Smallest
  <1>. DEFINE G(u) == CHOOSE f : Steps(fold, ms, q, p, u, f)
              h == [u \in SUBSET s |-> IF u = {} THEN ms
                       ELSE Step(fold, G(u \ {Max(u)})[u \ {Max(u)}], q[Max(u)], p)]
  <1>2. ASSUME NEW u \in SUBSET s, u # s PROVE Steps(fold, ms, q, p, u, G(u))
    <2>1. \E f : Steps(fold, ms, q, p, u, f)
       BY <1>1, <1>2
    <2>. QED  BY <2>1
  <1>. HIDE DEF G
  <1>3. ASSUME NEW u \in SUBSET s, u # s PROVE G(u)[u] = h[u]
    <2>1. CASE u = {}
       BY <1>2, <1>3, <2>1 DEF Steps
    <2>2. CASE u # {}
      <3>. DEFINE v == u \ {Max(u)}
      <3>1. v \in SUBSET u /\ v \in SUBSET s /\ v # s /\ u \in SUBSET S
         BY <1>3
      <3>2. Steps(fold, ms, q, p, u, G(u)) /\ Steps(fold, ms, q, p, v, G(v))
         BY <1>2, <1>3, <3>1
      <3>3. G(u)[u] = Step(fold, G(v)[v], q[Max(u)], p)
         BY <2>2, <3>1, <3>2, StepsPart
      <3>. QED  BY <2>2, <3>3
    <2>. QED  BY <2>1, <2>2
  <1>4. h = [u \in SUBSET s |-> IF u = {} THEN ms
                ELSE Step(fold, h[u \ {Max(u)}], q[Max(u)], p)]
    <2>1. ASSUME NEW u \in SUBSET s, u # {}
          PROVE  h[u] = Step(fold, h[u \ {Max(u)}], q[Max(u)], p)
      <3>1. u \ {Max(u)} \in SUBSET s /\ u \ {Max(u)} # s
         BY <2>1, MaxIn
      <3>2. h[u] = Step(fold, G(u \ {Max(u)})[u \ {Max(u)}], q[Max(u)], p)
         BY <2>1
      <3>. HIDE DEF h
      <3>. QED  BY <1>3, <3>1, <3>2
    <2>. QED  BY <2>1
  <1>5. Steps(fold, ms, q, p, s, h)
     BY <1>4 DEF Steps
  <1>. QED  BY <1>1, <1>5

\* The fold over an empty sequence, and over one with an element more.
LEMMA StepsEnds ==
    ASSUME NEW fold, NEW ms, NEW p, NEW X, NEW q \in Seq(X), NEW x, NEW f, NEW h,
           Steps(fold, ms, q, p, DOMAIN q, f),
           Steps(fold, ms, Append(q, x), p, DOMAIN Append(q, x), h)
    PROVE  /\ q = <<>> => f[DOMAIN q] = ms
           /\ h[DOMAIN Append(q, x)] = Step(fold, f[DOMAIN q], x, p)
  <1>. DEFINE n == Len(q)
              r == Append(q, x)
  <1>1. /\ n \in Nat /\ DOMAIN q = 1 .. n /\ DOMAIN r = 1 .. n + 1
        /\ r[n + 1] = x /\ \A y \in 1 .. n : r[y] = q[y]
     OBVIOUS
  <1>2. q = <<>> => f[DOMAIN q] = ms
    <2>1. q = <<>> => DOMAIN q = {}
       BY <1>1
    <2>. QED  BY <2>1 DEF Steps
  <1>. HIDE DEF r
  <1>3. PICK S : S = 1 .. n + 1
     OBVIOUS
  <1>4. Indices(S) /\ S # {} /\ n + 1 \in S
    <2>1. IsFiniteSet(1 .. n + 1)
       BY <1>1, FS_Interval
    <2>. QED  BY <1>1, <1>3, <2>1 DEF Indices
  <1>5. Max(S) = n + 1
    <2>1. S \in SUBSET S
       OBVIOUS
    <2>2. Max(S) \in S /\ n + 1 <= Max(S)
       BY <2>1, <1>4, MaxIn
    <2>. QED  BY <1>1, <1>3, <2>2
  <1>6. PICK A : A = 1 .. n
     OBVIOUS
  <1>7. S \ {Max(S)} = A /\ A \in SUBSET S /\ Indices(A)
    <2>1. IsFiniteSet(A)
       BY <1>1, <1>6, FS_Interval
    <2>2. A \in SUBSET S /\ Indices(A)
       BY <1>1, <1>3, <1>6, <2>1 DEF Indices
    <2>3. S \ {n + 1} = A
       BY <1>1, <1>3, <1>6
    <2>. QED  BY <1>5, <2>2, <2>3
  <1>8. Steps(fold, ms, q, p, A, f) /\ Steps(fold, ms, r, p, S, h)
     BY <1>1, <1>3, <1>6 DEF r
  <1>9. h[S] = Step(fold, h[A], r[n + 1], p)
    <2>1. h[S] = Step(fold, h[S \ {Max(S)}], r[Max(S)], p)
       BY <1>4, <1>8 DEF Steps
    <2>. QED  BY <2>1, <1>5, <1>7
  <1>10. f[A] = h[A]
    <2>1. Alike(A, q, r)
       BY <1>1, <1>6 DEF Alike
    <2>2. \A w \in SUBSET A : w \subseteq S => f[w] = h[w]
      <3>1. A \in SUBSET A
         OBVIOUS
      <3>. QED  BY <1>7, <1>8, <2>1, <3>1, StepsAgree
    <2>. QED  BY <1>7, <2>2
  <1>. QED  BY <1>1, <1>2, <1>3, <1>6, <1>9, <1>10 DEF r

\* Rendering runs the updates one after the other.
LEMMA DrawnSteps ==
    ASSUME NEW ms, NEW X, NEW q \in Seq(X), NEW g
    PROVE  \E f : Steps("draw", ms, q, g, DOMAIN q, f) /\ Drawn(ms, q, g) = f[DOMAIN q]
  <1>. DEFINE F(f) == f = [s \in SUBSET (DOMAIN q) |->
                              IF s = {} THEN ms
                              ELSE Applied(f[s \ {Max(s)}], q[Max(s)], g)]
  <1>1. Drawn(ms, q, g) = (CHOOSE f : F(f))[DOMAIN q]
     BY Zenon DEF Drawn, FoldLeft, MapThenFoldSet
  <1>2. \A f : F(f) <=> Steps("draw", ms, q, g, DOMAIN q, f)
     BY DEF Steps, Step
  <1>3. \E f : F(f)
    <2>1. PICK S : S = 1 .. Len(q)
       OBVIOUS
    <2>2. Indices(S) /\ DOMAIN q = S
       BY <2>1, FS_Interval DEF Indices
    <2>3. \E f : Steps("draw", ms, q, g, S, f)
       BY <2>2, StepsExist
    <2>. HIDE DEF F
    <2>. QED  BY <1>2, <2>2, <2>3
  <1>. HIDE DEF F
  <1>4. F(CHOOSE f : F(f))
     BY <1>3
  <1>. QED  BY <1>1, <1>2, <1>4

\* Rendering with nothing queued changes no message.
LEMMA DrawnEmpty ==
    ASSUME NEW ms, NEW g PROVE Drawn(ms, <<>>, g) = ms
  <1>1. <<>> \in Seq({}) /\ DOMAIN <<>> = {}
     OBVIOUS
  <1>2. PICK f : /\ Steps("draw", ms, <<>>, g, DOMAIN <<>>, f)
                 /\ Drawn(ms, <<>>, g) = f[DOMAIN <<>>]
     BY <1>1, DrawnSteps
  <1>. QED  BY <1>1, <1>2 DEF Steps

\* Rendering with one update more applies it to what the others made.
LEMMA DrawnAppend ==
    ASSUME NEW ms, NEW X, NEW q \in Seq(X), NEW u \in X, NEW g
    PROVE  Drawn(ms, Append(q, u), g) = Applied(Drawn(ms, q, g), u, g)
  <1>1. Append(q, u) \in Seq(X)
     OBVIOUS
  <1>2. PICK f : /\ Steps("draw", ms, q, g, DOMAIN q, f)
                 /\ Drawn(ms, q, g) = f[DOMAIN q]
     BY DrawnSteps
  <1>3. PICK h : /\ Steps("draw", ms, Append(q, u), g, DOMAIN Append(q, u), h)
                 /\ Drawn(ms, Append(q, u), g) = h[DOMAIN Append(q, u)]
     BY <1>1, DrawnSteps
  <1>4. h[DOMAIN Append(q, u)] = Step("draw", f[DOMAIN q], u, g)
     BY <1>2, <1>3, StepsEnds
  <1>. QED  BY <1>2, <1>3, <1>4 DEF Step

\* Deleting keeps only messages that were there.
LEMMA RemoveKeeps ==
    ASSUME NEW X, NEW ms \in Seq(X), NEW k
    PROVE  removeMessageByKey(ms, k) \in Seq({ms[n] : n \in DOMAIN ms})
  <1>. DEFINE R == {ms[n] : n \in DOMAIN ms}
              F(f) == f = [s \in SUBSET (DOMAIN ms) |->
                             IF s = {} THEN <<>>
                             ELSE IF KeyOf(ms[Max(s)]) = k THEN f[s \ {Max(s)}]
                             ELSE Append(f[s \ {Max(s)}], ms[Max(s)])]
  <1>1. removeMessageByKey(ms, k) = (CHOOSE f : F(f))[DOMAIN ms]
     BY Zenon DEF removeMessageByKey, FoldLeft, MapThenFoldSet
  <1>2. \A f : F(f) <=> Steps("remove", <<>>, ms, k, DOMAIN ms, f)
     BY DEF Steps, Step
  <1>3. PICK S : S = DOMAIN ms /\ Indices(S)
    <2>1. PICK S : S = 1 .. Len(ms)
       OBVIOUS
    <2>. QED  BY <2>1, FS_Interval DEF Indices
  <1>4. \E f : Steps("remove", <<>>, ms, k, S, f)
     BY <1>3, StepsExist
  <1>5. PICK f : Steps("remove", <<>>, ms, k, S, f) /\ removeMessageByKey(ms, k) = f[S]
    <2>. HIDE DEF F
    <2>1. F(CHOOSE f : F(f))
       BY <1>2, <1>3, <1>4
    <2>. QED  BY <1>1, <1>2, <1>3, <2>1
  <1>6. \A s \in SUBSET S : f[s] \in Seq(R)
    <2>. DEFINE T == {s \in SUBSET S : f[s] \notin Seq(R)}
    <2>. SUFFICES ASSUME T # {} PROVE FALSE
       OBVIOUS
    <2>1. PICK s \in T : \A u \in T : u \subseteq s => u = s
      <3>1. T \subseteq SUBSET S
         OBVIOUS
      <3>. HIDE DEF T
      <3>. QED  BY <1>3, <3>1, Smallest
    <2>2. s # {}
      <3>1. <<>> \in Seq(R)
         OBVIOUS
      <3>. QED  BY <1>5, <3>1 DEF Steps
    <2>3. Max(s) \in s /\ s \subseteq S
       BY <1>3, <2>2, MaxIn
    <2>4. PICK v : v = s \ {Max(s)}
       OBVIOUS
    <2>5. f[v] \in Seq(R)
       BY <2>1, <2>3, <2>4
    <2>6. f[s] = Step("remove", f[v], ms[Max(s)], k)
       BY <1>5, <2>2, <2>4 DEF Steps
    <2>7. ms[Max(s)] \in R
       BY <1>3, <2>3
    <2>8. f[s] \in Seq(R)
      <3>1. f[s] = f[v] \/ f[s] = Append(f[v], ms[Max(s)])
         BY <2>6 DEF Step
      <3>2. Append(f[v], ms[Max(s)]) \in Seq(R)
        <4>. HIDE DEF R, T
        <4>. QED  BY <2>5, <2>7, AppendProperties
      <3>. QED  BY <2>5, <3>1, <3>2
    <2>. QED  BY <2>8
  <1>. QED  BY <1>5, <1>6

----------------------------------------------------------------------------
\* The invariant

\* The tokens of the reply to request i after the first a, up to the first b.
Piece(i, a, b) ==
    [x \in 1 .. b - a |-> [req |-> i, pos |-> a + x, char |-> Says[i][a + x]]]

\* A text with tokens of request i only, in order, and of its first c only;
\* what was typed aside.
OwnText(text, i, c) ==
    \A a \in DOMAIN text : text[a].req # 0 =>
        /\ text[a].req = i /\ text[a].pos <= c
        /\ \A b \in DOMAIN text : a < b /\ text[b].req # 0 => text[a].pos < text[b].pos

\* What was made of this piece: some of its tokens, in order; none only if the
\* piece is empty, and all of them unless the reply repeats itself.
Part(text, i, a, b) ==
    /\ text \in Seq(Tokens) /\ OwnText(text, i, b)
    /\ \A x \in DOMAIN text : text[x].req = i /\ text[x].pos > a
    /\ a # b => text # <<>>
    /\ ~RepeatsItself(i) => text = Piece(i, a, b)

\* What the properties ask of a message; e says whether there are editors.
Sound(m, e) ==
    m.from = "assistant" => OwnText(m.text, m.key, Length) /\ (~e => Whole(m))

\* Messages that are sound, and of which only the last may be pending.
Good(ms, e) ==
    /\ ms \in Seq(Messages)
    /\ \A n \in DOMAIN ms : Sound(ms[n], e) /\ (~e /\ n # Len(ms) => ~Pending(ms[n]))

\* No message is pending.
Quiet(ms, e) == ~e => \A n \in DOMAIN ms : ~Pending(ms[n])

\* The last message is the one of request i, with none but its first c tokens.
Carries(ms, i, c) ==
    /\ ms # <<>> /\ Last(ms).from = "assistant" /\ Last(ms).key = i
    /\ OwnText(Last(ms).text, i, c)

\* A pending message that holds all of these, unless the reply repeats itself.
Filled(m, i, c) == Pending(m) /\ (~RepeatsItself(i) => m.text = Piece(i, 0, c))

\* Without editors the last message is such a one.
Serves(ms, i, c, e) == Carries(ms, i, c) /\ (~e => Filled(Last(ms), i, c))

\* The request made last, and whether it is at work.
Cur == Len(req)
Active == Cur # 0 /\ req[Cur].g = gen /\ req[Cur].ph # "done"

\* Only the last request can be of the present generation; the controller serves
\* it or none, and it serves it while its stream is being opened or is open.
RequestsOK ==
    /\ \A i \in DOMAIN req : req[i].g <= gen /\ (i < Cur => req[i].g < gen)
    /\ ctl.source \in {0, ctl.cur}
    /\ ctl.cur # 0 => ctl.cur = Cur /\ req[Cur].g = gen
    /\ Cur # 0 /\ req[Cur].g = gen =>
         /\ req[Cur].ph \in {"headers", "open"} => ctl.cur = Cur
         /\ req[Cur].ph = "open" => ctl.source = Cur
         /\ req[Cur].ph \in {"headers", "wait"} => req[Cur].n = 0

\* isRequesting means a request at work; what is rendered lags behind.
FlagsOK ==
    /\ flags.busy <=> Active
    /\ flags.busy \/ queue # <<>> => shown.busy
    /\ ~may.editor => shown.edit = NoKey

\* What will be shown if nothing more happens.
Now == Drawn(shown.msgs, queue, gen)

\* Every copy of the conversation is sound, also what a stop would show.
MessagesOK ==
    /\ Good(shown.msgs, may.editor) /\ Good(Now, may.editor)
    /\ Good(Drawn(shown.msgs, queue, gen + 1), may.editor)
    /\ Good(save.latest, may.editor) /\ Good(stored, may.editor)

\* What the last message will hold and what is pending make up what the request
\* at work has sent; without one nothing is pending.
ReplyOK ==
    /\ pend.g = gen
    /\ flags.busy =>
         \E c \in 0 .. req[Cur].n :
              /\ Serves(Now, Cur, c, may.editor) /\ Carries(shown.msgs, Cur, c)
              /\ Part(pend.text, Cur, c, req[Cur].n)
    /\ ~flags.busy => pend.text = <<>> /\ Quiet(Now, may.editor)

IInv == TypeOK /\ RequestsOK /\ FlagsOK /\ MessagesOK /\ ReplyOK

----------------------------------------------------------------------------
\* Texts

\* A piece of a reply is a sequence of its tokens.
LEMMA PieceType ==
    ASSUME NEW i \in Requests, NEW a \in 0 .. Length, NEW b \in a .. Length
    PROVE  /\ Piece(i, a, b) \in Seq(Tokens)
           /\ Len(Piece(i, a, b)) = b - a
           /\ \A x \in 1 .. b - a :
                Piece(i, a, b)[x] = [req |-> i, pos |-> a + x, char |-> Says[i][a + x]]
  <1>1. b - a \in Nat
     BY LengthAssumption
  <1>2. ASSUME NEW x \in 1 .. b - a
        PROVE  [req |-> i, pos |-> a + x, char |-> Says[i][a + x]] \in Tokens
    <2>1. a + x \in 1 .. Length
       BY LengthAssumption
    <2>2. Says[i][a + x] \in Characters
       BY <2>1 DEF Characters
    <2>. QED  BY <2>1, <2>2 DEF Tokens
  <1>. QED  BY <1>1, <1>2 DEF Piece

\* No token comes after the first a and among the first a.
LEMMA PieceEmpty ==
    ASSUME NEW i, NEW a \in Nat PROVE Piece(i, a, a) = <<>>
  BY DEF Piece

\* All tokens make the reply.
LEMMA PieceWhole ==
    ASSUME NEW i PROVE Piece(i, 0, Length) = ReplyOf(i)
  BY LengthAssumption DEF Piece, ReplyOf

\* Nothing is made of an empty piece.
LEMMA PartNone ==
    ASSUME NEW i, NEW a \in Nat PROVE Part(<<>>, i, a, a)
  BY PieceEmpty DEF Part, OwnText

\* Nothing but that.
LEMMA PartEmpty ==
    ASSUME NEW i \in Requests, NEW a \in 0 .. Length, NEW text, Part(text, i, a, a)
    PROVE  text = <<>>
  <1>. SUFFICES ASSUME text # <<>> PROVE FALSE
     OBVIOUS
  <1>1. text \in Seq(Tokens) /\ 1 \in DOMAIN text
     BY DEF Part
  <1>2. text[1].pos \in Nat
    <2>1. text[1] \in Tokens
       BY <1>1
    <2>. QED  BY <2>1 DEF Tokens
  <1>3. text[1].req = i /\ text[1].pos > a /\ i # 0
     BY <1>1, ScenariosAssumption DEF Part, Requests
  <1>4. text[1].pos <= a
     BY <1>1, <1>3 DEF Part, OwnText
  <1>. QED  BY <1>2, <1>3, <1>4, LengthAssumption

\* A chunk of the stream is a piece of the reply.
LEMMA ChunkPart ==
    ASSUME NEW i \in Requests, NEW a \in 0 .. Length, NEW b \in a + 1 .. Length,
           NEW chunk, chunk = SubSeq(ReplyOf(i), a + 1, b)
    PROVE  Part(chunk, i, a, b)
  <1>0. /\ Length \in Nat /\ a \in Nat /\ b \in Nat /\ a < b /\ b <= Length
        /\ b \in a .. Length /\ i # 0
     BY LengthAssumption, ScenariosAssumption DEF Requests
  <1>. DEFINE p == Piece(i, a, b)
  <1>1. /\ p \in Seq(Tokens) /\ Len(p) = b - a
        /\ \A x \in 1 .. b - a : p[x] = [req |-> i, pos |-> a + x, char |-> Says[i][a + x]]
     BY <1>0, PieceType
  <1>2. chunk = p
    <2>1. PICK s : s = ReplyOf(i)
       OBVIOUS
    <2>2. s \in Seq(Tokens) /\ Len(s) = Length
      <3>1. PICK q : q = Piece(i, 0, Length)
         OBVIOUS
      <3>2. q \in Seq(Tokens) /\ Len(q) = Length - 0
         BY <1>0, <3>1, PieceType
      <3>. QED  BY <1>0, <2>1, <3>1, <3>2, PieceWhole
    <2>3. \A x \in 1 .. Length : s[x] = [req |-> i, pos |-> x, char |-> Says[i][x]]
       BY <2>1 DEF ReplyOf
    <2>4. /\ chunk = [x \in 1 .. (b - (a + 1)) + 1 |-> s[(x + (a + 1)) - 1]]
       BY <1>0, <2>1, <2>2
    <2>5. (b - (a + 1)) + 1 = b - a
       BY <1>0
    <2>6. ASSUME NEW x \in 1 .. b - a
          PROVE  s[(x + (a + 1)) - 1] = [req |-> i, pos |-> a + x, char |-> Says[i][a + x]]
      <3>1. (x + (a + 1)) - 1 = a + x /\ a + x \in 1 .. Length
         BY <1>0
      <3>. QED  BY <2>3, <3>1
    <2>. QED  BY <2>4, <2>5, <2>6 DEF Piece
  <1>. HIDE DEF p
  <1>3. DOMAIN p = 1 .. b - a /\ p # <<>>
     BY <1>0, <1>1
  <1>4. OwnText(p, i, b)
     BY <1>0, <1>1, <1>3 DEF OwnText
  <1>5. \A x \in DOMAIN p : p[x].req = i /\ p[x].pos > a
     BY <1>0, <1>1, <1>3
  <1>. QED  BY <1>1, <1>2, <1>3, <1>4, <1>5 DEF Part, p

\* getAppendableChunk keeps an end of the chunk.
LEMMA Appendable ==
    ASSUME NEW text \in Seq(Tokens), NEW chunk \in Seq(Tokens)
    PROVE  \E k \in 0 .. Len(chunk) :
             /\ getAppendableChunk(text, chunk) = SubSeq(chunk, k + 1, Len(chunk))
             /\ k = 0 \/ (k = Len(text) /\ text # <<>> /\ StartsWith(chunk, text))
  <1>1. CASE text # <<>> /\ StartsWith(chunk, text)
    <2>1. Len(text) \in 0 .. Len(chunk)
       BY <1>1 DEF StartsWith
    <2>. QED  BY <1>1, <2>1 DEF getAppendableChunk
  <1>2. CASE ~(text # <<>> /\ StartsWith(chunk, text))
    <2>1. SubSeq(chunk, 0 + 1, Len(chunk)) = chunk /\ 0 \in 0 .. Len(chunk)
       OBVIOUS
    <2>. QED  BY <1>2, <2>1 DEF getAppendableChunk
  <1>. QED  BY <1>1, <1>2

\* Two pieces of a reply that does not repeat itself do not begin alike if one
\* follows the other.
LEMMA NoEcho ==
    ASSUME NEW i \in Requests, ~RepeatsItself(i), NEW a \in 0 .. Length, NEW b \in a .. Length,
           NEW o \in 0 .. a, o # a
    PROVE  ~StartsWith(Piece(i, a, b), Piece(i, o, a))
  <1>. SUFFICES ASSUME StartsWith(Piece(i, a, b), Piece(i, o, a)) PROVE FALSE
     OBVIOUS
  <1>0. /\ Length \in Nat /\ a \in Nat /\ b \in Nat /\ o \in Nat /\ o < a /\ a <= b /\ b <= Length
        /\ o \in 0 .. Length /\ a \in o .. Length /\ a \in 1 .. Length
     BY LengthAssumption
  <1>1. PICK s, t : s = Piece(i, o, a) /\ t = Piece(i, a, b)
     OBVIOUS
  <1>2. /\ Len(s) = a - o /\ Len(t) = b - a /\ s \in Seq(Tokens)
        /\ \A x \in 1 .. a - o : s[x] = [req |-> i, pos |-> o + x, char |-> Says[i][o + x]]
        /\ \A x \in 1 .. b - a : t[x] = [req |-> i, pos |-> a + x, char |-> Says[i][a + x]]
     BY <1>0, <1>1, PieceType
  <1>3. Len(s) <= Len(t) /\ \A x \in DOMAIN s : t[x].char = s[x].char
     BY <1>1 DEF StartsWith
  <1>4. a - o <= b - a /\ DOMAIN s = 1 .. a - o
     BY <1>2, <1>3
  <1>5. ASSUME NEW x \in 1 .. a - o PROVE Says[i][o + x] = Says[i][a + x]
    <2>1. x \in 1 .. b - a
       BY <1>0, <1>4
    <2>2. s[x] = [req |-> i, pos |-> o + x, char |-> Says[i][o + x]]
       BY <1>2, Zenon
    <2>3. t[x] = [req |-> i, pos |-> a + x, char |-> Says[i][a + x]]
       BY <1>2, <2>1, Zenon
    <2>4. s[x].char = Says[i][o + x] /\ t[x].char = Says[i][a + x]
       BY <2>2, <2>3
    <2>. QED  BY <1>3, <1>4, <2>4
  <1>6. a + (a - o) <= Length
     BY <1>0, <1>4
  <1>. QED  BY <1>0, <1>5, <1>6 DEF RepeatsItself

\* Two pieces in a row make one.
LEMMA PiecesJoin ==
    ASSUME NEW i \in Requests, NEW a \in 0 .. Length, NEW b \in a .. Length, NEW o \in 0 .. a
    PROVE  Piece(i, o, a) \o Piece(i, a, b) = Piece(i, o, b)
  <1>0. /\ Length \in Nat /\ a \in Nat /\ b \in Nat /\ o \in Nat /\ o <= a /\ a <= b /\ b <= Length
        /\ o \in 0 .. Length /\ a \in o .. Length /\ b \in o .. Length
     BY LengthAssumption
  <1>1. PICK s, t, j : s = Piece(i, o, a) /\ t = Piece(i, a, b) /\ j = Piece(i, o, b)
     OBVIOUS
  <1>2. /\ s \in Seq(Tokens) /\ t \in Seq(Tokens) /\ j \in Seq(Tokens)
        /\ Len(s) = a - o /\ Len(t) = b - a /\ Len(j) = b - o
        /\ \A x \in 1 .. a - o : s[x] = [req |-> i, pos |-> o + x, char |-> Says[i][o + x]]
        /\ \A x \in 1 .. b - a : t[x] = [req |-> i, pos |-> a + x, char |-> Says[i][a + x]]
        /\ \A x \in 1 .. b - o : j[x] = [req |-> i, pos |-> o + x, char |-> Says[i][o + x]]
     BY <1>0, <1>1, PieceType
  <1>3. PICK u : u = s \o t
     OBVIOUS
  <1>4. /\ u \in Seq(Tokens) /\ Len(u) = Len(s) + Len(t)
        /\ \A x \in 1 .. Len(s) + Len(t) : u[x] = IF x <= Len(s) THEN s[x] ELSE t[x - Len(s)]
     BY <1>2, <1>3, ConcatProperties
  <1>5. ASSUME NEW x \in 1 .. b - o PROVE u[x] = j[x]
    <2>0. x \in 1 .. Len(s) + Len(t)
       BY <1>0, <1>2
    <2>. DEFINE T(y) == [req |-> i, pos |-> y, char |-> Says[i][y]]
    <2>1. j[x] = T(o + x)
       BY <1>2, Zenon
    <2>2. CASE x <= a - o
      <3>1. u[x] = s[x] /\ x \in 1 .. a - o
         BY <1>0, <1>2, <1>4, <2>0, <2>2
      <3>2. s[x] = T(o + x)
         BY <1>2, <3>1, Zenon
      <3>. QED  BY <2>1, <3>1, <3>2
    <2>3. CASE x > a - o
      <3>1. PICK y : y = x - (a - o)
         OBVIOUS
      <3>2. y \in 1 .. b - a /\ a + y = o + x
         BY <1>0, <2>3, <3>1
      <3>3. u[x] = t[y]
         BY <1>0, <1>2, <1>4, <2>0, <2>3, <3>1
      <3>4. t[y] = T(a + y)
         BY <1>2, <3>2, Zenon
      <3>. QED  BY <2>1, <3>2, <3>3, <3>4
    <2>. QED  BY <1>0, <2>2, <2>3
  <1>6. DOMAIN u = 1 .. b - o /\ DOMAIN j = 1 .. b - o
     BY <1>0, <1>2, <1>4
  <1>7. u = [x \in 1 .. b - o |-> u[x]] /\ j = [x \in 1 .. b - o |-> j[x]]
     BY <1>2, <1>4, <1>6
  <1>8. u = j
     BY <1>5, <1>7
  <1>. QED  BY <1>1, <1>3, <1>8

\* The tokens of a text are of request i, after its first o.
After(text, i, o) == \A x \in DOMAIN text : text[x].req = i /\ text[x].pos > o

\* A text of the first a tokens at most grows by what getAppendableChunk keeps of
\* the tokens after them; by all of these unless the reply repeats itself.
LEMMA TextGrows ==
    ASSUME NEW i \in Requests, NEW a \in 0 .. Length, NEW b \in a .. Length, a # b,
           NEW text \in Seq(Tokens), OwnText(text, i, a), NEW chunk, Part(chunk, i, a, b)
    PROVE  LET t == mergePendingStreamChunk(text, chunk)
           IN  /\ t \in Seq(Tokens) /\ OwnText(t, i, b) /\ t # <<>>
               /\ \A o \in 0 .. a : After(text, i, o) => After(t, i, o)
               /\ \A o \in 0 .. a :
                    ~RepeatsItself(i) /\ text = Piece(i, o, a) => t = Piece(i, o, b)
  <1>0. Length \in Nat /\ a \in Nat /\ b \in Nat /\ a < b /\ b <= Length /\ i # 0
     BY LengthAssumption, ScenariosAssumption DEF Requests
  <1>. DEFINE t == mergePendingStreamChunk(text, chunk)
  <1>1. chunk \in Seq(Tokens) /\ chunk # <<>>
     BY DEF Part
  <1>2. PICK k \in 0 .. Len(chunk) :
           /\ getAppendableChunk(text, chunk) = SubSeq(chunk, k + 1, Len(chunk))
           /\ k = 0 \/ (k = Len(text) /\ text # <<>> /\ StartsWith(chunk, text))
     BY <1>1, Appendable
  <1>3. PICK d, l, c : d = SubSeq(chunk, k + 1, Len(chunk)) /\ l = Len(text) /\ c = Len(chunk)
     OBVIOUS
  <1>4. /\ l \in Nat /\ c \in Nat /\ k \in Nat /\ k <= c /\ c >= 1
        /\ DOMAIN text = 1 .. l /\ DOMAIN chunk = 1 .. c
     BY <1>1, <1>3
  <1>5. d \in Seq(Tokens) /\ Len(d) = c - k /\ \A x \in 1 .. c - k : d[x] = chunk[k + x]
     BY <1>1, <1>3, <1>4
  <1>6. t = text \o d
     BY <1>2, <1>3 DEF mergePendingStreamChunk
  <1>. HIDE DEF t
  <1>7. /\ t \in Seq(Tokens) /\ Len(t) = l + (c - k) /\ DOMAIN t = 1 .. l + (c - k)
        /\ \A x \in 1 .. l : t[x] = text[x]
        /\ \A x \in l + 1 .. l + (c - k) : t[x] = chunk[k + (x - l)] /\ k + (x - l) \in 1 .. c
    <2>1. /\ t \in Seq(Tokens) /\ Len(t) = l + (c - k)
          /\ \A x \in 1 .. l + (c - k) : t[x] = IF x <= l THEN text[x] ELSE d[x - l]
      <3>1. /\ t \in Seq(Tokens) /\ Len(t) = Len(text) + Len(d)
            /\ \A x \in 1 .. Len(text) + Len(d) :
                 t[x] = IF x <= Len(text) THEN text[x] ELSE d[x - Len(text)]
         BY <1>5, <1>6, ConcatProperties
      <3>. QED  BY <1>3, <1>5, <3>1
    <2>2. DOMAIN t = 1 .. l + (c - k)
       BY <2>1
    <2>3. \A x \in 1 .. l : t[x] = text[x]
       BY <1>4, <2>1
    <2>4. ASSUME NEW x \in l + 1 .. l + (c - k)
          PROVE  t[x] = chunk[k + (x - l)] /\ k + (x - l) \in 1 .. c
      <3>1. x \in 1 .. l + (c - k) /\ ~(x <= l) /\ x - l \in 1 .. c - k
         BY <1>4
      <3>2. t[x] = d[x - l]
         BY <2>1, <3>1
      <3>. QED  BY <1>4, <1>5, <3>1, <3>2
    <2>. QED  BY <2>1, <2>2, <2>3, <2>4
  <1>8. /\ \A x \in 1 .. l : text[x].pos \in Nat
        /\ \A x \in 1 .. c : chunk[x].pos \in Nat
    <2>1. /\ \A x \in 1 .. l : text[x] \in Tokens
          /\ \A x \in 1 .. c : chunk[x] \in Tokens
       BY <1>1, <1>4
    <2>. QED  BY <2>1 DEF Tokens
  <1>9. \A x \in 1 .. c : chunk[x].req = i /\ chunk[x].pos > a
     BY <1>4 DEF Part
  <1>10. /\ \A x \in 1 .. c : chunk[x].pos <= b
         /\ \A x, y \in 1 .. c : x < y => chunk[x].pos < chunk[y].pos
    <2>1. OwnText(chunk, i, b)
       BY DEF Part
    <2>2. \A x \in 1 .. c : chunk[x].req # 0
       BY <1>0, <1>9
    <2>. QED  BY <1>4, <2>1, <2>2 DEF OwnText
  <1>11. /\ \A x \in 1 .. l : text[x].req # 0 => text[x].req = i /\ text[x].pos <= a
         /\ \A x, y \in 1 .. l : x < y /\ text[x].req # 0 /\ text[y].req # 0
              => text[x].pos < text[y].pos
     BY <1>4 DEF OwnText
  <1>12. OwnText(t, i, b)
    <2>. SUFFICES ASSUME NEW x \in DOMAIN t, t[x].req # 0
                  PROVE  /\ t[x].req = i /\ t[x].pos <= b
                         /\ \A y \in DOMAIN t : x < y /\ t[y].req # 0 => t[x].pos < t[y].pos
       BY DEF OwnText
    <2>1. CASE x \in 1 .. l
      <3>1. t[x].req = i /\ t[x].pos <= a /\ t[x].pos \in Nat
         BY <1>7, <1>8, <1>11, <2>1
      <3>2. ASSUME NEW y \in DOMAIN t, x < y, t[y].req # 0 PROVE t[x].pos < t[y].pos
        <4>1. CASE y \in 1 .. l
           BY <1>7, <1>11, <2>1, <3>2, <4>1
        <4>2. CASE y \in l + 1 .. l + (c - k)
          <5>0. PICK z \in 1 .. c : t[y] = chunk[z]
             BY <1>7, <4>2
          <5>1. t[y].pos > a /\ t[y].pos \in Nat
             BY <1>8, <1>9, <5>0
          <5>. QED  BY <1>0, <3>1, <5>1
        <4>3. y \in 1 .. l + (c - k)
           BY <1>7, Zenon
        <4>. QED  BY <1>4, <4>1, <4>2, <4>3
      <3>. QED  BY <1>0, <3>1, <3>2
    <2>2. CASE x \in l + 1 .. l + (c - k)
      <3>1. /\ t[x] = chunk[k + (x - l)] /\ k + (x - l) \in 1 .. c
         BY <1>7, <2>2
      <3>2. ASSUME NEW y \in DOMAIN t, x < y PROVE t[x].pos < t[y].pos
        <4>1. y \in l + 1 .. l + (c - k)
           BY <1>4, <1>7, <2>2, <3>2
        <4>2. t[y] = chunk[k + (y - l)] /\ k + (y - l) \in 1 .. c
           BY <1>7, <4>1
        <4>3. PICK v, w : v = k + (x - l) /\ w = k + (y - l)
           OBVIOUS
        <4>4. v < w /\ v \in 1 .. c /\ w \in 1 .. c /\ t[x] = chunk[v] /\ t[y] = chunk[w]
           BY <1>4, <2>2, <3>1, <3>2, <4>1, <4>2, <4>3
        <4>. QED  BY <1>10, <4>4
      <3>3. PICK v \in 1 .. c : t[x] = chunk[v]
         BY <3>1
      <3>4. t[x].req = i /\ t[x].pos <= b
         BY <1>9, <1>10, <3>3
      <3>. QED  BY <3>2, <3>4
    <2>3. x \in 1 .. l + (c - k)
       BY <1>7, Zenon
    <2>. QED  BY <1>4, <2>1, <2>2, <2>3
  <1>13. t # <<>>
    <2>1. l + (c - k) >= 1
      <3>1. CASE k = 0
         BY <1>4, <3>1
      <3>2. CASE k = Len(text) /\ text # <<>>
         BY <1>3, <1>4, <3>2
      <3>. QED  BY <1>2, <3>1, <3>2
    <2>. QED  BY <1>7, <2>1
  <1>14. ASSUME NEW o \in 0 .. a, After(text, i, o) PROVE After(t, i, o)
    <2>. SUFFICES ASSUME NEW x \in DOMAIN t PROVE t[x].req = i /\ t[x].pos > o
       BY DEF After
    <2>1. CASE x \in 1 .. l
       BY <1>4, <1>7, <1>14, <2>1 DEF After
    <2>2. CASE x \in l + 1 .. l + (c - k)
      <3>1. t[x].req = i /\ t[x].pos > a /\ t[x].pos \in Nat
         BY <1>7, <1>8, <1>9, <2>2
      <3>. QED  BY <1>0, <3>1
    <2>3. x \in 1 .. l + (c - k)
       BY <1>7, Zenon
    <2>. QED  BY <1>4, <2>1, <2>2, <2>3
  <1>15. ASSUME NEW o \in 0 .. a, ~RepeatsItself(i), text = Piece(i, o, a)
         PROVE  t = Piece(i, o, b)
    <2>1. chunk = Piece(i, a, b)
       BY <1>15 DEF Part
    <2>2. ~(text # <<>> /\ StartsWith(chunk, text))
      <3>1. o = a => text = <<>>
         BY <1>0, <1>15, PieceEmpty
      <3>. QED  BY <1>15, <2>1, <3>1, NoEcho
    <2>3. t = text \o chunk
       BY <2>2 DEF getAppendableChunk, mergePendingStreamChunk, t
    <2>. QED  BY <1>15, <2>1, <2>3, PiecesJoin
  <1>. QED  BY <1>7, <1>12, <1>13, <1>14, <1>15 DEF t

\* The next chunk joins what is pending.
LEMMA PartGrows ==
    ASSUME NEW i \in Requests, NEW a \in 0 .. Length, NEW b \in a .. Length, a # b,
           NEW o \in 0 .. a, NEW text, Part(text, i, o, a), NEW chunk, Part(chunk, i, a, b)
    PROVE  Part(mergePendingStreamChunk(text, chunk), i, o, b)
  <1>1. PICK t : t = mergePendingStreamChunk(text, chunk)
     OBVIOUS
  <1>2. text \in Seq(Tokens) /\ OwnText(text, i, a) /\ After(text, i, o)
     BY DEF Part, After
  <1>3. /\ t \in Seq(Tokens) /\ OwnText(t, i, b) /\ t # <<>>
        /\ \A p \in 0 .. a : After(text, i, p) => After(t, i, p)
        /\ \A p \in 0 .. a : ~RepeatsItself(i) /\ text = Piece(i, p, a) => t = Piece(i, p, b)
     BY <1>1, <1>2, TextGrows
  <1>4. After(t, i, o) /\ (~RepeatsItself(i) => t = Piece(i, o, b))
     BY <1>2, <1>3 DEF Part
  <1>. QED  BY <1>1, <1>3, <1>4 DEF Part, After

----------------------------------------------------------------------------
\* Messages

\* An update made by the chat handler.
Patches == {"chunks", "complete", "error", "response"}

\* A typed text, an empty one and a whole reply are texts of their request.
LEMMA OwnTexts ==
    /\ Typed \in Seq(Tokens)
    /\ \A i, c : OwnText(Typed, i, c) /\ OwnText(<<>>, i, c)
    /\ \A i \in Requests : ReplyOf(i) \in Seq(Tokens) /\ OwnText(ReplyOf(i), i, Length)
  <1>1. [req |-> 0, pos |-> 1, char |-> "typed"] \in Tokens
     BY LengthAssumption DEF Tokens, Characters
  <1>2. Typed \in Seq(Tokens) /\ \A i, c : OwnText(Typed, i, c)
     BY <1>1 DEF Typed, OwnText
  <1>3. \A i, c : OwnText(<<>>, i, c)
     BY DEF OwnText
  <1>4. ASSUME NEW i \in Requests
        PROVE  ReplyOf(i) \in Seq(Tokens) /\ OwnText(ReplyOf(i), i, Length)
    <2>1. \A x \in 1 .. Length : [req |-> i, pos |-> x, char |-> Says[i][x]] \in Tokens
       BY DEF Tokens, Characters
    <2>2. ReplyOf(i) \in Seq(Tokens)
       BY <2>1, LengthAssumption DEF ReplyOf
    <2>3. OwnText(ReplyOf(i), i, Length)
       BY LengthAssumption DEF ReplyOf, OwnText
    <2>. QED  BY <2>2, <2>3
  <1>. QED  BY <1>2, <1>3, <1>4

\* A text of the first c tokens is one of the first d.
LEMMA OwnTextMore ==
    ASSUME NEW text \in Seq(Tokens), NEW i, NEW c \in Nat, NEW d \in Nat, c <= d,
           OwnText(text, i, c)
    PROVE  OwnText(text, i, d)
  <1>1. ASSUME NEW a \in DOMAIN text PROVE text[a].pos \in Nat
    <2>1. text[a] \in Tokens
       OBVIOUS
    <2>. QED  BY <2>1 DEF Tokens
  <1>. QED  BY <1>1 DEF OwnText

\* applyStreamingChunk adds the next tokens to the message of the request.
LEMMA Chunked ==
    ASSUME NEW e, NEW i \in Requests, NEW a \in 0 .. Length, NEW b \in a .. Length, a # b,
           NEW m \in Messages, m.from = "assistant", m.key = i, Sound(m, e),
           OwnText(m.text, i, a), ~e => Filled(m, i, a), NEW chunk, Part(chunk, i, a, b)
    PROVE  LET r == applyStreamingChunk(m, chunk)
           IN  /\ r \in Messages /\ r.from = "assistant" /\ r.key = i /\ Sound(r, e)
               /\ OwnText(r.text, i, b) /\ (~e => Filled(r, i, b))
  <1>0. a \in Nat /\ b \in Nat /\ a <= b /\ b <= Length /\ Length \in Nat /\ 0 \in 0 .. a
     BY LengthAssumption
  <1>1. m.text \in Seq(Tokens)
     BY DEF Messages
  <1>2. CASE m.st = "error"
    <2>1. applyStreamingChunk(m, chunk) = m
       BY <1>2 DEF applyStreamingChunk
    <2>2. OwnText(m.text, i, b)
       BY <1>0, <1>1, OwnTextMore
    <2>. QED  BY <1>2, <2>1, <2>2 DEF Filled, Pending
  <1>3. CASE m.st # "error"
    <2>1. PICK s, t : s = m.text /\ t = mergePendingStreamChunk(s, chunk)
       OBVIOUS
    <2>2. /\ t \in Seq(Tokens) /\ OwnText(t, i, b)
          /\ \A o \in 0 .. a : ~RepeatsItself(i) /\ s = Piece(i, o, a) => t = Piece(i, o, b)
      <3>1. s \in Seq(Tokens) /\ OwnText(s, i, a)
         BY <1>1, <2>1
      <3>. QED  BY <2>1, <3>1, TextGrows
    <2>3. PICK r : r = [m EXCEPT !.text = t, !.st = "streaming"]
       OBVIOUS
    <2>4. applyStreamingChunk(m, chunk) = r
       BY <1>3, <2>1, <2>3 DEF applyStreamingChunk, mergePendingStreamChunk
    <2>5. OwnText(t, i, Length)
       BY <1>0, <2>2, OwnTextMore
    <2>6. /\ r \in Messages /\ r.from = "assistant" /\ r.key = i /\ r.text = t
          /\ r.st = "streaming"
       BY <2>2, <2>3 DEF Messages
    <2>7. ~e => Filled(r, i, b)
       BY <1>0, <2>1, <2>2, <2>6 DEF Filled, Pending
    <2>. QED  BY <2>2, <2>4, <2>5, <2>6, <2>7 DEF Sound, Whole
  <1>. QED  BY <1>2, <1>3

\* The other updates end the reply; "complete" may say so only of a whole one.
LEMMA Ended ==
    ASSUME NEW e, NEW i, NEW u \in Updates,
           u.k \in {"complete", "error", "response"},
           NEW m \in Messages, m.from = "assistant", Sound(m, e),
           u.k = "complete" /\ u.text # <<>> /\ ~e /\ ~RepeatsItself(m.key)
             => m.text = ReplyOf(m.key),
           u.k = "response" => m.key = i /\ u.text = ReplyOf(i)
    PROVE  LET r == Patched(u, m)
           IN  r \in Messages /\ Sound(r, e) /\ ~Pending(r)
  <1>. DEFINE r == Patched(u, m)
  <1>1. CASE u.k = "complete"
    <2>1. r = completeAssistantMessage(m, IF u.text = <<>> THEN "stop" ELSE "done")
       BY <1>1 DEF Patched
    <2>2. CASE m.st \in {"complete", "error"}
       BY <2>1, <2>2 DEF completeAssistantMessage, Pending
    <2>3. CASE m.st \notin {"complete", "error"}
      <3>1. r = [m EXCEPT !.st = "complete", !.by = IF u.text = <<>> THEN "stop" ELSE "done"]
         BY <2>1, <2>3 DEF completeAssistantMessage
      <3>. HIDE DEF r
      <3>2. /\ r \in Messages /\ r.text = m.text /\ r.key = m.key /\ r.st = "complete"
            /\ r.from = "assistant" /\ r.by = IF u.text = <<>> THEN "stop" ELSE "done"
         BY <3>1 DEF Messages
      <3>. QED  BY <1>1, <3>2 DEF Sound, Whole, Pending, r
    <2>. QED  BY <2>2, <2>3
  <1>2. CASE u.k = "error"
    <2>1. r = [m EXCEPT !.st = "error", !.text = Typed]
       BY <1>2 DEF Patched
    <2>. HIDE DEF r
    <2>2. r \in Messages /\ r.text = Typed /\ r.st = "error" /\ r.from = "assistant"
       BY <2>1, OwnTexts DEF Messages
    <2>. QED  BY <2>2, OwnTexts DEF Sound, Whole, Pending, r
  <1>3. CASE u.k = "response"
    <2>1. r = [m EXCEPT !.st = "complete", !.text = ReplyOf(i), !.by = "response"]
       BY <1>3 DEF Patched
    <2>. HIDE DEF r
    <2>2. /\ r \in Messages /\ r.text = ReplyOf(i) /\ r.st = "complete"
          /\ r.from = "assistant" /\ r.key = i
      <3>1. i \in Requests
         BY <1>3 DEF Messages
      <3>. QED  BY <1>3, <2>1, <3>1, OwnTexts DEF Messages
    <2>3. i \in Requests
       BY <1>3 DEF Messages
    <2>. QED  BY <2>2, <2>3, OwnTexts DEF Sound, Whole, Pending, r
  <1>. QED  BY <1>1, <1>2, <1>3

\* updateLastAssistantMessage changes nothing but the last message.
LEMMA LastChanged ==
    ASSUME NEW e, NEW ms, Good(ms, e), ms # <<>>, NEW m \in Messages, Sound(m, e),
           NEW r, r = [ms EXCEPT ![Len(ms)] = m]
    PROVE  /\ Good(r, e) /\ r # <<>> /\ Last(r) = m
           /\ ~Pending(m) => Quiet(r, e)
  <1>1. /\ ms \in Seq(Messages) /\ Len(ms) \in Nat /\ Len(ms) >= 1
        /\ DOMAIN ms = 1 .. Len(ms)
     BY DEF Good
  <1>2. r \in Seq(Messages) /\ Len(r) = Len(ms) /\ DOMAIN r = DOMAIN ms
     BY <1>1
  <1>3. r[Len(ms)] = m /\ \A n \in DOMAIN ms : n # Len(ms) => r[n] = ms[n]
     BY <1>1
  <1>4. Good(r, e)
     BY <1>2, <1>3 DEF Good
  <1>5. r # <<>> /\ Last(r) = m
     BY <1>1, <1>2, <1>3 DEF Last
  <1>6. ~Pending(m) => Quiet(r, e)
     BY <1>2, <1>3 DEF Good, Quiet
  <1>. QED  BY <1>4, <1>5, <1>6

\* updateLastAssistantMessage with an updater of the present generation.
LEMMA AppliedLast ==
    ASSUME NEW e, NEW ms, Good(ms, e), NEW u, u.k \in Patches, NEW g, u.g = g
    PROVE  /\ ms # <<>> /\ Last(ms).from = "assistant" =>
                Applied(ms, u, g) = [ms EXCEPT ![Len(ms)] = Patched(u, Last(ms))]
           /\ ~(ms # <<>> /\ Last(ms).from = "assistant") => Applied(ms, u, g) = ms
           /\ ms # <<>> => Last(ms) \in Messages /\ Sound(Last(ms), e)
  <1>1. ms # <<>> => Last(ms) \in Messages /\ Sound(Last(ms), e)
     BY DEF Good, Last
  <1>2. UpdaterCurrent(u, g) /\ u.k # "set" /\ u.k # "remove"
     BY DEF UpdaterCurrent, Patches
  <1>3. ms # <<>> /\ Last(ms).from = "assistant" =>
           Applied(ms, u, g) = [ms EXCEPT ![Len(ms)] = Patched(u, Last(ms))]
     BY <1>2 DEF Applied, Last
  <1>4. ~(ms # <<>> /\ Last(ms).from = "assistant") => Applied(ms, u, g) = ms
     BY <1>2 DEF Applied
  <1>. QED  BY <1>1, <1>3, <1>4

\* The pending chunks of the request that is served reach its message.
LEMMA ChunksApplied ==
    ASSUME NEW e, NEW i \in Requests, NEW a \in 0 .. Length, NEW b \in a .. Length, a # b,
           NEW g, NEW ms, Good(ms, e), Serves(ms, i, a, e), NEW chunk, Part(chunk, i, a, b),
           NEW u, u = Update("chunks", g, chunk)
    PROVE  Good(Applied(ms, u, g), e) /\ Serves(Applied(ms, u, g), i, b, e)
  <1>. DEFINE m == applyStreamingChunk(Last(ms), chunk)
              r == Applied(ms, u, g)
  <1>1. u.k = "chunks" /\ u.g = g /\ u.text = chunk /\ u.k \in Patches
     BY DEF Update, Patches
  <1>2. /\ ms # <<>> /\ Last(ms).from = "assistant" /\ Last(ms).key = i
        /\ OwnText(Last(ms).text, i, a)
        /\ ~e => Filled(Last(ms), i, a)
     BY DEF Serves, Carries
  <1>3. Last(ms) \in Messages /\ Sound(Last(ms), e)
     BY <1>1, <1>2, AppliedLast
  <1>4. Patched(u, Last(ms)) = m
     BY <1>1 DEF Patched
  <1>5. r = [ms EXCEPT ![Len(ms)] = m]
     BY <1>1, <1>2, <1>4, AppliedLast
  <1>6. /\ m \in Messages /\ m.from = "assistant" /\ m.key = i /\ Sound(m, e)
        /\ OwnText(m.text, i, b) /\ (~e => Filled(m, i, b))
    <2>1. PICK l : l = Last(ms)
       OBVIOUS
    <2>2. /\ l \in Messages /\ l.from = "assistant" /\ l.key = i /\ Sound(l, e)
          /\ OwnText(l.text, i, a) /\ (~e => Filled(l, i, a))
       BY <1>2, <1>3, <2>1
    <2>3. PICK t : t = applyStreamingChunk(l, chunk)
       OBVIOUS
    <2>4. /\ t \in Messages /\ t.from = "assistant" /\ t.key = i /\ Sound(t, e)
          /\ OwnText(t.text, i, b) /\ (~e => Filled(t, i, b))
       BY <2>2, <2>3, Chunked
    <2>. QED  BY <2>1, <2>3, <2>4
  <1>. HIDE DEF m, r
  <1>7. Good(r, e) /\ r # <<>> /\ Last(r) = m
     BY <1>2, <1>5, <1>6, LastChanged
  <1>8. Serves(r, i, b, e)
     BY <1>6, <1>7 DEF Serves, Carries
  <1>. QED  BY <1>7, <1>8 DEF r

\* [DONE], an error, an answer without streaming or a stop leaves none pending.
LEMMA EndApplied ==
    ASSUME NEW e, NEW i, NEW g, NEW ms, Good(ms, e),
           NEW u \in Updates, u.g = g, u.k \in {"complete", "error", "response"},
           \/ u.k = "complete" /\ u.text = <<>>
           \/ u.k = "error"
           \/ u.k = "complete" /\ Serves(ms, i, Length, e)
           \/ u.k = "response" /\ u.text = ReplyOf(i) /\ Serves(ms, i, 0, e)
    PROVE  Good(Applied(ms, u, g), e) /\ Quiet(Applied(ms, u, g), e)
  <1>. DEFINE r == Applied(ms, u, g)
              m == Patched(u, Last(ms))
  <1>0. u.k \in Patches
     BY DEF Patches
  <1>1. CASE ms # <<>> /\ Last(ms).from = "assistant"
    <2>1. Last(ms) \in Messages /\ Sound(Last(ms), e)
       BY <1>0, <1>1, AppliedLast
    <2>2. r = [ms EXCEPT ![Len(ms)] = m]
       BY <1>0, <1>1, AppliedLast
    <2>3. u.k = "complete" /\ u.text # <<>> /\ ~e /\ ~RepeatsItself(Last(ms).key)
            => Last(ms).text = ReplyOf(Last(ms).key)
       BY PieceWhole DEF Serves, Carries, Filled
    <2>4. u.k = "response" => Last(ms).key = i /\ u.text = ReplyOf(i)
       BY DEF Serves, Carries
    <2>5. m \in Messages /\ Sound(m, e) /\ ~Pending(m)
       BY <1>1, <2>1, <2>3, <2>4, Ended
    <2>. HIDE DEF r, m
    <2>6. Good(r, e) /\ Quiet(r, e)
       BY <1>1, <2>2, <2>5, LastChanged
    <2>. QED  BY <2>6 DEF r
  <1>2. CASE ~(ms # <<>> /\ Last(ms).from = "assistant")
    <2>1. r = ms
       BY <1>0, <1>2, AppliedLast
    <2>2. ASSUME NEW n \in DOMAIN ms, ~e PROVE ~Pending(ms[n])
      <3>1. ms \in Seq(Messages) /\ ms # <<>>
         BY <2>2 DEF Good
      <3>2. n # Len(ms) => ~Pending(ms[n])
         BY <2>2 DEF Good
      <3>3. n = Len(ms) => ~Pending(ms[n])
         BY <1>2, <3>1 DEF Pending, Last
      <3>. QED  BY <3>2, <3>3
    <2>. QED  BY <2>1, <2>2 DEF Quiet
  <1>. QED  BY <1>1, <1>2

\* Sending: a user's message and an empty reply are appended.
LEMMA PairAppended ==
    ASSUME NEW e, NEW i \in Requests, NEW ms, Good(ms, e), Quiet(ms, e)
    PROVE  LET r == appendUserMessagePair(ms, i) IN Good(r, e) /\ Serves(r, i, 0, e)
  <1>. DEFINE r == appendUserMessagePair(ms, i)
  <1>1. /\ User(i) \in Messages /\ Loading(i) \in Messages
     BY OwnTexts DEF User, Loading, Messages
  <1>2. Sound(User(i), e) /\ ~Pending(User(i)) /\ Sound(Loading(i), e)
     BY OwnTexts DEF User, Loading, Sound, Whole, Pending
  <1>3. ms \in Seq(Messages) /\ Len(ms) \in Nat
     BY DEF Good
  <1>4. /\ r \in Seq(Messages) /\ Len(r) = Len(ms) + 2
        /\ r[Len(ms) + 1] = User(i) /\ r[Len(ms) + 2] = Loading(i)
        /\ \A n \in 1 .. Len(ms) : r[n] = ms[n]
    <2>1. r = ms \o <<User(i), Loading(i)>>
       BY DEF appendUserMessagePair
    <2>2. PICK x, y : x = User(i) /\ y = Loading(i)
       OBVIOUS
    <2>3. x \in Messages /\ y \in Messages /\ r = ms \o <<x, y>>
       BY <1>1, <2>1, <2>2
    <2>. HIDE DEF r
    <2>4. r \in Seq(Messages) /\ Len(r) = Len(ms) + 2
       BY <1>3, <2>3
    <2>5. r[Len(ms) + 1] = x /\ r[Len(ms) + 2] = y
       BY <1>3, <2>3
    <2>6. \A n \in 1 .. Len(ms) : r[n] = ms[n]
       BY <1>3, <2>3
    <2>. QED  BY <2>2, <2>4, <2>5, <2>6
  <1>. HIDE DEF r
  <1>5. ASSUME NEW n \in DOMAIN r
        PROVE  Sound(r[n], e) /\ (~e /\ n # Len(r) => ~Pending(r[n]))
    <2>1. CASE n \in 1 .. Len(ms)
       BY <1>3, <1>4, <2>1 DEF Good, Quiet
    <2>2. n \notin 1 .. Len(ms) => n = Len(ms) + 1 \/ n = Len(ms) + 2
       BY <1>3, <1>4
    <2>. QED  BY <1>2, <1>4, <2>1, <2>2
  <1>6. Good(r, e)
     BY <1>4, <1>5 DEF Good
  <1>7. r # <<>> /\ Last(r) = Loading(i)
     BY <1>3, <1>4 DEF Last
  <1>8. Serves(r, i, 0, e)
     BY <1>7, OwnTexts, PieceEmpty DEF Serves, Filled, Carries, Loading, Pending
  <1>. QED  BY <1>6, <1>8 DEF r

\* Regenerating: the messages after a point give way to an empty reply.
LEMMA CutAppended ==
    ASSUME NEW e, NEW i \in Requests, NEW ms, Good(ms, e), Quiet(ms, e), NEW k \in 0 .. Len(ms)
    PROVE  LET r == Append(SubSeq(ms, 1, k), Loading(i)) IN Good(r, e) /\ Serves(r, i, 0, e)
  <1>. DEFINE r == Append(SubSeq(ms, 1, k), Loading(i))
              s == SubSeq(ms, 1, k)
  <1>1. Loading(i) \in Messages
     BY OwnTexts DEF Loading, Messages
  <1>2. Sound(Loading(i), e)
     BY OwnTexts DEF Loading, Sound, Whole
  <1>3. ms \in Seq(Messages) /\ Len(ms) \in Nat /\ k \in Nat
     BY DEF Good
  <1>4. s \in Seq(Messages) /\ Len(s) = k /\ \A n \in 1 .. k : s[n] = ms[n]
     BY <1>3
  <1>. HIDE DEF s
  <1>5. /\ r \in Seq(Messages) /\ Len(r) = k + 1 /\ r[k + 1] = Loading(i)
        /\ \A n \in 1 .. k : r[n] = ms[n]
    <2>1. r = Append(s, Loading(i))
       BY DEF s
    <2>. QED  BY <1>1, <1>3, <1>4, <2>1
  <1>. HIDE DEF r
  <1>6. ASSUME NEW n \in DOMAIN r
        PROVE  Sound(r[n], e) /\ (~e /\ n # Len(r) => ~Pending(r[n]))
    <2>1. CASE n \in 1 .. k
      <3>1. n \in DOMAIN ms /\ r[n] = ms[n]
         BY <1>3, <1>5, <2>1
      <3>. QED  BY <3>1 DEF Good, Quiet
    <2>2. n \notin 1 .. k => n = k + 1
       BY <1>3, <1>5
    <2>. QED  BY <1>2, <1>5, <2>1, <2>2
  <1>7. Good(r, e)
     BY <1>5, <1>6 DEF Good
  <1>8. r # <<>> /\ Last(r) = Loading(i)
     BY <1>3, <1>5 DEF Last
  <1>9. Serves(r, i, 0, e)
     BY <1>8, OwnTexts, PieceEmpty DEF Serves, Filled, Carries, Loading, Pending
  <1>. QED  BY <1>7, <1>9 DEF r

\* Deleting, when none is pending.
LEMMA Removed ==
    ASSUME NEW e, NEW ms, Good(ms, e), Quiet(ms, e), NEW k
    PROVE  Good(removeMessageByKey(ms, k), e) /\ Quiet(removeMessageByKey(ms, k), e)
  <1>. DEFINE R == {ms[n] : n \in DOMAIN ms}
  <1>1. ms \in Seq(Messages)
     BY DEF Good
  <1>2. PICK r : r = removeMessageByKey(ms, k) /\ r \in Seq(R)
     BY <1>1, RemoveKeeps
  <1>3. \A x \in R : x \in Messages /\ Sound(x, e) /\ (~e => ~Pending(x))
     BY <1>1 DEF Good, Quiet
  <1>. HIDE DEF R
  <1>4. \A n \in DOMAIN r : r[n] \in R
     BY <1>2
  <1>5. r \in Seq(Messages)
    <2>1. R \subseteq Messages
       BY <1>3
    <2>. QED  BY <1>2, <2>1, SeqMonotonic
  <1>. QED  BY <1>2, <1>3, <1>4, <1>5 DEF Good, Quiet

\* There are editors.
Editors(e) == e = TRUE

\* Saving an editor writes a typed text into a message.
LEMMA Edited ==
    ASSUME NEW e, Editors(e), NEW ms, Good(ms, e), NEW n \in DOMAIN ms,
           NEW x \in Messages, x.from = ms[n].from, x.key = ms[n].key, x.text = Typed,
           NEW r, r = [ms EXCEPT ![n] = x]
    PROVE  /\ Good(r, e)
           /\ \A i, c : Carries(ms, i, c) => Carries(r, i, c)
  <1>1. ms \in Seq(Messages) /\ \A k \in DOMAIN ms : Sound(ms[k], e)
     BY Zenon DEF Good
  <1>2. Sound(x, e)
     BY OwnTexts DEF Sound, Editors
  <1>3. /\ r \in Seq(Messages) /\ Len(r) = Len(ms) /\ DOMAIN r = DOMAIN ms
        /\ r[n] = x /\ \A k \in DOMAIN ms : k # n => r[k] = ms[k]
     BY <1>1
  <1>4. Good(r, e)
     BY <1>1, <1>2, <1>3 DEF Good, Editors
  <1>5. ASSUME NEW i, NEW c, Carries(ms, i, c) PROVE Carries(r, i, c)
    <2>1. ms # <<>> /\ r # <<>> /\ Len(ms) \in DOMAIN ms
       BY <1>1, <1>3, <1>5 DEF Carries
    <2>2. CASE n = Len(ms)
      <3>1. Last(r) = x /\ Last(ms) = ms[n]
         BY <1>3, <2>2 DEF Last
      <3>. QED  BY <1>5, <2>1, <3>1, OwnTexts DEF Carries
    <2>3. CASE n # Len(ms)
      <3>1. Last(r) = Last(ms)
         BY <1>3, <2>1, <2>3 DEF Last
      <3>. QED  BY <1>5, <2>1, <3>1 DEF Carries
    <2>. QED  BY <2>2, <2>3
  <1>. QED  BY <1>4, <1>5

\* Loading: a pending message gets complete if it has text, and an error if not.
LEMMA Loaded ==
    ASSUME NEW e, NEW ms, Good(ms, e)
    PROVE  Good(loadMessages(ms), e) /\ Quiet(loadMessages(ms), e)
  <1>0. ms \in Seq(Messages) /\ DOMAIN ms = 1 .. Len(ms) /\ Len(ms) \in Nat
     BY DEF Good
  <1>1. PICK nm : nm = Normalized(ms)
     OBVIOUS
  <1>2. ASSUME NEW n \in DOMAIN ms
        PROVE  nm[n] \in Messages /\ Sound(nm[n], e) /\ (Pending(nm[n]) => Pending(ms[n]))
    <2>0. ms[n] \in Messages /\ Sound(ms[n], e)
       BY <1>0 DEF Good
    <2>1. CASE Pending(ms[n]) /\ HasContent(ms[n])
      <3>1. nm[n] = [ms[n] EXCEPT !.st = "complete", !.by = "load"]
         BY <1>1, <2>1 DEF Normalized, completeAssistantMessage, Pending
      <3>2. PICK x, y : x = nm[n] /\ y = ms[n]
         OBVIOUS
      <3>3. /\ x \in Messages /\ x.st = "complete" /\ x.by = "load" /\ x.from = y.from
            /\ x.key = y.key /\ x.text = y.text
         BY <2>0, <3>1, <3>2 DEF Messages
      <3>4. Sound(x, e) /\ ~Pending(x)
         BY <2>0, <3>2, <3>3 DEF Sound, Whole, Pending
      <3>. QED  BY <3>2, <3>3, <3>4
    <2>2. CASE ~(Pending(ms[n]) /\ HasContent(ms[n]))
      <3>1. nm[n] = ms[n]
         BY <1>1, <2>2 DEF Normalized
      <3>. QED  BY <2>0, <3>1
    <2>. QED  BY <2>1, <2>2
  <1>3. nm \in Seq(Messages) /\ DOMAIN nm = DOMAIN ms /\ Len(nm) = Len(ms)
    <2>1. DOMAIN nm = 1 .. Len(ms) /\ nm = [n \in 1 .. Len(ms) |-> nm[n]]
       BY <1>0, <1>1 DEF Normalized
    <2>2. \A n \in 1 .. Len(ms) : nm[n] \in Messages
       BY <1>0, <1>2
    <2>3. nm \in [1 .. Len(ms) -> Messages]
       BY <2>1, <2>2
    <2>. QED  BY <1>0, <2>1, <2>3
  <1>4. Good(nm, e)
     BY <1>2, <1>3 DEF Good
  <1>. DEFINE P == {n \in DOMAIN nm : Pending(nm[n])}
  <1>5. loadMessages(ms) = sanitizeMessagesOnLoad(nm)
     BY <1>1 DEF loadMessages
  <1>6. CASE P = {}
    <2>1. loadMessages(ms) = nm
       BY <1>5, <1>6 DEF sanitizeMessagesOnLoad
    <2>2. Quiet(nm, e)
       BY <1>6 DEF Quiet
    <2>. QED  BY <1>4, <2>1, <2>2
  <1>7. CASE P # {}
    <2>1. PICK p : p = CHOOSE n \in P : \A o \in P : o <= n
       OBVIOUS
    <2>2. PICK r : r = [nm EXCEPT ![p] = [@ EXCEPT !.st = "error", !.text = Typed]]
       OBVIOUS
    <2>3. loadMessages(ms) = r
       BY <1>5, <1>7, <2>1, <2>2, Zenon DEF sanitizeMessagesOnLoad
    <2>4. ~e => P = {Len(nm)} /\ p = Len(nm)
      <3>1. ~e => P \subseteq {Len(nm)}
         BY <1>4 DEF Good
      <3>2. Len(nm) <= Len(nm)
         BY <1>0, <1>3
      <3>3. ~e => P = {Len(nm)}
         BY <1>7, <3>1
      <3>. HIDE DEF P
      <3>4. ~e => \E n \in P : \A o \in P : o <= n
         BY <3>2, <3>3
      <3>5. ~e => p \in P
         BY <2>1, <3>4
      <3>. QED  BY <3>3, <3>5
    <2>. HIDE DEF P
    <2>5. CASE p \notin DOMAIN nm
      <3>1. r = nm
         BY <1>3, <2>2, <2>5
      <3>2. e
         BY <1>7, <2>4, <2>5 DEF P
      <3>. QED  BY <1>4, <2>3, <3>1, <3>2 DEF Quiet
    <2>6. CASE p \in DOMAIN nm
      <3>1. PICK x : x = [nm[p] EXCEPT !.st = "error", !.text = Typed]
         OBVIOUS
      <3>2. x \in Messages /\ x.st = "error" /\ x.text = Typed
        <4>1. nm[p] \in Messages
           BY <1>3, <2>6
        <4>. QED  BY <3>1, <4>1, OwnTexts DEF Messages
      <3>3. Sound(x, e) /\ ~Pending(x)
         BY <3>2, OwnTexts DEF Sound, Whole, Pending
      <3>4. /\ r \in Seq(Messages) /\ DOMAIN r = DOMAIN nm /\ Len(r) = Len(nm)
            /\ r[p] = x /\ \A n \in DOMAIN nm : n # p => r[n] = nm[n]
        <4>1. r = [nm EXCEPT ![p] = x]
           BY <2>2, <3>1
        <4>. QED  BY <1>3, <2>6, <3>2, <4>1
      <3>5. Good(r, e)
         BY <1>4, <3>3, <3>4 DEF Good
      <3>6. Quiet(r, e)
         BY <1>4, <2>4, <3>3, <3>4 DEF Good, Quiet
      <3>. QED  BY <2>3, <3>5, <3>6
    <2>. QED  BY <2>5, <2>6
  <1>. QED  BY <1>6, <1>7

----------------------------------------------------------------------------
\* Queues

\* Both folds of a queue over what is shown are sound.
Folds(q) == /\ Good(Drawn(shown.msgs, q, gen), may.editor)
            /\ Good(Drawn(shown.msgs, q, gen + 1), may.editor)

\* The updates the chat handler queues.
LEMMA UpdateType ==
    ASSUME NEW k \in {"chunks", "complete", "error", "response"}, NEW g \in Nat,
           NEW text \in Seq(Tokens)
    PROVE  /\ Update(k, g, text) \in Updates
           /\ Update(k, g, text).k = k /\ Update(k, g, text).g = g
           /\ Update(k, g, text).text = text
  <1>1. NoKey \in MessageKeys /\ <<>> \in Seq(Messages)
     BY DEF NoKey, MessageKeys
  <1>. QED  BY <1>1 DEF Update, Updates

\* What a stop queues.
LEMMA StopUpdateType ==
    ASSUME NEW g \in Nat, NEW u, u = Update("complete", g, <<>>)
    PROVE  u \in Updates /\ u.k = "complete" /\ u.g = g /\ u.text = <<>>
  <1>1. NoKey \in MessageKeys /\ <<>> \in Seq(Messages) /\ <<>> \in Seq(Tokens)
     BY DEF NoKey, MessageKeys
  <1>. QED  BY <1>1 DEF Update, Updates

\* The last update of the queue sets the messages.
LEMMA SetLast ==
    ASSUME NEW s, NEW q \in Seq(Updates), NEW ms \in Seq(Messages), NEW g
    PROVE  /\ SetMessages(ms) \in Updates
           /\ Append(q, SetMessages(ms)) \in Seq(Updates)
           /\ Append(q, SetMessages(ms)) # <<>>
           /\ Drawn(s, Append(q, SetMessages(ms)), g) = ms
  <1>1. PICK u : u = SetMessages(ms)
     OBVIOUS
  <1>2. u = [k |-> "set", g |-> 0, text |-> <<>>, msgs |-> ms, key |-> NoKey]
     BY <1>1 DEF SetMessages, Update
  <1>3. u \in Updates
    <2>1. NoKey \in MessageKeys /\ <<>> \in Seq(Tokens)
       BY DEF NoKey, MessageKeys
    <2>. QED  BY <1>2, <2>1 DEF Updates
  <1>4. Drawn(s, Append(q, u), g) = Applied(Drawn(s, q, g), u, g)
     BY <1>3, DrawnAppend
  <1>5. Applied(Drawn(s, q, g), u, g) = ms
     BY <1>2 DEF Applied
  <1>. QED  BY <1>1, <1>3, <1>4, <1>5

\* Queueing an update of the present generation, computed at once or not.
LEMMA EnqueuedFolds ==
    ASSUME TypeOK, NEW q \in Seq(Updates), Folds(q),
           NEW u \in Updates, u.k \in Patches, u.g = gen,
           NEW ms, ms = Applied(Drawn(shown.msgs, q, gen), u, gen), Good(ms, may.editor),
           NEW r \in Enqueued(q, u)
    PROVE  /\ r \in Seq(Updates) /\ r # <<>> /\ Folds(r)
           /\ Drawn(shown.msgs, r, gen) = ms
  <1>0. gen \in Nat /\ gen + 1 # gen
     BY DEF TypeOK
  <1>1. CASE r = Append(q, u)
    <2>1. Drawn(shown.msgs, r, gen) = ms
       BY <1>1, DrawnAppend
    <2>2. Drawn(shown.msgs, r, gen + 1) = Applied(Drawn(shown.msgs, q, gen + 1), u, gen + 1)
       BY <1>1, DrawnAppend
    <2>3. Drawn(shown.msgs, r, gen + 1) = Drawn(shown.msgs, q, gen + 1)
       BY <1>0, <2>2 DEF Applied, UpdaterCurrent, Patches
    <2>. QED  BY <1>1, <2>1, <2>3 DEF Folds
  <1>2. CASE r # Append(q, u)
    <2>1. q = <<>> /\ r = <<SetMessages(Applied(shown.msgs, u, gen))>>
       BY <1>2 DEF Enqueued
    <2>2. ms = Applied(shown.msgs, u, gen)
       BY <2>1, DrawnEmpty
    <2>3. r = Append(q, SetMessages(ms))
       BY <2>1, <2>2
    <2>4. ms \in Seq(Messages)
       BY DEF Good
    <2>5. /\ r \in Seq(Updates) /\ r # <<>>
          /\ Drawn(shown.msgs, r, gen) = ms /\ Drawn(shown.msgs, r, gen + 1) = ms
       BY <2>3, <2>4, SetLast
    <2>. QED  BY <2>5 DEF Folds
  <1>. QED  BY <1>1, <1>2

----------------------------------------------------------------------------
\* What the invariant says of a state

RequestType == [g : Nat, ph : {"headers", "open", "wait", "cut", "done"}, n : 0 .. Length]
FlagsType == [busy : BOOLEAN, streaming : BOOLEAN]
ShownType == [msgs : Seq(Messages), busy : BOOLEAN, streaming : BOOLEAN, edit : MessageKeys]
SaveType == [latest : Seq(Messages), timer : BOOLEAN]

\* What the type invariant says of the parts of the state.
LEMMA Types ==
    ASSUME TypeOK
    PROVE  /\ shown \in ShownType /\ flags \in FlagsType /\ save \in SaveType
           /\ shown.msgs \in Seq(Messages) /\ queue \in Seq(Updates) /\ gen \in Nat
           /\ may \in ScenarioType /\ may.editor \in BOOLEAN
           /\ req \in Seq(RequestType) /\ Cur \in Nat /\ DOMAIN req = 1 .. Cur /\ Cur <= MaxRequests
           /\ Cur # 0 => Cur \in Requests /\ Cur \in DOMAIN req /\ req[Cur] \in RequestType
           /\ \A i \in DOMAIN req : i \in Requests /\ req[i] \in RequestType
           /\ shown.edit \in MessageKeys
  <1>1. /\ shown \in ShownType /\ flags \in FlagsType /\ save \in SaveType
        /\ queue \in Seq(Updates) /\ gen \in Nat /\ may \in ScenarioType
        /\ req \in Seq(RequestType) /\ Len(req) <= MaxRequests
     BY DEF TypeOK, RequestType, FlagsType, ShownType, SaveType
  <1>2. shown.msgs \in Seq(Messages) /\ shown.edit \in MessageKeys /\ may.editor \in BOOLEAN
     BY <1>1 DEF ShownType, ScenarioType
  <1>3. Cur \in Nat /\ DOMAIN req = 1 .. Cur
     BY <1>1 DEF Cur
  <1>4. \A i \in DOMAIN req : i \in Requests /\ req[i] \in RequestType
     BY <1>1, <1>3, ScenariosAssumption DEF Cur, Requests
  <1>5. Cur # 0 => Cur \in DOMAIN req
     BY <1>3
  <1>. QED  BY <1>1, <1>2, <1>3, <1>4, <1>5 DEF Cur

\* Nothing is queued or pending while the page shows no generation.
LEMMA NotGenerating ==
    ASSUME IInv, ~isGenerating
    PROVE  /\ ~flags.busy /\ ~Active /\ queue = <<>> /\ pend.text = <<>>
           /\ Now = shown.msgs /\ Quiet(shown.msgs, may.editor)
  <1>1. ~flags.busy /\ queue = <<>> /\ ~Active
     BY DEF IInv, FlagsOK, isGenerating
  <1>2. Now = shown.msgs
     BY <1>1, DrawnEmpty DEF Now
  <1>. QED  BY <1>1, <1>2 DEF IInv, ReplyOK

\* The request at work.
LEMMA AtWork ==
    ASSUME IInv, flags.busy
    PROVE  /\ Cur # 0 /\ Cur \in Requests /\ Cur \in DOMAIN req
           /\ req[Cur].g = gen /\ req[Cur].n \in 0 .. Length /\ shown.busy
           /\ Folds(queue)
           /\ \E c \in 0 .. Length :
                /\ req[Cur].n \in c .. Length
                /\ Serves(Now, Cur, c, may.editor) /\ Carries(shown.msgs, Cur, c)
                /\ Part(pend.text, Cur, c, req[Cur].n)
  <1>1. Cur # 0 /\ req[Cur].g = gen /\ shown.busy
     BY DEF IInv, FlagsOK, Active
  <1>2. Cur \in Requests /\ Cur \in DOMAIN req /\ req[Cur] \in RequestType
     BY <1>1, Types DEF IInv
  <1>3. req[Cur].n \in 0 .. Length
     BY <1>2 DEF RequestType
  <1>4. Folds(queue)
     BY DEF IInv, MessagesOK, Folds, Now
  <1>5. PICK c \in 0 .. req[Cur].n :
              /\ Serves(Now, Cur, c, may.editor) /\ Carries(shown.msgs, Cur, c)
              /\ Part(pend.text, Cur, c, req[Cur].n)
     BY DEF IInv, ReplyOK
  <1>6. c \in 0 .. Length /\ req[Cur].n \in c .. Length
     BY <1>3, LengthAssumption
  <1>. QED  BY <1>1, <1>2, <1>3, <1>4, <1>5, <1>6

\* A message with fewer tokens than n is one of n at most.
LEMMA CarriesMore ==
    ASSUME NEW ms \in Seq(Messages), NEW i, NEW c \in Nat, NEW d \in Nat, c <= d,
           Carries(ms, i, c)
    PROVE  Carries(ms, i, d)
  <1>1. ms # <<>> /\ Last(ms) \in Messages
     BY DEF Carries, Last
  <1>2. Last(ms).text \in Seq(Tokens)
     BY <1>1 DEF Messages
  <1>3. OwnText(Last(ms).text, i, d)
     BY <1>2, OwnTextMore DEF Carries
  <1>. QED  BY <1>3 DEF Carries

\* flushStreamUpdates hands over all that the request at work has sent.
LEMMA Flushed ==
    ASSUME IInv, flags.busy, NEW q \in FlushFirst(gen)
    PROVE  /\ q \in Seq(Updates) /\ Folds(q)
           /\ Serves(Drawn(shown.msgs, q, gen), Cur, req[Cur].n, may.editor)
           /\ Carries(shown.msgs, Cur, req[Cur].n)
  <1>. DEFINE n == req[Cur].n
  <1>1. /\ Cur \in Requests /\ n \in 0 .. Length /\ Folds(queue)
     BY AtWork
  <1>2. PICK c \in 0 .. Length :
                /\ n \in c .. Length
                /\ Serves(Now, Cur, c, may.editor) /\ Carries(shown.msgs, Cur, c)
                /\ Part(pend.text, Cur, c, n)
     BY AtWork
  <1>3. pend.g = gen /\ TypeOK
     BY DEF IInv, ReplyOK
  <1>. HIDE DEF n
  <1>4. Carries(shown.msgs, Cur, n)
    <2>1. c \in Nat /\ n \in Nat /\ c <= n
       BY <1>1, <1>2, LengthAssumption
    <2>. QED  BY <1>2, <1>3, <2>1, Types, CarriesMore
  <1>5. CASE pend.text = <<>>
    <2>1. c = n
       BY <1>2, <1>5 DEF Part
    <2>2. q = queue
       BY <1>5 DEF FlushFirst
    <2>. QED  BY <1>1, <1>2, <1>3, <1>4, <2>1, <2>2, Types DEF Now, n
  <1>6. CASE pend.text # <<>>
    <2>1. c # n
       BY <1>1, <1>2, <1>6, PartEmpty
    <2>2. PICK u : u = Update("chunks", gen, pend.text)
       OBVIOUS
    <2>3. q \in Enqueued(queue, u)
       BY <1>2, <1>3, <1>6, <2>2 DEF FlushFirst
    <2>4. u \in Updates /\ u.k \in Patches /\ u.g = gen
      <3>1. pend.text \in Seq(Tokens) /\ gen \in Nat
         BY <1>2, <1>3, Types DEF Part
      <3>2. u \in Updates /\ u.k = "chunks" /\ u.g = gen
         BY <2>2, <3>1, UpdateType
      <3>. QED  BY <3>2 DEF Patches
    <2>5. PICK ms : ms = Applied(Now, u, gen)
       OBVIOUS
    <2>6. Good(ms, may.editor) /\ Serves(ms, Cur, n, may.editor)
      <3>1. Good(Now, may.editor)
         BY <1>1 DEF Folds, Now
      <3>. QED  BY <1>1, <1>2, <2>1, <2>2, <2>5, <3>1, ChunksApplied
    <2>7. queue \in Seq(Updates)
       BY <1>3, Types
    <2>8. q \in Seq(Updates) /\ Folds(q) /\ Drawn(shown.msgs, q, gen) = ms
       BY <1>1, <1>3, <2>3, <2>4, <2>5, <2>6, <2>7, EnqueuedFolds DEF Now
    <2>. QED  BY <1>4, <2>6, <2>8 DEF n
  <1>. QED  BY <1>5, <1>6

\* Without a request at work there is nothing to flush.
LEMMA FlushedNone ==
    ASSUME IInv, ~flags.busy, NEW q \in FlushFirst(gen)
    PROVE  q = queue /\ Folds(queue)
  <1>1. pend.text = <<>>
     BY DEF IInv, ReplyOK
  <1>. QED  BY <1>1 DEF FlushFirst, IInv, MessagesOK, Folds, Now

\* The end of a stream: what is pending, then the update that ends the reply.
LEMMA EndQueued ==
    ASSUME IInv, flags.busy, NEW q \in FlushFirst(gen),
           NEW k \in {"complete", "error"}, k = "complete" => req[Cur].n = Length,
           NEW text \in Seq(Tokens), NEW r \in Enqueued(q, Update(k, gen, text))
    PROVE  /\ r \in Seq(Updates) /\ r # <<>> /\ Folds(r)
           /\ Quiet(Drawn(shown.msgs, r, gen), may.editor)
  <1>1. /\ q \in Seq(Updates) /\ Folds(q)
        /\ Serves(Drawn(shown.msgs, q, gen), Cur, req[Cur].n, may.editor)
     BY Flushed
  <1>2. Cur \in Requests /\ TypeOK /\ gen \in Nat
     BY AtWork, Types DEF IInv
  <1>3. PICK u : u = Update(k, gen, text)
     OBVIOUS
  <1>4. u \in Updates /\ u.k = k /\ u.g = gen /\ u.k \in Patches
     BY <1>2, <1>3, UpdateType DEF Patches
  <1>5. PICK ms, d : d = Drawn(shown.msgs, q, gen) /\ ms = Applied(d, u, gen)
     OBVIOUS
  <1>6. Good(d, may.editor)
     BY <1>1, <1>5 DEF Folds
  <1>7. Good(ms, may.editor) /\ Quiet(ms, may.editor)
    <2>1. \/ u.k = "error"
          \/ u.k = "complete" /\ Serves(d, Cur, Length, may.editor)
       BY <1>1, <1>4, <1>5
    <2>. QED  BY <1>2, <1>4, <1>5, <1>6, <2>1, EndApplied
  <1>8. r \in Seq(Updates) /\ r # <<>> /\ Folds(r) /\ Drawn(shown.msgs, r, gen) = ms
     BY <1>1, <1>2, <1>3, <1>4, <1>5, <1>7, EnqueuedFolds
  <1>. QED  BY <1>7, <1>8

\* An answer without streaming replaces what the message holds.
LEMMA ResponseQueued ==
    ASSUME IInv, flags.busy, req[Cur].n = 0,
           NEW r \in Enqueued(queue, Update("response", gen, ReplyOf(Cur)))
    PROVE  /\ r \in Seq(Updates) /\ r # <<>> /\ Folds(r) /\ pend.text = <<>>
           /\ Quiet(Drawn(shown.msgs, r, gen), may.editor)
  <1>1. Cur \in Requests /\ TypeOK /\ gen \in Nat /\ Folds(queue) /\ queue \in Seq(Updates)
     BY AtWork, Types DEF IInv
  <1>2. Serves(Now, Cur, 0, may.editor) /\ pend.text = <<>>
    <2>1. PICK c \in 0 .. Length :
                /\ req[Cur].n \in c .. Length
                /\ Serves(Now, Cur, c, may.editor) /\ Carries(shown.msgs, Cur, c)
                /\ Part(pend.text, Cur, c, req[Cur].n)
       BY AtWork
    <2>2. c = 0
       BY <2>1, LengthAssumption
    <2>. QED  BY <1>1, <2>1, <2>2, PartEmpty
  <1>3. PICK u : u = Update("response", gen, ReplyOf(Cur))
     OBVIOUS
  <1>4. /\ u \in Updates /\ u.k = "response" /\ u.g = gen /\ u.k \in Patches
        /\ u.text = ReplyOf(Cur)
     BY <1>1, <1>3, UpdateType, OwnTexts DEF Patches
  <1>5. PICK ms : ms = Applied(Now, u, gen)
     OBVIOUS
  <1>6. Good(Now, may.editor)
     BY <1>1 DEF Folds, Now
  <1>7. Good(ms, may.editor) /\ Quiet(ms, may.editor)
     BY <1>1, <1>2, <1>4, <1>5, <1>6, EndApplied
  <1>8. r \in Seq(Updates) /\ r # <<>> /\ Folds(r) /\ Drawn(shown.msgs, r, gen) = ms
     BY <1>1, <1>3, <1>4, <1>5, <1>7, EnqueuedFolds DEF Now
  <1>. QED  BY <1>2, <1>7, <1>8

----------------------------------------------------------------------------
\* Steps

\* The type invariant by variables.
LEMMA TypeParts ==
    TypeOK <=> /\ shown \in ShownType /\ queue \in Seq(Updates) /\ flags \in FlagsType
               /\ gen \in Nat /\ pend \in [g : Nat, text : Seq(Tokens)] /\ flush \in BOOLEAN
               /\ ctl \in [cur : Requests \cup {0}, source : Requests \cup {0}]
               /\ req \in Seq(RequestType) /\ Len(req) <= MaxRequests
               /\ stored \in Seq(Messages) /\ save \in SaveType /\ may \in ScenarioType
  BY DEF TypeOK, ShownType, FlagsType, RequestType, SaveType

\* What a rendering leaves.
LEMMA RenderedState ==
    ASSUME IInv, NEW q \in Seq(Updates), NEW f \in FlagsType, NEW g, NEW edit \in MessageKeys,
           NEW ms, ms = Drawn(shown.msgs, q, g), Good(ms, may.editor),
           Rendered(q, f, g, edit), may'.editor = may.editor, stored' = stored
    PROVE  /\ shown' \in ShownType /\ queue' \in Seq(Updates) /\ flags' \in FlagsType
           /\ save' \in SaveType /\ flags' = f /\ queue' = <<>>
           /\ shown'.msgs = ms /\ shown'.busy = f.busy /\ shown'.edit = edit
           /\ Now' = ms /\ MessagesOK'
  <1>1. /\ shown' = [msgs |-> ms, busy |-> f.busy, streaming |-> f.streaming, edit |-> edit]
        /\ queue' = <<>> /\ flags' = f /\ save' = persistMessages(q, ms)
     BY DEF Rendered
  <1>2. ms \in Seq(Messages) /\ save \in SaveType /\ Good(save.latest, may.editor)
        /\ Good(stored, may.editor)
     BY Types DEF Good, IInv, MessagesOK
  <1>3. shown' \in ShownType /\ shown'.msgs = ms /\ shown'.busy = f.busy /\ shown'.edit = edit
     BY <1>1, <1>2 DEF ShownType, FlagsType
  <1>4. save' \in SaveType /\ Good(save'.latest, may.editor)
     BY <1>1, <1>2 DEF persistMessages, SaveType
  <1>5. Drawn(shown'.msgs, queue', gen') = ms /\ Drawn(shown'.msgs, queue', gen' + 1) = ms
     BY <1>1, <1>3, DrawnEmpty
  <1>6. MessagesOK'
     BY <1>2, <1>3, <1>4, <1>5 DEF MessagesOK, Now
  <1>. QED  BY <1>1, <1>3, <1>4, <1>5, <1>6 DEF Now

\* An empty page.
LEMMA Initially == Init => IInv
  <1>. SUFFICES ASSUME Init PROVE IInv
     OBVIOUS
  <1>1. TypeOK
    <2>0. <<>> \in Seq(Messages) /\ <<>> \in Seq(Tokens) /\ <<>> \in Seq(Updates)
       OBVIOUS
    <2>1. /\ shown \in ShownType /\ queue \in Seq(Updates) /\ flags \in FlagsType
          /\ gen \in Nat /\ pend \in [g : Nat, text : Seq(Tokens)] /\ flush \in BOOLEAN
          /\ stored \in Seq(Messages) /\ save \in SaveType
       BY <2>0 DEF Init, ShownType, FlagsType, SaveType, NoKey, MessageKeys
    <2>2. ctl \in [cur : Requests \cup {0}, source : Requests \cup {0}]
       BY DEF Init
    <2>3. req \in Seq(RequestType) /\ Len(req) <= MaxRequests
       BY ScenariosAssumption DEF Init
    <2>4. may \in ScenarioType
       BY ScenariosAssumption DEF Init
    <2>. QED  BY <2>1, <2>2, <2>3, <2>4, TypeParts
  <1>2. Cur = 0 /\ ~Active /\ DOMAIN req = {}
     BY DEF Init, Cur, Active
  <1>3. RequestsOK
     BY <1>2 DEF Init, RequestsOK
  <1>4. FlagsOK
     BY <1>2 DEF Init, FlagsOK
  <1>5. Good(<<>>, may.editor) /\ Quiet(<<>>, may.editor)
     BY DEF Good, Quiet
  <1>6. Now = <<>> /\ Drawn(shown.msgs, queue, gen + 1) = <<>>
     BY DrawnEmpty DEF Init, Now
  <1>7. MessagesOK
     BY <1>5, <1>6 DEF Init, MessagesOK
  <1>8. ReplyOK
     BY <1>5, <1>6 DEF Init, ReplyOK
  <1>. QED  BY <1>1, <1>3, <1>4, <1>7, <1>8 DEF IInv

\* Nothing the invariant speaks of changes.
LEMMA Unchanged ==
    ASSUME IInv, UNCHANGED <<shown, queue, flags, gen, pend, ctl, req, stored, save, may>>,
           flush' \in BOOLEAN
    PROVE  IInv'
  <1>1. TypeOK'
     BY TypeParts DEF IInv, TypeOK
  <1>. QED  BY <1>1 DEF IInv, RequestsOK, FlagsOK, MessagesOK, ReplyOK, Now, Cur, Active

\* React renders: what is shown is what the queue made of it.
LEMMA RenderStep == IInv /\ Render => IInv'
  <1>. SUFFICES ASSUME IInv, Render PROVE IInv'
     OBVIOUS
  <1>1. /\ Rendered(queue, flags, gen, shown.edit)
        /\ UNCHANGED <<gen, pend, flush, ctl, req, stored, may>>
     BY DEF Render
  <1>2. /\ queue \in Seq(Updates) /\ flags \in FlagsType /\ shown.edit \in MessageKeys
        /\ Good(Now, may.editor)
     BY Types DEF IInv, MessagesOK
  <1>3. /\ shown' \in ShownType /\ queue' \in Seq(Updates) /\ flags' \in FlagsType
        /\ save' \in SaveType /\ flags' = flags /\ queue' = <<>>
        /\ shown'.msgs = Now /\ shown'.busy = flags.busy /\ shown'.edit = shown.edit
        /\ Now' = Now /\ MessagesOK'
     BY <1>1, <1>2, RenderedState DEF Now
  <1>4. TypeOK'
     BY <1>1, <1>3, Zenon DEF IInv, TypeOK, ShownType, FlagsType, RequestType, SaveType
  <1>5. RequestsOK' /\ Cur' = Cur /\ (Active' <=> Active)
     BY <1>1 DEF IInv, RequestsOK, Cur, Active
  <1>6. FlagsOK'
     BY <1>1, <1>3, <1>5 DEF IInv, FlagsOK
  <1>7. ReplyOK'
    <2>1. pend'.g = gen'
       BY <1>1 DEF IInv, ReplyOK
    <2>2. CASE flags.busy
      <3>1. PICK c \in 0 .. req[Cur].n :
                /\ Serves(Now, Cur, c, may.editor)
                /\ Part(pend.text, Cur, c, req[Cur].n)
         BY <2>2 DEF IInv, ReplyOK
      <3>2. Carries(Now, Cur, c)
         BY <3>1 DEF Serves
      <3>. QED  BY <1>1, <1>3, <1>5, <2>1, <2>2, <3>1, <3>2 DEF ReplyOK
    <2>3. CASE ~flags.busy
       BY <1>1, <1>3, <2>1, <2>3 DEF IInv, ReplyOK
    <2>. QED  BY <2>2, <2>3
  <1>. QED  BY <1>3, <1>4, <1>5, <1>6, <1>7 DEF IInv

\* The flush timer moves the pending chunks to the queue.
LEMMA FlushTimerStep == IInv /\ FlushTimer => IInv'
  <1>. SUFFICES ASSUME IInv, FlushTimer PROVE IInv'
     OBVIOUS
  <1>1. PICK q \in FlushFirst(gen) : queue' = q
     BY DEF FlushTimer
  <1>2. /\ flush' = FALSE /\ pend' = [pend EXCEPT !.text = <<>>]
        /\ UNCHANGED <<shown, flags, gen, ctl, req, stored, save, may>>
     BY DEF FlushTimer
  <1>3. pend \in [g : Nat, text : Seq(Tokens)] /\ pend.g = gen
     BY TypeParts DEF IInv, ReplyOK
  <1>4. pend' \in [g : Nat, text : Seq(Tokens)] /\ pend'.g = gen /\ pend'.text = <<>>
    <2>1. <<>> \in Seq(Tokens)
       OBVIOUS
    <2>. QED  BY <1>2, <1>3, <2>1
  <1>5. Cur' = Cur /\ (Active' <=> Active) /\ RequestsOK'
     BY <1>2 DEF IInv, RequestsOK, Cur, Active
  <1>6. CASE flags.busy
    <2>1. /\ q \in Seq(Updates) /\ Folds(q)
          /\ Serves(Drawn(shown.msgs, q, gen), Cur, req[Cur].n, may.editor)
          /\ Carries(shown.msgs, Cur, req[Cur].n)
       BY <1>6, Flushed
    <2>2. TypeOK'
       BY <1>1, <1>2, <1>4, <2>1, Zenon DEF IInv, TypeOK, ShownType, FlagsType, RequestType, SaveType
    <2>3. FlagsOK'
       BY <1>2, <1>5, <1>6 DEF IInv, FlagsOK
    <2>4. MessagesOK'
       BY <1>1, <1>2, <2>1 DEF IInv, MessagesOK, Folds, Now
    <2>5. ReplyOK'
      <3>1. req[Cur].n \in Nat
         BY <1>6, AtWork, LengthAssumption
      <3>2. req[Cur].n \in 0 .. req[Cur].n /\ Part(<<>>, Cur, req[Cur].n, req[Cur].n)
         BY <3>1, PartNone
      <3>. QED  BY <1>1, <1>2, <1>4, <1>5, <1>6, <2>1, <3>2 DEF ReplyOK, Now
    <2>. QED  BY <1>5, <2>2, <2>3, <2>4, <2>5 DEF IInv
  <1>7. CASE ~flags.busy
    <2>1. queue' = queue
       BY <1>1, <1>7, FlushedNone
    <2>2. pend.text = <<>>
       BY <1>7 DEF IInv, ReplyOK
    <2>3. pend' = pend
       BY <1>2, <1>3, <2>2
    <2>. QED  BY <1>2, <2>1, <2>3, Unchanged
  <1>. QED  BY <1>6, <1>7

\* The save timer stores a conversation that was shown.
LEMMA SaveTimerStep == IInv /\ SaveTimer => IInv'
  <1>. SUFFICES ASSUME IInv, SaveTimer PROVE IInv'
     OBVIOUS
  <1>1. /\ stored' = save.latest /\ save' = [save EXCEPT !.timer = FALSE]
        /\ UNCHANGED <<shown, queue, flags, gen, pend, flush, ctl, req, may>>
     BY DEF SaveTimer
  <1>2. save \in SaveType
     BY Types DEF IInv
  <1>3. save' \in SaveType /\ save'.latest = save.latest /\ stored' \in Seq(Messages)
     BY <1>1, <1>2 DEF SaveType
  <1>4. TypeOK'
     BY <1>1, <1>3, Zenon DEF IInv, TypeOK, ShownType, FlagsType, RequestType, SaveType
  <1>5. MessagesOK'
     BY <1>1, <1>3 DEF IInv, MessagesOK, Now
  <1>. QED  BY <1>1, <1>4, <1>5 DEF IInv, RequestsOK, FlagsOK, ReplyOK, Now, Cur, Active

----------------------------------------------------------------------------
\* Sending

\* SendChat: the new request is the one of the new generation.
LEMMA SentRequest ==
    ASSUME IInv, CanRequest, SendChat(Len(req) + 1)
    PROVE  /\ gen' = gen + 1 /\ gen' \in Nat
           /\ pend' = [g |-> gen + 1, text |-> <<>>] /\ flush' = FALSE
           /\ ctl' \in [cur : Requests \cup {0}, source : Requests \cup {0}]
           /\ req' \in Seq(RequestType) /\ Len(req') <= MaxRequests
           /\ Cur' = Len(req) + 1 /\ Cur' \in Requests /\ req'[Cur'].n = 0
           /\ Active' /\ RequestsOK'
  <1>. DEFINE i == Len(req) + 1
  <1>1. PICK mode \in Modes :
          /\ gen' = gen + 1
          /\ pend' = [g |-> gen + 1, text |-> <<>>]
          /\ flush' = FALSE
          /\ ctl' = IF mode = "stream" THEN [cur |-> i, source |-> 0] ELSE Idle
          /\ req' = Append(req, [g |-> gen + 1, n |-> 0,
                                 ph |-> IF mode = "stream" THEN "headers" ELSE "wait"])
     BY DEF SendChat, discardPendingStreamUpdates
  <1>2. /\ req \in Seq(RequestType) /\ Len(req) \in Nat /\ gen \in Nat
        /\ DOMAIN req = 1 .. Len(req)
     BY Types DEF IInv, Cur
  <1>3. i \in Requests /\ i # 0 /\ i <= MaxRequests /\ i \in Nat
     BY <1>2, ScenariosAssumption DEF CanRequest, Requests
  <1>4. PICK x : /\ x = [g |-> gen + 1, n |-> 0, ph |-> IF mode = "stream" THEN "headers" ELSE "wait"]
     OBVIOUS
  <1>5. /\ x \in RequestType /\ x.g = gen + 1 /\ x.n = 0
        /\ x.ph = IF mode = "stream" THEN "headers" ELSE "wait"
     BY <1>2, <1>4, LengthAssumption DEF RequestType
  <1>6. req' = Append(req, x)
     BY <1>1, <1>4
  <1>7. /\ req' \in Seq(RequestType) /\ Len(req') = i /\ req'[i] = x
        /\ DOMAIN req' = 1 .. i /\ \A j \in 1 .. Len(req) : req'[j] = req[j]
     BY <1>2, <1>5, <1>6
  <1>8. /\ ctl' \in [cur : Requests \cup {0}, source : Requests \cup {0}]
        /\ ctl'.source = 0 /\ ctl'.cur = IF mode = "stream" THEN i ELSE 0
     BY <1>1, <1>3 DEF Idle
  <1>9. Cur' = i
     BY <1>7 DEF Cur
  <1>. HIDE DEF i
  <1>10. Active'
     BY <1>1, <1>3, <1>5, <1>7, <1>9 DEF Active
  <1>11. ASSUME NEW j \in DOMAIN req'
         PROVE  req'[j].g <= gen' /\ (j < Cur' => req'[j].g < gen')
    <2>1. CASE j = i
       BY <1>1, <1>2, <1>3, <1>5, <1>7, <1>9, <2>1
    <2>2. CASE j # i
      <3>1. j \in DOMAIN req /\ req'[j] = req[j]
         BY <1>2, <1>7, <2>2 DEF i
      <3>2. req[j].g <= gen /\ req[j].g \in Nat
        <4>1. req[j] \in RequestType
           BY <1>2, <3>1
        <4>. QED  BY <3>1, <4>1 DEF IInv, RequestsOK, RequestType
      <3>. QED  BY <1>1, <1>2, <3>1, <3>2
    <2>. QED  BY <2>1, <2>2
  <1>12. RequestsOK'
    <2>1. ctl'.source \in {0, ctl'.cur}
       BY <1>8
    <2>2. ctl'.cur # 0 => ctl'.cur = Cur' /\ req'[Cur'].g = gen'
       BY <1>1, <1>5, <1>7, <1>8, <1>9
    <2>3. req'[Cur'].n = 0 /\ req'[Cur'].ph # "open"
       BY <1>5, <1>7, <1>9
    <2>4. req'[Cur'].ph = "headers" => ctl'.cur = Cur'
       BY <1>5, <1>7, <1>8, <1>9
    <2>. QED  BY <1>11, <2>1, <2>2, <2>3, <2>4 DEF RequestsOK
  <1>. QED  BY <1>1, <1>2, <1>3, <1>5, <1>7, <1>8, <1>9, <1>10, <1>12 DEF i

\* A request whose message ends what is set.
LEMMA SentStep ==
    ASSUME IInv, CanRequest, SendChat(Len(req) + 1), NEW ms, Good(ms, may.editor),
           Serves(ms, Len(req) + 1, 0, may.editor),
           NEW edit \in MessageKeys, ~may.editor => edit = NoKey,
           Rendered(Append(queue, SetMessages(ms)), SendFlags, gen + 1, edit),
           UNCHANGED <<stored, may>>
    PROVE  IInv'
  <1>1. /\ gen' = gen + 1 /\ gen' \in Nat
        /\ pend' = [g |-> gen + 1, text |-> <<>>] /\ flush' = FALSE
        /\ ctl' \in [cur : Requests \cup {0}, source : Requests \cup {0}]
        /\ req' \in Seq(RequestType) /\ Len(req') <= MaxRequests
        /\ Cur' = Len(req) + 1 /\ Cur' \in Requests /\ req'[Cur'].n = 0
        /\ Active' /\ RequestsOK'
     BY SentRequest
  <1>2. queue \in Seq(Updates) /\ ms \in Seq(Messages) /\ may.editor \in BOOLEAN
     BY Types DEF IInv, Good
  <1>3. PICK q : q = Append(queue, SetMessages(ms))
     OBVIOUS
  <1>4. q \in Seq(Updates) /\ Drawn(shown.msgs, q, gen + 1) = ms
     BY <1>2, <1>3, SetLast
  <1>5. SendFlags \in FlagsType /\ SendFlags.busy = TRUE
     BY DEF SendFlags, FlagsType
  <1>6. Rendered(q, SendFlags, gen + 1, edit) /\ may'.editor = may.editor /\ stored' = stored
     BY <1>3
  <1>7. /\ shown' \in ShownType /\ queue' \in Seq(Updates) /\ flags' \in FlagsType
        /\ save' \in SaveType /\ flags' = SendFlags /\ queue' = <<>>
        /\ shown'.msgs = ms /\ shown'.busy = SendFlags.busy /\ shown'.edit = edit
        /\ Now' = ms /\ MessagesOK'
     BY <1>4, <1>5, <1>6, RenderedState
  <1>8. TypeOK'
    <2>1. <<>> \in Seq(Tokens)
       OBVIOUS
    <2>2. pend' \in [g : Nat, text : Seq(Tokens)] /\ flush' \in BOOLEAN
       BY <1>1, <2>1
    <2>. QED  BY <1>1, <1>7, <2>2, Zenon
              DEF IInv, TypeOK, ShownType, FlagsType, RequestType, SaveType
  <1>9. FlagsOK'
     BY <1>1, <1>5, <1>6, <1>7 DEF FlagsOK
  <1>10. ReplyOK'
    <2>1. Part(pend'.text, Cur', 0, 0) /\ pend'.g = gen'
       BY <1>1, PartNone
    <2>2. Carries(ms, Len(req) + 1, 0)
       BY DEF Serves
    <2>3. flags'.busy
       BY <1>5, <1>7
    <2>. QED  BY <1>1, <1>6, <1>7, <2>1, <2>2, <2>3 DEF ReplyOK
  <1>. QED  BY <1>1, <1>7, <1>8, <1>9, <1>10 DEF IInv

\* The key of the next request.
LEMMA NextRequest ==
    ASSUME IInv, CanRequest PROVE Len(req) + 1 \in Requests
  BY Types, ScenariosAssumption DEF IInv, CanRequest, Requests, Cur

\* handleSendMessage, possible only while no message is pending.
LEMMA SendStep == IInv /\ Send => IInv'
  <1>. SUFFICES ASSUME IInv, Send PROVE IInv'
     OBVIOUS
  <1>1. /\ CanRequest /\ ~isGenerating /\ SendChat(Len(req) + 1)
        /\ Rendered(Append(queue, SetMessages(appendUserMessagePair(shown.msgs, Len(req) + 1))),
                    SendFlags, gen + 1, shown.edit)
        /\ UNCHANGED <<stored, may>>
     BY DEF Send
  <1>2. PICK ms : ms = appendUserMessagePair(shown.msgs, Len(req) + 1)
     OBVIOUS
  <1>3. Good(shown.msgs, may.editor) /\ Quiet(shown.msgs, may.editor)
     BY <1>1, NotGenerating DEF IInv, MessagesOK
  <1>4. Good(ms, may.editor) /\ Serves(ms, Len(req) + 1, 0, may.editor)
     BY <1>1, <1>2, <1>3, NextRequest, PairAppended
  <1>5. shown.edit \in MessageKeys /\ (~may.editor => shown.edit = NoKey)
     BY Types DEF IInv, FlagsOK
  <1>. QED  BY <1>1, <1>2, <1>4, <1>5, SentStep

\* handleRegenerateMessage, possible only while no message is pending.
LEMMA RegenerateStep ==
    ASSUME IInv, NEW n \in DOMAIN shown.msgs, Regenerate(n) PROVE IInv'
  <1>1. /\ CanRequest /\ ~isGenerating /\ SendChat(Len(req) + 1)
        /\ Rendered(Append(queue,
                      SetMessages(createRegeneratedMessages(shown.msgs, n, Len(req) + 1))),
                    SendFlags, gen + 1, shown.edit)
        /\ UNCHANGED <<stored, may>>
     BY DEF Regenerate
  <1>2. PICK ms : ms = createRegeneratedMessages(shown.msgs, n, Len(req) + 1)
     OBVIOUS
  <1>3. /\ Good(shown.msgs, may.editor) /\ Quiet(shown.msgs, may.editor)
        /\ shown.msgs \in Seq(Messages)
     BY <1>1, NotGenerating, Types DEF IInv, MessagesOK
  <1>4. PICK k : k = IF shown.msgs[n].from = "user" THEN n ELSE n - 1
     OBVIOUS
  <1>5. k \in 0 .. Len(shown.msgs)
     BY <1>3, <1>4
  <1>6. ms = Append(SubSeq(shown.msgs, 1, k), Loading(Len(req) + 1))
     BY <1>2, <1>4 DEF createRegeneratedMessages
  <1>7. Good(ms, may.editor) /\ Serves(ms, Len(req) + 1, 0, may.editor)
     BY <1>1, <1>3, <1>5, <1>6, NextRequest, CutAppended
  <1>8. shown.edit \in MessageKeys /\ (~may.editor => shown.edit = NoKey)
     BY Types DEF IInv, FlagsOK
  <1>. QED  BY <1>1, <1>2, <1>7, <1>8, SentStep

----------------------------------------------------------------------------
\* Clicks

\* A click uses up one of the clicks.
LEMMA Clicked ==
    ASSUME IInv, Click PROVE may' \in ScenarioType /\ may'.editor = may.editor
  <1>1. may \in ScenarioType
     BY Types DEF IInv
  <1>. QED  BY <1>1 DEF Click, ScenarioType

\* A rendering without a request at work, before and after.
LEMMA QuietStep ==
    ASSUME IInv, NEW q \in Seq(Updates), NEW f \in FlagsType, NEW edit \in MessageKeys,
           NEW ms, ms = Drawn(shown.msgs, q, gen'), Good(ms, may.editor), Quiet(ms, may.editor),
           Rendered(q, f, gen', edit), ~f.busy, ~may.editor => edit = NoKey,
           gen' \in Nat, ~Active', RequestsOK',
           pend' \in [g : Nat, text : Seq(Tokens)], pend'.g = gen', pend'.text = <<>>,
           flush' \in BOOLEAN,
           ctl' \in [cur : Requests \cup {0}, source : Requests \cup {0}],
           UNCHANGED <<req, stored>>, may' \in ScenarioType, may'.editor = may.editor
    PROVE  IInv'
  <1>1. /\ shown' \in ShownType /\ queue' \in Seq(Updates) /\ flags' \in FlagsType
        /\ save' \in SaveType /\ flags' = f /\ queue' = <<>>
        /\ shown'.msgs = ms /\ shown'.busy = f.busy /\ shown'.edit = edit
        /\ Now' = ms /\ MessagesOK'
     BY RenderedState
  <1>2. TypeOK'
     BY <1>1, Zenon DEF IInv, TypeOK, ShownType, FlagsType, RequestType, SaveType
  <1>3. FlagsOK'
     BY <1>1 DEF FlagsOK
  <1>4. ReplyOK'
     BY <1>1 DEF ReplyOK
  <1>. QED  BY <1>1, <1>2, <1>3, <1>4 DEF IInv

\* stopGeneration flushes for the old generation and completes in the new one.
LEMMA StopStep == IInv /\ Stop => IInv'
  <1>. SUFFICES ASSUME IInv, Stop PROVE IInv'
     OBVIOUS
  <1>0. PICK g : g = gen + 1
     OBVIOUS
  <1>1. /\ Click /\ gen' = g /\ pend' = [g |-> g, text |-> <<>>]
        /\ flush' = FALSE /\ ctl' = [cur |-> 0, source |-> 0] /\ UNCHANGED <<req, stored>>
     BY <1>0 DEF Stop, discardPendingStreamUpdates, Idle
  <1>2. PICK f, u : f = [busy |-> FALSE, streaming |-> FALSE] /\ u = Update("complete", g, <<>>)
     OBVIOUS
  <1>3. PICK q \in FlushFirst(gen) : Rendered(Append(q, u), f, g, shown.edit)
     BY <1>0, <1>2 DEF Stop
  <1>4. gen \in Nat /\ g \in Nat /\ queue \in Seq(Updates) /\ shown.edit \in MessageKeys
     BY <1>0, Types DEF IInv
  <1>5. q \in Seq(Updates) /\ Folds(q)
    <2>1. CASE flags.busy
       BY <2>1, Flushed
    <2>2. CASE ~flags.busy
       BY <1>4, <2>2, FlushedNone
    <2>. QED  BY <2>1, <2>2
  <1>6. u \in Updates /\ u.k = "complete" /\ u.g = g /\ u.text = <<>>
     BY <1>2, <1>4, StopUpdateType
  <1>7. PICK d, ms : d = Drawn(shown.msgs, q, g) /\ ms = Applied(d, u, g)
     OBVIOUS
  <1>8. PICK r : r = Append(q, u)
     OBVIOUS
  <1>9. r = Append(q, u) /\ ms = Drawn(shown.msgs, r, g) /\ r \in Seq(Updates)
    <2>1. Drawn(shown.msgs, Append(q, u), g) = Applied(Drawn(shown.msgs, q, g), u, g)
       BY <1>5, <1>6, DrawnAppend
    <2>. QED  BY <1>5, <1>6, <1>7, <1>8, <2>1
  <1>10. Good(ms, may.editor) /\ Quiet(ms, may.editor)
    <2>1. Good(d, may.editor)
       BY <1>0, <1>5, <1>7 DEF Folds
    <2>. QED  BY <1>6, <1>7, <2>1, EndApplied
  <1>11. f \in FlagsType /\ f.busy = FALSE
     BY <1>2 DEF FlagsType
  <1>12. \A i \in DOMAIN req : req[i].g \in Nat /\ req[i].g < g
    <2>1. \A i \in DOMAIN req : req[i].g \in Nat
       BY Types DEF IInv, RequestType
    <2>. QED  BY <1>0, <1>4, <2>1 DEF IInv, RequestsOK
  <1>13. Cur' = Cur /\ (Cur # 0 => Cur \in DOMAIN req)
     BY <1>1, Types DEF IInv, Cur
  <1>14. Cur # 0 => req[Cur].g # g
     BY <1>0, <1>4, <1>12, <1>13
  <1>15. ~Active'
     BY <1>1, <1>13, <1>14 DEF Active
  <1>16. RequestsOK'
    <2>1. \A i \in DOMAIN req : req[i].g <= g
       BY <1>4, <1>12
    <2>. QED  BY <1>1, <1>12, <1>13, <1>14, <2>1 DEF RequestsOK
  <1>17. may' \in ScenarioType /\ may'.editor = may.editor
     BY <1>1, Clicked
  <1>18. /\ pend' \in [g : Nat, text : Seq(Tokens)] /\ pend'.g = gen' /\ pend'.text = <<>>
         /\ ctl' \in [cur : Requests \cup {0}, source : Requests \cup {0}]
         /\ flush' \in BOOLEAN /\ gen' \in Nat
    <2>1. <<>> \in Seq(Tokens)
       OBVIOUS
    <2>. QED  BY <1>1, <1>4, <2>1
  <1>19. ~may.editor => shown.edit = NoKey
     BY DEF IInv, FlagsOK
  <1>20. Rendered(r, f, gen', shown.edit) /\ ms = Drawn(shown.msgs, r, gen')
     BY <1>1, <1>3, <1>9
  <1>. QED  BY <1>1, <1>4, <1>9, <1>20, <1>10, <1>11, <1>15, <1>16, <1>17, <1>18, <1>19,
                QuietStep

\* A click that is possible only while nothing is generated.
LEMMA CalmStep ==
    ASSUME IInv, ~isGenerating, Click, NEW q \in Seq(Updates), NEW edit \in MessageKeys,
           NEW ms, ms = Drawn(shown.msgs, q, gen), Good(ms, may.editor), Quiet(ms, may.editor),
           Rendered(q, flags, gen, edit), ~may.editor => edit = NoKey,
           UNCHANGED <<gen, pend, flush, ctl, req, stored>>
    PROVE  IInv'
  <1>1. ~flags.busy /\ ~Active /\ pend.text = <<>>
     BY NotGenerating
  <1>2. flags \in FlagsType
     BY Types DEF IInv
  <1>3. may' \in ScenarioType /\ may'.editor = may.editor
     BY Clicked
  <1>4. ~Active' /\ RequestsOK'
     BY <1>1 DEF IInv, RequestsOK, Active, Cur
  <1>5. /\ pend' \in [g : Nat, text : Seq(Tokens)] /\ pend'.g = gen' /\ pend'.text = <<>>
        /\ ctl' \in [cur : Requests \cup {0}, source : Requests \cup {0}]
        /\ flush' \in BOOLEAN /\ gen' \in Nat
     BY <1>1, TypeParts DEF IInv, ReplyOK
  <1>. QED  BY <1>1, <1>2, <1>3, <1>4, <1>5, QuietStep

\* handleEditMessage shows an editor.
LEMMA OpenEditorStep ==
    ASSUME IInv, NEW n \in DOMAIN shown.msgs, OpenEditor(n) PROVE IInv'
  <1>1. /\ may.editor /\ ~isGenerating /\ Click
        /\ Rendered(queue, flags, gen, KeyOf(shown.msgs[n]))
        /\ UNCHANGED <<gen, pend, flush, ctl, req, stored>>
     BY DEF OpenEditor
  <1>2. queue \in Seq(Updates) /\ shown.msgs \in Seq(Messages)
     BY Types DEF IInv
  <1>3. KeyOf(shown.msgs[n]) \in MessageKeys
    <2>1. shown.msgs[n] \in Messages
       BY <1>2
    <2>. QED  BY <2>1 DEF KeyOf, MessageKeys, Messages
  <1>4. Now = shown.msgs /\ Quiet(shown.msgs, may.editor) /\ Good(shown.msgs, may.editor)
     BY <1>1, NotGenerating DEF IInv, MessagesOK
  <1>. QED  BY <1>1, <1>2, <1>3, <1>4, CalmStep DEF Now

\* A message is deleted while none is pending.
LEMMA DeleteStep ==
    ASSUME IInv, NEW n \in DOMAIN shown.msgs, Delete(n) PROVE IInv'
  <1>1. PICK k : k = KeyOf(shown.msgs[n])
     OBVIOUS
  <1>2. /\ ~isGenerating /\ Click
        /\ Rendered(Append(queue, RemoveKey(k)), flags, gen, shown.edit)
        /\ UNCHANGED <<gen, pend, flush, ctl, req, stored>>
     BY <1>1 DEF Delete
  <1>3. queue \in Seq(Updates) /\ shown.msgs \in Seq(Messages) /\ shown.edit \in MessageKeys
     BY Types DEF IInv
  <1>4. k \in MessageKeys
    <2>1. shown.msgs[n] \in Messages
       BY <1>3
    <2>. QED  BY <1>1, <2>1 DEF KeyOf, MessageKeys, Messages
  <1>5. PICK u : u = RemoveKey(k)
     OBVIOUS
  <1>6. u = [k |-> "remove", g |-> 0, text |-> <<>>, msgs |-> <<>>, key |-> k]
     BY <1>5 DEF RemoveKey, Update
  <1>7. u \in Updates
    <2>1. <<>> \in Seq(Tokens) /\ <<>> \in Seq(Messages)
       OBVIOUS
    <2>. QED  BY <1>4, <1>6, <2>1 DEF Updates
  <1>8. Now = shown.msgs /\ Quiet(shown.msgs, may.editor) /\ Good(shown.msgs, may.editor)
     BY <1>2, NotGenerating DEF IInv, MessagesOK
  <1>9. PICK ms : ms = removeMessageByKey(shown.msgs, k)
     OBVIOUS
  <1>10. Append(queue, u) \in Seq(Updates) /\ ms = Drawn(shown.msgs, Append(queue, u), gen)
    <2>1. Drawn(shown.msgs, Append(queue, u), gen) = Applied(Now, u, gen)
       BY <1>3, <1>7, DrawnAppend DEF Now
    <2>2. Applied(shown.msgs, u, gen) = ms
       BY <1>6, <1>9 DEF Applied
    <2>. QED  BY <1>3, <1>7, <1>8, <2>1, <2>2
  <1>11. Good(ms, may.editor) /\ Quiet(ms, may.editor)
     BY <1>8, <1>9, Removed
  <1>12. ~may.editor => shown.edit = NoKey
     BY DEF IInv, FlagsOK
  <1>. QED  BY <1>2, <1>3, <1>5, <1>10, <1>11, <1>12, CalmStep

\* All messages are deleted while none is pending.
LEMMA ClearStep == IInv /\ ClearMessages => IInv'
  <1>. SUFFICES ASSUME IInv, ClearMessages PROVE IInv'
     OBVIOUS
  <1>1. PICK ms : ms = <<>>
     OBVIOUS
  <1>2. /\ ~isGenerating /\ Click
        /\ Rendered(Append(queue, SetMessages(ms)), flags, gen, NoKey)
        /\ UNCHANGED <<gen, pend, flush, ctl, req, stored>>
     BY <1>1 DEF ClearMessages
  <1>3. queue \in Seq(Updates) /\ NoKey \in MessageKeys
     BY Types DEF IInv, NoKey, MessageKeys
  <1>4. ms \in Seq(Messages) /\ Good(ms, may.editor) /\ Quiet(ms, may.editor)
     BY <1>1 DEF Good, Quiet
  <1>5. /\ Append(queue, SetMessages(ms)) \in Seq(Updates)
        /\ ms = Drawn(shown.msgs, Append(queue, SetMessages(ms)), gen)
     BY <1>3, <1>4, SetLast
  <1>. QED  BY <1>2, <1>3, <1>4, <1>5, CalmStep

\* An editor that can be saved is one of a page with editors.
LEMMA EditorOpen ==
    ASSUME IInv, IndexOf(shown.msgs, shown.edit) # 0
    PROVE  may.editor /\ IndexOf(shown.msgs, shown.edit) \in DOMAIN shown.msgs
  <1>1. \E n \in DOMAIN shown.msgs : KeyOf(shown.msgs[n]) = shown.edit
     BY DEF IndexOf
  <1>2. IndexOf(shown.msgs, shown.edit) \in DOMAIN shown.msgs
     BY <1>1 DEF IndexOf
  <1>3. PICK n \in DOMAIN shown.msgs : KeyOf(shown.msgs[n]) = shown.edit
     BY <1>1
  <1>4. shown.edit.key \in Requests
    <2>1. shown.msgs[n] \in Messages
       BY Types DEF IInv
    <2>2. KeyOf(shown.msgs[n]).key \in Requests
       BY <2>1 DEF KeyOf, Messages
    <2>. QED  BY <1>3, <2>2
  <1>5. shown.edit # NoKey
     BY <1>4, ScenariosAssumption DEF NoKey, Requests
  <1>. QED  BY <1>2, <1>5 DEF IInv, FlagsOK

\* applyEdit writes the messages of the last rendering back; the request at work
\* still finds a message of its own to go on with.
LEMMA SaveEditStep == IInv /\ SaveEdit => IInv'
  <1>. SUFFICES ASSUME IInv, SaveEdit PROVE IInv'
     OBVIOUS
  <1>1. PICK n, ms : /\ n = IndexOf(shown.msgs, shown.edit)
                     /\ ms = [shown.msgs EXCEPT ![n].text = Typed]
     OBVIOUS
  <1>2. /\ n # 0 /\ Rendered(Append(queue, SetMessages(ms)), flags, gen, NoKey)
        /\ UNCHANGED <<gen, pend, flush, ctl, req, stored, may>>
     BY <1>1 DEF SaveEdit
  <1>3. may.editor /\ n \in DOMAIN shown.msgs
     BY <1>1, <1>2, EditorOpen
  <1>4. /\ queue \in Seq(Updates) /\ NoKey \in MessageKeys /\ flags \in FlagsType
        /\ Good(shown.msgs, may.editor)
     BY Types DEF IInv, NoKey, MessageKeys, MessagesOK
  <1>5. /\ Good(ms, may.editor)
        /\ \A i, c : Carries(shown.msgs, i, c) => Carries(ms, i, c)
    <2>1. PICK s, e : s = shown.msgs /\ e = may.editor
       OBVIOUS
    <2>2. PICK x : x = [s[n] EXCEPT !.text = Typed]
       OBVIOUS
    <2>3. Editors(e) /\ Good(s, e) /\ n \in DOMAIN s /\ s \in Seq(Messages)
       BY <1>3, <1>4, <2>1, Types DEF IInv, Editors
    <2>4. ms = [s EXCEPT ![n] = x]
       BY <1>1, <2>1, <2>2
    <2>5. x \in Messages /\ x.from = s[n].from /\ x.key = s[n].key /\ x.text = Typed
      <3>1. s[n] \in Messages
         BY <2>3
      <3>. QED  BY <2>2, <3>1, OwnTexts DEF Messages
    <2>6. Good(ms, e) /\ \A i, c : Carries(s, i, c) => Carries(ms, i, c)
       BY <2>3, <2>4, <2>5, Edited
    <2>. QED  BY <2>1, <2>6
  <1>6. PICK q : q = Append(queue, SetMessages(ms))
     OBVIOUS
  <1>7. q \in Seq(Updates) /\ ms = Drawn(shown.msgs, q, gen)
    <2>1. ms \in Seq(Messages)
       BY <1>5 DEF Good
    <2>. QED  BY <1>4, <1>6, <2>1, SetLast
  <1>8. /\ shown' \in ShownType /\ queue' \in Seq(Updates) /\ flags' \in FlagsType
        /\ save' \in SaveType /\ flags' = flags /\ queue' = <<>>
        /\ shown'.msgs = ms /\ shown'.busy = flags.busy /\ shown'.edit = NoKey
        /\ Now' = ms /\ MessagesOK'
    <2>1. Rendered(q, flags, gen, NoKey) /\ may'.editor = may.editor /\ stored' = stored
       BY <1>2, <1>6
    <2>. QED  BY <1>4, <1>5, <1>7, <2>1, RenderedState
  <1>9. TypeOK'
     BY <1>2, <1>8, Zenon DEF IInv, TypeOK, ShownType, FlagsType, RequestType, SaveType
  <1>10. RequestsOK' /\ Cur' = Cur /\ (Active' <=> Active)
     BY <1>2 DEF IInv, RequestsOK, Cur, Active
  <1>11. FlagsOK'
     BY <1>2, <1>3, <1>8, <1>10 DEF IInv, FlagsOK
  <1>12. ReplyOK'
    <2>1. pend'.g = gen'
       BY <1>2 DEF IInv, ReplyOK
    <2>2. CASE flags.busy
      <3>1. PICK c \in 0 .. req[Cur].n :
                /\ Carries(shown.msgs, Cur, c)
                /\ Part(pend.text, Cur, c, req[Cur].n)
         BY <2>2 DEF IInv, ReplyOK
      <3>2. Carries(ms, Cur, c)
         BY <1>5, <3>1
      <3>3. Serves(ms, Cur, c, may.editor)
         BY <1>3, <3>2 DEF Serves
      <3>. QED  BY <1>2, <1>8, <1>10, <2>1, <2>2, <3>1, <3>2, <3>3 DEF ReplyOK
    <2>3. CASE ~flags.busy
       BY <1>2, <1>3, <1>8, <2>1, <2>3 DEF IInv, ReplyOK, Quiet
    <2>. QED  BY <2>2, <2>3
  <1>. QED  BY <1>8, <1>9, <1>10, <1>11, <1>12 DEF IInv

\* applyEdit with a new request takes the place of the one at work.
LEMMA SubmitStep == IInv /\ SaveEditAndSubmit => IInv'
  <1>. SUFFICES ASSUME IInv, SaveEditAndSubmit PROVE IInv'
     OBVIOUS
  <1>1. PICK n, ms : /\ n = IndexOf(shown.msgs, shown.edit)
                     /\ ms = Append(SubSeq(shown.msgs, 1, n), Loading(Len(req) + 1))
     OBVIOUS
  <1>2. /\ n # 0 /\ CanRequest /\ SendChat(Len(req) + 1)
        /\ Rendered(Append(queue, SetMessages(ms)), SendFlags, gen + 1, NoKey)
        /\ UNCHANGED <<stored, may>>
     BY <1>1 DEF SaveEditAndSubmit
  <1>3. may.editor /\ n \in DOMAIN shown.msgs
     BY <1>1, <1>2, EditorOpen
  <1>4. /\ shown.msgs \in Seq(Messages) /\ NoKey \in MessageKeys
        /\ Good(shown.msgs, may.editor) /\ Quiet(shown.msgs, may.editor)
     BY <1>3, Types DEF IInv, NoKey, MessageKeys, MessagesOK, Quiet
  <1>5. n \in 0 .. Len(shown.msgs)
     BY <1>3, <1>4
  <1>6. Good(ms, may.editor) /\ Serves(ms, Len(req) + 1, 0, may.editor)
     BY <1>1, <1>2, <1>4, <1>5, NextRequest, CutAppended
  <1>. QED  BY <1>2, <1>3, <1>4, <1>6, SentStep

----------------------------------------------------------------------------
\* Events of a request

\* One request changes, and keeps its generation.
LEMMA OneRequest ==
    ASSUME IInv, NEW i \in DOMAIN req, NEW x \in RequestType, x.g = req[i].g,
           req' = [req EXCEPT ![i] = x], gen' = gen
    PROVE  /\ req' \in Seq(RequestType) /\ Len(req') <= MaxRequests
           /\ Cur' = Cur /\ req'[i] = x /\ (i # Cur /\ Cur # 0 => req'[Cur] = req[Cur])
           /\ \A j \in DOMAIN req' :
                req'[j].g <= gen' /\ (j < Cur' => req'[j].g < gen')
  <1>1. req \in Seq(RequestType) /\ Len(req) <= MaxRequests /\ (Cur # 0 => Cur \in DOMAIN req)
     BY Types DEF IInv, Cur
  <1>2. /\ req' \in Seq(RequestType) /\ Len(req') = Len(req) /\ DOMAIN req' = DOMAIN req
        /\ req'[i] = x /\ \A j \in DOMAIN req : j # i => req'[j] = req[j]
     BY <1>1
  <1>3. \A j \in DOMAIN req : req[j].g <= gen /\ (j < Cur => req[j].g < gen)
     BY DEF IInv, RequestsOK
  <1>4. Cur' = Cur
     BY <1>2 DEF Cur
  <1>5. \A j \in DOMAIN req : req'[j].g = req[j].g
     BY <1>2
  <1>. QED  BY <1>1, <1>2, <1>3, <1>4, <1>5

\* An event of a request that is no longer the one at work.
LEMMA OtherRequest ==
    ASSUME IInv, NEW i \in DOMAIN req, ~(i = Cur /\ req[Cur].g = gen),
           NEW x \in RequestType, x.g = req[i].g, req' = [req EXCEPT ![i] = x],
           UNCHANGED <<shown, queue, flags, gen, pend, flush, ctl, stored, save, may>>
    PROVE  IInv'
  <1>1. /\ req' \in Seq(RequestType) /\ Len(req') <= MaxRequests
        /\ Cur' = Cur /\ req'[i] = x /\ (i # Cur /\ Cur # 0 => req'[Cur] = req[Cur])
        /\ \A j \in DOMAIN req' :
             req'[j].g <= gen' /\ (j < Cur' => req'[j].g < gen')
     BY OneRequest
  <1>2. Cur # 0 => req'[Cur] = req[Cur] \/ (req[Cur].g # gen /\ req'[Cur].g # gen)
     BY <1>1
  <1>3. TypeOK'
     BY <1>1, Zenon DEF IInv, TypeOK, RequestType
  <1>4. Active' <=> Active
     BY <1>1, <1>2 DEF Active
  <1>5. RequestsOK'
     BY <1>1, <1>2 DEF IInv, RequestsOK
  <1>6. FlagsOK'
     BY <1>4 DEF IInv, FlagsOK
  <1>7. MessagesOK'
     BY DEF IInv, MessagesOK, Now
  <1>8. ReplyOK'
    <2>1. flags.busy => req'[Cur] = req[Cur]
       BY <1>2 DEF IInv, FlagsOK, Active
    <2>2. Now' = Now
       BY DEF Now
    <2>. QED  BY <1>1, <2>1, <2>2 DEF IInv, ReplyOK
  <1>. QED  BY <1>3, <1>5, <1>6, <1>7, <1>8 DEF IInv

\* The phase of a request changes.
LEMMA PhaseType ==
    ASSUME IInv, NEW i \in DOMAIN req, NEW ph \in {"headers", "open", "wait", "cut", "done"},
           NEW x, x = [req[i] EXCEPT !.ph = ph]
    PROVE  x \in RequestType /\ x.g = req[i].g /\ x.n = req[i].n /\ x.ph = ph
  <1>1. req[i] \in RequestType
     BY Types DEF IInv
  <1>. QED  BY <1>1 DEF RequestType

\* The controller serves none but the request made last, while it is current.
LEMMA ServedRequest ==
    ASSUME IInv, NEW i \in DOMAIN req, ctl.cur = i
    PROVE  i = Cur /\ req[i].g = gen
  <1>1. i # 0
     BY Types, ScenariosAssumption DEF IInv, Requests
  <1>. QED  BY <1>1 DEF IInv, RequestsOK

\* The last request is at work until it is done, and the page shows it.
LEMMA BusyRequest ==
    ASSUME IInv, NEW i \in DOMAIN req, i = Cur, req[i].g = gen, req[i].ph # "done"
    PROVE  Active /\ flags.busy /\ shown.busy
  <1>1. i # 0
     BY Types, ScenariosAssumption DEF IInv, Requests
  <1>. QED  BY <1>1 DEF IInv, FlagsOK, Active

\* The flags, the phase and the controller change, and nothing else.
LEMMA PhaseStep ==
    ASSUME IInv, NEW i \in DOMAIN req, i = Cur, req[i].g = gen, req[i].ph # "done",
           NEW ph \in {"open", "cut"}, ph = "open" => ctl.cur = i /\ ctl'.source = i,
           req' = [req EXCEPT ![i] = [req[i] EXCEPT !.ph = ph]],
           ctl' \in [cur : Requests \cup {0}, source : Requests \cup {0}],
           ctl'.cur = ctl.cur, ctl'.source \in {0, ctl.cur},
           flags' \in FlagsType, flags'.busy = flags.busy,
           UNCHANGED <<shown, queue, gen, pend, flush, stored, save, may>>
    PROVE  IInv'
  <1>1. PICK x : x = [req[i] EXCEPT !.ph = ph]
     OBVIOUS
  <1>2. x \in RequestType /\ x.g = req[i].g /\ x.n = req[i].n /\ x.ph = ph
     BY <1>1, PhaseType
  <1>3. /\ req' \in Seq(RequestType) /\ Len(req') <= MaxRequests /\ Cur' = Cur /\ req'[i] = x
        /\ \A j \in DOMAIN req' :
             req'[j].g <= gen' /\ (j < Cur' => req'[j].g < gen')
     BY <1>1, <1>2, OneRequest
  <1>4. Active /\ flags.busy /\ shown.busy
     BY BusyRequest
  <1>5. TypeOK'
     BY <1>3, Zenon DEF IInv, TypeOK, RequestType, FlagsType
  <1>6. Active'
     BY <1>2, <1>3, <1>4 DEF Active
  <1>7. RequestsOK'
     BY <1>2, <1>3 DEF IInv, RequestsOK
  <1>8. FlagsOK'
     BY <1>4, <1>6 DEF IInv, FlagsOK
  <1>9. MessagesOK'
     BY DEF IInv, MessagesOK, Now
  <1>10. ReplyOK'
    <2>1. req'[Cur].n = req[Cur].n /\ Now' = Now
       BY <1>2, <1>3 DEF Now
    <2>. QED  BY <1>3, <1>4, <2>1 DEF IInv, ReplyOK
  <1>. QED  BY <1>5, <1>7, <1>8, <1>9, <1>10 DEF IInv

\* getFreshAuthHeaders resolves, for the request at work or a superseded one.
LEMMA HeadersReadyStep ==
    ASSUME IInv, NEW i \in DOMAIN req, HeadersReady(i) PROVE IInv'
  <1>1. /\ req[i].ph = "headers"
        /\ UNCHANGED <<shown, queue, gen, pend, flush, stored, save, may>>
     BY DEF HeadersReady
  <1>2. CASE /\ ctl.cur = i /\ ctl' = [ctl EXCEPT !.source = i]
             /\ flags' = [flags EXCEPT !.streaming = TRUE]
             /\ req' = [req EXCEPT ![i].ph = "open"]
    <2>1. i = Cur /\ req[i].g = gen /\ i \in Requests
       BY <1>2, ServedRequest, Types DEF IInv
    <2>2. /\ ctl' \in [cur : Requests \cup {0}, source : Requests \cup {0}]
          /\ ctl'.cur = ctl.cur /\ ctl'.source = i
       BY <1>2, <2>1, TypeParts DEF IInv
    <2>3. flags' \in FlagsType /\ flags'.busy = flags.busy
       BY <1>2, Types DEF IInv, FlagsType
    <2>. QED  BY <1>1, <1>2, <2>1, <2>2, <2>3, PhaseStep
  <1>3. CASE ctl.cur # i /\ req' = [req EXCEPT ![i].ph = "done"] /\ UNCHANGED <<ctl, flags>>
    <2>1. ~(i = Cur /\ req[Cur].g = gen)
      <3>1. i # 0
         BY Types, ScenariosAssumption DEF IInv, Requests
      <3>. QED  BY <1>1, <1>3, <3>1 DEF IInv, RequestsOK
    <2>2. PICK x : x = [req[i] EXCEPT !.ph = "done"]
       OBVIOUS
    <2>3. x \in RequestType /\ x.g = req[i].g
       BY <2>2, PhaseType
    <2>. QED  BY <1>1, <1>3, <2>1, <2>2, <2>3, OtherRequest
  <1>. QED  BY <1>2, <1>3 DEF HeadersReady

\* A stream that just closes leaves its request at work.
LEMMA TruncatedStep ==
    ASSUME IInv, NEW i \in DOMAIN req, StreamTruncated(i) PROVE IInv'
  <1>1. /\ req[i].ph = "open" /\ req' = [req EXCEPT ![i].ph = "cut"]
        /\ UNCHANGED <<shown, queue, flags, gen, pend, flush, ctl, stored, save, may>>
     BY DEF StreamTruncated
  <1>2. CASE i = Cur /\ req[Cur].g = gen
    <2>1. /\ ctl' \in [cur : Requests \cup {0}, source : Requests \cup {0}]
          /\ ctl'.cur = ctl.cur /\ ctl'.source \in {0, ctl.cur}
          /\ flags' \in FlagsType /\ flags'.busy = flags.busy
       BY <1>1, TypeParts DEF IInv, RequestsOK
    <2>. QED  BY <1>1, <1>2, <2>1, PhaseStep
  <1>3. CASE ~(i = Cur /\ req[Cur].g = gen)
    <2>2. PICK x : x = [req[i] EXCEPT !.ph = "cut"]
       OBVIOUS
    <2>3. x \in RequestType /\ x.g = req[i].g
       BY <2>2, PhaseType
    <2>. QED  BY <1>1, <1>3, <2>2, <2>3, OtherRequest
  <1>. QED  BY <1>2, <1>3

\* A chunk joins the pending ones, or comes too late and is dropped.
LEMMA StreamChunkStep ==
    ASSUME IInv, NEW i \in DOMAIN req, StreamChunk(i) PROVE IInv'
  <1>0. PICK n \in req[i].n + 1 .. Length :
         /\ req' = [req EXCEPT ![i].n = n]
         /\ \/ /\ IsCurrent(i) /\ req[i].g = gen /\ pend.g = gen
               /\ pend' = [pend EXCEPT !.text =
                      mergePendingStreamChunk(@, SubSeq(ReplyOf(i), req[i].n + 1, n))]
               /\ flush' = TRUE
            \/ /\ ~(IsCurrent(i) /\ req[i].g = gen /\ pend.g = gen)
               /\ UNCHANGED <<pend, flush>>
     BY DEF StreamChunk
  <1>1. /\ req[i].ph = "open"
        /\ UNCHANGED <<shown, queue, flags, gen, ctl, stored, save, may>>
     BY DEF StreamChunk
  <1>2. PICK x : x = [req[i] EXCEPT !.n = n]
     OBVIOUS
  <1>3. /\ x \in RequestType /\ x.g = req[i].g /\ x.n = n /\ x.ph = "open"
        /\ req[i].n \in 0 .. Length
    <2>1. req[i] \in RequestType
       BY Types DEF IInv
    <2>2. req[i].n \in 0 .. Length
       BY <2>1 DEF RequestType
    <2>3. n \in 0 .. Length
       BY <2>2, LengthAssumption
    <2>. QED  BY <1>1, <1>2, <2>1, <2>2, <2>3 DEF RequestType
  <1>4. req' = [req EXCEPT ![i] = x]
     BY <1>0, <1>2
  <1>5. CASE i = Cur /\ req[Cur].g = gen
    <2>1. /\ req' \in Seq(RequestType) /\ Len(req') <= MaxRequests /\ Cur' = Cur /\ req'[i] = x
          /\ \A j \in DOMAIN req' :
               req'[j].g <= gen' /\ (j < Cur' => req'[j].g < gen')
       BY <1>1, <1>3, <1>4, OneRequest
    <2>2. Active /\ flags.busy /\ shown.busy
       BY <1>1, <1>5, BusyRequest
    <2>3. IsCurrent(i) /\ req[i].g = gen /\ pend.g = gen
      <3>1. Cur # 0
         BY <2>2 DEF Active
      <3>. QED  BY <1>1, <1>5, <3>1 DEF IInv, RequestsOK, ReplyOK, IsCurrent
    <2>4. /\ pend' = [pend EXCEPT !.text =
                        mergePendingStreamChunk(@, SubSeq(ReplyOf(i), req[i].n + 1, n))]
          /\ flush' = TRUE
       BY <1>0, <2>3
    <2>5. PICK c \in 0 .. Length :
                /\ req[Cur].n \in c .. Length
                /\ Serves(Now, Cur, c, may.editor) /\ Carries(shown.msgs, Cur, c)
                /\ Part(pend.text, Cur, c, req[Cur].n)
       BY <2>2, AtWork
    <2>6. PICK a : a = req[Cur].n
       OBVIOUS
    <2>7. /\ a \in 0 .. Length /\ n \in a + 1 .. Length /\ n \in a .. Length /\ a # n
          /\ c \in 0 .. a /\ c \in 0 .. n /\ Cur \in Requests
       BY <1>3, <1>5, <2>2, <2>5, <2>6, AtWork, LengthAssumption
    <2>8. PICK chunk, text : /\ chunk = SubSeq(ReplyOf(Cur), a + 1, n)
                             /\ text = mergePendingStreamChunk(pend.text, chunk)
       OBVIOUS
    <2>9. Part(text, Cur, c, n)
      <3>1. Part(chunk, Cur, a, n)
         BY <2>7, <2>8, ChunkPart
      <3>2. Part(pend.text, Cur, c, a)
         BY <2>5, <2>6
      <3>. QED  BY <2>7, <2>8, <3>1, <3>2, PartGrows
    <2>10. /\ pend' \in [g : Nat, text : Seq(Tokens)] /\ pend'.g = gen
           /\ pend'.text = text
      <3>1. pend' = [pend EXCEPT !.text = text]
         BY <1>5, <2>4, <2>6, <2>8
      <3>2. text \in Seq(Tokens)
         BY <2>9 DEF Part
      <3>. QED  BY <2>3, <3>1, <3>2, TypeParts DEF IInv
    <2>11. TypeOK'
       BY <1>1, <2>1, <2>4, <2>10, Zenon DEF IInv, TypeOK, RequestType
    <2>12. Active'
       BY <1>1, <1>3, <1>5, <2>1, <2>2 DEF Active
    <2>13. RequestsOK'
       BY <1>1, <1>3, <1>5, <2>1 DEF IInv, RequestsOK
    <2>14. FlagsOK'
       BY <1>1, <2>2, <2>12 DEF IInv, FlagsOK
    <2>15. MessagesOK' /\ Now' = Now
       BY <1>1 DEF IInv, MessagesOK, Now
    <2>16. ReplyOK'
      <3>1. req'[Cur].n = n
         BY <1>3, <1>5, <2>1
      <3>. QED  BY <1>1, <2>1, <2>2, <2>5, <2>7, <2>9, <2>10, <2>15, <3>1 DEF ReplyOK
    <2>. QED  BY <2>11, <2>13, <2>14, <2>15, <2>16 DEF IInv
  <1>6. CASE ~(i = Cur /\ req[Cur].g = gen)
    <2>1. ~(IsCurrent(i) /\ req[i].g = gen /\ pend.g = gen)
       BY <1>6, ServedRequest DEF IsCurrent
    <2>2. UNCHANGED <<pend, flush>>
       BY <1>0, <2>1
    <2>. QED  BY <1>1, <1>3, <1>4, <1>6, <2>2, OtherRequest
  <1>. QED  BY <1>5, <1>6

\* The end of the request at work: its reply is complete or an error.
LEMMA FinishedState ==
    ASSUME IInv, NEW i \in DOMAIN req, i = Cur, req[i].g = gen, req[i].ph # "done",
           req' = [req EXCEPT ![i] = [req[i] EXCEPT !.ph = "done"]],
           queue' \in Seq(Updates), Folds(queue'),
           Quiet(Drawn(shown.msgs, queue', gen), may.editor),
           pend' \in [g : Nat, text : Seq(Tokens)], pend'.g = gen, pend'.text = <<>>,
           flush' \in BOOLEAN, flags' \in FlagsType, ~flags'.busy,
           ctl' \in [cur : Requests \cup {0}, source : Requests \cup {0}],
           ctl'.cur = ctl.cur, ctl'.source \in {0, ctl.cur},
           UNCHANGED <<shown, gen, stored, save, may>>
    PROVE  IInv'
  <1>1. PICK x : x = [req[i] EXCEPT !.ph = "done"]
     OBVIOUS
  <1>2. x \in RequestType /\ x.g = req[i].g /\ x.n = req[i].n /\ x.ph = "done"
     BY <1>1, PhaseType
  <1>3. /\ req' \in Seq(RequestType) /\ Len(req') <= MaxRequests /\ Cur' = Cur /\ req'[i] = x
        /\ \A j \in DOMAIN req' :
             req'[j].g <= gen' /\ (j < Cur' => req'[j].g < gen')
     BY <1>1, <1>2, OneRequest
  <1>4. shown.busy
     BY BusyRequest
  <1>5. TypeOK'
     BY <1>3, Zenon DEF IInv, TypeOK, RequestType, FlagsType
  <1>6. ~Active'
     BY <1>2, <1>3 DEF Active
  <1>7. RequestsOK'
     BY <1>2, <1>3 DEF IInv, RequestsOK
  <1>8. FlagsOK'
     BY <1>4, <1>6 DEF IInv, FlagsOK
  <1>9. Now' = Drawn(shown.msgs, queue', gen)
     BY DEF Now
  <1>10. MessagesOK'
    <2>1. Good(Drawn(shown.msgs, queue', gen), may.editor)
          /\ Good(Drawn(shown.msgs, queue', gen + 1), may.editor)
       BY DEF Folds
    <2>. QED  BY <1>9, <2>1 DEF IInv, MessagesOK
  <1>11. ReplyOK'
     BY <1>9 DEF ReplyOK
  <1>. QED  BY <1>5, <1>7, <1>8, <1>10, <1>11 DEF IInv

\* handleStreamComplete or handleStreamError of the request at work.
LEMMA FinishStep ==
    ASSUME IInv, NEW i \in DOMAIN req, i = Cur, req[i].g = gen, req[i].ph # "done",
           req' = [req EXCEPT ![i] = [req[i] EXCEPT !.ph = "done"]],
           NEW k \in {"complete", "error"}, k = "complete" => req[i].n = Length,
           NEW text \in Seq(Tokens), NEW f \in FlagsType,
           Finish(gen, Update(k, gen, text), f),
           ctl' \in [cur : Requests \cup {0}, source : Requests \cup {0}],
           ctl'.cur = ctl.cur, ctl'.source \in {0, ctl.cur},
           UNCHANGED <<shown, gen, stored, save, may>>
    PROVE  IInv'
  <1>1. flags.busy
     BY BusyRequest
  <1>2. /\ queue' \in UNION {Enqueued(q, Update(k, gen, text)) : q \in FlushFirst(gen)}
        /\ pend' = [pend EXCEPT !.text = <<>>]
        /\ flush' = (flush /\ FALSE) /\ flags' = [f EXCEPT !.busy = @ /\ FALSE]
     BY DEF Finish
  <1>3. PICK q \in FlushFirst(gen) : queue' \in Enqueued(q, Update(k, gen, text))
     BY <1>2
  <1>4. /\ queue' \in Seq(Updates) /\ Folds(queue')
        /\ Quiet(Drawn(shown.msgs, queue', gen), may.editor)
     BY <1>1, <1>3, EndQueued
  <1>5. pend' \in [g : Nat, text : Seq(Tokens)] /\ pend'.g = gen /\ pend'.text = <<>>
    <2>1. pend \in [g : Nat, text : Seq(Tokens)] /\ pend.g = gen /\ <<>> \in Seq(Tokens)
       BY TypeParts DEF IInv, ReplyOK
    <2>. QED  BY <1>2, <2>1
  <1>6. flush' \in BOOLEAN /\ flags' \in FlagsType /\ ~flags'.busy
     BY <1>2 DEF FlagsType
  <1>. QED  BY <1>4, <1>5, <1>6, FinishedState

\* [DONE] or an error of a stream, or one nobody listens to any more.
LEMMA StreamEndsStep ==
    ASSUME IInv, NEW i \in DOMAIN req, NEW k \in {"complete", "error"}, StreamEnds(i, k)
    PROVE  IInv'
  <1>1. /\ req[i].ph = "open" /\ (k = "complete" => req[i].n = Length)
        /\ req' = [req EXCEPT ![i].ph = "done"]
        /\ UNCHANGED <<shown, gen, stored, save, may>>
     BY DEF StreamEnds
  <1>2. PICK x : x = [req[i] EXCEPT !.ph = "done"]
     OBVIOUS
  <1>3. x \in RequestType /\ x.g = req[i].g /\ req' = [req EXCEPT ![i] = x]
     BY <1>1, <1>2, PhaseType
  <1>4. CASE /\ IsCurrent(i) /\ ctl' = [ctl EXCEPT !.source = 0]
             /\ Finish(req[i].g, Update(k, req[i].g, ReplyOf(i)), [flags EXCEPT !.streaming = FALSE])
    <2>1. i = Cur /\ req[i].g = gen /\ i \in Requests
       BY <1>4, ServedRequest, Types DEF IInv, IsCurrent
    <2>2. /\ ctl' \in [cur : Requests \cup {0}, source : Requests \cup {0}]
          /\ ctl'.cur = ctl.cur /\ ctl'.source \in {0, ctl.cur}
       BY <1>4, TypeParts DEF IInv
    <2>3. PICK f : f = [flags EXCEPT !.streaming = FALSE]
       OBVIOUS
    <2>4. f \in FlagsType
       BY <2>3, Types DEF IInv, FlagsType
    <2>5. Finish(gen, Update(k, gen, ReplyOf(i)), f) /\ ReplyOf(i) \in Seq(Tokens)
       BY <1>4, <2>1, <2>3, OwnTexts
    <2>. QED  BY <1>1, <1>2, <1>3, <2>1, <2>2, <2>4, <2>5, FinishStep
  <1>5. CASE ~IsCurrent(i) /\ UNCHANGED <<queue, flags, pend, flush, ctl>>
    <2>1. ~(i = Cur /\ req[Cur].g = gen)
      <3>1. i # 0
         BY Types, ScenariosAssumption DEF IInv, Requests
      <3>. QED  BY <1>1, <1>5, <3>1 DEF IInv, RequestsOK, IsCurrent
    <2>. QED  BY <1>1, <1>3, <1>5, <2>1, OtherRequest
  <1>. QED  BY <1>4, <1>5 DEF StreamEnds

\* getFreshAuthHeaders rejects.
LEMMA HeadersFailStep ==
    ASSUME IInv, NEW i \in DOMAIN req, HeadersFail(i) PROVE IInv'
  <1>1. /\ req[i].ph = "headers" /\ req' = [req EXCEPT ![i].ph = "done"]
        /\ UNCHANGED <<shown, gen, ctl, stored, save, may>>
     BY DEF HeadersFail
  <1>2. PICK x : x = [req[i] EXCEPT !.ph = "done"]
     OBVIOUS
  <1>3. x \in RequestType /\ x.g = req[i].g /\ req' = [req EXCEPT ![i] = x]
     BY <1>1, <1>2, PhaseType
  <1>4. CASE ctl.cur = i /\ Finish(req[i].g, Update("error", req[i].g, <<>>), flags)
    <2>1. i = Cur /\ req[i].g = gen
       BY <1>4, ServedRequest
    <2>2. /\ ctl' \in [cur : Requests \cup {0}, source : Requests \cup {0}]
          /\ ctl'.cur = ctl.cur /\ ctl'.source \in {0, ctl.cur} /\ flags \in FlagsType
       BY <1>1, TypeParts DEF IInv, RequestsOK
    <2>3. PICK text, k : text = <<>> /\ k = "error"
       OBVIOUS
    <2>4. text \in Seq(Tokens) /\ k \in {"complete", "error"} /\ k # "complete"
       BY <2>3
    <2>5. Finish(gen, Update(k, gen, text), flags)
       BY <1>4, <2>1, <2>3
    <2>. QED  BY <1>1, <1>2, <1>3, <2>1, <2>2, <2>4, <2>5, FinishStep
  <1>5. CASE ctl.cur # i /\ UNCHANGED <<queue, flags, pend, flush>>
    <2>1. ~(i = Cur /\ req[Cur].g = gen)
      <3>1. i # 0
         BY Types, ScenariosAssumption DEF IInv, Requests
      <3>. QED  BY <1>1, <1>5, <3>1 DEF IInv, RequestsOK
    <2>. QED  BY <1>1, <1>3, <1>5, <2>1, OtherRequest
  <1>. QED  BY <1>4, <1>5 DEF HeadersFail

\* sendChatCompletion settles.
LEMMA PlainSettlesStep ==
    ASSUME IInv, NEW i \in DOMAIN req, NEW ok \in BOOLEAN, PlainSettles(i, ok) PROVE IInv'
  <1>1. /\ req[i].ph = "wait" /\ req' = [req EXCEPT ![i].ph = "done"]
        /\ UNCHANGED <<shown, gen, ctl, stored, save, may>>
     BY DEF PlainSettles
  <1>2. PICK x : x = [req[i] EXCEPT !.ph = "done"]
     OBVIOUS
  <1>3. x \in RequestType /\ x.g = req[i].g /\ req' = [req EXCEPT ![i] = x]
     BY <1>1, <1>2, PhaseType
  <1>4. /\ ctl' \in [cur : Requests \cup {0}, source : Requests \cup {0}]
        /\ ctl'.cur = ctl.cur /\ ctl'.source \in {0, ctl.cur} /\ flags \in FlagsType
        /\ pend \in [g : Nat, text : Seq(Tokens)] /\ pend.g = gen /\ flush \in BOOLEAN
     BY <1>1, TypeParts DEF IInv, RequestsOK, ReplyOK
  <1>5. req[i].g = gen => i = Cur
    <2>1. i \in Nat /\ Cur \in Nat /\ i <= Cur /\ req[i].g \in Nat
       BY Types DEF IInv, RequestType
    <2>2. i < Cur => req[i].g < gen
       BY DEF IInv, RequestsOK
    <2>3. gen \in Nat
       BY Types DEF IInv
    <2>. QED  BY <2>1, <2>2, <2>3
  <1>6. CASE /\ PlainCurrent(i)
             /\ queue' \in Enqueued(queue, Update("response", req[i].g, ReplyOf(i)))
             /\ flags' = [flags EXCEPT !.busy = FALSE]
             /\ UNCHANGED <<pend, flush>>
    <2>1. req[i].g = gen /\ i = Cur
       BY <1>5, <1>6 DEF PlainCurrent
    <2>2. Active /\ flags.busy
       BY <1>1, <2>1, BusyRequest
    <2>3. req[Cur].n = 0
      <3>1. Cur # 0
         BY <2>2 DEF Active
      <3>. QED  BY <1>1, <2>1, <3>1 DEF IInv, RequestsOK
    <2>4. queue' \in Enqueued(queue, Update("response", gen, ReplyOf(Cur)))
       BY <1>6, <2>1
    <2>5. /\ queue' \in Seq(Updates) /\ Folds(queue') /\ pend.text = <<>>
          /\ Quiet(Drawn(shown.msgs, queue', gen), may.editor)
       BY <2>2, <2>3, <2>4, ResponseQueued
    <2>6. flags' \in FlagsType /\ ~flags'.busy
       BY <1>4, <1>6 DEF FlagsType
    <2>. QED  BY <1>1, <1>2, <1>3, <1>4, <1>6, <2>1, <2>5, <2>6, FinishedState
  <1>7. CASE PlainCurrent(i) /\ Finish(req[i].g, Update("error", req[i].g, <<>>), flags)
    <2>1. req[i].g = gen /\ i = Cur
       BY <1>5, <1>7 DEF PlainCurrent
    <2>3. PICK text, k : text = <<>> /\ k = "error"
       OBVIOUS
    <2>4. text \in Seq(Tokens) /\ k \in {"complete", "error"} /\ k # "complete"
       BY <2>3
    <2>5. Finish(gen, Update(k, gen, text), flags)
       BY <1>7, <2>1, <2>3
    <2>. QED  BY <1>1, <1>2, <1>3, <1>4, <2>1, <2>4, <2>5, FinishStep
  <1>8. CASE ~PlainCurrent(i) /\ UNCHANGED <<queue, flags, pend, flush>>
    <2>1. ~(i = Cur /\ req[Cur].g = gen)
       BY <1>8 DEF PlainCurrent
    <2>. QED  BY <1>1, <1>3, <1>8, <2>1, OtherRequest
  <1>. QED  BY <1>6, <1>7, <1>8 DEF PlainSettles

\* The page is left and opened again: what is loaded has nothing pending.
LEMMA RevisitStep ==
    ASSUME IInv, NEW closed \in BOOLEAN, Revisit(closed) PROVE IInv'
  <1>1. PICK kept : kept = IF save.timer /\ ~closed THEN save.latest ELSE stored
     OBVIOUS
  <1>2. PICK ms : ms = loadMessages(kept)
     OBVIOUS
  <1>3. /\ may' = [may EXCEPT !.visits = @ - 1] /\ may.visits > 0
        /\ stored' = ms
        /\ shown' = [msgs |-> ms, busy |-> FALSE, streaming |-> FALSE, edit |-> NoKey]
        /\ save' = [latest |-> ms, timer |-> FALSE]
        /\ queue' = <<>>
        /\ flags' = [busy |-> FALSE, streaming |-> FALSE]
        /\ pend' = [g |-> gen, text |-> <<>>]
        /\ flush' = FALSE
        /\ ctl' = [cur |-> 0, source |-> 0]
        /\ req' = [i \in DOMAIN req |-> [req[i] EXCEPT !.ph = "done"]]
        /\ gen' = gen
     BY <1>1, <1>2 DEF Revisit, Idle
  <1>4. Good(kept, may.editor)
     BY <1>1 DEF IInv, MessagesOK
  <1>5. Good(ms, may.editor) /\ Quiet(ms, may.editor) /\ ms \in Seq(Messages)
    <2>1. Good(ms, may.editor) /\ Quiet(ms, may.editor)
       BY <1>2, <1>4, Loaded
    <2>. QED  BY <2>1 DEF Good
  <1>6. may' \in ScenarioType /\ may'.editor = may.editor
    <2>1. may \in ScenarioType
       BY Types DEF IInv
    <2>2. PICK v : v = may.visits - 1
       OBVIOUS
    <2>3. v \in Nat
       BY <1>3, <2>1, <2>2 DEF ScenarioType
    <2>4. may' = [may EXCEPT !.visits = v]
       BY <1>3, <2>2
    <2>. QED  BY <2>1, <2>3, <2>4 DEF ScenarioType
  <1>7. /\ shown' \in ShownType /\ shown'.msgs = ms /\ shown'.busy = FALSE
        /\ shown'.edit = NoKey
     BY <1>3, <1>5 DEF ShownType, NoKey, MessageKeys
  <1>8. save' \in SaveType /\ save'.latest = ms
     BY <1>3, <1>5 DEF SaveType
  <1>9. gen \in Nat /\ req \in Seq(RequestType) /\ Len(req) \in Nat /\ Len(req) <= MaxRequests
     BY Types DEF IInv, Cur
  <1>10. ASSUME NEW i \in DOMAIN req
         PROVE  req'[i] \in RequestType /\ req'[i].g = req[i].g /\ req'[i].ph = "done"
     BY <1>3, PhaseType
  <1>11. req' \in Seq(RequestType) /\ Len(req') = Len(req) /\ DOMAIN req' = DOMAIN req
    <2>1. DOMAIN req = 1 .. Len(req) /\ DOMAIN req' = 1 .. Len(req)
       BY <1>3, <1>9
    <2>2. req' = [i \in 1 .. Len(req) |-> req'[i]]
       BY <1>3, <1>9
    <2>3. req' \in [1 .. Len(req) -> RequestType]
       BY <1>10, <2>1, <2>2
    <2>. QED  BY <1>9, <2>1, <2>3
  <1>12. /\ flags' \in FlagsType /\ flags'.busy = FALSE /\ queue' \in Seq(Updates)
         /\ pend' \in [g : Nat, text : Seq(Tokens)] /\ pend'.g = gen' /\ pend'.text = <<>>
         /\ ctl' \in [cur : Requests \cup {0}, source : Requests \cup {0}]
         /\ flush' \in BOOLEAN /\ gen' \in Nat /\ stored' \in Seq(Messages)
    <2>1. <<>> \in Seq(Tokens) /\ <<>> \in Seq(Updates)
       OBVIOUS
    <2>. QED  BY <1>3, <1>5, <1>9, <2>1 DEF FlagsType
  <1>13. TypeOK'
    <2>1. Len(req') <= MaxRequests
       BY <1>9, <1>11
    <2>. QED  BY <1>6, <1>7, <1>8, <1>11, <1>12, <2>1, Zenon
              DEF TypeOK, ShownType, FlagsType, RequestType, SaveType
  <1>14. Cur' = Cur /\ (Cur # 0 => Cur \in DOMAIN req)
     BY <1>11, Types DEF IInv, Cur
  <1>15. ~Active'
     BY <1>10, <1>14 DEF Active
  <1>16. RequestsOK'
    <2>1. \A i \in DOMAIN req : req[i].g <= gen /\ (i < Cur => req[i].g < gen)
       BY DEF IInv, RequestsOK
    <2>2. Cur # 0 => req'[Cur].ph = "done"
       BY <1>10, <1>14
    <2>. QED  BY <1>3, <1>10, <1>11, <1>14, <2>1, <2>2 DEF RequestsOK
  <1>17. FlagsOK'
     BY <1>3, <1>7, <1>12, <1>15 DEF FlagsOK
  <1>18. Now' = ms /\ Drawn(shown'.msgs, queue', gen' + 1) = ms
     BY <1>3, <1>7, DrawnEmpty DEF Now
  <1>19. MessagesOK'
     BY <1>3, <1>5, <1>6, <1>7, <1>8, <1>18 DEF MessagesOK
  <1>20. ReplyOK'
     BY <1>5, <1>6, <1>12, <1>18 DEF ReplyOK
  <1>. QED  BY <1>13, <1>16, <1>17, <1>19, <1>20 DEF IInv

----------------------------------------------------------------------------
\* Theorems

\* Every step keeps the invariant.
LEMMA Inductive == IInv /\ [Next]_vars => IInv'
  <1>. SUFFICES ASSUME IInv, [Next]_vars PROVE IInv'
     OBVIOUS
  <1>1. CASE UNCHANGED vars
    <2>1. flush' \in BOOLEAN
       BY <1>1, TypeParts DEF IInv, vars
    <2>. QED  BY <1>1, <2>1, Unchanged DEF vars
  <1>2. CASE Render \/ FlushTimer \/ SaveTimer
     BY <1>2, RenderStep, FlushTimerStep, SaveTimerStep
  <1>3. CASE Send \/ Stop \/ SaveEdit \/ SaveEditAndSubmit \/ ClearMessages
     BY <1>3, SendStep, StopStep, SaveEditStep, SubmitStep, ClearStep
  <1>4. CASE \E n \in DOMAIN shown.msgs : Regenerate(n) \/ OpenEditor(n) \/ Delete(n)
     BY <1>4, RegenerateStep, OpenEditorStep, DeleteStep
  <1>5. ASSUME NEW i \in DOMAIN req, StreamChunk(i) \/ Ends(i) PROVE IInv'
     BY <1>5, StreamChunkStep, HeadersReadyStep, HeadersFailStep, TruncatedStep,
        StreamEndsStep, PlainSettlesStep DEF Ends
  <1>6. CASE \E closed \in BOOLEAN : Revisit(closed)
     BY <1>6, RevisitStep
  <1>. QED  BY <1>1, <1>2, <1>3, <1>4, <1>5, <1>6 DEF Next

\* In every state of the playground the conversation in each of its copies, the
\* queue and the request at work fit together: what the queued updates will show
\* and the pending chunks are made of what the request has sent, and are all of
\* it unless the reply repeats itself.
THEOREM AlwaysConsistent == Spec => []IInv
  <1>. QED  BY Initially, Inductive, PTL DEF Spec

\* The variables of the hooks keep their types.
THEOREM TypeCorrect == Spec => []TypeOK
  <1>1. IInv => TypeOK
     BY DEF IInv
  <1>. QED  BY AlwaysConsistent, <1>1, PTL

\* No cross-talk: whatever was sent, stopped, regenerated or edited, the updaters'
\* generation checks let an assistant message show tokens of its own request only,
\* in order and none twice.
THEOREM RepliesAreOwn == Spec => []OwnReply
  <1>1. IInv => OwnReply
    <2>. SUFFICES ASSUME IInv, NEW m \in Assistants, NEW a \in DOMAIN m.text,
                         NEW b \in DOMAIN m.text, m.text[a].req # 0
                  PROVE  /\ m.text[a].req = m.key
                         /\ a < b /\ m.text[b].req # 0 => m.text[a].pos < m.text[b].pos
       BY DEF OwnReply
    <2>1. PICK n \in DOMAIN shown.msgs : m = shown.msgs[n]
       BY DEF Assistants, Range
    <2>2. m.from = "assistant" /\ Sound(m, may.editor)
       BY <2>1 DEF Assistants, IInv, MessagesOK, Good
    <2>3. OwnText(m.text, m.key, Length)
       BY <2>2 DEF Sound
    <2>. QED  BY <2>3 DEF OwnText
  <1>. QED  BY AlwaysConsistent, <1>1, PTL

\* Without editors a pending message is the last one and the page offers to stop
\* it, also after a visit in the middle of a generation.
THEOREM NoneIsStuck == Spec => []NoStuckMessage
  <1>1. IInv => NoStuckMessage
    <2>. SUFFICES ASSUME IInv, ~may.editor, NEW n \in DOMAIN shown.msgs, Pending(shown.msgs[n])
                  PROVE  n = Len(shown.msgs) /\ isGenerating
       BY DEF NoStuckMessage
    <2>1. n = Len(shown.msgs)
       BY DEF IInv, MessagesOK, Good
    <2>2. ~isGenerating => ~Pending(shown.msgs[n])
       BY NotGenerating DEF Quiet
    <2>. QED  BY <2>1, <2>2
  <1>. QED  BY AlwaysConsistent, <1>1, PTL

\* Without editors a reply that [DONE] completed is shown whole if no part of it
\* is directly followed by itself, and one that was not streamed always: the
\* flush timer, the flush at the end, React's queue and the merging of chunks
\* lose none and repeat none, however the reply was cut into chunks.
THEOREM RepliesAreWhole == Spec => []WholeReply
  <1>1. IInv => WholeReply
    <2>. SUFFICES ASSUME IInv, ~may.editor, NEW m \in Assistants PROVE Whole(m)
       BY DEF WholeReply
    <2>1. PICK n \in DOMAIN shown.msgs : m = shown.msgs[n]
       BY DEF Assistants, Range
    <2>2. m.from = "assistant" /\ Sound(m, may.editor)
       BY <2>1 DEF Assistants, IInv, MessagesOK, Good
    <2>. QED  BY <2>2 DEF Sound
  <1>. QED  BY AlwaysConsistent, <1>1, PTL
============================================================================
