----------------------- MODULE ProviderLedger_proofs -----------------------
(***************************************************************************)
(* The provider's ledger for any number of calls, keys and amounts.        *)
(*                                                                         *)
(* The calls read sums over tables, so the first part is about sums: what  *)
(* SumFunction gives when one entry changes.  It is proved by taking a     *)
(* smallest set for which it fails, as finite sets allow.  The second part *)
(* is the inductive invariant: the holder of the row lock is the only call *)
(* past its check, so what it has read stays an upper bound until it       *)
(* writes, whatever settlements, adjustments and status updates come in    *)
(* between.                                                                *)
(***************************************************************************)
EXTENDS ProviderLedger, FiniteSetTheorems, WellFoundedInduction, TLAPS

----------------------------------------------------------------------------
\* Sums

\* The element the fold takes next.
First(s) == CHOOSE x \in s : TRUE

\* g gives the sum of f over every subset of S.
Sums(f, S, g) ==
    g = [s \in SUBSET S |-> IF s = {} THEN 0 ELSE f[First(s)] + g[s \ {First(s)}]]

\* SumFunction is the entry of that function for the whole domain.
LEMMA SumUnfold ==
    ASSUME NEW f
    PROVE  SumFunction(f) = (CHOOSE g : Sums(f, DOMAIN f, g))[DOMAIN f]
  BY Zenon DEF SumFunction, SumFunctionOnSet, FoldFunctionOnSet, MapThenFoldSet, Sums, First

\* It is one of them.
LEMMA FirstIn == ASSUME NEW s, s # {} PROVE First(s) \in s
  BY DEF First

\* A set of subsets of a finite set has a smallest member.
LEMMA Smallest ==
    ASSUME NEW S, IsFiniteSet(S), NEW T, T \subseteq SUBSET S, T # {}
    PROVE  \E s \in T : \A u \in T : u \subseteq s => u = s
  <1>1. IsWellFoundedOn(StrictSubsetOrdering(S), SUBSET S)
     BY FS_StrictSubsetOrderingWellFounded, FS_FiniteSubsetsOfFinite
  <1>2. PICK s \in T : \A u \in T : ~(<<u, s>> \in StrictSubsetOrdering(S))
     BY <1>1, WFMin
  <1>3. \A u \in T : u \subseteq s => u = s
    <2>. SUFFICES ASSUME NEW u \in T, u \subseteq s, u # s PROVE FALSE
       OBVIOUS
    <2>1. <<u, s>> \in StrictSubsetOrdering(S)
       BY DEF StrictSubsetOrdering
    <2>. QED  BY <1>2, <2>1
  <1>. QED  BY <1>3

\* Two such functions agree where both are defined.
LEMMA SumsUnique ==
    ASSUME NEW S, IsFiniteSet(S), NEW f, NEW A \in SUBSET S, NEW B \in SUBSET S,
           NEW g, NEW h, Sums(f, A, g), Sums(f, B, h)
    PROVE  \A u \in SUBSET S : u \subseteq A /\ u \subseteq B => g[u] = h[u]
  <1>. DEFINE T == {u \in SUBSET S : u \subseteq A /\ u \subseteq B /\ g[u] # h[u]}
  <1>. SUFFICES ASSUME T # {} PROVE FALSE
     OBVIOUS
  <1>1. PICK s \in T : \A u \in T : u \subseteq s => u = s
    <2>1. T \subseteq SUBSET S
       OBVIOUS
    <2>. HIDE DEF T
    <2>. QED  BY <2>1, Smallest
  <1>2. s # {}
     BY DEF Sums
  <1>. DEFINE v == s \ {First(s)}
  <1>3. v \subseteq s /\ v # s /\ v \in SUBSET S
     BY <1>2, FirstIn
  <1>4. g[v] = h[v]
     BY <1>1, <1>3
  <1>5. g[s] = f[First(s)] + g[v] /\ h[s] = f[First(s)] + h[v]
     BY <1>2 DEF Sums
  <1>. QED  BY <1>4, <1>5

\* There is such a function: a smallest set without one would get it from the
\* functions of its subsets.
LEMMA SumsExist ==
    ASSUME NEW S, IsFiniteSet(S), NEW f
    PROVE  \E g : Sums(f, S, g)
  <1>. DEFINE T == {s \in SUBSET S : ~\E g : Sums(f, s, g)}
  <1>. SUFFICES ASSUME T # {} PROVE FALSE
     OBVIOUS
  <1>1. PICK s \in T : \A u \in T : u \subseteq s => u = s
    <2>1. T \subseteq SUBSET S
       OBVIOUS
    <2>. HIDE DEF T
    <2>. QED  BY <2>1, Smallest
  <1>. DEFINE G(u) == CHOOSE g : Sums(f, u, g)
              h == [u \in SUBSET s |-> IF u = {} THEN 0
                       ELSE f[First(u)] + G(u \ {First(u)})[u \ {First(u)}]]
  <1>2. ASSUME NEW u \in SUBSET s, u # s PROVE Sums(f, u, G(u))
    <2>1. \E g : Sums(f, u, g)
       BY <1>1, <1>2
    <2>. QED  BY <2>1
  <1>. HIDE DEF G
  <1>3. ASSUME NEW u \in SUBSET s, u # s PROVE G(u)[u] = h[u]
    <2>1. CASE u = {}
       BY <1>2, <1>3, <2>1 DEF Sums
    <2>2. CASE u # {}
      <3>. DEFINE v == u \ {First(u)}
      <3>1. v \in SUBSET u /\ v \in SUBSET s /\ v # s /\ u \in SUBSET S
         BY <1>3
      <3>2. Sums(f, u, G(u)) /\ Sums(f, v, G(v))
         BY <1>2, <1>3, <3>1
      <3>3. G(u)[u] = f[First(u)] + G(u)[v]
         BY <2>2, <3>2 DEF Sums
      <3>4. G(u)[v] = G(v)[v]
         BY <3>1, <3>2, SumsUnique
      <3>. QED  BY <2>2, <3>3, <3>4
    <2>. QED  BY <2>1, <2>2
  <1>4. h = [u \in SUBSET s |-> IF u = {} THEN 0 ELSE f[First(u)] + h[u \ {First(u)}]]
    <2>1. ASSUME NEW u \in SUBSET s, u # {}
          PROVE  h[u] = f[First(u)] + h[u \ {First(u)}]
      <3>1. u \ {First(u)} \in SUBSET s /\ u \ {First(u)} # s
         BY <2>1, FirstIn
      <3>2. h[u] = f[First(u)] + G(u \ {First(u)})[u \ {First(u)}]
         BY <2>1
      <3>. HIDE DEF h
      <3>. QED  BY <1>3, <3>1, <3>2
    <2>. QED  BY <2>1
  <1>5. Sums(f, s, h)
     BY <1>4 DEF Sums
  <1>. QED  BY <1>1, <1>5

\* The sum over a subset of a function's domain.
SumTo(f, s) == (CHOOSE g : Sums(f, DOMAIN f, g))[s]

\* The sum of a set is the sum of the rest and its first entry.
LEMMA SumToRec ==
    ASSUME NEW f, IsFiniteSet(DOMAIN f)
    PROVE  /\ SumFunction(f) = SumTo(f, DOMAIN f)
           /\ SumTo(f, {}) = 0
           /\ \A s \in SUBSET DOMAIN f : s # {} =>
                 SumTo(f, s) = f[First(s)] + SumTo(f, s \ {First(s)})
  <1>. DEFINE k == CHOOSE g : Sums(f, DOMAIN f, g)
  <1>1. Sums(f, DOMAIN f, k)
     BY SumsExist
  <1>2. SumFunction(f) = SumTo(f, DOMAIN f)
     BY SumUnfold DEF SumTo
  <1>3. \A s : SumTo(f, s) = k[s]
     BY DEF SumTo
  <1>. HIDE DEF k
  <1>4. k[{}] = 0
     BY <1>1 DEF Sums
  <1>5. ASSUME NEW s \in SUBSET DOMAIN f, s # {}
        PROVE  k[s] = f[First(s)] + k[s \ {First(s)}]
     BY <1>1, <1>5 DEF Sums
  <1>. QED  BY <1>2, <1>3, <1>4, <1>5

\* Sums of natural numbers are natural numbers.
LEMMA SumToType ==
    ASSUME NEW D, IsFiniteSet(D), NEW f \in [D -> Nat]
    PROVE  \A s \in SUBSET D : SumTo(f, s) \in Nat
  <1>. DEFINE T == {s \in SUBSET D : SumTo(f, s) \notin Nat}
  <1>. SUFFICES ASSUME T # {} PROVE FALSE
     OBVIOUS
  <1>1. PICK s \in T : \A u \in T : u \subseteq s => u = s
    <2>1. T \subseteq SUBSET D
       OBVIOUS
    <2>. HIDE DEF T
    <2>. QED  BY <2>1, Smallest
  <1>0. DOMAIN f = D
     OBVIOUS
  <1>2. s # {}
    <2>1. SumTo(f, {}) = 0
       BY <1>0, SumToRec
    <2>. QED  BY <2>1
  <1>. DEFINE v == s \ {First(s)}
  <1>3. v \subseteq s /\ v # s /\ First(s) \in D
     BY <1>2, FirstIn
  <1>4. SumTo(f, v) \in Nat
     BY <1>1, <1>3
  <1>5. SumTo(f, s) = f[First(s)] + SumTo(f, v)
     BY <1>0, <1>2, SumToRec
  <1>. QED  BY <1>3, <1>4, <1>5

\* One changed entry changes the sums of the sets it is in.
LEMMA SumToExcept ==
    ASSUME NEW D, IsFiniteSet(D), NEW f \in [D -> Nat], NEW x \in D, NEW n \in Nat,
           NEW e \in [D -> Nat], e[x] = n, \A y \in D \ {x} : e[y] = f[y]
    PROVE  \A s \in SUBSET D :
              SumTo(e, s) = IF x \in s THEN SumTo(f, s) - f[x] + n ELSE SumTo(f, s)
  <1>. DEFINE T == {s \in SUBSET D : SumTo(e, s) #
                       IF x \in s THEN SumTo(f, s) - f[x] + n ELSE SumTo(f, s)}
  <1>. SUFFICES ASSUME T # {} PROVE FALSE
     OBVIOUS
  <1>1. PICK s \in T : \A u \in T : u \subseteq s => u = s
    <2>1. T \subseteq SUBSET D
       OBVIOUS
    <2>. HIDE DEF T
    <2>. QED  BY <2>1, Smallest
  <1>0. DOMAIN e = D /\ DOMAIN f = D
     OBVIOUS
  <1>2. s # {}
     BY <1>0, SumToRec
  <1>. DEFINE v == s \ {First(s)}
  <1>3. v \subseteq s /\ v # s /\ First(s) \in s /\ v \in SUBSET D
     BY <1>2, FirstIn
  <1>4. SumTo(e, v) = IF x \in v THEN SumTo(f, v) - f[x] + n ELSE SumTo(f, v)
     BY <1>1, <1>3
  <1>5. SumTo(f, s) = f[First(s)] + SumTo(f, v) /\ SumTo(e, s) = e[First(s)] + SumTo(e, v)
     BY <1>0, <1>2, SumToRec
  <1>6. SumTo(f, v) \in Nat /\ SumTo(f, s) \in Nat /\ f[x] \in Nat
     BY <1>3, SumToType
  <1>7. CASE x = First(s)
     BY <1>3, <1>4, <1>5, <1>6, <1>7
  <1>8. CASE x # First(s)
     BY <1>3, <1>4, <1>5, <1>6, <1>8
  <1>. QED  BY <1>7, <1>8

\* Nothing sums to nothing.
LEMMA SumToZero ==
    ASSUME NEW D, IsFiniteSet(D), NEW f, f = [x \in D |-> 0]
    PROVE  \A s \in SUBSET D : SumTo(f, s) = 0
  <1>. DEFINE T == {s \in SUBSET D : SumTo(f, s) # 0}
  <1>. SUFFICES ASSUME T # {} PROVE FALSE
     OBVIOUS
  <1>1. PICK s \in T : \A u \in T : u \subseteq s => u = s
    <2>1. T \subseteq SUBSET D
       OBVIOUS
    <2>. HIDE DEF T
    <2>. QED  BY <2>1, Smallest
  <1>0. DOMAIN f = D
     OBVIOUS
  <1>2. s # {}
    <2>1. SumTo(f, {}) = 0
       BY <1>0, SumToRec
    <2>. QED  BY <2>1
  <1>. DEFINE v == s \ {First(s)}
  <1>3. v \subseteq s /\ v # s /\ First(s) \in D
     BY <1>2, FirstIn
  <1>4. SumTo(f, v) = 0
     BY <1>1, <1>3
  <1>5. SumTo(f, s) = f[First(s)] + SumTo(f, v)
     BY <1>0, <1>2, SumToRec
  <1>. QED  BY <1>3, <1>4, <1>5

\* Of a table of natural numbers.
LEMMA SumFacts ==
    ASSUME NEW D, IsFiniteSet(D), NEW f \in [D -> Nat]
    PROVE  /\ SumFunction(f) \in Nat
           /\ f = [x \in D |-> 0] => SumFunction(f) = 0
  <1>1. SumFunction(f) = SumTo(f, D)
     BY SumToRec
  <1>. QED  BY <1>1, SumToType, SumToZero

\* And of one that differs from it in one entry.
LEMMA SumChange ==
    ASSUME NEW D, IsFiniteSet(D), NEW f \in [D -> Nat], NEW e \in [D -> Nat],
           NEW x \in D, \A y \in D \ {x} : e[y] = f[y]
    PROVE  SumFunction(e) = SumFunction(f) - f[x] + e[x]
  <1>1. DOMAIN e = D /\ DOMAIN f = D /\ D \in SUBSET D /\ e[x] \in Nat
     OBVIOUS
  <1>2. SumFunction(e) = SumTo(e, D) /\ SumFunction(f) = SumTo(f, D)
     BY <1>1, SumToRec
  <1>3. \A s \in SUBSET D :
           SumTo(e, s) = IF x \in s THEN SumTo(f, s) - f[x] + e[x] ELSE SumTo(f, s)
     BY <1>1, SumToExcept
  <1>4. SumTo(e, D) = SumTo(f, D) - f[x] + e[x]
     BY <1>1, <1>3
  <1>. QED  BY <1>2, <1>4

----------------------------------------------------------------------------
\* The inductive invariant

Busy == {"check", "earned", "reserved", "write"}

\* The amount each withdrawal holds back.
HeldOf == [w \in Withdrawals |-> IF w \in Held THEN wd[w].amount ELSE 0]

\* The calls past the lock are the one that holds it.
Exclusive == \A c \in Calls : call[c].pc \in Busy <=> lock = c

\* All income ever settled.
Total == income + clawed

\* What a call has made sure of so far.
Knows(c) ==
    /\ c \in Transfers /\ call[c].pc \in {"earned", "reserved", "write"} =>
          moved[KeyOf[c]] = 0
    /\ c \in Withdrawals /\ call[c].pc # "done" => wd[c].status = "none"
    /\ call[c].pc = "reserved" => call[c].earned <= Total - Transferred
    /\ call[c].pc = "write" => call[c].amount <= Total - Transferred - Reserved

IInv ==
    /\ TypeOK
    /\ Exclusive
    /\ \A c \in Calls : Knows(c)
    /\ NeverSpentTwice
    /\ CreditMatchesLedger

CallType == [pc : PCs, amount : Nat, earned : Int]

\* The sums are natural numbers.
LEMMA SumTypes ==
    ASSUME TypeOK
    PROVE  /\ Transferred \in Nat /\ Reserved \in Nat
           /\ moved \in [Keys -> Nat] /\ HeldOf \in [Withdrawals -> Nat]
           /\ Reserved = SumFunction(HeldOf)
  <1>1. moved \in [Keys -> Nat]
     BY DEF TypeOK
  <1>2. HeldOf \in [Withdrawals -> Nat]
    <2>1. \A w \in Withdrawals : wd[w].amount \in Nat
       BY DEF TypeOK, Wds
    <2>. QED  BY <2>1 DEF HeldOf
  <1>3. Reserved = SumFunction(HeldOf)
     BY DEF Reserved, HeldOf
  <1>. QED  BY <1>1, <1>2, <1>3, SumFacts, CallAssumption DEF Transferred

\* So they are after a step.
LEMMA SumTypesNext ==
    ASSUME TypeOK'
    PROVE  Reserved' \in Nat
  <1>1. \A w \in Withdrawals : wd'[w].amount \in Nat
     BY DEF TypeOK, Wds
  <1>2. HeldOf' \in [Withdrawals -> Nat]
     BY <1>1 DEF HeldOf
  <1>3. Reserved' = SumFunction(HeldOf')
     BY DEF Reserved, HeldOf
  <1>. QED  BY <1>2, <1>3, SumFacts, CallAssumption

\* A call and what it holds, as the actions read them.
LEMMA CallReads ==
    ASSUME TypeOK, NEW c \in Calls
    PROVE  /\ call[c] \in CallType /\ call[c].pc \in PCs
           /\ call[c].amount \in Nat /\ call[c].earned \in Int
  <1>1. call[c] \in CallType
     BY DEF TypeOK, CallType
  <1>. QED  BY <1>1 DEF CallType

\* A call that goes on.
LEMMA GotoFacts ==
    ASSUME TypeOK, NEW c \in Calls, NEW p \in PCs, Goto(c, p)
    PROVE  /\ call' \in [Calls -> CallType]
           /\ \A d \in Calls \ {c} : call'[d] = call[d]
           /\ call'[c].pc = p /\ call'[c].amount = call[c].amount
           /\ call'[c].earned = call[c].earned
  <1>1. /\ [call[c] EXCEPT !.pc = p] \in CallType
        /\ [call[c] EXCEPT !.pc = p].pc = p
        /\ [call[c] EXCEPT !.pc = p].amount = call[c].amount
        /\ [call[c] EXCEPT !.pc = p].earned = call[c].earned
     BY CallReads DEF CallType
  <1>2. call' = [call EXCEPT ![c] = [call[c] EXCEPT !.pc = p]]
     BY DEF Goto
  <1>. QED  BY <1>1, <1>2 DEF TypeOK, CallType

\* The end of a transaction frees the lock.
LEMMA EndFacts ==
    ASSUME IInv, NEW c \in Calls, NEW p \in {"start", "done", "refused"},
           call[c].pc \in Busy, End(c, p)
    PROVE  /\ call' \in [Calls -> CallType] /\ lock' = Nobody
           /\ \A d \in Calls \ {c} : call'[d] = call[d] /\ call[d].pc \notin Busy
           /\ call'[c].pc = p /\ call'[c].amount = call[c].amount
           /\ Exclusive'
  <1>1. TypeOK /\ p \in PCs /\ Goto(c, p)
     BY DEF IInv, PCs, End
  <1>2. /\ call' \in [Calls -> CallType] /\ \A d \in Calls \ {c} : call'[d] = call[d]
        /\ call'[c].pc = p /\ call'[c].amount = call[c].amount
     BY <1>1, GotoFacts
  <1>3. lock = c /\ lock' = Nobody
     BY DEF IInv, Exclusive, End
  <1>4. \A d \in Calls \ {c} : call[d].pc \notin Busy
     BY <1>3 DEF IInv, Exclusive
  <1>5. Exclusive'
     BY <1>2, <1>3, <1>4, CallAssumption DEF Exclusive, Busy
  <1>. QED  BY <1>2, <1>3, <1>4, <1>5

\* A step of one call that writes no table.
LEMMA ReadStep ==
    ASSUME IInv, NEW c \in Calls, UNCHANGED others,
           call' \in [Calls -> CallType], lock' \in Calls \cup {Nobody}, Exclusive',
           \A d \in Calls \ {c} : call'[d] = call[d],
           Knows(c)'
    PROVE  IInv'
  <1>1. TypeOK'
     BY DEF IInv, TypeOK, others, CallType
  <1>2. Transferred' = Transferred /\ Reserved' = Reserved
     BY DEF others, Transferred, Reserved, Held
  <1>3. ASSUME NEW d \in Calls PROVE Knows(d)'
    <2>1. CASE d = c
       BY <2>1
    <2>2. CASE d # c
      <3>1. Knows(d) /\ call'[d] = call[d]
         BY <2>2 DEF IInv
      <3>. QED  BY <1>2, <3>1 DEF Knows, Total, others
    <2>. QED  BY <2>1, <2>2
  <1>4. NeverSpentTwice' /\ CreditMatchesLedger'
     BY <1>2 DEF IInv, NeverSpentTwice, CreditMatchesLedger, others
  <1>. QED  BY <1>1, <1>3, <1>4 DEF IInv

----------------------------------------------------------------------------
\* One lemma per action

\* Settled income and adjustments never lower income + clawed.
LEMMA LedgerStep ==
    ASSUME IInv, NEW n \in Amounts, Earn(n) \/ ClawBack(n)
    PROVE  IInv'
  <1>1. n \in Nat /\ income \in Int /\ clawed \in Nat
     BY AmountAssumption DEF IInv, TypeOK
  <1>2. UNCHANGED <<moved, credit, wd, lock, call>>
     BY DEF Earn, ClawBack
  <1>3. income' \in Int /\ clawed' \in Nat
     BY <1>1 DEF Earn, ClawBack
  <1>4. Total \in Int /\ Total' \in Int /\ Total <= Total'
    <2>1. CASE Earn(n)
       BY <1>1, <2>1 DEF Earn, Total
    <2>2. CASE ClawBack(n)
       BY <1>1, <2>2 DEF ClawBack, Total
    <2>. QED  BY <2>1, <2>2
  <1>5. TypeOK'
     BY <1>2, <1>3 DEF IInv, TypeOK
  <1>6. /\ Transferred' = Transferred /\ Reserved' = Reserved
        /\ Transferred \in Nat /\ Reserved \in Nat
     BY <1>2, SumTypes DEF Transferred, Reserved, Held, IInv
  <1>7. ASSUME NEW d \in Calls PROVE Knows(d)'
    <2>1. Knows(d) /\ call'[d] = call[d] /\ call[d].earned \in Int /\ call[d].amount \in Nat
       BY <1>2, CallReads DEF IInv
    <2>. QED  BY <1>2, <1>4, <1>6, <2>1 DEF Knows
  <1>8. NeverSpentTwice'
    <2>1. Reserved + Transferred <= Total
       BY DEF IInv, NeverSpentTwice, Total
    <2>2. Reserved' + Transferred' <= Total'
       BY <1>4, <1>6, <2>1
    <2>. QED  BY <2>2 DEF NeverSpentTwice, Total
  <1>9. CreditMatchesLedger' /\ Exclusive'
     BY <1>2, <1>6 DEF IInv, CreditMatchesLedger, Exclusive
  <1>. QED  BY <1>5, <1>7, <1>8, <1>9 DEF IInv

\* A call starts with its amount.
LEMMA StartStep ==
    ASSUME IInv, NEW c \in Calls, NEW a \in Amounts, Start(c, a)
    PROVE  IInv'
  <1>. DEFINE x == [call[c] EXCEPT !.pc = "lock", !.amount = a]
  <1>1. call[c] \in CallType /\ call[c].pc = "start" /\ Knows(c) /\ a \in Nat
     BY CallReads, AmountAssumption DEF Start, At, IInv
  <1>2. x \in CallType /\ x.pc = "lock"
     BY <1>1 DEF CallType, PCs
  <1>3. call' = [call EXCEPT ![c] = x] /\ UNCHANGED <<others, lock>>
     BY <1>1 DEF Start, IInv, TypeOK, CallType
  <1>. HIDE DEF x
  <1>4. /\ call' \in [Calls -> CallType] /\ call'[c] = x
        /\ \A d \in Calls \ {c} : call'[d] = call[d]
     BY <1>2, <1>3 DEF IInv, TypeOK, CallType
  <1>5. Exclusive'
     BY <1>1, <1>2, <1>3, <1>4 DEF IInv, Exclusive, Busy
  <1>6. Knows(c)'
     BY <1>1, <1>2, <1>3, <1>4 DEF Knows, Total, others
  <1>. QED  BY <1>3, <1>4, <1>5, <1>6, ReadStep DEF IInv, TypeOK

\* A call gets the provider's row lock: no other call is past its own.
LEMMA LockStep ==
    ASSUME IInv, NEW c \in Calls, Lock(c)
    PROVE  IInv'
  <1>1. /\ call[c].pc = "lock" /\ lock = Nobody /\ lock' = c /\ Goto(c, "check")
        /\ UNCHANGED others /\ Knows(c) /\ TypeOK /\ "check" \in PCs
     BY DEF Lock, At, Free, IInv, PCs
  <1>2. /\ call' \in [Calls -> CallType] /\ \A d \in Calls \ {c} : call'[d] = call[d]
        /\ call'[c].pc = "check"
     BY <1>1, GotoFacts
  <1>3. Exclusive'
     BY <1>1, <1>2, CallAssumption DEF IInv, Exclusive, Busy
  <1>4. Knows(c)'
     BY <1>1, <1>2 DEF Knows, Total, others
  <1>. QED  BY <1>1, <1>2, <1>3, <1>4, ReadStep

\* A transaction that ends without a write.
LEMMA EndStep ==
    ASSUME IInv, NEW c \in Calls, NEW p \in {"start", "done", "refused"},
           call[c].pc \in Busy, End(c, p), UNCHANGED others
    PROVE  IInv'
  <1>1. /\ call' \in [Calls -> CallType] /\ lock' = Nobody
        /\ \A d \in Calls \ {c} : call'[d] = call[d]
        /\ call'[c].pc = p /\ Exclusive'
     BY EndFacts
  <1>2. Knows(c)'
     BY <1>1 DEF IInv, Knows, others, Busy
  <1>. QED  BY <1>1, <1>2, ReadStep

\* The holder of the lock goes on to its next read.
LEMMA HolderStep ==
    ASSUME IInv, NEW c \in Calls, NEW p \in Busy, call[c].pc \in Busy,
           Goto(c, p), UNCHANGED <<others, lock>>, Knows(c)'
    PROVE  IInv'
  <1>1. TypeOK /\ p \in PCs
     BY DEF IInv, Busy, PCs
  <1>2. /\ call' \in [Calls -> CallType] /\ \A d \in Calls \ {c} : call'[d] = call[d]
        /\ call'[c].pc = p
     BY <1>1, GotoFacts
  <1>3. Exclusive'
     BY <1>2 DEF IInv, Exclusive
  <1>. QED  BY <1>1, <1>2, <1>3, ReadStep DEF TypeOK

\* The key or the open withdrawals are looked up.
LEMMA CheckStep ==
    ASSUME IInv, NEW c \in Calls,
           (c \in Transfers /\ CheckKey(c)) \/ (c \in Withdrawals /\ CheckOpen(c))
    PROVE  IInv'
  <1>1. call[c].pc = "check" /\ UNCHANGED others /\ TypeOK /\ Knows(c)
     BY DEF CheckKey, CheckOpen, At, IInv
  <1>2. \/ \E p \in {"done", "refused"} : c \in Transfers /\ End(c, p)
        \/ End(c, "refused")
        \/ Goto(c, "earned") /\ UNCHANGED lock /\ (c \in Transfers => ~Known(c))
     BY CallAssumption DEF CheckKey, CheckOpen
  <1>3. ASSUME NEW p \in {"done", "refused"}, End(c, p) PROVE IInv'
     BY <1>1, <1>3, EndStep DEF Busy
  <1>4. CASE Goto(c, "earned") /\ UNCHANGED lock /\ (c \in Transfers => ~Known(c))
    <2>1. call'[c].pc = "earned"
       BY <1>1, <1>4, GotoFacts DEF PCs
    <2>2. c \in Transfers => moved[KeyOf[c]] = 0
      <3>1. c \in Transfers => moved[KeyOf[c]] \in Nat
         BY <1>1, CallAssumption DEF TypeOK
      <3>. QED  BY <1>4, <3>1 DEF Known
    <2>3. Knows(c)'
       BY <1>1, <2>1, <2>2 DEF Knows, Total, others
    <2>. QED  BY <1>1, <1>4, <2>3, HolderStep DEF Busy
  <1>. QED  BY <1>2, <1>3, <1>4

\* The sum of the ledger is read.
LEMMA ReadEarnedStep ==
    ASSUME IInv, NEW c \in Calls, ReadEarned(c)
    PROVE  IInv'
  <1>. DEFINE x == [call[c] EXCEPT !.pc = "reserved", !.earned = income - Transferred]
  <1>1. /\ call[c] \in CallType /\ call[c].pc = "earned" /\ Knows(c) /\ TypeOK
        /\ income \in Int /\ clawed \in Nat /\ Transferred \in Nat
     BY CallReads, SumTypes DEF ReadEarned, At, IInv, TypeOK
  <1>0. income - Transferred \in Int
     BY <1>1
  <1>2. x \in CallType /\ x.pc = "reserved" /\ x.earned = income - Transferred
     BY <1>0, <1>1 DEF CallType, PCs
  <1>3. call' = [call EXCEPT ![c] = x] /\ UNCHANGED <<others, lock>>
     BY <1>1 DEF ReadEarned, TypeOK, CallType
  <1>. HIDE DEF x
  <1>4. /\ call' \in [Calls -> CallType] /\ call'[c] = x
        /\ \A d \in Calls \ {c} : call'[d] = call[d]
     BY <1>1, <1>2, <1>3 DEF TypeOK, CallType
  <1>5. Exclusive'
     BY <1>1, <1>2, <1>3, <1>4 DEF IInv, Exclusive, Busy
  <1>6. Knows(c)'
    <2>1. Transferred' = Transferred /\ income' = income /\ clawed' = clawed
       BY <1>3 DEF others, Transferred
    <2>2. c \in Transfers => moved'[KeyOf[c]] = 0
       BY <1>1, <1>3 DEF Knows, Total, others
    <2>3. c \in Withdrawals => wd'[c].status = "none"
       BY <1>1, <1>3 DEF Knows, Total, others
    <2>4. call'[c].earned <= Total' - Transferred'
       BY <1>1, <1>2, <1>4, <2>1 DEF Total
    <2>. QED  BY <1>2, <1>4, <2>2, <2>3, <2>4 DEF Knows
  <1>. QED  BY <1>1, <1>3, <1>4, <1>5, <1>6, ReadStep DEF TypeOK

\* The amount is compared with what is left of the sum read before.
LEMMA CheckAvailableStep ==
    ASSUME IInv, NEW c \in Calls, CheckAvailable(c)
    PROVE  IInv'
  <1>1. /\ call[c].pc = "reserved" /\ UNCHANGED others /\ Knows(c) /\ TypeOK
        /\ call[c].amount \in Nat /\ call[c].earned \in Int
        /\ income \in Int /\ clawed \in Nat /\ Transferred \in Nat /\ Reserved \in Nat
     BY CallReads, SumTypes DEF CheckAvailable, At, IInv, TypeOK
  <1>2. CASE End(c, "refused")
     BY <1>1, <1>2, EndStep DEF Busy
  <1>3. CASE /\ call[c].amount <= call[c].earned - Reserved
             /\ Goto(c, "write") /\ UNCHANGED lock
    <2>1. call'[c].pc = "write" /\ call'[c].amount = call[c].amount
       BY <1>1, <1>3, GotoFacts DEF PCs
    <2>2. Transferred' = Transferred /\ Reserved' = Reserved
       BY <1>1 DEF others, Transferred, Reserved, Held
    <2>a. Total \in Int
       BY <1>1 DEF Total
    <2>b. call[c].earned <= Total - Transferred
       BY <1>1 DEF Knows
    <2>3. call[c].amount <= Total - Transferred - Reserved
       BY <1>1, <1>3, <2>a, <2>b
    <2>4. Knows(c)'
       BY <1>1, <2>1, <2>2, <2>3 DEF Knows, Total, others
    <2>. QED  BY <1>1, <1>3, <2>4, HolderStep DEF Busy
  <1>. QED  BY <1>1, <1>2, <1>3 DEF CheckAvailable

\* An error or a crash rolls the transaction back.
LEMMA RollBackStep ==
    ASSUME IInv, NEW c \in Calls, RollBack(c)
    PROVE  IInv'
  BY EndStep DEF RollBack, Busy

\* The transfer is written: its key had no entry, so the sum grows by it.
LEMMA WriteTransferStep ==
    ASSUME IInv, NEW c \in Transfers, WriteTransfer(c)
    PROVE  IInv'
  <1>. DEFINE a == call[c].amount
  <1>1. /\ c \in Calls /\ call[c].pc = "write" /\ call[c].pc \in Busy /\ TypeOK /\ Knows(c)
        /\ a \in Nat /\ End(c, "done") /\ UNCHANGED <<income, clawed, wd>>
        /\ moved' = [moved EXCEPT ![KeyOf[c]] = a] /\ credit' = credit + a
        /\ KeyOf[c] \in Keys /\ moved[KeyOf[c]] = 0
     BY CallReads, CallAssumption DEF WriteTransfer, At, IInv, Calls, Busy, Knows, Credited
  <1>2. /\ call' \in [Calls -> CallType] /\ lock' = Nobody
        /\ \A d \in Calls \ {c} : call'[d] = call[d] /\ call[d].pc \notin Busy
        /\ call'[c].pc = "done" /\ Exclusive'
     BY <1>1, EndFacts
  <1>3. /\ Transferred \in Nat /\ Reserved \in Nat /\ moved \in [Keys -> Nat]
        /\ income \in Int /\ clawed \in Nat /\ credit \in Nat
     BY <1>1, SumTypes DEF TypeOK
  <1>4. Transferred' = Transferred + a
    <2>. PICK k \in Keys : k = KeyOf[c]
       BY <1>1
    <2>1. /\ moved' \in [Keys -> Nat] /\ moved'[k] = a /\ moved[k] = 0
          /\ \A u \in Keys \ {k} : moved'[u] = moved[u]
       BY <1>1, <1>3
    <2>2. SumFunction(moved') = SumFunction(moved) - moved[k] + moved'[k]
       BY <1>3, <2>1, SumChange, CallAssumption
    <2>. QED  BY <1>1, <1>3, <2>1, <2>2 DEF Transferred
  <1>5. Reserved' = Reserved
     BY <1>1 DEF Reserved, Held
  <1>6. TypeOK'
     BY <1>1, <1>2, <1>3 DEF TypeOK, CallType
  <1>7. ASSUME NEW d \in Calls PROVE Knows(d)'
     BY <1>1, <1>2, CallAssumption DEF Knows, IInv, Busy, Calls
  <1>8. NeverSpentTwice'
    <2>1. a <= Total - Transferred - Reserved
       BY <1>1 DEF Knows
    <2>2. Total \in Int /\ Total' = Total
       BY <1>1, <1>3 DEF Total
    <2>3. Reserved' + Transferred' <= Total'
       BY <1>1, <1>3, <1>4, <1>5, <1>6, <2>1, <2>2
    <2>. QED  BY <2>3 DEF NeverSpentTwice, Total
  <1>9. CreditMatchesLedger'
     BY <1>1, <1>3, <1>4 DEF IInv, CreditMatchesLedger
  <1>. QED  BY <1>2, <1>6, <1>7, <1>8, <1>9 DEF IInv

\* One withdrawal row changes: the reserved sum changes by what it holds.
LEMMA HeldChange ==
    ASSUME TypeOK, NEW w \in Withdrawals, NEW x \in Wds, wd' = [wd EXCEPT ![w] = x]
    PROVE  LET n == IF x.status \in {"none", "rejected"} THEN 0 ELSE x.amount
           IN  /\ Reserved' = Reserved - HeldOf[w] + n
               /\ n \in Nat /\ HeldOf[w] \in Nat
  <1>. DEFINE n == IF x.status \in {"none", "rejected"} THEN 0 ELSE x.amount
  <1>1. n \in Nat
     BY DEF Wds
  <1>2. /\ HeldOf \in [Withdrawals -> Nat] /\ Reserved = SumFunction(HeldOf)
        /\ HeldOf[w] \in Nat
     BY SumTypes
  <1>3. /\ wd'[w] = x /\ \A u \in Withdrawals \ {w} : wd'[u] = wd[u]
     BY DEF TypeOK
  <1>4. /\ HeldOf' \in [Withdrawals -> Nat] /\ HeldOf'[w] = n
        /\ \A u \in Withdrawals \ {w} : HeldOf'[u] = HeldOf[u]
    <2>1. HeldOf' = [u \in Withdrawals |-> IF wd'[u].status \in {"none", "rejected"}
                                           THEN 0 ELSE wd'[u].amount]
       BY DEF HeldOf, Held
    <2>2. HeldOf = [u \in Withdrawals |-> IF wd[u].status \in {"none", "rejected"}
                                          THEN 0 ELSE wd[u].amount]
       BY DEF HeldOf, Held
    <2>3. HeldOf'[w] = n
       BY <1>3, <2>1
    <2>4. ASSUME NEW u \in Withdrawals \ {w} PROVE HeldOf'[u] = HeldOf[u]
       BY <1>3, <2>1, <2>2
    <2>. HIDE DEF n
    <2>5. \A u \in Withdrawals : HeldOf'[u] \in Nat
       BY <1>1, <1>2, <2>3, <2>4
    <2>. QED  BY <2>1, <2>3, <2>4, <2>5
  <1>5. Reserved' = SumFunction(HeldOf')
     BY DEF Reserved, HeldOf
  <1>. HIDE DEF n
  <1>6. SumFunction(HeldOf') = SumFunction(HeldOf) - HeldOf[w] + HeldOf'[w]
     BY <1>2, <1>4, SumChange, CallAssumption
  <1>7. Reserved' = Reserved - HeldOf[w] + n
     BY <1>2, <1>4, <1>5, <1>6
  <1>. QED  BY <1>1, <1>2, <1>7 DEF n

\* The withdrawal is written: the call had no row, so the sum grows by it.
LEMMA WriteWithdrawalStep ==
    ASSUME IInv, NEW c \in Withdrawals, WriteWithdrawal(c)
    PROVE  IInv'
  <1>. DEFINE a == call[c].amount
              x == [status |-> "pending", amount |-> a]
  <1>1. /\ c \in Calls /\ call[c].pc = "write" /\ call[c].pc \in Busy /\ TypeOK /\ Knows(c)
        /\ a \in Nat /\ End(c, "done") /\ UNCHANGED <<income, clawed, moved, credit>>
        /\ wd' = [wd EXCEPT ![c] = x] /\ wd[c].status = "none"
     BY CallReads, CallAssumption DEF WriteWithdrawal, At, IInv, Calls, Busy, Knows
  <1>2. /\ call' \in [Calls -> CallType] /\ lock' = Nobody
        /\ \A d \in Calls \ {c} : call'[d] = call[d] /\ call[d].pc \notin Busy
        /\ call'[c].pc = "done" /\ Exclusive'
     BY <1>1, EndFacts
  <1>3. /\ Transferred \in Nat /\ Reserved \in Nat /\ income \in Int /\ clawed \in Nat
     BY <1>1, SumTypes DEF TypeOK
  <1>4. x \in Wds /\ x.status = "pending" /\ x.amount = a
     BY <1>1 DEF Wds, Open
  <1>5. Reserved' = Reserved + a
    <2>1. HeldOf[c] = 0
       BY <1>1 DEF HeldOf, Held
    <2>. HIDE DEF x
    <2>2. Reserved' = Reserved - HeldOf[c] + a
       BY <1>1, <1>4, HeldChange
    <2>. QED  BY <1>1, <1>3, <2>1, <2>2
  <1>6. Transferred' = Transferred
     BY <1>1 DEF Transferred
  <1>7. TypeOK'
     BY <1>1, <1>2, <1>4 DEF TypeOK, CallType
  <1>8. ASSUME NEW d \in Calls PROVE Knows(d)'
    <2>1. d \in Withdrawals /\ d # c => wd'[d] = wd[d]
       BY <1>1 DEF TypeOK
    <2>. QED  BY <1>1, <1>2, <2>1, CallAssumption DEF Knows, IInv, Busy, Calls
  <1>9. NeverSpentTwice'
    <2>1. a <= Total - Transferred - Reserved
       BY <1>1 DEF Knows
    <2>2. Total \in Int /\ Total' = Total
       BY <1>1, <1>3 DEF Total
    <2>3. Reserved' + Transferred' <= Total'
       BY <1>1, <1>3, <1>4, <1>5, <1>6, <2>1, <2>2
    <2>. QED  BY <2>3 DEF NeverSpentTwice, Total
  <1>10. CreditMatchesLedger'
     BY <1>1, <1>6 DEF IInv, CreditMatchesLedger
  <1>. QED  BY <1>2, <1>7, <1>8, <1>9, <1>10 DEF IInv

\* The administrator's update only ever frees what was held.
LEMMA UpdateStatusStep ==
    ASSUME IInv, NEW w \in Withdrawals, NEW to \in {"approved", "paid", "rejected"},
           UpdateStatus(w, to)
    PROVE  IInv'
  <1>. DEFINE x == [wd[w] EXCEPT !.status = to]
  <1>1. /\ UNCHANGED <<income, clawed, moved, credit, lock, call>> /\ TypeOK
        /\ wd[w] \in Wds /\ wd' = [wd EXCEPT ![w] = x] /\ wd[w].status \in Open
     BY DEF UpdateStatus, ValidTransition, Open, IInv, TypeOK
  <1>2. x \in Wds /\ x.status = to /\ x.amount = wd[w].amount /\ wd[w].amount \in Nat
     BY <1>1 DEF Wds, Open
  <1>. HIDE DEF x
  <1>3. /\ Transferred \in Nat /\ Reserved \in Nat /\ income \in Int /\ clawed \in Nat
     BY <1>1, SumTypes DEF TypeOK
  <1>4. Reserved' \in Nat /\ Reserved' <= Reserved
    <2>1. HeldOf[w] = wd[w].amount
       BY <1>1 DEF HeldOf, Held, Open
    <2>2. Reserved' = Reserved - HeldOf[w]
                        + (IF x.status \in {"none", "rejected"} THEN 0 ELSE x.amount)
       BY <1>1, <1>2, HeldChange
    <2>3. TypeOK'
       BY <1>1, <1>2 DEF TypeOK
    <2>4. Reserved' \in Nat
       BY <2>3, SumTypesNext
    <2>. QED  BY <1>2, <1>3, <2>1, <2>2, <2>4
  <1>5. Transferred' = Transferred
     BY <1>1 DEF Transferred
  <1>6. TypeOK'
     BY <1>1, <1>2 DEF TypeOK
  <1>7. ASSUME NEW d \in Calls PROVE Knows(d)'
    <2>1. /\ Knows(d) /\ call'[d] = call[d] /\ call[d].amount \in Nat
          /\ call[d].earned \in Int
       BY <1>1, CallReads DEF IInv
    <2>2. d \in Withdrawals /\ wd[d].status = "none" => wd'[d].status = "none"
       BY <1>1 DEF TypeOK, Open
    <2>. QED  BY <1>1, <1>3, <1>4, <1>5, <2>1, <2>2 DEF Knows, Total
  <1>8. NeverSpentTwice' /\ CreditMatchesLedger' /\ Exclusive'
     BY <1>1, <1>3, <1>4, <1>5 DEF IInv, NeverSpentTwice, CreditMatchesLedger, Exclusive
  <1>. QED  BY <1>6, <1>7, <1>8 DEF IInv

----------------------------------------------------------------------------
\* The invariant

\* The invariant holds at the start.
LEMMA InitIInv == Init => IInv
  <1>. SUFFICES ASSUME Init PROVE IInv
     OBVIOUS
  <1>1. TypeOK
     BY DEF Init, TypeOK, NoWd, Wds, Fresh, PCs
  <1>2. Transferred = 0 /\ Reserved = 0
    <2>1. moved = [k \in Keys |-> 0] /\ HeldOf = [w \in Withdrawals |-> 0]
       BY DEF Init, HeldOf, Held, NoWd
    <2>2. /\ moved \in [Keys -> Nat] /\ HeldOf \in [Withdrawals -> Nat]
          /\ Reserved = SumFunction(HeldOf)
       BY <1>1, SumTypes
    <2>. QED  BY <2>1, <2>2, SumFacts, CallAssumption DEF Transferred
  <1>3. Exclusive
     BY CallAssumption DEF Init, Exclusive, Fresh, Busy
  <1>4. \A c \in Calls : Knows(c)
     BY DEF Init, Knows, Fresh, NoWd
  <1>5. NeverSpentTwice /\ CreditMatchesLedger
     BY <1>2 DEF Init, NeverSpentTwice, CreditMatchesLedger
  <1>. QED  BY <1>1, <1>3, <1>4, <1>5 DEF IInv

\* Every step keeps it.
LEMMA NextIInv == IInv /\ [Next]_vars => IInv'
  <1>. SUFFICES ASSUME IInv, [Next]_vars PROVE IInv'
     OBVIOUS
  <1>1. CASE \E n \in Amounts : Earn(n) \/ ClawBack(n)
     BY <1>1, LedgerStep
  <1>2. CASE \E c \in Calls :
               \/ \E a \in Amounts : Start(c, a)
               \/ Lock(c) \/ ReadEarned(c) \/ CheckAvailable(c) \/ RollBack(c)
     BY <1>2, StartStep, LockStep, ReadEarnedStep, CheckAvailableStep, RollBackStep
  <1>3. CASE \E c \in Transfers : CheckKey(c) \/ WriteTransfer(c)
     BY <1>3, CheckStep, WriteTransferStep DEF Calls
  <1>4. CASE \E c \in Withdrawals : CheckOpen(c) \/ WriteWithdrawal(c)
     BY <1>4, CheckStep, WriteWithdrawalStep DEF Calls
  <1>5. CASE \E w \in Withdrawals, to \in {"approved", "paid", "rejected"} :
                UpdateStatus(w, to)
     BY <1>5, UpdateStatusStep
  <1>6. CASE UNCHANGED vars
    <2>1. Transferred' = Transferred /\ Reserved' = Reserved
       BY <1>6 DEF vars, Transferred, Reserved, Held
    <2>. QED  BY <1>6, <2>1 DEF vars, IInv, TypeOK, Exclusive, Knows, Total, NeverSpentTwice,
                                CreditMatchesLedger
  <1>. QED  BY <1>1, <1>2, <1>3, <1>4, <1>5, <1>6 DEF Next

\* Whatever calls interleave, fail or are repeated, what each has read stays a
\* bound it may spend up to.
THEOREM InductiveInvariant == Spec => []IInv
  BY InitIInv, NextIInv, PTL DEF Spec

\* Rows, calls and the credit keep their types; the credit never goes down
\* below zero.
THEOREM TypeCorrect == Spec => []TypeOK
  <1>1. IInv => TypeOK
     BY DEF IInv
  <1>. QED  BY <1>1, InductiveInvariant, PTL

\* What is held by withdrawals and moved to the balance was once earned, for
\* any number of concurrent calls (CreateHubProviderWithdrawal,
\* CreateHubProviderBalanceTransfer under lockForUpdate).
THEOREM IncomeIsSpentOnce == Spec => []NeverSpentTwice
  <1>1. IInv => NeverSpentTwice
     BY DEF IInv
  <1>. QED  BY <1>1, InductiveInvariant, PTL

\* The owner was credited exactly the transfers of the ledger, however often a
\* call was repeated with its key (CreateHubProviderBalanceTransfer).
THEOREM CreditFollowsLedger == Spec => []CreditMatchesLedger
  <1>1. IInv => CreditMatchesLedger
     BY DEF IInv
  <1>. QED  BY <1>1, InductiveInvariant, PTL
=============================================================================
