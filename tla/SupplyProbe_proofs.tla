------------------------- MODULE SupplyProbe_proofs -------------------------
(***************************************************************************)
(* Probe targets, leases and the channel's status, for any finite sets of  *)
(* models and executions, any limits and any number of edits.              *)
(*                                                                         *)
(* What a late result can do depends on its token.  A row has a token only *)
(* while it is tested, a token is given out once while anything holds it,  *)
(* and every operation that takes a target away from a running probe       *)
(* clears the row's token: that probe never holds the target again.  What  *)
(* a success proves depends on the connection it went over, which is never *)
(* older than the version of the target.                                   *)
(***************************************************************************)
EXTENDS SupplyProbe, FiniteSetTheorems, TLAPS

\* Row r of target t while the channel's connection is c: suspended exactly at
\* the limit and then without a time, a token only under a lease, and proven
\* by no connection older than the target's version.
RowOK(t, r, c) ==
    /\ r \in Row
    /\ (r.fails = Limit) <=> (r.st = "suspended")
    /\ r.st = "suspended" => r.due = "never"
    /\ r.token # 0 => r.st = "testing"
    /\ r.proven > 0 => t[1] <= r.proven /\ r.proven <= c

\* Execution s: its version is not newer than the connection, a running probe
\* uses a connection not older than the version, under a token.
ProcOK(s, c) ==
    /\ s \in Proc
    /\ s.ver <= c
    /\ s.pc = "probe" => s.token # 0
    /\ \A m \in Models : s.job[m] = "running" =>
          s.pc = "probe" /\ s.ver <= s.on[m] /\ s.on[m] <= c

RowsOK(rs, c) == rs \in [Targets -> Row] /\ \A t \in Targets : RowOK(t, rs[t], c)
ProcsOK(ps, c) == ps \in [Procs -> Proc] /\ \A p \in Procs : ProcOK(ps[p], c)

\* The group and its channel: no version is newer than the connection.
GroupOK ==
    /\ version \in Versions /\ autoOff \subseteq Models
    /\ conn \in Nat /\ version <= conn
    /\ chan \in {"enabled", "auto", "manual"}
    /\ {active, queued, owed, inflight} \subseteq BOOLEAN
    /\ left \in [edits : 0 .. MaxEdits, admin : Nat, faults : Nat]

\* The edit and the changes of status that have read the channel.
\* Whoever has something to write knows the status: "auto", or the one the
\* administrator chose.
MaySave(w) == IF w = "admin" THEN {"enabled", "manual"} ELSE {"auto"}

StaffOK ==
    /\ editing \in ChannelStatuses \cup {"none"}
    /\ saves \in [Savers -> Save]
    /\ \A w \in Savers : saves[w] # NoSave => saves[w].to \in MaySave(w)
    /\ byHand \in BOOLEAN

\* An overtaken probe has lost its lease for good.
Passed(p, t) ==
    /\ proc[p].ver = t[1] /\ proc[p].job[t[2]] = "running"
    /\ rows[t].token # proc[p].token

OvertakenOK ==
    /\ overtaken \subseteq Procs \X Targets
    /\ \A p \in Procs, t \in Targets : <<p, t>> \in overtaken => Passed(p, t)

IInv == GroupOK /\ RowsOK(rows, conn) /\ ProcsOK(proc, conn) /\ OvertakenOK

-----------------------------------------------------------------------------
(* Tokens.                                                                 *)

\* Among more numbers than processes and targets one is held by none.
LEMMA FreshExists ==
    ASSUME rows \in [Targets -> Row], proc \in [Procs -> Proc]
    PROVE  /\ FreshToken \in Tokens
           /\ \A t \in Targets : rows[t].token # FreshToken
           /\ \A p \in Procs : proc[p].token # FreshToken
  <1>. DEFINE f == [t \in Targets |-> rows[t].token]
              g == [p \in Procs |-> proc[p].token]
              A == {f[t] : t \in Targets}
              B == {g[p] : p \in Procs}
  <1>1. IsFiniteSet(Procs)
     BY ConstantsAssumption, FS_Union DEF Procs
  <1>2. IsFiniteSet(Versions)
     BY ConstantsAssumption, FS_Interval DEF Versions
  <1>3. IsFiniteSet(Targets)
     BY <1>2, ConstantsAssumption, FS_Product DEF Targets
  <1>4. IsFiniteSet(A) /\ Cardinality(A) <= Cardinality(Targets)
    <2>1. f \in Surjection(Targets, A)
       BY DEF Surjection
    <2>. QED  BY <2>1, <1>3, FS_Surjection
  <1>5. IsFiniteSet(B) /\ Cardinality(B) <= Cardinality(Procs)
    <2>1. g \in Surjection(Procs, B)
       BY DEF Surjection
    <2>. QED  BY <2>1, <1>1, FS_Surjection
  <1>. HIDE DEF A, B
  <1>6. /\ {Cardinality(A), Cardinality(B), Cardinality(A \cap B),
            Cardinality(Procs), Cardinality(Targets)} \subseteq Nat
        /\ IsFiniteSet(A \cup B)
        /\ Cardinality(A \cup B)
             = Cardinality(A) + Cardinality(B) - Cardinality(A \cap B)
    <2>1. IsFiniteSet(A \cap B)
       BY <1>4, FS_Subset
    <2>2. /\ Cardinality(A) \in Nat /\ Cardinality(B) \in Nat
          /\ Cardinality(A \cap B) \in Nat
          /\ Cardinality(Procs) \in Nat /\ Cardinality(Targets) \in Nat
       BY <2>1, <1>1, <1>3, <1>4, <1>5, FS_CardinalityType
    <2>3. /\ IsFiniteSet(A \cup B)
          /\ Cardinality(A \cup B)
               = Cardinality(A) + Cardinality(B) - Cardinality(A \cap B)
       BY <1>4, <1>5, FS_Union
    <2>. QED  BY <2>2, <2>3
  <1>7. Cardinality(A \cup B) <= Cardinality(Procs) + Cardinality(Targets)
    <2>1. \A a, b, i, k, n \in Nat : a <= n /\ b <= k => a + b - i <= k + n
       OBVIOUS
    <2>. QED  BY <2>1, <1>4, <1>5, <1>6
  <1>8. IsFiniteSet(Tokens)
        /\ Cardinality(Tokens) = Cardinality(Procs) + Cardinality(Targets) + 1
    <2>. DEFINE n == Cardinality(Procs) + Cardinality(Targets) + 1
    <2>1. n \in Nat /\ n >= 1
       BY <1>6
    <2>. HIDE DEF n
    <2>2. IsFiniteSet(1 .. n) /\ Cardinality(1 .. n) = IF 1 > n THEN 0 ELSE n - 1 + 1
       BY <2>1, FS_Interval
    <2>3. IsFiniteSet(1 .. n) /\ Cardinality(1 .. n) = n
       BY <2>1, <2>2
    <2>. QED  BY <2>3 DEF n, Tokens
  <1>9. ~(Tokens \subseteq A \cup B)
    <2>. SUFFICES ASSUME Tokens \in SUBSET (A \cup B) PROVE FALSE
       OBVIOUS
    <2>1. Cardinality(Tokens) <= Cardinality(A \cup B)
       BY <1>6, FS_Subset
    <2>2. Cardinality(A \cup B) \in Nat
       BY <1>6, FS_CardinalityType
    <2>3. \A n, k, a \in Nat : a <= k + n => ~(k + n + 1 <= a)
       OBVIOUS
    <2>. QED  BY <1>6, <1>7, <1>8, <2>1, <2>2, <2>3
  <1>10. \E k \in Tokens : k \notin A /\ k \notin B
     BY <1>9
  <1>11. \E k \in Tokens : /\ \A t \in Targets : rows[t].token # k
                           /\ \A p \in Procs : proc[p].token # k
     BY <1>10 DEF A, B
  <1>. QED  BY <1>11 DEF FreshToken

-----------------------------------------------------------------------------
(* What the operations make of a row.                                      *)

\* A row returned to the queue, leased under token k, reset for a manual probe,
\* and one whose time has come.
Back(r) == [r EXCEPT !.st = "pending", !.due = "now", !.token = 0]
Leased(r, k) == [r EXCEPT !.st = "testing", !.due = "later", !.token = k]
Afresh(r) == [r EXCEPT !.st = "pending", !.due = "now", !.fails = 0,
                       !.manual = TRUE, !.token = 0]
Ripe(r) == [r EXCEPT !.due = "now"]

\* The limits are numbers, and the least limit is one.
LEMMA Limits ==
    /\ Limit \in Nat \ {0} /\ Threshold \in Nat \ {0} /\ MaxEdits \in Nat
    /\ 0 # Limit /\ 0 \in 0 .. Limit /\ 0 \in 0 .. MaxEdits + 1
    /\ 1 \in Versions /\ 0 \notin Tokens
  BY ConstantsAssumption DEF Versions, Tokens

\* A row just created is in order under every connection.
LEMMA NewRowOK ==
    ASSUME NEW t, NEW c, NEW st \in {"absent", "pending", "waiting"},
           NEW due \in {"never", "now", "later"}
    PROVE  /\ RowOK(t, NewRow(st, due), c)
           /\ NewRow(st, due).token = 0 /\ NewRow(st, due).st = st
  <1>1. /\ Absent \in Row
        /\ Absent.token = 0 /\ Absent.fails = 0 /\ Absent.proven = 0
     BY Limits DEF Row, Statuses, Absent
  <1>2. /\ NewRow(st, due) \in Row
        /\ NewRow(st, due).st = st /\ NewRow(st, due).due = due
        /\ NewRow(st, due).token = 0 /\ NewRow(st, due).fails = 0
        /\ NewRow(st, due).proven = 0
     BY <1>1 DEF NewRow, Row, Statuses
  <1>. HIDE DEF NewRow
  <1>. QED  BY <1>2, Limits DEF RowOK

\* An absent row is in order under every connection.
LEMMA AbsentOK ==
    ASSUME NEW t, NEW c
    PROVE  /\ RowOK(t, Absent, c) /\ Absent.token = 0 /\ Absent.st = "absent"
           /\ Absent.proven = 0
  <1>1. Absent \in Row
     BY Limits DEF Row, Statuses, Absent
  <1>. QED  BY <1>1, Limits DEF RowOK, Absent

\* A tested target is returned to the queue.
LEMMA RequeueOK ==
    ASSUME NEW t, NEW c, NEW r, RowOK(t, r, c), r.st = "testing"
    PROVE  RowOK(t, Back(r), c) /\ Back(r).token = 0
  <1>1. r \in Row
     BY DEF RowOK
  <1>2. /\ Back(r) \in Row /\ Back(r).st = "pending" /\ Back(r).due = "now"
        /\ Back(r).token = 0
        /\ Back(r).fails = r.fails /\ Back(r).proven = r.proven
     BY <1>1 DEF Back, Row, Statuses
  <1>. QED  BY <1>2 DEF RowOK

\* A target that is due and neither suspended nor tested is claimed.
LEMMA ClaimOK ==
    ASSUME NEW t, NEW c, NEW r, RowOK(t, r, c), NEW k \in Tokens,
           r.st # "suspended"
    PROVE  RowOK(t, Leased(r, k), c) /\ Leased(r, k).token = k
  <1>1. r \in Row
     BY DEF RowOK
  <1>2. /\ Leased(r, k) \in Row /\ Leased(r, k).st = "testing"
        /\ Leased(r, k).due = "later" /\ Leased(r, k).token = k
        /\ Leased(r, k).fails = r.fails /\ Leased(r, k).proven = r.proven
     BY <1>1 DEF Leased, Row, Statuses
  <1>. QED  BY <1>2 DEF RowOK

\* A target is reset for a manual probe.
LEMMA ResetOK ==
    ASSUME NEW t, NEW c, NEW r, RowOK(t, r, c)
    PROVE  RowOK(t, Afresh(r), c) /\ Afresh(r).token = 0
  <1>1. r \in Row
     BY DEF RowOK
  <1>2. /\ Afresh(r) \in Row /\ Afresh(r).st = "pending" /\ Afresh(r).due = "now"
        /\ Afresh(r).token = 0
        /\ Afresh(r).fails = 0 /\ Afresh(r).proven = r.proven
     BY <1>1, Limits DEF Afresh, Row, Statuses
  <1>. QED  BY <1>2, Limits DEF RowOK

\* A lease is given back.
LEMMA ReleasedOK ==
    ASSUME NEW t, NEW c, NEW r, RowOK(t, r, c), r.st = "testing"
    PROVE  RowOK(t, Released(r), c) /\ Released(r).token = 0
  <1>1. r \in Row /\ r.fails \in 0 .. Limit /\ r.fails # Limit
     BY DEF RowOK, Row
  <1>2. ~(r.fails >= Limit)
     BY <1>1, Limits
  <1>3. PICK st \in {"error", "available", "pending"} :
           Released(r) = [r EXCEPT !.st = st, !.due = "now", !.manual = FALSE,
                                   !.token = 0]
     BY <1>2 DEF Released
  <1>4. /\ Released(r) \in Row /\ Released(r).token = 0
        /\ Released(r).fails = r.fails /\ Released(r).proven = r.proven
        /\ Released(r).st = st
     BY <1>1, <1>3 DEF Row, Statuses
  <1>. QED  BY <1>1, <1>4 DEF RowOK

\* A result is recorded: it reaches the limit exactly when it suspends the
\* target, and a success proves the connection by which it was obtained.
LEMMA RecordedOK ==
    ASSUME NEW t, NEW c, NEW r, RowOK(t, r, c), r.st = "testing",
           NEW ok \in BOOLEAN, NEW current \in BOOLEAN, NEW off \in BOOLEAN,
           NEW by \in Nat, t[1] <= by, by <= c
    PROVE  /\ RowOK(t, Recorded(r, ok, current, off, by), c)
           /\ Recorded(r, ok, current, off, by).token = 0
  <1>. DEFINE fails == IF ok THEN 0 ELSE r.fails + 1
              s == Recorded(r, ok, current, off, by)
  <1>1. /\ r \in Row /\ r.fails \in 0 .. Limit /\ r.fails # Limit
        /\ r.proven \in Nat
     BY DEF RowOK, Row
  <1>2. fails \in 0 .. Limit /\ (fails >= Limit <=> fails = Limit)
        /\ (ok => fails # Limit)
     BY <1>1, Limits
  <1>. DEFINE st == IF ok THEN "available"
                    ELSE IF fails >= Limit THEN "suspended" ELSE "error"
              due == IF current /\ fails < Limit /\ ~off
                     THEN "later" ELSE "never"
              proven == IF ok THEN by ELSE r.proven
  <1>3. /\ st \in Statuses /\ due \in {"never", "now", "later"}
        /\ proven \in Nat
     BY <1>1 DEF Statuses
  <1>4. s = [r EXCEPT !.st = st, !.fails = fails, !.proven = proven,
                      !.due = due, !.manual = FALSE, !.token = 0]
     BY DEF Recorded
  <1>5. /\ s \in Row /\ s.st = st /\ s.fails = fails /\ s.proven = proven
        /\ s.due = due /\ s.token = 0
    <2>. HIDE DEF st, due, proven, fails, s
    <2>. QED  BY <1>1, <1>2, <1>3, <1>4 DEF Row
  <1>. HIDE DEF s
  <1>6. (s.fails = Limit) <=> (s.st = "suspended")
     BY <1>2, <1>5
  <1>7. s.st = "suspended" => s.due = "never"
     BY <1>2, <1>5, Limits
  <1>8. s.proven > 0 => t[1] <= s.proven /\ s.proven <= c
     BY <1>1, <1>5 DEF RowOK
  <1>9. RowOK(t, s, c)
     BY <1>5, <1>6, <1>7, <1>8 DEF RowOK
  <1>. QED  BY <1>5, <1>9 DEF s

\* Rescheduling changes no more than the time, and gives a suspended target
\* none.
LEMMA RescheduledOK ==
    ASSUME NEW t, NEW c, NEW r, RowOK(t, r, c), NEW off,
           NEW at \in {"now", "later"}
    PROVE  /\ RowOK(t, Rescheduled(r, off, at), c)
           /\ Rescheduled(r, off, at).token = r.token
  <1>1. /\ r \in Row /\ r.fails \in 0 .. Limit
     BY DEF RowOK, Row
  <1>. DEFINE s == Rescheduled(r, off, at)
  <1>2. \/ s = r
        \/ s = [r EXCEPT !.due = "never"]
        \/ s = [r EXCEPT !.due = at] /\ r.st # "suspended"
        \/ s = [r EXCEPT !.due = "now"] /\ r.st # "suspended"
     BY DEF Rescheduled
  <1>3. /\ s \in Row /\ s.st = r.st /\ s.token = r.token /\ s.fails = r.fails
        /\ s.proven = r.proven
        /\ (s.due = r.due \/ s.due = "never" \/ r.st # "suspended")
     BY <1>1, <1>2 DEF Row
  <1>. HIDE DEF s
  <1>4. RowOK(t, s, c)
     BY <1>3 DEF RowOK
  <1>. QED  BY <1>3, <1>4 DEF s

\* The time of a target comes: it had one, so it is not suspended.
LEMMA ElapseOK ==
    ASSUME NEW t, NEW c, NEW r, RowOK(t, r, c), r.due = "later"
    PROVE  RowOK(t, Ripe(r), c) /\ Ripe(r).token = r.token
  <1>1. r \in Row
     BY DEF RowOK
  <1>2. /\ Ripe(r) \in Row /\ Ripe(r).st = r.st /\ Ripe(r).token = r.token
        /\ Ripe(r).fails = r.fails
        /\ Ripe(r).proven = r.proven
     BY <1>1 DEF Ripe, Row
  <1>. QED  BY <1>2 DEF RowOK

\* Rows stay in order when the connection moves on.
LEMMA RowsLater ==
    ASSUME NEW rs, NEW c \in Nat, NEW d \in Nat, c <= d, RowsOK(rs, c)
    PROVE  RowsOK(rs, d)
  <1>1. ASSUME NEW t \in Targets PROVE RowOK(t, rs[t], d)
    <2>1. RowOK(t, rs[t], c) /\ rs[t].proven \in Nat
       BY Limits DEF RowsOK, Row
    <2>. QED  BY <2>1 DEF RowOK
  <1>. QED  BY <1>1 DEF RowsOK

\* Executions stay in order when the connection moves on.
LEMMA ProcsLater ==
    ASSUME NEW ps, NEW c \in Nat, NEW d \in Nat, c <= d, ProcsOK(ps, c)
    PROVE  ProcsOK(ps, d)
  <1>1. ASSUME NEW p \in Procs PROVE ProcOK(ps[p], d)
    <2>1. /\ ProcOK(ps[p], c) /\ ps[p].ver \in Nat
          /\ \A m \in Models : ps[p].on[m] \in Nat
       BY Limits DEF ProcsOK, Proc, Versions
    <2>. QED  BY <2>1 DEF ProcOK
  <1>. QED  BY <1>1 DEF ProcsOK

-----------------------------------------------------------------------------
(* What the operations make of all rows, executions and overtaken probes.  *)

\* The bound variables of the state, one by one.
LEMMA Facts ==
    ASSUME IInv
    PROVE  /\ version \in Versions /\ version \in Nat /\ conn \in Nat
           /\ version <= conn /\ autoOff \in SUBSET Models
           /\ RowsOK(rows, conn) /\ rows \in [Targets -> Row]
           /\ \A t \in Targets : RowOK(t, rows[t], conn) /\ rows[t] \in Row
           /\ ProcsOK(proc, conn) /\ proc \in [Procs -> Proc]
           /\ \A p \in Procs : ProcOK(proc[p], conn) /\ proc[p] \in Proc
           /\ \A m \in Models : <<version, m>> \in Targets
  BY Limits DEF IInv, GroupOK, RowsOK, ProcsOK, RowOK, ProcOK, Targets, Versions

\* The channel gets one of its statuses.
LEMMA RouteStatusType ==
    ASSUME NEW rs, NEW v, NEW off
    PROVE  RouteStatus(rs, v, off) \in {"enabled", "auto", "manual"}
  BY DEF RouteStatus

\* An operation takes its share of the budget.
LEMMA SpendFacts ==
    ASSUME IInv, NEW k \in {"edits", "admin", "faults"}, left[k] > 0,
           left' = [left EXCEPT ![k] = @ - 1]
    PROVE  left' \in [edits : 0 .. MaxEdits, admin : Nat, faults : Nat]
  <1>1. left \in [edits : 0 .. MaxEdits, admin : Nat, faults : Nat]
     BY DEF IInv, GroupOK
  <1>2. left.edits \in 0 .. MaxEdits /\ left.admin \in Nat /\ left.faults \in Nat
     BY <1>1
  <1>3. CASE k = "edits"
     BY <1>1, <1>2, <1>3, Limits
  <1>4. CASE k = "admin"
     BY <1>1, <1>2, <1>4, Limits
  <1>5. CASE k = "faults"
     BY <1>1, <1>2, <1>5, Limits
  <1>. QED  BY <1>3, <1>4, <1>5

\* The group stays in order while the connection is left alone.
LEMMA GroupKept ==
    ASSUME IInv, version' \in Versions, version' <= conn, autoOff' \subseteq Models,
           conn' = conn, chan' \in {"enabled", "auto", "manual"},
           active' \in BOOLEAN, queued' \in BOOLEAN, owed' \in BOOLEAN,
           inflight' \in BOOLEAN,
           left' \in [edits : 0 .. MaxEdits, admin : Nat, faults : Nat]
    PROVE  GroupOK'
  BY DEF IInv, GroupOK

\* The types GroupKept asks for, of the variables a step leaves alone.
LEMMA GroupTypes ==
    ASSUME IInv
    PROVE  /\ chan \in {"enabled", "auto", "manual"}
           /\ active \in BOOLEAN /\ queued \in BOOLEAN /\ owed \in BOOLEAN
           /\ inflight \in BOOLEAN
           /\ left \in [edits : 0 .. MaxEdits, admin : Nat, faults : Nat]
  BY DEF IInv, GroupOK

\* Synchronised targets are in order and keep their tokens.
LEMMA SyncedOK ==
    ASSUME NEW rs, NEW c, RowsOK(rs, c), NEW v, NEW off, NEW at \in Times
    PROVE  /\ RowsOK(Synced(rs, v, off, at), c)
           /\ \A t \in Targets : Synced(rs, v, off, at)[t].token = rs[t].token
  <1>. DEFINE S == Synced(rs, v, off, at)
  <1>1. ASSUME NEW t \in Targets
        PROVE  RowOK(t, S[t], c) /\ S[t].token = rs[t].token
    <2>1. RowOK(t, rs[t], c)
       BY DEF RowsOK
    <2>2. CASE t[1] # v
       BY <2>1, <2>2 DEF Synced
    <2>3. CASE t[1] = v
      <3>1. PICK r : r = IF rs[t].st = "absent" THEN Created(rs, t) ELSE rs[t]
         OBVIOUS
      <3>2. RowOK(t, r, c) /\ r.token = rs[t].token
        <4>1. RowOK(t, Created(rs, t), c) /\ Created(rs, t).token = 0
           BY NewRowOK DEF Created
        <4>2. rs[t].st = "absent" => rs[t].token = 0
           BY <2>1 DEF RowOK
        <4>. QED  BY <2>1, <3>1, <4>1, <4>2
      <3>3. PICK b : b = (t[2] \in off)
         OBVIOUS
      <3>4. PICK a \in {"now", "later"} : a = at[t[2]]
         BY DEF Times, Targets
      <3>5. S[t] = Rescheduled(r, b, a)
         BY <2>3, <3>1, <3>3, <3>4 DEF Synced
      <3>6. RowOK(t, Rescheduled(r, b, a), c) /\ Rescheduled(r, b, a).token = r.token
         BY <3>2, RescheduledOK
      <3>. QED  BY <3>2, <3>5, <3>6
    <2>. QED  BY <2>2, <2>3
  <1>2. S = [t \in Targets |-> S[t]]
     BY DEF Synced
  <1>. HIDE DEF S
  <1>3. S \in [Targets -> Row]
     BY <1>1, <1>2 DEF RowOK
  <1>4. RowsOK(S, c)
     BY <1>1, <1>3 DEF RowsOK
  <1>. QED  BY <1>1, <1>4 DEF S

\* Targets reset for a manual probe are in order and have no token.
LEMMA ResetRowsOK ==
    ASSUME IInv, NEW ts
    PROVE  /\ RowsOK(ResetRows(ts), conn)
           /\ \A t \in Targets :
                 /\ ResetRows(ts)[t].token \in {rows[t].token, 0}
                 /\ t \in ts => ResetRows(ts)[t].token = 0
  <1>. DEFINE S == ResetRows(ts)
  <1>1. ASSUME NEW t \in Targets
        PROVE  /\ RowOK(t, S[t], conn) /\ S[t].token \in {rows[t].token, 0}
               /\ t \in ts => S[t].token = 0
    <2>1. RowOK(t, rows[t], conn)
       BY Facts
    <2>2. CASE t \in ts /\ rows[t].st # "absent"
      <3>1. PICK r : r = rows[t]
         OBVIOUS
      <3>2. S[t] = Afresh(r)
         BY <2>2, <3>1 DEF ResetRows, Afresh
      <3>3. RowOK(t, r, conn)
         BY <2>1, <3>1
      <3>. HIDE DEF S
      <3>4. RowOK(t, S[t], conn) /\ S[t].token = 0
         BY <3>2, <3>3, ResetOK
      <3>. QED  BY <3>4
    <2>3. CASE ~(t \in ts /\ rows[t].st # "absent")
      <3>1. S[t] = rows[t]
         BY <2>3 DEF ResetRows
      <3>. QED  BY <2>1, <2>3, <3>1 DEF RowOK
    <2>. QED  BY <2>2, <2>3
  <1>2. S = [t \in Targets |-> S[t]]
     BY DEF ResetRows
  <1>. HIDE DEF S
  <1>3. S \in [Targets -> Row]
     BY <1>1, <1>2 DEF RowOK
  <1>4. RowsOK(S, conn)
     BY <1>1, <1>3 DEF RowsOK
  <1>. QED  BY <1>1, <1>4 DEF S

\* Tested targets that are returned to the queue are in order and lose their
\* tokens.
LEMMA ReturnedOK ==
    ASSUME IInv, NEW ts, \A t \in ts : rows[t].st = "testing", NEW S,
           S = [t \in Targets |->
                  IF t \in ts
                  THEN [rows[t] EXCEPT !.st = "pending", !.due = "now", !.token = 0]
                  ELSE rows[t]]
    PROVE  /\ RowsOK(S, conn)
           /\ \A t \in Targets : /\ S[t].token \in {rows[t].token, 0}
                                 /\ t \in ts => S[t].token = 0
  <1>1. ASSUME NEW t \in Targets
        PROVE  /\ RowOK(t, S[t], conn) /\ S[t].token \in {rows[t].token, 0}
               /\ t \in ts => S[t].token = 0
    <2>1. RowOK(t, rows[t], conn)
       BY Facts
    <2>2. CASE t \in ts
      <3>1. PICK r : r = rows[t]
         OBVIOUS
      <3>2. S[t] = Back(r)
         BY <2>2, <3>1 DEF Back
      <3>3. RowOK(t, r, conn) /\ r.st = "testing"
         BY <2>1, <2>2, <3>1
      <3>4. RowOK(t, Back(r), conn) /\ Back(r).token = 0
         BY <3>3, RequeueOK
      <3>. QED  BY <3>2, <3>4
    <2>3. CASE t \notin ts
       BY <2>1, <2>3
    <2>. QED  BY <2>2, <2>3
  <1>2. S \in [Targets -> Row]
     BY <1>1 DEF RowOK
  <1>. QED  BY <1>1, <1>2 DEF RowsOK

\* The same for what execution p left in testing.
LEMMA RequeuedOK ==
    ASSUME IInv, NEW p \in Procs
    PROVE  /\ RowsOK(Requeued(p), conn)
           /\ \A t \in Targets : Requeued(p)[t].token \in {rows[t].token, 0}
  <1>. DEFINE ts == {t \in Targets : /\ t[1] = proc[p].ver /\ proc[p].token # 0
                                     /\ Holds(p, t)}
  <1>1. \A t \in ts : rows[t].st = "testing"
     BY DEF Holds
  <1>2. Requeued(p) = [t \in Targets |->
                  IF t \in ts
                  THEN [rows[t] EXCEPT !.st = "pending", !.due = "now", !.token = 0]
                  ELSE rows[t]]
     BY DEF Requeued
  <1>. QED  BY <1>1, <1>2, ReturnedOK

\* One row is replaced by another one in order.
LEMMA OneRow ==
    ASSUME IInv, NEW t \in Targets, NEW r, RowOK(t, r, conn), r.token \in {rows[t].token, 0}
    PROVE  /\ RowsOK([rows EXCEPT ![t] = r], conn)
           /\ [rows EXCEPT ![t] = r][t] = r
           /\ \A u \in Targets : [rows EXCEPT ![t] = r][u].token \in {rows[u].token, 0}
  <1>1. /\ rows \in [Targets -> Row] /\ r \in Row
        /\ \A u \in Targets : RowOK(u, rows[u], conn)
     BY Facts DEF RowOK
  <1>. QED  BY <1>1 DEF RowsOK

\* Execution p takes a step to a state in order, the others none.
LEMMA BecomeOK ==
    ASSUME IInv, NEW p \in Procs, NEW s, ProcOK(s, conn), Become(p, s)
    PROVE  /\ ProcsOK(proc', conn) /\ proc'[p] = s
           /\ \A q \in Procs \ {p} : proc'[q] = proc[q]
  <1>1. proc \in [Procs -> Proc] /\ s \in Proc /\ \A q \in Procs : ProcOK(proc[q], conn)
     BY Facts DEF ProcOK
  <1>. QED  BY <1>1 DEF ProcsOK, Become

\* An execution that has nothing to do is in order.
LEMMA IdleOK ==
    ASSUME IInv
    PROVE  ProcOK(Idle, conn)
  <1>1. Idle \in Proc
     BY Limits DEF Idle, Proc
  <1>2. 1 <= conn
     BY DEF IInv, GroupOK, Versions
  <1>. QED  BY <1>1, <1>2 DEF ProcOK, Idle

\* An overtaken probe runs under a token, which is not its target's.
LEMMA OvertakenFacts ==
    ASSUME IInv, NEW p \in Procs, NEW t \in Targets, <<p, t>> \in overtaken
    PROVE  /\ proc[p].pc = "probe" /\ proc[p].token # 0
           /\ proc[p].ver = t[1] /\ proc[p].job[t[2]] = "running"
           /\ rows[t].token # proc[p].token
  <1>1. Passed(p, t) /\ t[2] \in Models /\ ProcOK(proc[p], conn)
     BY Facts DEF IInv, OvertakenOK, Targets
  <1>. QED  BY <1>1 DEF Passed, ProcOK

\* Overtaken probes that go on have lost their leases for good: a row's token is
\* kept, cleared, or replaced by one that nothing holds.
LEMMA StayOvertaken ==
    ASSUME IInv, overtaken' \subseteq overtaken,
           \A t \in Targets : rows'[t].token \in {rows[t].token, 0, FreshToken},
           \A p \in Procs, t \in Targets : <<p, t>> \in overtaken' =>
              /\ proc'[p].ver = proc[p].ver /\ proc'[p].token = proc[p].token
              /\ proc'[p].job[t[2]] = proc[p].job[t[2]]
    PROVE  OvertakenOK'
  <1>1. overtaken' \subseteq Procs \X Targets
     BY DEF IInv, OvertakenOK
  <1>2. ASSUME NEW p \in Procs, NEW t \in Targets, <<p, t>> \in overtaken'
        PROVE  Passed(p, t)'
    <2>1. <<p, t>> \in overtaken
       BY <1>2
    <2>2. rows'[t].token # proc[p].token
       BY <2>1, OvertakenFacts, FreshExists, Facts
    <2>3. /\ proc'[p].ver = proc[p].ver /\ proc'[p].token = proc[p].token
          /\ proc'[p].job[t[2]] = proc[p].job[t[2]]
       BY <1>2
    <2>. QED  BY <2>1, <2>2, <2>3, OvertakenFacts DEF Passed
  <1>. QED  BY <1>1, <1>2 DEF OvertakenOK

\* Probes of targets whose token is cleared are overtaken; an execution that
\* takes a step meanwhile is not probing.
LEMMA GetOvertaken ==
    ASSUME IInv, NEW ts \in SUBSET Targets, Overtake(ts),
           \A t \in Targets : /\ rows'[t].token \in {rows[t].token, 0}
                              /\ t \in ts => rows'[t].token = 0,
           \A p \in Procs : proc'[p] = proc[p] \/ proc[p].pc # "probe"
    PROVE  OvertakenOK'
  <1>1. overtaken' \subseteq Procs \X Targets
     BY DEF IInv, OvertakenOK, Overtake
  <1>2. ASSUME NEW p \in Procs, NEW t \in Targets, <<p, t>> \in overtaken'
        PROVE  Passed(p, t)'
    <2>1. CASE <<p, t>> \in overtaken
      <3>1. rows'[t].token # proc[p].token
         BY <2>1, OvertakenFacts
      <3>2. proc'[p] = proc[p]
         BY <2>1, OvertakenFacts
      <3>. QED  BY <2>1, <3>1, <3>2, OvertakenFacts DEF Passed
    <2>2. CASE <<p, t>> \notin overtaken
      <3>1. /\ t \in ts /\ proc[p].ver = t[1] /\ proc[p].job[t[2]] = "running"
         BY <1>2, <2>2 DEF Overtake
      <3>2. proc[p].pc = "probe" /\ proc[p].token # 0
         BY <3>1, Facts DEF ProcOK, Targets
      <3>3. proc'[p] = proc[p] /\ rows'[t].token = 0
         BY <3>1, <3>2
      <3>. QED  BY <3>1, <3>2, <3>3 DEF Passed
    <2>. QED  BY <2>1, <2>2
  <1>. QED  BY <1>1, <1>2 DEF OvertakenOK

-----------------------------------------------------------------------------
(* The steps of an execution.                                              *)

\* A runner starts: targets with expired leases lose their tokens, and their
\* probes are overtaken.
LEMMA BeginStep ==
    ASSUME IInv, NEW p \in Procs, Begin(p)
    PROVE  IInv'
  <1>1. GroupOK'
     BY Facts, GroupTypes, GroupKept DEF Begin
  <1>2. /\ RowsOK(rows', conn)
        /\ \A t \in Targets : /\ rows'[t].token \in {rows[t].token, 0}
                              /\ t \in Expired => rows'[t].token = 0
    <2>1. \A t \in Expired : rows[t].st = "testing"
       BY DEF Expired
    <2>2. rows' = [t \in Targets |->
                     IF t \in Expired
                     THEN [rows[t] EXCEPT !.st = "pending", !.due = "now", !.token = 0]
                     ELSE rows[t]]
       BY DEF Begin
    <2>. QED  BY <2>1, <2>2, ReturnedOK
  <1>3. PICK s : s = [Idle EXCEPT !.pc = "sync", !.ver = version, !.off = autoOff]
     OBVIOUS
  <1>4. ProcOK(s, conn)
    <2>1. /\ Idle \in Proc /\ Idle.job = [m \in Models |-> "none"]
       BY IdleOK DEF ProcOK, Idle
    <2>2. s \in Proc /\ s.pc = "sync" /\ s.ver = version /\ s.job = [m \in Models |-> "none"]
       BY <1>3, <2>1, Facts DEF Proc
    <2>. QED  BY <2>2, Facts DEF ProcOK
  <1>5. Become(p, s)
     BY <1>3 DEF Begin
  <1>6. ProcsOK(proc', conn) /\ \A q \in Procs \ {p} : proc'[q] = proc[q]
     BY <1>4, <1>5, BecomeOK
  <1>7. OvertakenOK'
    <2>1. Expired \in SUBSET Targets /\ Overtake(Expired) /\ proc[p].pc # "probe"
       BY DEF Begin, Expired
    <2>. QED  BY <1>2, <1>6, <2>1, GetOvertaken
  <1>. QED  BY <1>1, <1>2, <1>6, <1>7 DEF Begin, IInv

\* The targets are synchronised under the version that was read.
LEMMA SyncStep ==
    ASSUME IInv, NEW p \in Procs, Sync(p)
    PROVE  IInv'
  <1>1. proc[p] \in Proc /\ proc[p].ver \in Versions /\ proc[p].ver <= conn
     BY Facts DEF ProcOK, Proc
  <1>2. chan' \in {"enabled", "auto", "manual"}
     BY RouteStatusType DEF Sync, Reconcile
  <1>3. GroupOK'
     BY <1>1, <1>2, Facts, GroupTypes, GroupKept DEF Sync
  <1>4. /\ RowsOK(rows', conn)
        /\ \A t \in Targets : rows'[t].token = rows[t].token
     BY Facts, SyncedOK DEF Sync
  <1>5. PICK s : s = [proc[p] EXCEPT !.pc = "list"]
     OBVIOUS
  <1>6. s \in Proc /\ s.pc = "list" /\ s.ver = proc[p].ver /\ s.job = proc[p].job
     BY <1>1, <1>5 DEF Proc
  <1>7. proc[p].pc = "sync" /\ Become(p, s)
     BY <1>5 DEF Sync
  <1>8. ProcOK(s, conn)
     BY <1>1, <1>6, <1>7, Facts DEF ProcOK
  <1>9. ProcsOK(proc', conn) /\ \A q \in Procs \ {p} : proc'[q] = proc[q]
     BY <1>7, <1>8, BecomeOK
  <1>10. OvertakenOK'
    <2>1. overtaken' = overtaken
       BY DEF Sync
    <2>2. \A t \in Targets : <<p, t>> \notin overtaken
       BY <1>7, OvertakenFacts
    <2>. QED  BY <1>4, <1>9, <2>1, <2>2, StayOvertaken
  <1>. QED  BY <1>3, <1>4, <1>9, <1>10 DEF Sync, IInv

\* The due targets become the jobs of the execution.
LEMMA ListStep ==
    ASSUME IInv, NEW p \in Procs, List(p)
    PROVE  IInv'
  <1>1. GroupOK'
     BY Facts, GroupTypes, GroupKept DEF List
  <1>2. rows' = rows /\ conn' = conn /\ overtaken' = overtaken /\ proc[p].pc = "list"
     BY DEF List
  <1>3. PICK due \in SUBSET Models :
           Become(p, IF due = {} THEN Idle
             ELSE [Idle EXCEPT !.pc = "claim", !.ver = version,
                     !.job = [m \in Models |->
                                IF m \in due THEN "queued" ELSE "none"],
                     !.forced = {m \in due : rows[<<version, m>>].manual}])
     BY DEF List
  <1>4. PICK s : s = [Idle EXCEPT !.pc = "claim", !.ver = version,
                     !.job = [m \in Models |->
                                IF m \in due THEN "queued" ELSE "none"],
                     !.forced = {m \in due : rows[<<version, m>>].manual}]
     OBVIOUS
  <1>5. ProcOK(s, conn)
    <2>1. PICK j : j = [m \in Models |-> IF m \in due THEN "queued" ELSE "none"]
       OBVIOUS
    <2>2. PICK f : f = {m \in due : rows[<<version, m>>].manual}
       OBVIOUS
    <2>3. /\ j \in [Models -> {"none", "queued", "running"}] /\ f \in SUBSET Models
          /\ \A m \in Models : j[m] # "running"
       BY <2>1, <2>2
    <2>4. s = [Idle EXCEPT !.pc = "claim", !.ver = version, !.job = j, !.forced = f]
       BY <1>4, <2>1, <2>2
    <2>5. Idle \in Proc
       BY IdleOK DEF ProcOK
    <2>6. s \in Proc /\ s.pc = "claim" /\ s.ver = version /\ s.job = j
       BY <2>3, <2>4, <2>5, Facts DEF Proc
    <2>. QED  BY <2>3, <2>6, Facts DEF ProcOK
  <1>6. PICK r : r = IF due = {} THEN Idle ELSE s
     OBVIOUS
  <1>7. Become(p, r) /\ ProcOK(r, conn)
     BY <1>3, <1>4, <1>5, <1>6, IdleOK
  <1>8. ProcsOK(proc', conn) /\ \A q \in Procs \ {p} : proc'[q] = proc[q]
     BY <1>7, BecomeOK
  <1>9. OvertakenOK'
    <2>1. \A t \in Targets : <<p, t>> \notin overtaken
       BY <1>2, OvertakenFacts
    <2>. QED  BY <1>2, <1>8, <2>1, StayOvertaken
  <1>. QED  BY <1>1, <1>2, <1>8, <1>9, Facts DEF IInv

\* The jobs' targets are claimed under a token that nothing holds.
LEMMA ClaimStep ==
    ASSUME IInv, NEW p \in Procs, Claim(p)
    PROVE  IInv'
  <1>1. GroupOK'
     BY Facts, GroupTypes, GroupKept DEF Claim
  <1>2. conn' = conn /\ overtaken' = overtaken /\ proc[p].pc = "claim"
     BY DEF Claim
  <1>3. PICK k : k = FreshToken
     OBVIOUS
  <1>4. k \in Tokens /\ k # 0
     BY <1>3, Facts, FreshExists, Limits
  <1>5. ASSUME NEW t \in Targets
        PROVE  RowOK(t, rows'[t], conn) /\ rows'[t].token \in {rows[t].token, k}
    <2>1. PICK r : r = rows[t]
       OBVIOUS
    <2>2. RowOK(t, r, conn)
       BY <2>1, Facts
    <2>3. \/ rows'[t] = r
          \/ r.st # "suspended" /\ rows'[t] = Leased(r, k)
       BY <1>3, <2>1 DEF Claim, Leased
    <2>4. r.st # "suspended" =>
             RowOK(t, Leased(r, k), conn) /\ Leased(r, k).token = k
       BY <1>4, <2>2, ClaimOK
    <2>. QED  BY <2>1, <2>2, <2>3, <2>4
  <1>6. RowsOK(rows', conn)
    <2>1. rows' = [t \in Targets |-> rows'[t]]
       BY DEF Claim
    <2>. QED  BY <1>5, <2>1 DEF RowsOK, RowOK
  <1>7. PICK s : s = [proc[p] EXCEPT !.pc = "probe", !.token = k]
     OBVIOUS
  <1>8. proc[p] \in Proc /\ ProcOK(proc[p], conn)
     BY Facts
  <1>9. /\ s \in Proc /\ s.pc = "probe" /\ s.token = k /\ s.ver = proc[p].ver
        /\ s.job = proc[p].job
     BY <1>4, <1>7, <1>8 DEF Proc
  <1>10. ProcOK(s, conn) /\ Become(p, s)
     BY <1>2, <1>3, <1>4, <1>7, <1>8, <1>9 DEF ProcOK, Claim
  <1>11. ProcsOK(proc', conn) /\ \A q \in Procs \ {p} : proc'[q] = proc[q]
     BY <1>10, BecomeOK
  <1>12. OvertakenOK'
    <2>1. \A t \in Targets : <<p, t>> \notin overtaken
       BY <1>2, OvertakenFacts
    <2>2. \A t \in Targets : rows'[t].token \in {rows[t].token, 0, FreshToken}
       BY <1>3, <1>5
    <2>. QED  BY <1>2, <1>11, <2>1, <2>2, StayOvertaken
  <1>. QED  BY <1>1, <1>2, <1>6, <1>11, <1>12 DEF IInv

\* A request for an immediate test of one model.
LEMMA TestStartStep ==
    ASSUME IInv, NEW p \in Testers, NEW m \in Models, TestStart(p, m)
    PROVE  IInv'
  <1>1. p \in Procs
     BY DEF Procs
  <1>2. GroupOK'
    <2>1. left["admin"] > 0 /\ left' = [left EXCEPT !["admin"] = @ - 1]
       BY DEF TestStart
    <2>2. /\ left' \in [edits : 0 .. MaxEdits, admin : Nat, faults : Nat]
          /\ left'.edits = left.edits
       BY <2>1, SpendFacts
    <2>. QED  BY <2>2, Facts, GroupTypes, GroupKept DEF TestStart
  <1>3. rows' = rows /\ conn' = conn /\ overtaken' = overtaken /\ proc[p].pc = "idle"
     BY DEF TestStart
  <1>4. PICK s : s = [Idle EXCEPT !.pc = "reset", !.ver = version,
                        !.job = [Idle.job EXCEPT ![m] = "queued"],
                        !.forced = {m}]
     OBVIOUS
  <1>5. ProcOK(s, conn)
    <2>1. PICK j : j = [Idle.job EXCEPT ![m] = "queued"]
       OBVIOUS
    <2>2. /\ j \in [Models -> {"none", "queued", "running"}]
          /\ \A i \in Models : j[i] # "running"
       BY <2>1 DEF Idle
    <2>3. s = [Idle EXCEPT !.pc = "reset", !.ver = version, !.job = j, !.forced = {m}]
       BY <1>4, <2>1
    <2>4. Idle \in Proc
       BY IdleOK DEF ProcOK
    <2>5. s \in Proc /\ s.pc = "reset" /\ s.ver = version /\ s.job = j
       BY <2>2, <2>3, <2>4, Facts DEF Proc
    <2>. QED  BY <2>2, <2>5, Facts DEF ProcOK
  <1>6. Become(p, s)
     BY <1>4 DEF TestStart
  <1>7. ProcsOK(proc', conn) /\ \A q \in Procs \ {p} : proc'[q] = proc[q]
     BY <1>1, <1>5, <1>6, BecomeOK
  <1>8. OvertakenOK'
    <2>1. \A t \in Targets : <<p, t>> \notin overtaken
       BY <1>1, <1>3, OvertakenFacts
    <2>. QED  BY <1>3, <1>7, <2>1, StayOvertaken
  <1>. QED  BY <1>2, <1>3, <1>7, <1>8, Facts DEF IInv

\* The tester resets its target, whose running probes are overtaken.
LEMMA ResetStep ==
    ASSUME IInv, NEW p \in Procs, Reset(p)
    PROVE  IInv'
  <1>1. GroupOK'
     BY Facts, GroupTypes, GroupKept DEF Reset
  <1>2. PICK ts \in SUBSET Targets : rows' = ResetRows(ts) /\ Overtake(ts)
     BY DEF Reset
  <1>3. /\ RowsOK(rows', conn)
        /\ \A t \in Targets : /\ rows'[t].token \in {rows[t].token, 0}
                              /\ t \in ts => rows'[t].token = 0
     BY <1>2, ResetRowsOK
  <1>4. PICK s : s = [proc[p] EXCEPT !.pc = "claim"]
     OBVIOUS
  <1>5. /\ conn' = conn /\ proc[p].pc = "reset" /\ Become(p, s)
        /\ proc[p] \in Proc /\ ProcOK(proc[p], conn)
     BY <1>4, Facts DEF Reset
  <1>6. s \in Proc /\ s.pc = "claim" /\ s.ver = proc[p].ver /\ s.job = proc[p].job
     BY <1>4, <1>5 DEF Proc
  <1>7. ProcOK(s, conn)
     BY <1>5, <1>6 DEF ProcOK
  <1>8. ProcsOK(proc', conn) /\ \A q \in Procs \ {p} : proc'[q] = proc[q]
     BY <1>5, <1>7, BecomeOK
  <1>9. OvertakenOK'
     BY <1>2, <1>3, <1>5, <1>8, GetOvertaken
  <1>. QED  BY <1>1, <1>3, <1>5, <1>8, <1>9 DEF IInv

\* The state of job m changes; overtaken probes of other models go on.
LEMMA JobStep ==
    ASSUME IInv, NEW p \in Procs, NEW m \in Models, NEW s, ProcOK(s, conn),
           Become(p, s), s.ver = proc[p].ver, s.token = proc[p].token,
           \A i \in Models \ {m} : s.job[i] = proc[p].job[i],
           overtaken' \subseteq overtaken, <<p, <<proc[p].ver, m>>>> \notin overtaken',
           \A t \in Targets : rows'[t].token \in {rows[t].token, 0}
    PROVE  ProcsOK(proc', conn) /\ OvertakenOK'
  <1>1. /\ ProcsOK(proc', conn) /\ proc'[p] = s
        /\ \A q \in Procs \ {p} : proc'[q] = proc[q]
     BY BecomeOK
  <1>2. ASSUME NEW q \in Procs, NEW t \in Targets, <<q, t>> \in overtaken'
        PROVE  /\ proc'[q].ver = proc[q].ver /\ proc'[q].token = proc[q].token
               /\ proc'[q].job[t[2]] = proc[q].job[t[2]]
    <2>1. CASE q # p
       BY <1>1, <2>1
    <2>2. CASE q = p
      <3>1. proc[p].ver = t[1]
         BY <1>2, <2>2, OvertakenFacts
      <3>2. t = <<t[1], t[2]>> /\ t[2] \in Models
         BY DEF Targets
      <3>3. t[2] # m
         BY <1>2, <2>2, <3>1, <3>2
      <3>. QED  BY <1>1, <2>2, <3>2, <3>3
    <2>. QED  BY <2>1, <2>2
  <1>. QED  BY <1>1, <1>2, StayOvertaken

\* A job of p that is not running has not been overtaken.
LEMMA NotRunning ==
    ASSUME IInv, NEW p \in Procs, NEW m \in Models, proc[p].job[m] # "running"
    PROVE  <<p, <<proc[p].ver, m>>>> \notin overtaken
  <1>1. <<proc[p].ver, m>> \in Targets
     BY Facts DEF Proc, Targets
  <1>. QED  BY <1>1, OvertakenFacts

\* A probe is sent over the connection of this moment.
LEMMA ExecuteStep ==
    ASSUME IInv, NEW p \in Procs, NEW m \in Models, Execute(p, m)
    PROVE  IInv'
  <1>1. GroupOK'
     BY Facts, GroupTypes, GroupKept DEF Execute
  <1>2. /\ rows' = rows /\ conn' = conn /\ overtaken' = overtaken
        /\ proc[p].pc = "probe" /\ proc[p].job[m] = "queued"
        /\ proc[p] \in Proc /\ ProcOK(proc[p], conn)
     BY Facts DEF Execute
  <1>3. PICK s : s = [proc[p] EXCEPT !.job[m] = "running", !.on[m] = conn]
     OBVIOUS
  <1>4. conn \in Nat
     BY DEF IInv, GroupOK
  <1>5. /\ s \in Proc /\ s.pc = proc[p].pc /\ s.ver = proc[p].ver
        /\ s.token = proc[p].token
        /\ s.on[m] = conn
        /\ \A i \in Models \ {m} : s.job[i] = proc[p].job[i] /\ s.on[i] = proc[p].on[i]
     BY <1>2, <1>3, <1>4 DEF Proc
  <1>6. ProcOK(s, conn)
    <2>1. conn \in Nat /\ conn <= conn
       BY <1>4, Limits
    <2>2. ASSUME NEW i \in Models, s.job[i] = "running"
          PROVE  s.pc = "probe" /\ s.ver <= s.on[i] /\ s.on[i] <= conn
       BY <1>2, <1>5, <2>1, <2>2 DEF ProcOK
    <2>. QED  BY <1>2, <1>5, <2>2 DEF ProcOK
  <1>7. Become(p, s)
     BY <1>3 DEF Execute
  <1>8. ProcsOK(proc', conn) /\ OvertakenOK'
     BY <1>2, <1>5, <1>6, <1>7, JobStep, NotRunning
  <1>. QED  BY <1>1, <1>2, <1>8, Facts DEF IInv

\* Execution x after the end of its job m.
Ended(x, m, b) == [x EXCEPT !.job[m] = "none", !.affected = b]

\* A job that ends leaves its execution in order.
LEMMA JobEnds ==
    ASSUME IInv, NEW p \in Procs, NEW m \in Models, NEW b \in BOOLEAN, NEW s,
           s = Ended(proc[p], m, b)
    PROVE  /\ ProcOK(s, conn) /\ s.ver = proc[p].ver /\ s.token = proc[p].token
           /\ \A i \in Models \ {m} : s.job[i] = proc[p].job[i]
  <1>1. proc[p] \in Proc /\ ProcOK(proc[p], conn)
     BY Facts
  <1>2. /\ s \in Proc /\ s.pc = proc[p].pc /\ s.ver = proc[p].ver
        /\ s.token = proc[p].token /\ s.on = proc[p].on /\ s.job[m] = "none"
        /\ \A i \in Models \ {m} : s.job[i] = proc[p].job[i]
     BY <1>1 DEF Proc, Ended
  <1>. QED  BY <1>1, <1>2 DEF ProcOK

\* The lease of a job that is not executable is given back.
LEMMA SkipStep ==
    ASSUME IInv, NEW p \in Procs, NEW m \in Models, Skip(p, m)
    PROVE  IInv'
  <1>1. GroupOK'
     BY Facts, GroupTypes, GroupKept DEF Skip
  <1>2. /\ conn' = conn /\ overtaken' = overtaken /\ proc[p].job[m] = "queued"
     BY DEF Skip
  <1>3. PICK t : t = <<proc[p].ver, m>>
     OBVIOUS
  <1>4. t \in Targets
     BY <1>3, Facts DEF Proc, Targets
  <1>5. RowsOK(rows', conn) /\ \A u \in Targets : rows'[u].token \in {rows[u].token, 0}
    <2>1. CASE Holds(p, t)
      <3>1. PICK r : r = rows[t]
         OBVIOUS
      <3>2. RowOK(t, r, conn) /\ r.st = "testing"
         BY <1>4, <2>1, <3>1, Facts DEF Holds
      <3>3. RowOK(t, Released(r), conn) /\ Released(r).token = 0
         BY <3>2, ReleasedOK
      <3>4. rows' = [rows EXCEPT ![t] = Released(r)]
         BY <1>3, <2>1, <3>1 DEF Skip
      <3>. QED  BY <1>4, <3>3, <3>4, OneRow
    <2>2. CASE ~Holds(p, t)
       BY <1>3, <2>2, Facts DEF Skip
    <2>. QED  BY <2>1, <2>2
  <1>6. PICK b \in BOOLEAN : b = TRUE
     OBVIOUS
  <1>7. PICK s : s = Ended(proc[p], m, b)
     OBVIOUS
  <1>8. /\ ProcOK(s, conn) /\ s.ver = proc[p].ver /\ s.token = proc[p].token
        /\ \A i \in Models \ {m} : s.job[i] = proc[p].job[i]
     BY <1>7, JobEnds
  <1>9. Become(p, s)
     BY <1>6, <1>7 DEF Skip, Ended
  <1>10. ProcsOK(proc', conn) /\ OvertakenOK'
     BY <1>2, <1>5, <1>8, <1>9, JobStep, NotRunning
  <1>. QED  BY <1>1, <1>2, <1>5, <1>10 DEF IInv

\* A result is recorded under the lease, or nothing changes.
LEMMA ResultStep ==
    ASSUME IInv, NEW p \in Procs, NEW m \in Models, NEW ok \in BOOLEAN,
           Result(p, m, ok)
    PROVE  IInv'
  <1>1. chan' \in {"enabled", "auto", "manual"}
     BY RouteStatusType, GroupTypes DEF Result, Reconcile
  <1>2. GroupOK'
     BY <1>1, Facts, GroupTypes, GroupKept DEF Result
  <1>3. PICK t : t = <<proc[p].ver, m>>
     OBVIOUS
  <1>4. /\ conn' = conn /\ overtaken' = overtaken \ {<<p, t>>}
        /\ proc[p].job[m] = "running"
     BY <1>3 DEF Result
  <1>5. t \in Targets /\ t[1] = proc[p].ver
     BY <1>3, Facts DEF Proc, Targets
  <1>6. PICK c \in BOOLEAN : c <=> proc[p].ver = version
     OBVIOUS
  <1>7. RowsOK(rows', conn) /\ \A u \in Targets : rows'[u].token \in {rows[u].token, 0}
    <2>1. CASE Holds(p, t)
      <3>1. PICK r : r = rows[t]
         OBVIOUS
      <3>2. PICK off \in BOOLEAN : off <=> m \in autoOff
         OBVIOUS
      <3>3. PICK by : by = proc[p].on[m]
         OBVIOUS
      <3>4. by \in Nat /\ t[1] <= by /\ by <= conn
         BY <1>4, <1>5, <3>3, Facts DEF Proc, ProcOK
      <3>5. RowOK(t, r, conn) /\ r.st = "testing"
         BY <1>5, <2>1, <3>1, Facts DEF Holds
      <3>6. PICK n : n = Recorded(r, ok, c, off, by)
         OBVIOUS
      <3>7. RowOK(t, n, conn) /\ n.token = 0
         BY <3>4, <3>5, <3>6, RecordedOK
      <3>8. rows' = [rows EXCEPT ![t] = n]
         BY <1>3, <1>6, <2>1, <3>1, <3>2, <3>3, <3>6 DEF Result
      <3>. QED  BY <1>5, <3>7, <3>8, OneRow
    <2>2. CASE ~Holds(p, t)
       BY <1>3, <2>2, Facts DEF Result
    <2>. QED  BY <2>1, <2>2
  <1>8. PICK b \in BOOLEAN :
           Become(p, Ended(proc[p], m, b))
     BY <1>3, Facts DEF Result, Proc, Ended
  <1>9. PICK s : s = Ended(proc[p], m, b)
     OBVIOUS
  <1>10. /\ ProcOK(s, conn) /\ s.ver = proc[p].ver /\ s.token = proc[p].token
         /\ \A i \in Models \ {m} : s.job[i] = proc[p].job[i]
     BY <1>9, JobEnds
  <1>11. ProcsOK(proc', conn) /\ OvertakenOK'
    <2>1. Become(p, s) /\ overtaken' \subseteq overtaken
          /\ <<p, <<proc[p].ver, m>>>> \notin overtaken'
       BY <1>3, <1>4, <1>8, <1>9
    <2>. QED  BY <1>7, <1>10, <2>1, JobStep
  <1>. QED  BY <1>2, <1>4, <1>7, <1>11 DEF IInv

\* Execution p ends: none of its probes is overtaken any more.
LEMMA EndStep ==
    ASSUME IInv, NEW p \in Procs, Become(p, Idle), overtaken' \subseteq overtaken,
           \A t \in Targets : <<p, t>> \notin overtaken',
           \A t \in Targets : rows'[t].token \in {rows[t].token, 0}
    PROVE  ProcsOK(proc', conn) /\ OvertakenOK'
  <1>1. ProcsOK(proc', conn) /\ \A q \in Procs \ {p} : proc'[q] = proc[q]
     BY IdleOK, BecomeOK
  <1>. QED  BY <1>1, StayOvertaken

\* Every job has its result, and what is still leased is returned.
LEMMA CloseStep ==
    ASSUME IInv, NEW p \in Procs, Close(p)
    PROVE  IInv'
  <1>1. chan' \in {"enabled", "auto", "manual"}
     BY RouteStatusType, GroupTypes DEF Close, Reconcile
  <1>2. GroupOK'
     BY <1>1, Facts, GroupTypes, GroupKept DEF Close
  <1>3. /\ conn' = conn /\ overtaken' = overtaken /\ Become(p, Idle)
        /\ rows' = Requeued(p) /\ \A m \in Models : proc[p].job[m] = "none"
     BY DEF Close
  <1>4. RowsOK(rows', conn) /\ \A t \in Targets : rows'[t].token \in {rows[t].token, 0}
     BY <1>3, RequeuedOK
  <1>5. ASSUME NEW t \in Targets PROVE <<p, t>> \notin overtaken'
    <2>1. proc[p].job[t[2]] = "none"
       BY <1>3 DEF Targets
    <2>. QED  BY <1>3, <2>1, OvertakenFacts
  <1>6. ProcsOK(proc', conn) /\ OvertakenOK'
     BY <1>3, <1>4, <1>5, EndStep
  <1>. QED  BY <1>2, <1>3, <1>4, <1>6 DEF IInv

\* The execution is cancelled and returns its targets.
LEMMA AbortStep ==
    ASSUME IInv, NEW p \in Procs, Abort(p)
    PROVE  IInv'
  <1>1. chan' \in {"enabled", "auto", "manual"}
     BY RouteStatusType DEF Abort, Reconcile
  <1>2. GroupOK'
    <2>1. left["faults"] > 0 /\ left' = [left EXCEPT !["faults"] = @ - 1]
       BY DEF Abort
    <2>2. /\ left' \in [edits : 0 .. MaxEdits, admin : Nat, faults : Nat]
          /\ left'.edits = left.edits
       BY <2>1, SpendFacts
    <2>. QED  BY <1>1, <2>2, Facts, GroupTypes, GroupKept DEF Abort
  <1>3. conn' = conn /\ Forget(p) /\ Become(p, Idle) /\ rows' = Requeued(p)
     BY DEF Abort
  <1>4. RowsOK(rows', conn) /\ \A t \in Targets : rows'[t].token \in {rows[t].token, 0}
     BY <1>3, RequeuedOK
  <1>5. overtaken' \subseteq overtaken /\ \A t \in Targets : <<p, t>> \notin overtaken'
     BY <1>3 DEF Forget
  <1>6. ProcsOK(proc', conn) /\ OvertakenOK'
     BY <1>3, <1>4, <1>5, EndStep
  <1>. QED  BY <1>2, <1>3, <1>4, <1>6 DEF IInv

\* The process dies and its leases stay behind.
LEMMA CrashStep ==
    ASSUME IInv, NEW p \in Procs, Crash(p)
    PROVE  IInv'
  <1>1. GroupOK'
    <2>1. left["faults"] > 0 /\ left' = [left EXCEPT !["faults"] = @ - 1]
       BY DEF Crash
    <2>2. /\ left' \in [edits : 0 .. MaxEdits, admin : Nat, faults : Nat]
          /\ left'.edits = left.edits
       BY <2>1, SpendFacts
    <2>. QED  BY <2>2, Facts, GroupTypes, GroupKept DEF Crash
  <1>2. conn' = conn /\ rows' = rows /\ Forget(p) /\ Become(p, Idle)
     BY DEF Crash
  <1>3. overtaken' \subseteq overtaken /\ \A t \in Targets : <<p, t>> \notin overtaken'
     BY <1>2 DEF Forget
  <1>4. ProcsOK(proc', conn) /\ OvertakenOK'
     BY <1>2, <1>3, EndStep
  <1>. QED  BY <1>1, <1>2, <1>4, Facts DEF IInv

-----------------------------------------------------------------------------
(* The steps of administrators, providers, users and time.                 *)

\* Executions stand still and rows keep or lose their tokens.
LEMMA StillStep ==
    ASSUME IInv, proc' = proc, overtaken' = overtaken,
           \A t \in Targets : rows'[t].token \in {rows[t].token, 0}
    PROVE  OvertakenOK'
  BY StayOvertaken

\* A new connection starts a version of its own, within the bound.
LEMMA EditConnectionStep ==
    ASSUME IInv, NEW form \in BOOLEAN, EditConnection(form)
    PROVE  IInv'
  <1>1. conn' = conn + 1 /\ conn' \in Nat /\ version' = version + 1
        /\ version' \in Versions
     BY Facts DEF EditConnection, NextVersion
  <1>2. version' <= conn'
     BY <1>1, Facts
  <1>3. /\ chan' \in {"enabled", "auto", "manual"} /\ autoOff' = autoOff
        /\ active' = active /\ inflight' = inflight /\ left' = left
        /\ queued' \in BOOLEAN /\ owed' \in BOOLEAN
     BY GroupTypes DEF EditConnection, EditedStatus
  <1>4. GroupOK'
     BY <1>1, <1>2, <1>3, Facts, GroupTypes DEF GroupOK
  <1>5. RowsOK(rows', conn) /\ \A t \in Targets : rows'[t].token = rows[t].token
     BY Facts, SyncedOK DEF EditConnection
  <1>6. proc' = proc /\ overtaken' = overtaken
     BY DEF EditConnection
  <1>7. RowsOK(rows', conn') /\ ProcsOK(proc', conn')
     BY <1>1, <1>5, <1>6, Facts, RowsLater, ProcsLater
  <1>8. OvertakenOK'
     BY <1>5, <1>6, StillStep
  <1>. QED  BY <1>4, <1>7, <1>8 DEF IInv

\* The provider's form without a new connection writes back the status it read.
LEMMA EditOthersStep ==
    ASSUME IInv, StaffOK, EditOthers
    PROVE  IInv'
  <1>1. chan' \in {"enabled", "auto", "manual"}
     BY DEF EditOthers, StaffOK, ChannelStatuses
  <1>2. GroupOK'
     BY <1>1, Facts, GroupTypes, GroupKept DEF EditOthers
  <1>3. RowsOK(rows', conn) /\ \A t \in Targets : rows'[t].token = rows[t].token
     BY Facts, SyncedOK DEF EditOthers
  <1>4. proc' = proc /\ conn' = conn /\ overtaken' = overtaken
     BY DEF EditOthers
  <1>5. OvertakenOK'
     BY <1>3, <1>4, StillStep
  <1>. QED  BY <1>2, <1>3, <1>4, <1>5, Facts DEF IInv

\* A change of status writes the status, and a connection that counts as new
\* when it is not the one in place.
LEMMA SaveStatusStep ==
    ASSUME IInv, StaffOK, NEW w \in Savers, SaveStatus(w)
    PROVE  IInv'
  <1>2. chan' \in {"enabled", "auto", "manual"}
    <2>1. chan' = saves[w].to /\ saves[w] # NoSave
       BY DEF SaveStatus
    <2>. QED  BY <2>1 DEF StaffOK, MaySave
  <1>3. conn' \in Nat /\ conn \in Nat /\ conn <= conn'
     BY Facts DEF SaveStatus
  <1>4. /\ version' = version /\ autoOff' = autoOff /\ active' = active
        /\ inflight' = inflight /\ left' = left /\ queued' = queued /\ owed' = owed
        /\ rows' = rows /\ proc' = proc /\ overtaken' = overtaken
     BY DEF SaveStatus
  <1>5. version' <= conn'
     BY <1>3, <1>4, Facts
  <1>6. GroupOK'
     BY <1>2, <1>3, <1>4, <1>5, Facts, GroupTypes DEF GroupOK
  <1>7. RowsOK(rows', conn') /\ ProcsOK(proc', conn')
     BY <1>3, <1>4, Facts, RowsLater, ProcsLater
  <1>8. OvertakenOK'
     BY <1>4, StillStep
  <1>. QED  BY <1>6, <1>7, <1>8 DEF IInv

\* An administrative operation pays for itself.
LEMMA AdminSpend ==
    ASSUME IInv, Spend("admin")
    PROVE  left' \in [edits : 0 .. MaxEdits, admin : Nat, faults : Nat]
  <1>1. left["admin"] > 0 /\ left' = [left EXCEPT !["admin"] = @ - 1]
     BY DEF Spend
  <1>. QED  BY <1>1, SpendFacts

\* A target gets an endpoint of its own, and with it a new row.
LEMMA ChangeEndpointStep ==
    ASSUME IInv, NEW m \in Models, ChangeEndpoint(m)
    PROVE  IInv'
  <1>1. chan' \in {"enabled", "auto", "manual"}
     BY RouteStatusType DEF ChangeEndpoint, Reconcile
  <1>2. GroupOK'
     BY <1>1, AdminSpend, Facts, GroupTypes, GroupKept DEF ChangeEndpoint
  <1>3. PICK t \in Targets : t = <<version, m>>
     BY Facts
  <1>4. PICK r : r = NewRow("waiting", IF m \in autoOff THEN "never" ELSE "later")
     OBVIOUS
  <1>5. RowOK(t, r, conn) /\ r.token = 0
     BY <1>4, NewRowOK
  <1>6. /\ rows' = [rows EXCEPT ![t] = r] /\ Overtake({t}) /\ proc' = proc
        /\ conn' = conn
     BY <1>3, <1>4 DEF ChangeEndpoint
  <1>7. /\ RowsOK(rows', conn) /\ rows'[t] = r
        /\ \A u \in Targets : rows'[u].token \in {rows[u].token, 0}
     BY <1>5, <1>6, OneRow
  <1>8. OvertakenOK'
    <2>1. \A u \in Targets : /\ rows'[u].token \in {rows[u].token, 0}
                             /\ u \in {t} => rows'[u].token = 0
       BY <1>5, <1>7
    <2>. QED  BY <1>6, <2>1, GetOvertaken
  <1>. QED  BY <1>2, <1>6, <1>7, <1>8, Facts DEF IInv

\* The automatic choice: a target without a success is created again.
LEMMA AutoEndpointStep ==
    ASSUME IInv, NEW m \in Models, AutoEndpoint(m)
    PROVE  IInv'
  <1>1. chan' \in {"enabled", "auto", "manual"}
     BY RouteStatusType DEF AutoEndpoint, Reconcile
  <1>2. GroupOK'
     BY <1>1, AdminSpend, Facts, GroupTypes, GroupKept DEF AutoEndpoint
  <1>3. PICK t \in Targets : t = <<version, m>>
     BY Facts
  <1>4. proc' = proc /\ conn' = conn
     BY DEF AutoEndpoint
  <1>5. CASE rows[t].proven > 0
    <2>1. \E at \in Times : rows' = Synced(rows, version, autoOff, at)
       BY <1>3, <1>5 DEF AutoEndpoint
    <2>2. RowsOK(rows', conn) /\ \A u \in Targets : rows'[u].token = rows[u].token
       BY <2>1, Facts, SyncedOK
    <2>3. overtaken' = overtaken
       BY <1>3, <1>5 DEF AutoEndpoint
    <2>4. OvertakenOK'
       BY <1>4, <2>2, <2>3, StillStep
    <2>. QED  BY <1>2, <1>4, <2>2, <2>4, Facts DEF IInv
  <1>6. CASE ~(rows[t].proven > 0)
    <2>1. PICK rs : rs = [rows EXCEPT ![t] = Absent]
       OBVIOUS
    <2>2. \E at \in Times : rows' = Synced(rs, version, autoOff, at)
       BY <1>3, <1>6, <2>1 DEF AutoEndpoint
    <2>3. RowOK(t, Absent, conn) /\ Absent.token = 0
       BY AbsentOK
    <2>4. /\ RowsOK(rs, conn) /\ rs[t] = Absent
          /\ \A u \in Targets : rs[u].token \in {rows[u].token, 0}
       BY <2>1, <2>3, OneRow
    <2>5. RowsOK(rows', conn) /\ \A u \in Targets : rows'[u].token = rs[u].token
       BY <2>2, <2>4, SyncedOK
    <2>6. Overtake({t})
       BY <1>3, <1>6 DEF AutoEndpoint
    <2>7. \A u \in Targets : /\ rows'[u].token \in {rows[u].token, 0}
                             /\ u \in {t} => rows'[u].token = 0
       BY <2>3, <2>4, <2>5
    <2>8. OvertakenOK'
       BY <1>4, <2>6, <2>7, GetOvertaken
    <2>. QED  BY <1>2, <1>4, <2>5, <2>8, Facts DEF IInv
  <1>. QED  BY <1>5, <1>6

\* The schedule of a model is switched.
LEMMA ToggleAutoProbeStep ==
    ASSUME IInv, NEW m \in Models, ToggleAutoProbe(m)
    PROVE  IInv'
  <1>1. chan' \in {"enabled", "auto", "manual"}
     BY RouteStatusType DEF ToggleAutoProbe, Reconcile
  <1>2. autoOff' \subseteq Models
     BY Facts DEF ToggleAutoProbe
  <1>3. GroupOK'
     BY <1>1, <1>2, AdminSpend, Facts, GroupTypes, GroupKept DEF ToggleAutoProbe
  <1>4. \E at \in Times : rows' = Synced(rows, version, autoOff', at)
     BY DEF ToggleAutoProbe
  <1>5. RowsOK(rows', conn) /\ \A u \in Targets : rows'[u].token = rows[u].token
     BY <1>4, Facts, SyncedOK
  <1>6. proc' = proc /\ conn' = conn /\ overtaken' = overtaken
     BY DEF ToggleAutoProbe
  <1>7. OvertakenOK'
     BY <1>5, <1>6, StillStep
  <1>. QED  BY <1>3, <1>5, <1>6, <1>7, Facts DEF IInv

\* All targets of the version are reset, and their probes overtaken.
LEMMA RequestProbeStep ==
    ASSUME IInv, RequestProbe
    PROVE  IInv'
  <1>1. GroupOK'
     BY AdminSpend, Facts, GroupTypes, GroupKept DEF RequestProbe
  <1>2. PICK ts \in SUBSET Targets : rows' = ResetRows(ts) /\ Overtake(ts)
     BY DEF RequestProbe
  <1>3. /\ RowsOK(rows', conn)
        /\ \A t \in Targets : /\ rows'[t].token \in {rows[t].token, 0}
                              /\ t \in ts => rows'[t].token = 0
     BY <1>2, ResetRowsOK
  <1>4. proc' = proc /\ conn' = conn
     BY DEF RequestProbe
  <1>5. OvertakenOK'
     BY <1>2, <1>3, <1>4, GetOvertaken
  <1>. QED  BY <1>1, <1>3, <1>4, <1>5, Facts DEF IInv

\* Steps that leave targets and executions alone.
LEMMA QuietStep ==
    ASSUME IInv, GroupOK', rows' = rows, proc' = proc, conn' = conn,
           overtaken' = overtaken
    PROVE  IInv'
  <1>1. OvertakenOK'
     BY StillStep
  <1>. QED  BY <1>1, Facts DEF IInv

\* The provider's status, the channel's status, requests of users and the
\* targets of other groups.
LEMMA OtherSteps ==
    ASSUME IInv,
           \/ SetProvider \/ HandlerReconciles \/ RequestStarts \/ RequestFails
           \/ OthersDue \/ EditRead \/ \E off \in BOOLEAN : SetStatus(off)
    PROVE  IInv'
  <1>1. CASE SetProvider
     BY <1>1, AdminSpend, Facts, GroupTypes, GroupKept, QuietStep DEF SetProvider
  <1>2. CASE HandlerReconciles
    <2>1. chan' \in {"enabled", "auto", "manual"}
       BY <1>2, RouteStatusType DEF HandlerReconciles, Reconcile
    <2>. QED  BY <1>2, <2>1, Facts, GroupTypes, GroupKept, QuietStep
              DEF HandlerReconciles
  <1>3. CASE RequestStarts
     BY <1>3, Facts, GroupTypes, GroupKept, QuietStep DEF RequestStarts
  <1>4. CASE RequestFails
    <2>1. left["faults"] > 0 /\ left' = [left EXCEPT !["faults"] = @ - 1]
       BY <1>4 DEF RequestFails, Spend
    <2>2. left' \in [edits : 0 .. MaxEdits, admin : Nat, faults : Nat]
       BY <2>1, SpendFacts
    <2>. QED  BY <1>4, <2>2, Facts, GroupTypes, GroupKept, QuietStep DEF RequestFails
  <1>5. CASE OthersDue
     BY <1>5, Facts, GroupTypes, GroupKept, QuietStep DEF OthersDue
  <1>6. CASE \E off \in BOOLEAN : SetStatus(off)
     BY <1>6, AdminSpend, Facts, GroupTypes, GroupKept, QuietStep DEF SetStatus
  <1>7. CASE EditRead
    <2>1. left["edits"] > 0 /\ left' = [left EXCEPT !["edits"] = @ - 1]
       BY <1>7 DEF EditRead, Spend
    <2>2. left' \in [edits : 0 .. MaxEdits, admin : Nat, faults : Nat]
       BY <2>1, SpendFacts
    <2>. QED  BY <1>7, <2>2, Facts, GroupTypes, GroupKept, QuietStep DEF EditRead
  <1>. QED  BY <1>1, <1>2, <1>3, <1>4, <1>5, <1>6, <1>7

\* The time of a target comes.
LEMMA ElapseStep ==
    ASSUME IInv, NEW t \in Targets, Elapse(t)
    PROVE  IInv'
  <1>1. GroupOK'
     BY Facts, GroupTypes, GroupKept DEF Elapse
  <1>2. PICK r : r = rows[t]
     OBVIOUS
  <1>3. RowOK(t, r, conn) /\ r.due = "later"
     BY <1>2, Facts DEF Elapse
  <1>4. RowOK(t, Ripe(r), conn) /\ Ripe(r).token = r.token
     BY <1>3, ElapseOK
  <1>5. rows' = [rows EXCEPT ![t] = Ripe(r)]
     BY <1>2, Facts DEF Elapse, Ripe
  <1>6. RowsOK(rows', conn) /\ \A u \in Targets : rows'[u].token \in {rows[u].token, 0}
     BY <1>2, <1>4, <1>5, OneRow
  <1>7. proc' = proc /\ conn' = conn /\ overtaken' = overtaken
     BY DEF Elapse
  <1>8. OvertakenOK'
     BY <1>6, <1>7, StillStep
  <1>. QED  BY <1>1, <1>6, <1>7, <1>8, Facts DEF IInv

-----------------------------------------------------------------------------
(* The theorems.                                                           *)

\* The first state is in order.
LEMMA InitOK ==
    ASSUME Init
    PROVE  IInv
  <1>1. GroupOK
    <2>1. left \in [edits : 0 .. MaxEdits, admin : Nat, faults : Nat]
       BY ConstantsAssumption DEF Init
    <2>3. /\ version = 1 /\ conn = 1 /\ autoOff = {} /\ chan = "auto"
          /\ active \in BOOLEAN /\ queued \in BOOLEAN /\ owed \in BOOLEAN
          /\ inflight \in BOOLEAN
       BY DEF Init
    <2>4. version \in Versions /\ conn \in Nat /\ version <= conn
       BY <2>3, Limits DEF Versions
    <2>. QED  BY <2>1, <2>3, <2>4 DEF GroupOK
  <1>2. ASSUME NEW t \in Targets PROVE RowOK(t, rows[t], conn)
    <2>1. rows[t] = NewRow("pending", "now") \/ rows[t] = Absent
       BY DEF Init
    <2>2. RowOK(t, NewRow("pending", "now"), conn) /\ RowOK(t, Absent, conn)
       BY NewRowOK, AbsentOK
    <2>. QED  BY <2>1, <2>2
  <1>3. RowsOK(rows, conn)
    <2>1. rows = [t \in Targets |-> rows[t]]
       BY DEF Init
    <2>. QED  BY <1>2, <2>1 DEF RowsOK, RowOK
  <1>4. ProcsOK(proc, conn)
    <2>1. Idle \in Proc
       BY Limits DEF Idle, Proc
    <2>2. ProcOK(Idle, 1)
       BY <2>1 DEF ProcOK, Idle
    <2>. QED  BY <2>1, <2>2 DEF Init, ProcsOK
  <1>5. OvertakenOK
     BY DEF Init, OvertakenOK
  <1>. QED  BY <1>1, <1>3, <1>4, <1>5 DEF IInv

\* What an edit or a change of status read keeps its type.
LEMMA StaffStep ==
    ASSUME IInv, StaffOK, [Next]_vars
    PROVE  StaffOK'
  <1>1. CASE UNCHANGED staff
     BY <1>1 DEF StaffOK, staff
  <1>2. NoSave \in Save
     BY DEF NoSave, Save
  <1>3. conn \in Nat /\ chan \in ChannelStatuses
     BY Facts, GroupTypes DEF ChannelStatuses
  <1>4. ASSUME NEW w \in Savers, NEW to \in MaySave(w), ReadToSave(w, to),
               editing' = editing, byHand' = byHand
        PROVE  StaffOK'
    <2>1. PICK x : x = IF chan = to THEN NoSave ELSE [to |-> to, conn |-> conn]
       OBVIOUS
    <2>2. x \in Save /\ (x # NoSave => x.to = to)
       BY <1>2, <1>3, <2>1 DEF Save, MaySave, ChannelStatuses
    <2>3. saves' = [saves EXCEPT ![w] = x]
       BY <1>4, <2>1 DEF ReadToSave
    <2>. QED  BY <1>4, <2>2, <2>3 DEF StaffOK
  <1>5. ASSUME NEW w \in Savers, SaveStatus(w) PROVE StaffOK'
    <2>1. /\ saves' \in [Savers -> Save]
          /\ \A v \in Savers : saves'[v] # NoSave => saves'[v].to \in MaySave(v)
       BY <1>2, <1>5 DEF SaveStatus, StaffOK
    <2>2. byHand' \in BOOLEAN
       BY <1>5, Zenon DEF SaveStatus, StaffOK
    <2>. QED  BY <1>5, <2>1, <2>2 DEF SaveStatus, StaffOK
  <1>6. CASE EditRead \/ EditOthers \/ \E form \in BOOLEAN : EditConnection(form)
     BY <1>3, <1>6 DEF EditRead, EditOthers, EditConnection, StaffOK
  <1>7. ASSUME NEW off \in BOOLEAN, SetStatus(off) PROVE StaffOK'
    <2>1. "admin" \in Savers /\ (IF off THEN "manual" ELSE "enabled") \in MaySave("admin")
       BY DEF Savers, MaySave
    <2>. QED  BY <1>4, <1>7, <2>1 DEF SetStatus
  <1>8. CASE RequestFails
    <2>1. "auto" \in Savers /\ "auto" \in MaySave("auto")
       BY DEF Savers, MaySave
    <2>. QED  BY <1>4, <1>8, <2>1 DEF RequestFails
  <1>9. ASSUME NEW p \in Procs, Probe(p) \/ Abort(p) \/ Crash(p)
        PROVE  UNCHANGED staff
     BY <1>9 DEF Probe, Begin, Sync, List, Reset, Claim, Close, Execute, Skip,
                 Result, Abort, Crash
  <1>10. ASSUME NEW m \in Models,
                ChangeEndpoint(m) \/ AutoEndpoint(m) \/ ToggleAutoProbe(m)
         PROVE  UNCHANGED staff
     BY <1>10 DEF ChangeEndpoint, AutoEndpoint, ToggleAutoProbe
  <1>11. ASSUME NEW p \in Testers, NEW m \in Models, TestStart(p, m)
         PROVE  UNCHANGED staff
     BY <1>11 DEF TestStart
  <1>12. CASE RequestProbe \/ SetProvider \/ HandlerReconciles \/ RequestStarts
              \/ OthersDue \/ (\E t \in Targets : Elapse(t)) \/ UNCHANGED vars
    <2>1. UNCHANGED staff
       BY <1>12 DEF RequestProbe, SetProvider, HandlerReconciles, RequestStarts,
                    OthersDue, Elapse, vars, staff
    <2>. QED  BY <1>1, <2>1
  <1>. QED  BY <1>1, <1>5, <1>6, <1>7, <1>8, <1>9, <1>10, <1>11, <1>12 DEF Next, Admin

\* Every step keeps the state in order.
LEMMA NextOK ==
    ASSUME IInv, StaffOK, [Next]_vars
    PROVE  IInv'
  <1>1. ASSUME NEW p \in Procs, Probe(p) \/ Abort(p) \/ Crash(p) PROVE IInv'
    <2>1. CASE Begin(p) \/ Sync(p) \/ List(p) \/ Reset(p) \/ Claim(p) \/ Close(p)
       BY <2>1, BeginStep, SyncStep, ListStep, ResetStep, ClaimStep, CloseStep
    <2>2. ASSUME NEW m \in Models, Execute(p, m) \/ Skip(p, m) PROVE IInv'
       BY <2>2, ExecuteStep, SkipStep
    <2>3. ASSUME NEW m \in Models, NEW ok \in BOOLEAN, Result(p, m, ok) PROVE IInv'
       BY <2>3, ResultStep
    <2>4. CASE Abort(p) \/ Crash(p)
       BY <2>4, AbortStep, CrashStep
    <2>. QED  BY <1>1, <2>1, <2>2, <2>3, <2>4 DEF Probe
  <1>2. CASE Admin
    <2>1. ASSUME NEW form \in BOOLEAN, EditConnection(form) PROVE IInv'
       BY <2>1, EditConnectionStep
    <2>2. ASSUME NEW m \in Models,
                 ChangeEndpoint(m) \/ AutoEndpoint(m) \/ ToggleAutoProbe(m)
          PROVE  IInv'
       BY <2>2, ChangeEndpointStep, AutoEndpointStep, ToggleAutoProbeStep
    <2>3. ASSUME NEW p \in Testers, NEW m \in Models, TestStart(p, m) PROVE IInv'
       BY <2>3, TestStartStep
    <2>. QED  BY <1>2, <2>1, <2>2, <2>3, RequestProbeStep, OtherSteps,
              EditOthersStep DEF Admin
  <1>3. ASSUME NEW t \in Targets, Elapse(t) PROVE IInv'
     BY <1>3, ElapseStep
  <1>4. CASE UNCHANGED vars
    <2>1. GroupOK'
       BY <1>4 DEF vars, IInv, GroupOK
    <2>. QED  BY <1>4, <2>1, QuietStep DEF vars
  <1>. QED  BY <1>1, <1>2, <1>3, <1>4, OtherSteps, SaveStatusStep DEF Next

\* Tokens, failures, evidence and overtaken probes are in order in every state
\* of the probes (the operations of model/hub_supply_probe.go).
THEOREM InductiveInvariant == Spec => [](IInv /\ StaffOK)
  <1>1. ASSUME Init PROVE StaffOK
    <2>1. NoSave \in Save
       BY DEF NoSave, Save
    <2>. QED  BY <1>1, <2>1, Zenon DEF Init, StaffOK
  <1>. QED  BY <1>1, InitOK, NextOK, StaffStep, PTL DEF Spec

\* Every variable has its type in every reachable state.
THEOREM TypeCorrect == Spec => []TypeOK
  <1>1. IInv /\ StaffOK => TypeOK
     BY DEF IInv, GroupOK, RowsOK, ProcsOK, OvertakenOK, StaffOK, TypeOK,
            ChannelStatuses
  <1>. QED  BY <1>1, InductiveInvariant, PTL

\* The failure limit and the suspension always go together, and no operation
\* gives a suspended target a time (recordHubSupplyProbeResultWithLease,
\* rescheduleHubSupplyGroupProbeTargetsTx).
THEOREM SuspensionFollowsLimit == Spec => []SuspendedAtLimit
  <1>1. IInv => SuspendedAtLimit
     BY Facts DEF RowOK, SuspendedAtLimit
  <1>. QED  BY <1>1, InductiveInvariant, PTL

\* While the group's version is that of its connection, a model is served over
\* the connection only after a probe over that same connection succeeded: the
\* evidence of a target is neither older than its version nor newer than the
\* connection.
THEOREM ServedIsProven == Spec => []ProvenBeforeServed
  <1>1. IInv => ProvenBeforeServed
    <2>. SUFFICES ASSUME IInv, version = conn, NEW m \in Models, Served(m)
                  PROVE  rows[<<version, m>>].proven = conn
       BY DEF ProvenBeforeServed, VersionCurrent
    <2>1. PICK t \in Targets : t = <<version, m>>
       BY Facts
    <2>2. rows[t].proven > 0 /\ rows[t].proven \in Nat /\ t[1] = version
       BY <2>1, Facts, Limits DEF Served, Routable, Row
    <2>3. version <= rows[t].proven /\ rows[t].proven <= conn
       BY <2>2, Facts DEF RowOK
    <2>. QED  BY <2>1, <2>2, <2>3, Facts
  <1>. QED  BY <1>1, InductiveInvariant, PTL

\* A running job of p comes to its end only by its result, or by the end of p.
LEMMA WhoEndsJobs ==
    ASSUME IInv, Next, NEW p \in Procs, NEW i \in Models,
           proc[p].pc = "probe", proc[p].job[i] = "running",
           proc'[p].job[i] = "none"
    PROVE  \/ \E m \in Models, ok \in BOOLEAN : Result(p, m, ok)
           \/ Abort(p) \/ Crash(p)
  <1>1. proc \in [Procs -> Proc] /\ proc'[p] # proc[p] /\ proc' # proc
     BY Facts
  <1>2. ASSUME NEW q \in Procs, NEW s, Become(q, s) PROVE q = p
     BY <1>1, <1>2 DEF Become
  <1>3. ASSUME NEW q \in Procs, Probe(q)
        PROVE  q = p /\ \E m \in Models, ok \in BOOLEAN : Result(p, m, ok)
    <2>1. q = p
       BY <1>2, <1>3 DEF Probe, Begin, Sync, List, Reset, Claim, Close, Execute,
                         Skip, Result
    <2>2. ~(Begin(p) \/ Sync(p) \/ List(p) \/ Reset(p) \/ Claim(p) \/ Close(p))
       BY DEF Begin, Sync, List, Reset, Claim, Close
    <2>3. ASSUME NEW m \in Models, Execute(p, m) PROVE FALSE
      <3>1. PICK s : s = [proc[p] EXCEPT !.job[m] = "running", !.on[m] = conn]
         OBVIOUS
      <3>2. proc'[p] = s /\ m # i
         BY <1>1, <2>3, <3>1 DEF Execute, Become
      <3>3. s.job[i] = proc[p].job[i]
         BY <3>1, <3>2, Facts DEF Proc
      <3>. QED  BY <3>2, <3>3
    <2>4. ASSUME NEW m \in Models, Skip(p, m) PROVE FALSE
      <3>1. PICK s : s = [proc[p] EXCEPT !.job[m] = "none", !.affected = TRUE]
         OBVIOUS
      <3>2. proc'[p] = s /\ m # i
         BY <1>1, <2>4, <3>1 DEF Skip, Become
      <3>3. s.job[i] = proc[p].job[i]
         BY <3>1, <3>2, Facts DEF Proc
      <3>. QED  BY <3>2, <3>3
    <2>. QED  BY <1>3, <2>1, <2>2, <2>3, <2>4 DEF Probe
  <1>4. ASSUME NEW q \in Procs, Abort(q) \/ Crash(q) PROVE Abort(p) \/ Crash(p)
     BY <1>2, <1>4 DEF Abort, Crash
  <1>5. ~Admin
    <2>1. ASSUME NEW q \in Testers, NEW m \in Models PROVE ~TestStart(q, m)
       BY <1>2 DEF TestStart, Procs
    <2>. QED  BY <1>1, <2>1 DEF Admin, EditConnection, ChangeEndpoint, AutoEndpoint,
                ToggleAutoProbe, RequestProbe, SetProvider, HandlerReconciles,
                SetStatus, EditRead, EditOthers
  <1>6. /\ ~(RequestStarts \/ RequestFails \/ OthersDue)
        /\ \A t \in Targets : ~Elapse(t)
        /\ \A w \in Savers : ~SaveStatus(w)
     BY <1>1 DEF RequestStarts, RequestFails, OthersDue, Elapse, SaveStatus
  <1>. QED  BY <1>3, <1>4, <1>5, <1>6 DEF Next

\* The result of an overtaken probe leaves its target alone: the probe does not
\* hold the target any more, whatever happened to it since.
THEOREM LateResultsAreIgnored == Spec => LateResultIgnored
  <1>. DEFINE Ignored ==
         \A p \in Procs, t \in Targets :
            /\ <<p, t>> \in overtaken
            /\ proc[p].job[t[2]] = "running" /\ proc'[p].job[t[2]] = "none"
            => rows'[t] = rows[t]
  <1>1. ASSUME IInv, [Next]_vars PROVE [Ignored]_vars
    <2>. SUFFICES ASSUME Next, NEW p \in Procs, NEW t \in Targets,
                         <<p, t>> \in overtaken, proc'[p].job[t[2]] = "none"
                  PROVE  rows'[t] = rows[t]
       BY <1>1
    <2>1. /\ proc[p].pc = "probe" /\ proc[p].token # 0
          /\ proc[p].ver = t[1] /\ proc[p].job[t[2]] = "running"
          /\ rows[t].token # proc[p].token
       BY <1>1, OvertakenFacts
    <2>2. t = <<proc[p].ver, t[2]>> /\ t[2] \in Models /\ ~Holds(p, t)
       BY <2>1 DEF Targets, Holds
    <2>3. proc'[p] # proc[p]
       BY <2>1
    <2>4. \/ \E m \in Models, ok \in BOOLEAN : Result(p, m, ok)
          \/ Abort(p) \/ Crash(p)
       BY <1>1, <2>1, <2>2, <2>3, WhoEndsJobs
    <2>5. ASSUME NEW m \in Models, NEW ok \in BOOLEAN, Result(p, m, ok)
          PROVE  rows'[t] = rows[t]
      <3>1. CASE m = t[2]
         BY <2>2, <2>5, <3>1 DEF Result
      <3>2. CASE m # t[2]
         BY <1>1, <2>5, <3>2, Facts DEF Result
      <3>. QED  BY <3>1, <3>2
    <2>6. CASE Abort(p)
       BY <2>2, <2>6 DEF Abort, Requeued
    <2>7. CASE Crash(p)
       BY <2>7 DEF Crash
    <2>. QED  BY <2>4, <2>5, <2>6, <2>7
  <1>. QED  BY <1>1, InductiveInvariant, PTL DEF Spec, LateResultIgnored

\* Besides the administrator, only a write prepared before it ends a manual
\* disable: every reconciliation excludes a disabled channel, and an edit that
\* found it disabled leaves it so.
THEOREM ManualDisableIsKept == Spec => ManualDisableKept
  <1>. DEFINE Exempt == \/ SaveStatus("admin") /\ saves["admin"].to = "enabled"
                        \/ SaveStatus("auto")
                        \/ editing \notin {"none", "manual"} /\ editing' = "none"
              Kept == chan = "manual" /\ chan' # "manual" => Exempt
  <1>1. ASSUME IInv, StaffOK, [Next]_vars PROVE [Kept]_vars
    <2>. SUFFICES ASSUME Next, chan = "manual", chan' # "manual"
                  PROVE  Exempt
       BY <1>1
    <2>1. ~Reconcile /\ chan' # chan
       BY DEF Reconcile, RouteStatus
    <2>2. ASSUME NEW p \in Procs PROVE ~(Probe(p) \/ Abort(p) \/ Crash(p))
       BY <2>1 DEF Probe, Begin, Sync, List, Reset, Claim, Close, Execute, Skip,
                   Result, Abort, Crash
    <2>3. CASE Admin
      <3>1. CASE EditOthers \/ \E form \in BOOLEAN : EditConnection(form)
         BY <3>1 DEF EditOthers, EditConnection, EditedStatus
      <3>2. ASSUME NEW m \in Models
            PROVE  ~(ChangeEndpoint(m) \/ AutoEndpoint(m) \/ ToggleAutoProbe(m))
         BY <2>1 DEF ChangeEndpoint, AutoEndpoint, ToggleAutoProbe
      <3>3. ASSUME NEW p \in Testers, NEW m \in Models PROVE ~TestStart(p, m)
         BY <2>1 DEF TestStart
      <3>4. /\ ~(RequestProbe \/ SetProvider \/ HandlerReconciles \/ EditRead)
            /\ \A off \in BOOLEAN : ~SetStatus(off)
         BY <2>1 DEF RequestProbe, SetProvider, HandlerReconciles, EditRead, SetStatus
      <3>. QED  BY <2>3, <3>1, <3>2, <3>3, <3>4 DEF Admin
    <2>4. /\ ~RequestStarts /\ ~RequestFails /\ ~OthersDue
          /\ \A t \in Targets : ~Elapse(t)
       BY <2>1 DEF RequestStarts, RequestFails, OthersDue, Elapse
    <2>5. ASSUME NEW w \in Savers, SaveStatus(w) PROVE Exempt
      <3>1. CASE w = "auto"
         BY <2>5, <3>1
      <3>2. CASE w = "admin"
        <4>1. chan' = saves["admin"].to
           BY <2>5, <3>2 DEF SaveStatus
        <4>2. saves["admin"].to \in {"enabled", "manual"}
           BY <1>1, <2>5, <3>2 DEF SaveStatus, StaffOK, MaySave
        <4>. QED  BY <2>5, <3>2, <4>1, <4>2
      <3>. QED  BY <3>1, <3>2 DEF Savers
    <2>. QED  BY <2>2, <2>3, <2>4, <2>5 DEF Next
  <1>. QED  BY <1>1, InductiveInvariant, PTL DEF Spec, ManualDisableKept
=============================================================================
