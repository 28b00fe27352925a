------------------------- MODULE DaemonRuntime_proofs -------------------------
(***************************************************************************)
(* Safety theorems about DaemonRuntime: one run occupies the daemon, all   *)
(* its work is tracked and woken up, and no run is forgotten.              *)
(***************************************************************************)
EXTENDS DaemonRuntime, SequenceTheorems, WellFoundedInduction, TLAPS

--------------------------------------------------------------------------------
(***************************************************************************)
(* The dispatch loop.                                                      *)
(***************************************************************************)

Distinct(s) == \A i, j \in DOMAIN s : s[i] = s[j] => i = j

\* A number that has a property has a least one that has it.
LEMMA LeastNumber ==
  ASSUME NEW T \in SUBSET Nat, T # {}
  PROVE  \E x \in T : \A y \in T : x <= y
<1>1. IsWellFoundedOn(OpToRel(<, Nat), Nat)
  BY NatLessThanWellFounded
<1>2. PICK x \in T : \A y \in T : <<y, x>> \notin OpToRel(<, Nat)
  BY <1>1, WFMin
<1>3. \A y \in T : ~(y < x)
  BY <1>2 DEF OpToRel
<1>4. QED BY <1>3

LEMMA AppendDistinct ==
  ASSUME NEW S, NEW s \in Seq(S), Distinct(s), NEW r \in S, r \notin Elements(s)
  PROVE  /\ Append(s, r) \in Seq(S) /\ Distinct(Append(s, r))
         /\ Elements(Append(s, r)) = Elements(s) \cup {r}
<1> DEFINE a == Append(s, r)
<1>1. /\ a \in Seq(S) /\ Len(a) = Len(s) + 1 /\ Len(s) \in Nat
      /\ \A i \in 1..Len(s) : a[i] = s[i]
      /\ a[Len(s) + 1] = r
      /\ DOMAIN s = 1..Len(s) /\ DOMAIN a = 1..(Len(s) + 1)
  OBVIOUS
<1> HIDE DEF a
<1>2. \A i \in 1..Len(s) : s[i] # r
  BY <1>1 DEF Elements
<1>3. Distinct(a)
  <2> SUFFICES ASSUME NEW i \in DOMAIN a, NEW j \in DOMAIN a, a[i] = a[j]
               PROVE  i = j
    BY DEF Distinct
  <2>1. CASE i \in 1..Len(s) /\ j \in 1..Len(s)
    BY <1>1, <2>1 DEF Distinct
  <2>2. CASE i = Len(s) + 1 \/ j = Len(s) + 1
    BY <1>1, <1>2, <2>2
  <2>3. QED BY <1>1, <2>1, <2>2
<1>4. Elements(a) = Elements(s) \cup {r}
  <2>1. Elements(a) \subseteq Elements(s) \cup {r}
    <3> SUFFICES ASSUME NEW i \in DOMAIN a PROVE a[i] \in Elements(s) \cup {r}
      BY DEF Elements
    <3>1. CASE i \in 1..Len(s)
      BY <1>1, <3>1 DEF Elements
    <3>2. CASE i = Len(s) + 1
      BY <1>1, <3>2
    <3>3. QED BY <1>1, <3>1, <3>2
  <2>2. \A i \in DOMAIN s : s[i] \in Elements(a)
    <3> TAKE i \in DOMAIN s
    <3>1. i \in DOMAIN a /\ a[i] = s[i]
      BY <1>1
    <3>2. QED BY <3>1 DEF Elements
  <2>3. r \in Elements(a)
    <3>1. Len(s) + 1 \in DOMAIN a
      BY <1>1
    <3>2. QED BY <1>1, <3>1 DEF Elements
  <2>4. QED BY <2>1, <2>2, <2>3 DEF Elements
<1>5. QED BY <1>1, <1>3, <1>4 DEF a

\* What the loop queues after n runs of got, given what it had queued before.
Step(got, tracked, q, n) ==
  IF got[n] \in tracked \cup Elements(q) THEN q ELSE Append(q, got[n])

\* The values of the recursion up to n, as a function.
Table(g, got, tracked, n) ==
  g = [i \in 0..n |-> IF i = 0 THEN <<>> ELSE Step(got, tracked, g[i - 1], i)]

LEMMA TableExists ==
  ASSUME NEW got, NEW tracked, NEW n \in Nat
  PROVE  \E g : Table(g, got, tracked, n)
<1> DEFINE T == {k \in Nat : ~\E g : Table(g, got, tracked, k)}
<1>1. CASE T = {}
  BY <1>1
<1>2. CASE T # {}
  <2>1. PICK k \in T : \A y \in T : k <= y
    <3>1. T \in SUBSET Nat
      OBVIOUS
    <3> HIDE DEF T
    <3>2. QED BY <1>2, <3>1, LeastNumber
  <2>2. CASE k = 0
    <3> DEFINE g == [i \in 0..0 |-> <<>>]
    <3>1. Table(g, got, tracked, 0)
      BY DEF Table
    <3>2. QED BY <2>1, <2>2, <3>1
  <2>3. CASE k # 0
    <3>1. k - 1 \in Nat /\ k \in Nat /\ k - 1 \notin T
      BY <2>1, <2>3
    <3>2. PICK g : Table(g, got, tracked, k - 1)
      BY <3>1
    <3> DEFINE h == [i \in 0..k |-> IF i = k THEN Step(got, tracked, g[k - 1], k) ELSE g[i]]
    <3>3. \A i \in 0..(k - 1) :
            g[i] = IF i = 0 THEN <<>> ELSE Step(got, tracked, g[i - 1], i)
      BY <3>2 DEF Table
    <3>4. \A i \in 0..k :
            h[i] = IF i = 0 THEN <<>> ELSE Step(got, tracked, h[i - 1], i)
      <4> TAKE i \in 0..k
      <4>1. CASE i = k
        <5>1. h[i] = Step(got, tracked, g[k - 1], k) /\ h[k - 1] = g[k - 1]
          BY <3>1, <4>1
        <5>2. QED BY <2>3, <4>1, <5>1
      <4>2. CASE i # k
        <5>1. h[i] = g[i] /\ i \in 0..(k - 1)
          BY <3>1, <4>2
        <5>2. i # 0 => h[i - 1] = g[i - 1]
          BY <3>1, <4>2
        <5>3. QED BY <3>3, <5>1, <5>2
      <4>3. QED BY <4>1, <4>2
    <3>5. h = [i \in 0..k |-> h[i]]
      OBVIOUS
    <3> HIDE DEF h
    <3>6. h = [i \in 0..k |-> IF i = 0 THEN <<>> ELSE Step(got, tracked, h[i - 1], i)]
      BY <3>4, <3>5
    <3>7. Table(h, got, tracked, k)
      BY <3>6 DEF Table
    <3>8. QED BY <2>1, <3>7
  <2>4. QED BY <2>2, <2>3
<1>3. QED BY <1>1, <1>2

LEMMA DispatchedFromTable ==
  ASSUME NEW got \in Seq(Run), NEW tracked
  PROVE  \E g : /\ Table(g, got, tracked, Len(got))
                /\ Dispatched(got, tracked) = g[Len(got)]
<1> DEFINE Q == CHOOSE g : g = [n \in 0..Len(got) |->
                   IF n = 0 THEN <<>>
                   ELSE IF got[n] \in tracked \cup Elements(g[n - 1])
                        THEN g[n - 1] ELSE Append(g[n - 1], got[n])]
<1>1. Len(got) \in Nat
  OBVIOUS
<1>2. \E g : g = [n \in 0..Len(got) |->
                   IF n = 0 THEN <<>>
                   ELSE IF got[n] \in tracked \cup Elements(g[n - 1])
                        THEN g[n - 1] ELSE Append(g[n - 1], got[n])]
  <2>1. \E g : Table(g, got, tracked, Len(got))
    BY <1>1, TableExists
  <2>2. QED BY <2>1, Zenon DEF Table, Step
<1>3. Q = [n \in 0..Len(got) |->
                   IF n = 0 THEN <<>>
                   ELSE IF got[n] \in tracked \cup Elements(Q[n - 1])
                        THEN Q[n - 1] ELSE Append(Q[n - 1], got[n])]
  BY <1>2, Zenon
<1>4. Dispatched(got, tracked) = Q[Len(got)]
  BY Zenon DEF Dispatched
<1> HIDE DEF Q
<1>5. QED BY <1>3, <1>4, Zenon DEF Table, Step

\* What is queued is new, and each run of it once.
LEMMA DispatchedNew ==
  ASSUME NEW got \in Seq(Run), NEW tracked
  PROVE  /\ Dispatched(got, tracked) \in Seq(Run)
         /\ Distinct(Dispatched(got, tracked))
         /\ Elements(Dispatched(got, tracked)) \subseteq Elements(got) \ tracked
<1>1. PICK g : /\ Table(g, got, tracked, Len(got))
               /\ Dispatched(got, tracked) = g[Len(got)]
  BY DispatchedFromTable
<1> DEFINE Good(q) == /\ q \in Seq(Run) /\ Distinct(q)
                      /\ Elements(q) \subseteq Elements(got) \ tracked
           T == {k \in 0..Len(got) : ~Good(g[k])}
<1>2. Len(got) \in Nat /\ \A i \in 1..Len(got) : got[i] \in Elements(got) /\ got[i] \in Run
  BY DEF Elements
<1>3. g[0] = <<>> /\ \A i \in 1..Len(got) : g[i] = Step(got, tracked, g[i - 1], i)
  BY <1>1, <1>2 DEF Table
<1>4. Good(<<>>)
  BY DEF Distinct, Elements
<1>5. ASSUME NEW q, Good(q), NEW i \in 1..Len(got)
      PROVE  Good(Step(got, tracked, q, i))
  <2>1. CASE got[i] \in tracked \cup Elements(q)
    BY <1>5, <2>1 DEF Step
  <2>2. CASE got[i] \notin tracked \cup Elements(q)
    <3>1. /\ Append(q, got[i]) \in Seq(Run) /\ Distinct(Append(q, got[i]))
          /\ Elements(Append(q, got[i])) = Elements(q) \cup {got[i]}
      BY <1>2, <1>5, <2>2, AppendDistinct
    <3>2. QED BY <1>2, <1>5, <2>2, <3>1 DEF Step
  <2>3. QED BY <2>1, <2>2
<1> HIDE DEF Good
<1>6. T = {}
  <2> SUFFICES ASSUME T # {} PROVE FALSE
    OBVIOUS
  <2>1. PICK k \in T : \A y \in T : k <= y
    <3>1. T \in SUBSET Nat
      BY <1>2
    <3> HIDE DEF T
    <3>2. QED BY <3>1, LeastNumber
  <2>2. CASE k = 0
    BY <1>3, <1>4, <2>1, <2>2
  <2>3. CASE k # 0
    <3>1. k \in 1..Len(got) /\ k - 1 \in 0..Len(got) /\ k - 1 \notin T
      BY <1>2, <2>1, <2>3
    <3>2. Good(g[k - 1])
      BY <3>1
    <3>3. Good(Step(got, tracked, g[k - 1], k))
      BY <1>5, <3>1, <3>2
    <3>4. Good(g[k])
      BY <1>3, <3>1, <3>3
    <3>5. QED BY <2>1, <3>4
  <2>4. QED BY <2>2, <2>3
<1>7. Good(g[Len(got)])
  BY <1>2, <1>6
<1>8. QED BY <1>1, <1>7 DEF Good

--------------------------------------------------------------------------------
(***************************************************************************)
(* Types.                                                                  *)
(***************************************************************************)

NetOK == \A m \in wire \cup answer : m \in PollMessage \/ m \in ReportMessage

ControlOK ==
  /\ proc \in {"running", "draining", "closing", "exited"}
  /\ fatal \in BOOLEAN /\ aborted \in BOOLEAN
  /\ poll \in Attempt \cup {None}

ReportType == [state : {"none", "sending", "waiting", "kept"}, id : Attempt \cup {None}]

QueueOK == queue \in Seq(Run)
ActiveOK == active \in {None} \cup Pipeline
ReportOK == report \in [Run -> ReportType]
SetsOK == known \subseteq Run /\ received \subseteq Run

LEMMA TypeParts ==
  TypeOK <=> /\ Server!TypeOK /\ NetOK /\ ControlOK /\ QueueOK /\ ActiveOK
             /\ ReportOK /\ SetsOK
BY DEF TypeOK, NetOK, ControlOK, QueueOK, ActiveOK, ReportOK, ReportType, SetsOK

LEMMA ElementsIn ==
  ASSUME NEW S, NEW s \in Seq(S) PROVE Elements(s) \subseteq S
BY DEF Elements

LEMMA ElementsConcat ==
  ASSUME NEW S, NEW s \in Seq(S), NEW t \in Seq(S)
  PROVE  s \o t \in Seq(S) /\ Elements(s \o t) = Elements(s) \cup Elements(t)
<1>1. /\ s \o t \in Seq(S) /\ Len(s \o t) = Len(s) + Len(t)
      /\ Len(s) \in Nat /\ Len(t) \in Nat
      /\ \A i \in 1..Len(s) : (s \o t)[i] = s[i]
      /\ \A i \in 1..Len(t) : (s \o t)[Len(s) + i] = t[i]
      /\ DOMAIN s = 1..Len(s) /\ DOMAIN t = 1..Len(t)
      /\ DOMAIN (s \o t) = 1..(Len(s) + Len(t))
  OBVIOUS
<1> DEFINE c == s \o t
<1> HIDE DEF c
<1>2. ASSUME NEW i \in DOMAIN c PROVE c[i] \in Elements(s) \cup Elements(t)
  <2>1. CASE i \in 1..Len(s)
    BY <1>1, <2>1 DEF c, Elements
  <2>2. CASE i \notin 1..Len(s)
    <3>1. i - Len(s) \in 1..Len(t) /\ i = Len(s) + (i - Len(s))
      BY <1>1, <1>2, <2>2 DEF c
    <3>2. c[i] = t[i - Len(s)]
      BY <1>1, <3>1 DEF c
    <3>3. QED BY <1>1, <3>1, <3>2 DEF Elements
  <2>3. QED BY <2>1, <2>2
<1>3. ASSUME NEW i \in DOMAIN s PROVE s[i] \in Elements(c)
  <2>1. i \in DOMAIN c /\ c[i] = s[i]
    BY <1>1, <1>3 DEF c
  <2>2. QED BY <2>1 DEF Elements
<1>4. ASSUME NEW i \in DOMAIN t PROVE t[i] \in Elements(c)
  <2>1. Len(s) + i \in DOMAIN c /\ c[Len(s) + i] = t[i]
    BY <1>1, <1>4 DEF c
  <2>2. QED BY <2>1 DEF Elements
<1>5. Elements(c) = Elements(s) \cup Elements(t)
  BY <1>2, <1>3, <1>4 DEF Elements
<1>6. QED BY <1>1, <1>5 DEF c

LEMMA ConcatDistinct ==
  ASSUME NEW S, NEW s \in Seq(S), NEW t \in Seq(S), Distinct(s), Distinct(t),
         Elements(s) \cap Elements(t) = {}
  PROVE  Distinct(s \o t)
<1>1. /\ Len(s) \in Nat /\ Len(t) \in Nat
      /\ \A i \in 1..Len(s) : (s \o t)[i] = s[i]
      /\ \A i \in 1..Len(t) : (s \o t)[Len(s) + i] = t[i]
      /\ DOMAIN s = 1..Len(s) /\ DOMAIN t = 1..Len(t)
      /\ DOMAIN (s \o t) = 1..(Len(s) + Len(t))
  OBVIOUS
<1> DEFINE c == s \o t
<1>2. \A i \in 1..Len(s) : c[i] = s[i] /\ c[i] \in Elements(s)
  BY <1>1 DEF Elements
<1>3. \A i \in (Len(s) + 1)..(Len(s) + Len(t)) :
        /\ i - Len(s) \in 1..Len(t) /\ c[i] = t[i - Len(s)] /\ c[i] \in Elements(t)
  <2> TAKE i \in (Len(s) + 1)..(Len(s) + Len(t))
  <2>1. i - Len(s) \in 1..Len(t) /\ i = Len(s) + (i - Len(s))
    BY <1>1
  <2>2. c[i] = t[i - Len(s)]
    BY <1>1, <2>1
  <2>3. QED BY <1>1, <2>1, <2>2 DEF Elements
<1>4. DOMAIN c = 1..(Len(s) + Len(t))
  BY <1>1
<1> HIDE DEF c
<1>5. Distinct(c)
  <2> SUFFICES ASSUME NEW i \in DOMAIN c, NEW j \in DOMAIN c, c[i] = c[j] PROVE i = j
    BY DEF Distinct
  <2>1. CASE i \in 1..Len(s) /\ j \in 1..Len(s)
    BY <1>1, <1>2, <2>1 DEF Distinct
  <2>2. CASE i \notin 1..Len(s) /\ j \notin 1..Len(s)
    <3>1. i \in (Len(s) + 1)..(Len(s) + Len(t)) /\ j \in (Len(s) + 1)..(Len(s) + Len(t))
      BY <1>1, <1>4, <2>2
    <3>2. i - Len(s) = j - Len(s)
      BY <1>1, <1>3, <3>1 DEF Distinct
    <3>3. QED BY <1>1, <3>1, <3>2
  <2>3. CASE ~(i \in 1..Len(s) <=> j \in 1..Len(s))
    <3>1. i \in 1..Len(s) \/ i \in (Len(s) + 1)..(Len(s) + Len(t))
      BY <1>1, <1>4
    <3>2. j \in 1..Len(s) \/ j \in (Len(s) + 1)..(Len(s) + Len(t))
      BY <1>1, <1>4
    <3>3. QED BY <1>2, <1>3, <2>3, <3>1, <3>2
  <2>4. QED BY <2>1, <2>2, <2>3
<1>6. QED BY <1>5 DEF c

\* The head of a queue leaves it.
LEMMA TailApart ==
  ASSUME NEW S, NEW s \in Seq(S), s # <<>>, Distinct(s)
  PROVE  /\ Head(s) \in S /\ Tail(s) \in Seq(S) /\ Distinct(Tail(s))
         /\ Elements(Tail(s)) = Elements(s) \ {Head(s)} /\ Head(s) \in Elements(s)
<1>1. /\ Len(s) \in Nat /\ Len(s) # 0 /\ Head(s) = s[1] /\ 1 \in DOMAIN s
      /\ DOMAIN s = 1..Len(s) /\ Tail(s) \in Seq(S) /\ Head(s) \in S
      /\ DOMAIN Tail(s) = 1..(Len(s) - 1)
      /\ \A i \in 1..(Len(s) - 1) : Tail(s)[i] = s[i + 1]
  OBVIOUS
<1> DEFINE t == Tail(s)
<1> HIDE DEF t
<1>2. Distinct(t)
  <2> SUFFICES ASSUME NEW i \in DOMAIN t, NEW j \in DOMAIN t, t[i] = t[j] PROVE i = j
    BY DEF Distinct
  <2>1. s[i + 1] = s[j + 1] /\ i + 1 \in DOMAIN s /\ j + 1 \in DOMAIN s
    BY <1>1 DEF t
  <2>2. i + 1 = j + 1
    BY <2>1 DEF Distinct
  <2>3. QED BY <1>1, <2>2 DEF t
<1>3. ASSUME NEW i \in DOMAIN t PROVE t[i] \in Elements(s) \ {Head(s)}
  <2>1. t[i] = s[i + 1] /\ i + 1 \in DOMAIN s /\ i + 1 # 1
    BY <1>1 DEF t
  <2>2. QED BY <1>1, <2>1 DEF Distinct, Elements
<1>4. ASSUME NEW i \in DOMAIN s, s[i] # Head(s) PROVE s[i] \in Elements(t)
  <2>1. i - 1 \in DOMAIN t /\ t[i - 1] = s[i]
    BY <1>1, <1>4 DEF t
  <2>2. QED BY <2>1 DEF Elements
<1>5. Elements(t) = Elements(s) \ {Head(s)}
  BY <1>3, <1>4 DEF Elements
<1>6. Head(s) \in Elements(s)
  BY <1>1 DEF Elements
<1>7. QED BY <1>1, <1>2, <1>5, <1>6 DEF t

--------------------------------------------------------------------------------
(***************************************************************************)
(* The server: how far a run may come.                                     *)
(***************************************************************************)

HandedOut(r) == status[r] \notin {"absent", "waiting"}
Settled(r) == status[r] \in {"succeeded", "failed", "canceled"}

\* No step hands a run out twice, unsettles it or takes it back to working.
ServerMoves ==
  \A r \in Run :
    \/ status'[r] = status[r]
    \/ ~HandedOut(r)
    \/ status[r] \in {"working", "reclaimed"} /\ HandedOut(r)'

LEMMA SetType ==
  ASSUME Server!TypeOK, NEW runs \in SUBSET Run, NEW s \in Server!Status
  PROVE  /\ Server!Set(runs, s) \in [Run -> Server!Status]
         /\ \A r \in Run : Server!Set(runs, s)[r] = IF r \in runs THEN s ELSE status[r]
BY DEF Server!TypeOK, Server!Set

LEMMA EnqueueMoves ==
  ASSUME Server!TypeOK, NEW r \in Run, NEW l \in Loop, Server!Enqueue(r, l)
  PROVE  Server!TypeOK' /\ ServerMoves
<1>1. Server!Of(l, "waiting") \in SUBSET Run /\ "canceled" \in Server!Status
      /\ "waiting" \in Server!Status
  BY DEF Server!Of, Server!Status
<1> DEFINE f == Server!Set(Server!Of(l, "waiting"), "canceled")
<1>2. /\ f \in [Run -> Server!Status]
      /\ \A x \in Run : f[x] = IF x \in Server!Of(l, "waiting") THEN "canceled" ELSE status[x]
  BY <1>1, SetType
<1>3. status' = [f EXCEPT ![r] = "waiting"] /\ owner' = [owner EXCEPT ![r] = l]
      /\ status[r] = "absent"
  BY DEF Server!Enqueue
<1> HIDE DEF f
<1>4. Server!TypeOK'
  BY <1>1, <1>2, <1>3 DEF Server!TypeOK
<1>5. ServerMoves
  BY <1>2, <1>3 DEF ServerMoves, HandedOut, Server!Of
<1>6. QED BY <1>4, <1>5

LEMMA SettleMoves ==
  ASSUME Server!TypeOK, NEW r \in Run, NEW retired \in SUBSET Run,
         \A x \in retired : status[x] = "waiting",
         Server!Settle(r, retired)
  PROVE  Server!TypeOK' /\ ServerMoves /\ Settled(r)'
<1>0. "failed" \in Server!Status /\ "canceled" \in Server!Status
      /\ "succeeded" \in Server!Status
  BY DEF Server!Status
<1>1. status[r] \in {"working", "reclaimed"} /\ owner' = owner
  BY DEF Server!Settle
<1>2. CASE status' = Server!Set({r}, "failed")
  <2>1. /\ status' \in [Run -> Server!Status] /\ owner' = owner
        /\ \A x \in Run : status'[x] = IF x \in {r} THEN "failed" ELSE status[x]
    BY <1>0, <1>1, <1>2, SetType
  <2>2. QED BY <1>1, <2>1 DEF Server!TypeOK, ServerMoves, HandedOut, Settled
<1>3. CASE status' = [Server!Set(retired, "canceled") EXCEPT ![r] = "succeeded"]
  <2> DEFINE f == Server!Set(retired, "canceled")
  <2>1. /\ f \in [Run -> Server!Status]
        /\ \A x \in Run : f[x] = IF x \in retired THEN "canceled" ELSE status[x]
    BY <1>0, SetType
  <2>2. status' = [f EXCEPT ![r] = "succeeded"]
    BY <1>3
  <2> HIDE DEF f
  <2>3. QED BY <1>0, <1>1, <2>1, <2>2 DEF Server!TypeOK, ServerMoves, HandedOut, Settled
<1>4. QED BY <1>2, <1>3 DEF Server!Settle

LEMMA OneMoves ==
  ASSUME Server!TypeOK, NEW r \in Run,
         Server!HandOut(r) \/ Server!Reclaim(r) \/ Server!Lapse(r) \/ Server!Cancel(r)
  PROVE  Server!TypeOK' /\ ServerMoves /\ (Server!HandOut(r) => HandedOut(r)' /\ ~HandedOut(r))
<1>1. {r} \in SUBSET Run /\ {"working", "reclaimed", "failed", "canceled"} \subseteq Server!Status
  BY DEF Server!Status
<1>2. CASE Server!HandOut(r)
  BY <1>1, <1>2, SetType DEF Server!HandOut, Server!TypeOK, ServerMoves, HandedOut
<1>3. CASE Server!Reclaim(r)
  BY <1>1, <1>3, SetType DEF Server!Reclaim, Server!HandOut, Server!TypeOK, ServerMoves, HandedOut
<1>4. CASE Server!Lapse(r)
  <2>1. /\ status' \in [Run -> Server!Status] /\ owner' = owner
        /\ \A x \in Run : status'[x] = IF x \in {r} THEN "failed" ELSE status[x]
    BY <1>1, <1>4, SetType DEF Server!Lapse
  <2>2. status[r] = "reclaimed"
    BY <1>4 DEF Server!Lapse
  <2>3. QED BY <2>1, <2>2 DEF Server!HandOut, Server!TypeOK, ServerMoves, HandedOut
<1>5. CASE Server!Cancel(r) /\ ~Server!HandOut(r)
  <2>1. /\ status' \in [Run -> Server!Status] /\ owner' = owner
        /\ \A x \in Run : status'[x] = IF x \in {r} THEN "canceled" ELSE status[x]
    BY <1>1, <1>5, SetType DEF Server!Cancel
  <2>2. status[r] \in {"waiting", "working"}
    BY <1>5 DEF Server!Cancel
  <2>3. QED BY <1>5, <2>1, <2>2 DEF Server!TypeOK, ServerMoves, HandedOut
<1>6. QED BY <1>2, <1>3, <1>4, <1>5

LEMMA StartOverMoves ==
  ASSUME Server!TypeOK, NEW l \in Loop, Server!StartOver(l)
  PROVE  Server!TypeOK' /\ ServerMoves
<1>1. Server!TypeOK'
  BY DEF Server!StartOver, Server!TypeOK, Server!Status
<1>2. ServerMoves
  BY DEF Server!StartOver, Server!TypeOK, ServerMoves, HandedOut, Server!Of
<1>3. QED BY <1>1, <1>2

LEMMA NextServer ==
  ASSUME Server!TypeOK, NetOK, [Next]_vars
  PROVE  Server!TypeOK' /\ ServerMoves
<1>1. CASE UNCHANGED server
  BY <1>1 DEF server, Server!TypeOK, ServerMoves
<1>2. CASE \E m \in wire : ClaimForPoll(m)
  <2>1. PICK r \in Run : Server!HandOut(r)
    BY <1>2 DEF ClaimForPoll
  <2>2. QED BY <2>1, OneMoves
<1>3. CASE \E m \in wire : HandleReport(m)
  <2>1. PICK m \in wire : HandleReport(m)
    BY <1>3
  <2>2. m.run \in Run
    BY <2>1 DEF NetOK, HandleReport, PollMessage, ReportMessage
  <2>3. CASE Server!Settle(m.run, {})
    BY <2>2, <2>3, SettleMoves
  <2>4. CASE Server!Settle(m.run, Server!Of(owner[m.run], "waiting"))
    <3>1. /\ Server!Of(owner[m.run], "waiting") \in SUBSET Run
          /\ \A x \in Server!Of(owner[m.run], "waiting") : status[x] = "waiting"
      BY DEF Server!Of
    <3>2. QED BY <2>2, <2>4, <3>1, SettleMoves
  <2>5. QED BY <1>1, <2>1, <2>3, <2>4 DEF HandleReport
<1>4. CASE ServerElse
  BY <1>4, EnqueueMoves, OneMoves, StartOverMoves DEF ServerElse
<1>5. CASE \/ \E m \in wire : AnswerPoll(m) \/ Lose(m)
           \/ PollOnce \/ DaemonStep
           \/ PollFatal \/ Signal \/ Crash \/ Start
           \/ (\E r \in Run : ReportFatal(r)) \/ UNCHANGED vars
  <2>1. UNCHANGED server
    BY <1>5 DEF AnswerPoll, Lose, PollOnce, PollFatal, Signal, Crash, Start, ReportFatal,
       vars, DaemonStep, PollTransient, PollAnswered, LeaveLoop, DropBacklog, Join,
       RunnerSettles, FinalSyncEnds, Owe, ReportUnanswered, RetryReport, ReportConfirmed
  <2>2. QED BY <1>1, <2>1
<1>6. QED BY <1>2, <1>3, <1>4, <1>5 DEF Next, ServerStep

--------------------------------------------------------------------------------
(***************************************************************************)
(* The work of the daemon, told by what occupies it.                       *)
(***************************************************************************)

\* The queue is as it was, or dropped.
QueueHeld == UNCHANGED <<queue, known>> \/ DropQueue

Held ==
  /\ QueueHeld /\ received' = received
  /\ InFlight(active') = InFlight(active) /\ Pending(report') = Pending(report)

Owed(r) ==
  /\ QueueHeld /\ received' = received
  /\ InFlight(active) = {r} /\ InFlight(active') = {}
  /\ Pending(report') = Pending(report) \cup {r}

Delivered(m) ==
  LET new == Dispatched(m.got, known) IN
  /\ poll # None /\ poll' = None /\ ~fatal
  /\ known' = known \cup Elements(new)
  /\ received' = received \cup Elements(new)
  /\ report' = report
  /\ MaybeStartNext(queue \o new, active, report)

\* The report of r was confirmed: it leaves the daemon.
Released(r) ==
  /\ r \in Pending(report)
  /\ Pending(report') = Pending(report) \ {r}
  /\ known' = known \ {r} /\ received' = received
  /\ \E m \in answer : m.kind = "report" /\ m.run = r
  /\ \E p \in {None} \cup Pipeline :
       InFlight(p) = InFlight(active) /\ MaybeStartNext(queue, p, report')

Emptied ==
  /\ queue' = <<>> /\ known' = {} /\ received' = {}
  /\ InFlight(active') = {} /\ Pending(report') = {}

WorkMoves ==
  \/ Held \/ Emptied
  \/ \E r \in Run : Owed(r) \/ Released(r)
  \/ \E m \in answer : m.kind = "poll" /\ Delivered(m)

LEMMA InFlightOf ==
  ASSUME NEW p \in Pipeline
  PROVE  /\ InFlight(p) = IF p.stage = "reporting" THEN {} ELSE {p.run}
         /\ p.run \in Run /\ p # None
BY PipelineAssumption DEF InFlight, Pipeline

LEMMA InFlightNone == InFlight(None) = {}
BY DEF InFlight

LEMMA ReportWritten ==
  ASSUME ReportOK, NEW r \in Run, NEW s \in {"sending", "waiting", "kept"},
         NEW id \in Attempt \cup {None},
         NEW out, out = [report EXCEPT ![r] = [state |-> s, id |-> id]]
  PROVE  out \in [Run -> ReportType] /\ Pending(out) = Pending(report) \cup {r}
<1>1. /\ out \in [Run -> ReportType]
      /\ \A x \in Run : out[x] = IF x = r THEN [state |-> s, id |-> id] ELSE report[x]
  BY DEF ReportOK, ReportType
<1>2. \A x \in Run : out[x].state # "none" <=> x = r \/ report[x].state # "none"
  BY <1>1
<1>3. QED BY <1>1, <1>2 DEF Pending

LEMMA ReportCleared ==
  ASSUME ReportOK, NEW r \in Run,
         NEW out, out = [report EXCEPT ![r] = NoReport]
  PROVE  out \in [Run -> ReportType] /\ Pending(out) = Pending(report) \ {r}
<1>1. /\ out \in [Run -> ReportType]
      /\ \A x \in Run : out[x] = IF x = r THEN NoReport ELSE report[x]
  BY DEF ReportOK, ReportType, NoReport
<1>2. \A x \in Run : out[x].state # "none" <=> x # r /\ report[x].state # "none"
  BY <1>1 DEF NoReport
<1>3. QED BY <1>1, <1>2 DEF Pending

\* The end of the first attempt ends the pipeline, and nothing in flight.
LEMMA PipelineAfterType ==
  ASSUME ActiveOK, NEW r
  PROVE  PipelineAfter(r) \in {None} \cup Pipeline
         /\ InFlight(PipelineAfter(r)) = InFlight(active)
BY DEF ActiveOK, PipelineAfter, InPipeline, InFlight

LEMMA OweMoves ==
  ASSUME ActiveOK, ReportOK, NEW failed \in BOOLEAN,
         active # None, active.stage # "reporting",
         Owe(active.run, failed)
  PROVE  ActiveOK' /\ ReportOK' /\ active.run \in Run /\ Owed(active.run)
<1> DEFINE r == active.run
<1>1. active \in Pipeline
  BY DEF ActiveOK
<1>2. r \in Run /\ InFlight(active) = {r}
  BY <1>1, InFlightOf
<1>3. QueueHeld /\ received' = received
  BY DEF Owe, QueueHeld
<1>4. CASE report' = Keep(r) /\ active' = None
  <2>1. report' = [report EXCEPT ![r] = [state |-> "kept", id |-> None]]
    BY <1>4 DEF Keep
  <2>2. ReportOK' /\ Pending(report') = Pending(report) \cup {r}
    BY <1>2, <2>1, ReportWritten DEF ReportOK
  <2>3. ActiveOK' /\ InFlight(active') = {}
    BY <1>4, InFlightNone DEF ActiveOK
  <2>4. QED BY <1>2, <1>3, <2>2, <2>3 DEF Owed
<1>5. CASE /\ \E id \in FreeAttempts("report") : Send(r, id)
           /\ active' = [run |-> r, stage |-> "reporting", failed |-> failed]
  <2>1. PICK id \in FreeAttempts("report") :
          report' = [report EXCEPT ![r] = [state |-> "sending", id |-> id]]
    BY <1>5 DEF Send
  <2>2. id \in Attempt
    BY DEF FreeAttempts
  <2>3. ReportOK' /\ Pending(report') = Pending(report) \cup {r}
    BY <1>2, <2>1, <2>2, ReportWritten DEF ReportOK
  <2>4. active' \in Pipeline /\ active'.stage = "reporting"
    BY <1>2, <1>5 DEF Pipeline
  <2>5. ActiveOK' /\ InFlight(active') = {}
    BY <2>4, InFlightOf DEF ActiveOK
  <2>6. QED BY <1>2, <1>3, <2>3, <2>5 DEF Owed
<1>6. QED BY <1>2, <1>4, <1>5 DEF Owe

LEMMA SettlesMoves ==
  ASSUME ActiveOK, ReportOK, RunnerSettles \/ FinalSyncEnds
  PROVE  ActiveOK' /\ ReportOK' /\ (Held \/ \E r \in Run : Owed(r))
<1>1. active \in Pipeline /\ active.stage # "reporting" /\ active # None
  BY DEF RunnerSettles, FinalSyncEnds, ActiveOK
<1>2. CASE \E failed \in BOOLEAN : Owe(active.run, failed)
  BY <1>1, <1>2, OweMoves
<1>3. CASE /\ \E failed \in BOOLEAN :
                active' = [active EXCEPT !.stage = "syncing", !.failed = failed]
           /\ UNCHANGED <<queue, report, known, received>>
  <2>1. active' \in Pipeline /\ active'.stage = "syncing" /\ active'.run = active.run
    BY <1>1, <1>3 DEF Pipeline
  <2>2. InFlight(active') = InFlight(active)
    BY <1>1, <2>1, InFlightOf
  <2>3. QED BY <1>3, <2>1, <2>2 DEF Held, QueueHeld, ActiveOK, ReportOK
<1>4. active.failed \in BOOLEAN
  BY <1>1 DEF Pipeline
<1>5. QED BY <1>2, <1>3, <1>4 DEF RunnerSettles, FinalSyncEnds

\* A report that stays owed after its attempt.
LEMMA StillOwed ==
  ASSUME ActiveOK, ReportOK, QueueHeld, received' = received, NEW r \in Run,
         report[r].state # "none", NEW s \in {"sending", "waiting", "kept"},
         NEW id \in Attempt \cup {None},
         report' = [report EXCEPT ![r] = [state |-> s, id |-> id]],
         active' \in {active, PipelineAfter(r)}
  PROVE  ActiveOK' /\ ReportOK' /\ Held
<1>1. ReportOK' /\ Pending(report') = Pending(report) \cup {r}
  BY ReportWritten DEF ReportOK
<1>2. Pending(report) \cup {r} = Pending(report)
  BY DEF Pending
<1>3. ActiveOK' /\ InFlight(active') = InFlight(active)
  BY PipelineAfterType DEF ActiveOK
<1>4. QED BY <1>1, <1>2, <1>3 DEF Held

LEMMA AttemptMoves ==
  ASSUME ActiveOK, ReportOK, NEW r \in Run,
         ReportUnanswered(r) \/ RetryReport(r) \/ ReportFatal(r)
  PROVE  ActiveOK' /\ ReportOK' /\ Held
<1>1. CASE ReportUnanswered(r)
  <2>1. PICK s \in {"waiting", "kept"} :
          report' = [report EXCEPT ![r] = [state |-> s, id |-> None]]
    BY <1>1 DEF ReportUnanswered, AfterFailure, Keep
  <2>2. QueueHeld /\ received' = received /\ report[r].state # "none"
        /\ active' = PipelineAfter(r)
    BY <1>1 DEF ReportUnanswered, QueueHeld
  <2>3. QED BY <2>1, <2>2, StillOwed
<1>2. CASE RetryReport(r)
  <2>1. PICK id \in Attempt :
          report' = [report EXCEPT ![r] = [state |-> "sending", id |-> id]]
    BY <1>2 DEF RetryReport, Send, FreeAttempts
  <2>2. QueueHeld /\ received' = received /\ report[r].state # "none" /\ active' = active
    BY <1>2 DEF RetryReport, QueueHeld
  <2>3. QED BY <2>1, <2>2, StillOwed
<1>3. CASE ReportFatal(r)
  <2>1. report' = [report EXCEPT ![r] = [state |-> "kept", id |-> None]]
    BY <1>3 DEF ReportFatal, Keep
  <2>2. QueueHeld /\ received' = received /\ report[r].state # "none"
        /\ active' = PipelineAfter(r)
    BY <1>3 DEF ReportFatal, QueueHeld
  <2>3. QED BY <2>1, <2>2, StillOwed
<1>4. QED BY <1>1, <1>2, <1>3

\* What maybeStartNext starts is the head of its backlog, on an idle daemon.
LEMMA StartType ==
  ASSUME NEW backlog \in Seq(Run), NEW p \in {None} \cup Pipeline, NEW outbox,
         MaybeStartNext(backlog, p, outbox)
  PROVE  /\ ActiveOK'
         /\ \/ queue' = backlog /\ InFlight(active') = InFlight(p)
               /\ (backlog = <<>> \/ fatal \/ aborted \/ ~ExecutionIdle(p, outbox))
            \/ /\ backlog # <<>> /\ ~fatal /\ ~aborted /\ ExecutionIdle(p, outbox)
               /\ queue' = Tail(backlog) /\ InFlight(active') = {Head(backlog)}
<1>1. CASE backlog # <<>> /\ ~fatal /\ ~aborted /\ ExecutionIdle(p, outbox)
  <2>1. Head(backlog) \in Run
    BY <1>1
  <2>2. active' = Started(Head(backlog)) /\ queue' = Tail(backlog)
    BY <1>1 DEF MaybeStartNext
  <2>3. active' \in Pipeline /\ active'.stage = "running" /\ active'.run = Head(backlog)
    BY <2>1, <2>2 DEF Started, Pipeline
  <2>4. InFlight(active') = {Head(backlog)}
    BY <2>3, InFlightOf
  <2>5. QED BY <1>1, <2>2, <2>3, <2>4 DEF ActiveOK
<1>2. CASE ~(backlog # <<>> /\ ~fatal /\ ~aborted /\ ExecutionIdle(p, outbox))
  <2>1. queue' = backlog /\ active' = p
    BY <1>2 DEF MaybeStartNext
  <2>2. QED BY <1>2, <2>1 DEF ActiveOK
<1>3. QED BY <1>1, <1>2

LEMMA ConfirmedMoves ==
  ASSUME QueueOK, ActiveOK, ReportOK, NEW r \in Run, ReportConfirmed(r)
  PROVE  ActiveOK' /\ ReportOK' /\ (Held \/ Released(r))
<1>1. CASE aborted
  <2>1. report' = [report EXCEPT ![r] = [state |-> "kept", id |-> None]]
    BY <1>1 DEF ReportConfirmed, Keep
  <2>2. QueueHeld /\ received' = received /\ report[r].state # "none"
        /\ active' = PipelineAfter(r)
    BY <1>1 DEF ReportConfirmed, QueueHeld
  <2>3. QED BY <2>1, <2>2, StillOwed
<1>2. CASE ~aborted
  <2>1. /\ report' = [report EXCEPT ![r] = NoReport]
        /\ known' = known \ {r} /\ received' = received
        /\ \E m \in answer : m.kind = "report" /\ m.run = r
        /\ MaybeStartNext(queue, PipelineAfter(r), report')
        /\ r \in Pending(report)
    BY <1>2 DEF ReportConfirmed, AfterConfirmation, Pending
  <2>2. ReportOK' /\ Pending(report') = Pending(report) \ {r}
    BY <2>1, ReportCleared DEF ReportOK
  <2>3. /\ PipelineAfter(r) \in {None} \cup Pipeline
        /\ InFlight(PipelineAfter(r)) = InFlight(active)
    BY PipelineAfterType
  <2>4. ActiveOK'
    BY <2>1, <2>3, StartType DEF QueueOK
  <2>5. QED BY <2>1, <2>2, <2>3, <2>4 DEF Released
<1>3. QED BY <1>1, <1>2

LEMMA PollMoves ==
  ASSUME NetOK, QueueOK, ActiveOK, ReportOK, PollAnswered
  PROVE  ActiveOK' /\ ReportOK'
         /\ (Held \/ \E m \in answer : m.kind = "poll" /\ Delivered(m))
<1>1. CASE fatal
  BY <1>1 DEF PollAnswered, Held, QueueHeld, ActiveOK, ReportOK
<1>2. CASE ~fatal
  <2>1. PICK m \in answer : m.kind = "poll" /\ Delivered(m)
    BY <1>2 DEF PollAnswered, Delivered
  <2>2. m.got \in Seq(Run)
    BY <2>1 DEF NetOK, PollMessage, ReportMessage
  <2> DEFINE new == Dispatched(m.got, known)
  <2>3. new \in Seq(Run)
    BY <2>2, DispatchedNew
  <2>4. queue \o new \in Seq(Run)
    BY <2>3, ElementsConcat DEF QueueOK
  <2>5. MaybeStartNext(queue \o new, active, report) /\ report' = report
    BY <2>1 DEF Delivered
  <2>6. ActiveOK' /\ ReportOK'
    BY <2>4, <2>5, StartType DEF ActiveOK, ReportOK
  <2>7. QED BY <2>1, <2>6
<1>3. QED BY <1>1, <1>2

LEMMA NextWork ==
  ASSUME NetOK, QueueOK, ActiveOK, ReportOK, [Next]_vars
  PROVE  ActiveOK' /\ ReportOK' /\ WorkMoves
<1>1. CASE \/ PollOnce \/ PollTransient \/ Signal \/ LeaveLoop \/ Join
           \/ ServerStep \/ ServerElse \/ UNCHANGED vars
  <2>1. UNCHANGED <<queue, active, report, known, received>>
    BY <1>1 DEF PollOnce, PollTransient, Signal, LeaveLoop, Join, ServerStep, ServerElse,
       ClaimForPoll, AnswerPoll, HandleReport, Lose, daemon, vars
  <2>2. QED BY <2>1 DEF ActiveOK, ReportOK, WorkMoves, Held, QueueHeld
<1>2. CASE PollFatal \/ DropBacklog
  <2>1. UNCHANGED <<active, report, received>> /\ DropQueue
    BY <1>2 DEF PollFatal, DropBacklog
  <2>2. QED BY <2>1 DEF ActiveOK, ReportOK, WorkMoves, Held, QueueHeld
<1>3. CASE Crash \/ Start
  <2>1. /\ queue' = <<>> /\ active' = None /\ known' = {} /\ received' = {}
        /\ report' = [r \in Run |-> NoReport]
    BY <1>3 DEF Crash, Start
  <2>2. ReportOK' /\ Pending(report') = {}
    BY <2>1 DEF ReportOK, ReportType, Pending, NoReport
  <2>3. QED BY <2>1, <2>2, InFlightNone DEF ActiveOK, WorkMoves, Emptied
<1>4. CASE RunnerSettles \/ FinalSyncEnds
  BY <1>4, SettlesMoves DEF WorkMoves
<1>5. CASE \E r \in Run : ReportUnanswered(r) \/ RetryReport(r) \/ ReportFatal(r)
  BY <1>5, AttemptMoves DEF WorkMoves
<1>6. CASE \E r \in Run : ReportConfirmed(r)
  BY <1>6, ConfirmedMoves DEF WorkMoves
<1>7. CASE PollAnswered
  BY <1>7, PollMoves DEF WorkMoves
<1>8. QED BY <1>1, <1>2, <1>3, <1>4, <1>5, <1>6, <1>7 DEF Next, DaemonStep

\* How the control of the daemon may move while it has work.
ControlMoves ==
  /\ proc' = "running" => proc = "running" \/ Emptied
  /\ fatal' => fatal \/ queue' = <<>>
  /\ aborted => aborted' \/ queue' = <<>>
  /\ proc = "exited" => proc' = "exited" \/ queue' = <<>>
  /\ poll' # None /\ proc' # "running" => poll # None /\ proc # "running"

LEMMA NextControl ==
  ASSUME ControlOK, [Next]_vars
  PROVE  ControlOK' /\ ControlMoves
<1>1. CASE ServerStep \/ ServerElse \/ UNCHANGED vars
  <2>1. UNCHANGED <<proc, fatal, aborted, poll>>
    BY <1>1 DEF ServerStep, ServerElse, ClaimForPoll, AnswerPoll, HandleReport, Lose, daemon, vars
  <2>2. QED BY <2>1 DEF ControlOK, ControlMoves
<1>2. CASE PollOnce
  <2>1. poll' \in Attempt /\ proc = "running" /\ UNCHANGED <<proc, fatal, aborted>>
    BY <1>2 DEF PollOnce, Looping, FreeAttempts
  <2>2. QED BY <2>1 DEF ControlOK, ControlMoves
<1>3. CASE PollTransient \/ PollAnswered
  <2>1. poll' = None /\ UNCHANGED <<proc, fatal, aborted>>
    BY <1>3 DEF PollTransient, PollAnswered
  <2>2. QED BY <2>1 DEF ControlOK, ControlMoves
<1>4. CASE PollFatal \/ \E r \in Run : ReportFatal(r)
  <2>1. /\ poll' \in {None, poll} /\ proc' = proc /\ fatal' = TRUE /\ aborted' = TRUE
        /\ queue' = <<>>
    BY <1>4 DEF PollFatal, ReportFatal, DropQueue
  <2>2. QED BY <2>1 DEF ControlOK, ControlMoves
<1>5. CASE Signal \/ LeaveLoop
  <2>1. /\ poll' = poll /\ proc' \in {proc, "draining"} /\ fatal' = fatal /\ aborted' = TRUE
        /\ proc = "running" /\ (proc' # proc => poll = None)
    BY <1>5 DEF Signal, LeaveLoop, Looping
  <2>2. QED BY <2>1 DEF ControlOK, ControlMoves
<1>6. CASE DropBacklog \/ Join
  <2>1. /\ UNCHANGED <<poll, fatal, aborted>> /\ proc' \in {"closing", "exited"}
        /\ proc \in {"draining", "closing"}
    BY <1>6 DEF DropBacklog, Join
  <2>2. QED BY <2>1 DEF ControlOK, ControlMoves
<1>7. CASE Crash
  BY <1>7 DEF Crash, ControlOK, ControlMoves
<1>8. CASE Start
  <2>1. /\ poll' = None /\ fatal' = FALSE /\ aborted' = FALSE /\ proc' = "running"
        /\ queue' = <<>> /\ active' = None /\ known' = {} /\ received' = {}
        /\ report' = [r \in Run |-> NoReport]
    BY <1>8 DEF Start
  <2>2. Emptied
    BY <2>1, InFlightNone DEF Emptied, Pending, NoReport
  <2>3. QED BY <2>1, <2>2 DEF ControlOK, ControlMoves
<1>9. CASE RunnerSettles \/ FinalSyncEnds
  <2>1. CASE \E failed \in BOOLEAN : Owe(active.run, failed)
    <3>1. PICK failed \in BOOLEAN : Owe(active.run, failed)
      BY <2>1
    <3>2. UNCHANGED <<proc, aborted, poll>> /\ fatal' = (fatal \/ failed)
          /\ (failed => queue' = <<>>)
      BY <3>1 DEF Owe, DropQueue
    <3>3. fatal' \in BOOLEAN
      BY <3>2
    <3>4. QED BY <3>2, <3>3 DEF ControlOK, ControlMoves
  <2>2. CASE FinalSyncEnds /\ ~\E failed \in BOOLEAN : Owe(active.run, failed)
    <3>1. Owe(active.run, active.failed)
      BY <2>2 DEF FinalSyncEnds
    <3>2. UNCHANGED <<proc, aborted, poll>> /\ fatal' = (fatal \/ active.failed)
          /\ (active.failed => queue' = <<>>)
      BY <3>1 DEF Owe, DropQueue
    <3>3. fatal' \in BOOLEAN
      BY <3>2
    <3>4. QED BY <3>2, <3>3 DEF ControlOK, ControlMoves
  <2>3. CASE UNCHANGED <<proc, fatal, aborted, poll>>
    BY <2>3 DEF ControlOK, ControlMoves
  <2>4. QED BY <1>9, <2>1, <2>2, <2>3 DEF RunnerSettles
<1>10. CASE \E r \in Run : ReportUnanswered(r) \/ RetryReport(r) \/ ReportConfirmed(r)
  <2>1. PICK r \in Run : ReportUnanswered(r) \/ RetryReport(r) \/ ReportConfirmed(r)
    BY <1>10
  <2>2. UNCHANGED <<proc, fatal, poll>> /\ aborted' \in {aborted, (aborted \/ Escalates(r))}
    BY <2>1 DEF ReportUnanswered, RetryReport, ReportConfirmed
  <2>3. aborted' \in BOOLEAN /\ (aborted => aborted')
    BY <2>2 DEF ControlOK
  <2>4. QED BY <2>2, <2>3 DEF ControlOK, ControlMoves
<1>11. QED BY <1>1, <1>2, <1>3, <1>4, <1>5, <1>6, <1>7, <1>8, <1>9, <1>10
       DEF Next, DaemonStep

--------------------------------------------------------------------------------
(***************************************************************************)
(* What occupies the daemon.                                               *)
(***************************************************************************)

Busy == InFlight(active) \cup Pending(report)

\* All the daemon has was delivered to it; a run is queued, executes or is owed
\* its report, and only one thing at a time, one run at a time.
WorkSound ==
  /\ known \cup Elements(queue) \cup Busy \subseteq received
  /\ Distinct(queue) /\ Elements(queue) \cap Busy = {}
  /\ InFlight(active) # {} => Pending(report) = {}
  /\ OneRunOccupiesTheDaemon
  /\ poll # None => proc = "running"
  /\ SnapshotCoversActivity

LEMMA EmptyElements == Elements(<<>>) = {} /\ Distinct(<<>>)
BY DEF Elements, Distinct

\* The queue after a drop, and what the snapshot has then.
LEMMA QueueHeldElements ==
  ASSUME QueueHeld, Distinct(queue)
  PROVE  /\ Distinct(queue') /\ Elements(queue') \subseteq Elements(queue)
         /\ known' = known \ (Elements(queue) \ Elements(queue'))
         /\ queue' = queue \/ queue' = <<>>
<1>1. CASE UNCHANGED <<queue, known>>
  BY <1>1
<1>2. CASE DropQueue
  BY <1>2, EmptyElements DEF DropQueue
<1>3. QED BY <1>1, <1>2 DEF QueueHeld

\* A backlog of runs that nothing occupies the daemon with yet: its head leaves
\* it only to occupy an idle daemon.
LEMMA StartApart ==
  ASSUME NEW backlog \in Seq(Run), Distinct(backlog), NEW p \in {None} \cup Pipeline,
         NEW outbox, MaybeStartNext(backlog, p, outbox),
         Elements(backlog) \cap (InFlight(p) \cup Pending(outbox)) = {},
         InFlight(p) # {} => Pending(outbox) = {},
         \A r, s \in InFlight(p) \cup Pending(outbox) : r = s
  PROVE  LET b == InFlight(active') \cup Pending(outbox) IN
         /\ queue' \in Seq(Run) /\ Distinct(queue') /\ Elements(queue') \cap b = {}
         /\ Elements(queue') \cup b =
              Elements(backlog) \cup InFlight(p) \cup Pending(outbox)
         /\ InFlight(active') # {} => Pending(outbox) = {}
         /\ \A r, s \in b : r = s
<1>1. CASE queue' = backlog /\ InFlight(active') = InFlight(p)
  BY <1>1
<1>2. CASE /\ backlog # <<>> /\ ExecutionIdle(p, outbox)
           /\ queue' = Tail(backlog) /\ InFlight(active') = {Head(backlog)}
  <2>1. InFlight(p) = {} /\ Pending(outbox) = {}
    BY <1>2 DEF ExecutionIdle
  <2>2. /\ Tail(backlog) \in Seq(Run) /\ Distinct(Tail(backlog))
        /\ Elements(Tail(backlog)) = Elements(backlog) \ {Head(backlog)}
        /\ Head(backlog) \in Elements(backlog)
    BY <1>2, TailApart
  <2>3. QED BY <1>2, <2>1, <2>2
<1>3. QED BY <1>1, <1>2, StartType

LEMMA HeldSound ==
  ASSUME WorkSound, QueueOK, SetsOK, Held, ControlMoves
  PROVE  WorkSound' /\ QueueOK' /\ SetsOK'
<1>1. /\ Distinct(queue') /\ Elements(queue') \subseteq Elements(queue)
      /\ known' = known \ (Elements(queue) \ Elements(queue'))
      /\ queue' = queue \/ queue' = <<>>
  BY QueueHeldElements DEF Held, WorkSound
<1>2. Busy' = Busy /\ InFlight(active)' = InFlight(active)
      /\ Pending(report)' = Pending(report) /\ received' = received
  BY DEF Held, Busy
<1>3. proc' = "running" => proc = "running" \/ (known' = {} /\ Busy' = {} /\ Elements(queue') = {})
  BY EmptyElements DEF ControlMoves, Emptied, Busy
<1>4. SnapshotCoversActivity'
  BY <1>1, <1>2, <1>3 DEF WorkSound, SnapshotCoversActivity, Busy
<1>5. OneRunOccupiesTheDaemon'
  BY <1>2 DEF WorkSound, OneRunOccupiesTheDaemon, Busy
<1>6. QueueOK' /\ SetsOK'
  <2>1. QueueOK'
    <3>1. <<>> \in Seq(Run)
      OBVIOUS
    <3>2. QED BY <1>1, <3>1 DEF QueueOK
  <2>2. SetsOK'
    BY <1>1, <1>2 DEF SetsOK
  <2>3. QED BY <2>1, <2>2
<1>7. QED BY <1>1, <1>2, <1>4, <1>5, <1>6 DEF WorkSound, ControlMoves

LEMMA OwedSound ==
  ASSUME WorkSound, QueueOK, SetsOK, NEW r \in Run, Owed(r), ControlMoves
  PROVE  WorkSound' /\ QueueOK' /\ SetsOK'
<1>1. /\ Distinct(queue') /\ Elements(queue') \subseteq Elements(queue)
      /\ known' = known \ (Elements(queue) \ Elements(queue'))
      /\ queue' = queue \/ queue' = <<>>
  BY QueueHeldElements DEF Owed, WorkSound
<1>2. /\ InFlight(active) = {r} /\ InFlight(active)' = {}
      /\ Pending(report)' = {r} /\ received' = received
  BY DEF Owed, WorkSound
<1>3. Busy = {r} /\ Busy' = {r}
  BY <1>2 DEF Busy, WorkSound
<1>4. proc' = "running" => proc = "running"
  BY <1>2 DEF ControlMoves, Emptied
<1>5. SnapshotCoversActivity'
  BY <1>1, <1>3, <1>4 DEF WorkSound, SnapshotCoversActivity, Busy
<1>6. OneRunOccupiesTheDaemon'
  BY <1>2 DEF OneRunOccupiesTheDaemon
<1>7. QueueOK' /\ SetsOK'
  <2>1. QueueOK'
    <3>1. <<>> \in Seq(Run)
      OBVIOUS
    <3>2. QED BY <1>1, <3>1 DEF QueueOK
  <2>2. SetsOK'
    BY <1>1, <1>2 DEF SetsOK
  <2>3. QED BY <2>1, <2>2
<1>8. QED BY <1>1, <1>2, <1>3, <1>5, <1>6, <1>7 DEF WorkSound, ControlMoves

LEMMA DeliveredSound ==
  ASSUME WorkSound, QueueOK, SetsOK, ActiveOK, NEW m, m.got \in Seq(Run), Delivered(m),
         ControlMoves
  PROVE  WorkSound' /\ QueueOK' /\ SetsOK'
<1> DEFINE new == Dispatched(m.got, known)
           backlog == queue \o new
<1>1. /\ new \in Seq(Run) /\ Distinct(new) /\ Elements(new) \subseteq Elements(m.got) \ known
      /\ Elements(new) \subseteq Run
  BY DispatchedNew, ElementsIn
<1>2. /\ known' = known \cup Elements(new) /\ received' = received \cup Elements(new)
      /\ report' = report /\ MaybeStartNext(backlog, active, report) /\ poll # None
  BY DEF Delivered
<1> HIDE DEF new
<1>3. proc = "running" /\ known = Elements(queue) \cup Busy
  BY <1>2 DEF WorkSound, SnapshotCoversActivity, Busy
<1>4. /\ backlog \in Seq(Run) /\ Distinct(backlog)
      /\ Elements(backlog) = Elements(queue) \cup Elements(new)
  BY <1>1, <1>3, ElementsConcat, ConcatDistinct DEF QueueOK, WorkSound
<1> HIDE DEF backlog
<1>5. Elements(backlog) \cap (InFlight(active) \cup Pending(report)) = {}
  BY <1>1, <1>3, <1>4 DEF WorkSound, Busy
<1>6. /\ InFlight(active) # {} => Pending(report) = {}
      /\ \A r, s \in InFlight(active) \cup Pending(report) : r = s
  BY DEF WorkSound, OneRunOccupiesTheDaemon
<1> DEFINE b == InFlight(active') \cup Pending(report)
<1>7. /\ queue' \in Seq(Run) /\ Distinct(queue') /\ Elements(queue') \cap b = {}
      /\ Elements(queue') \cup b =
           Elements(backlog) \cup InFlight(active) \cup Pending(report)
      /\ InFlight(active') # {} => Pending(report) = {}
      /\ \A r, s \in b : r = s
  BY <1>2, <1>4, <1>5, <1>6, StartApart DEF ActiveOK
<1>8. Busy' = b
  BY <1>2 DEF Busy
<1>9. Elements(queue') \cup Busy' = known'
  BY <1>2, <1>3, <1>4, <1>7, <1>8 DEF Busy
<1>10. SnapshotCoversActivity' /\ OneRunOccupiesTheDaemon'
  BY <1>7, <1>8, <1>9 DEF SnapshotCoversActivity, OneRunOccupiesTheDaemon, Busy
<1>11. QueueOK' /\ SetsOK'
  BY <1>1, <1>2, <1>7 DEF QueueOK, SetsOK
<1>12. known' \subseteq received'
  BY <1>2 DEF WorkSound
<1>13. InFlight(active)' # {} => Pending(report)' = {}
  BY <1>2, <1>7
<1>14. QED BY <1>3, <1>7, <1>8, <1>9, <1>10, <1>11, <1>12, <1>13 DEF WorkSound, ControlMoves

LEMMA ReleasedSound ==
  ASSUME WorkSound, QueueOK, SetsOK, NEW r \in Run, Released(r), ControlMoves
  PROVE  WorkSound' /\ QueueOK' /\ SetsOK'
<1>1. PICK p \in {None} \cup Pipeline :
        InFlight(p) = InFlight(active) /\ MaybeStartNext(queue, p, report')
  BY DEF Released
<1>2. Pending(report') = {} /\ InFlight(active) = {} /\ Busy = {r}
  BY DEF WorkSound, OneRunOccupiesTheDaemon, Busy, Released
<1> DEFINE b == InFlight(active') \cup Pending(report')
<1>3. /\ queue' \in Seq(Run) /\ Distinct(queue') /\ Elements(queue') \cap b = {}
      /\ Elements(queue') \cup b =
           Elements(queue) \cup InFlight(p) \cup Pending(report')
      /\ InFlight(active') # {} => Pending(report') = {}
      /\ \A x, y \in b : x = y
  BY <1>1, <1>2, StartApart DEF QueueOK, WorkSound
<1>4. Busy' = b /\ Elements(queue') \cup Busy' = Elements(queue) /\ r \notin Elements(queue)
  BY <1>1, <1>2, <1>3 DEF Busy, WorkSound
<1>5. known' = known \ {r} /\ received' = received
  BY DEF Released
<1>6. proc' = "running" => proc = "running" \/ (known' = {} /\ Busy' = {} /\ Elements(queue') = {})
  BY EmptyElements DEF ControlMoves, Emptied, Busy
<1>7. SnapshotCoversActivity' /\ OneRunOccupiesTheDaemon'
  BY <1>2, <1>3, <1>4, <1>5, <1>6
     DEF WorkSound, SnapshotCoversActivity, OneRunOccupiesTheDaemon, Busy
<1>8. QueueOK' /\ SetsOK'
  BY <1>3, <1>5 DEF QueueOK, SetsOK
<1>9. InFlight(active)' # {} => Pending(report)' = {}
  BY <1>2
<1>10. QED BY <1>3, <1>4, <1>5, <1>7, <1>8, <1>9 DEF WorkSound, ControlMoves

LEMMA EmptiedSound ==
  ASSUME WorkSound, Emptied, ControlMoves
  PROVE  WorkSound' /\ QueueOK' /\ SetsOK'
<1>1. Busy' = {} /\ InFlight(active)' = {} /\ Pending(report)' = {}
  BY DEF Emptied, Busy
<1>2. queue' = <<>> /\ Elements(queue') = {} /\ Distinct(queue') /\ known' = {} /\ received' = {}
  BY EmptyElements DEF Emptied
<1>3. SnapshotCoversActivity' /\ OneRunOccupiesTheDaemon'
  BY <1>1, <1>2 DEF SnapshotCoversActivity, OneRunOccupiesTheDaemon
<1>4. QED BY <1>1, <1>2, <1>3 DEF WorkSound, ControlMoves, QueueOK, SetsOK

LEMMA WorkStays ==
  ASSUME TypeOK, WorkSound, [Next]_vars
  PROVE  WorkSound' /\ QueueOK' /\ SetsOK' /\ ActiveOK' /\ ReportOK' /\ ControlOK'
<1>1. NetOK /\ QueueOK /\ ActiveOK /\ ReportOK /\ ControlOK /\ SetsOK
  BY TypeParts
<1>2. ActiveOK' /\ ReportOK' /\ WorkMoves /\ ControlOK' /\ ControlMoves
  BY <1>1, NextWork, NextControl
<1>3. CASE Held
  BY <1>1, <1>2, <1>3, HeldSound
<1>4. CASE Emptied
  BY <1>2, <1>4, EmptiedSound
<1>5. CASE \E r \in Run : Owed(r)
  BY <1>1, <1>2, <1>5, OwedSound
<1>6. CASE \E r \in Run : Released(r)
  BY <1>1, <1>2, <1>6, ReleasedSound
<1>7. CASE \E m \in answer : m.kind = "poll" /\ Delivered(m)
  <2>1. PICK m \in answer : m.kind = "poll" /\ Delivered(m)
    BY <1>7
  <2>2. m.got \in Seq(Run)
    BY <1>1, <2>1 DEF NetOK, PollMessage, ReportMessage
  <2>3. QED BY <1>1, <1>2, <2>1, <2>2, DeliveredSound
<1>8. QED BY <1>2, <1>3, <1>4, <1>5, <1>6, <1>7 DEF WorkMoves

--------------------------------------------------------------------------------
(***************************************************************************)
(* Requests and answers.                                                   *)
(***************************************************************************)

Quiet == wire' = wire /\ answer' \subseteq answer

\* A report is sent of a run that occupies the daemon.
Reports ==
  \E r \in Busy, id \in FreeAttempts("report") :
    wire' = wire \cup {ReportRequest(r, id)} /\ answer' = answer

\* The request m is over; its answer comes back if it is awaited.
Ended(m) ==
  /\ wire' = wire \ {m}
  /\ answer' \in {answer, answer \cup {m}}
  /\ m.kind = "report" /\ m \in answer' => m \in answer \/ Settled(m.run)'

NetMoves ==
  \/ Quiet \/ PollOnce \/ Reports
  \/ \E m \in wire : ClaimForPoll(m) \/ Ended(m)

LEMMA BusyRuns ==
  ASSUME ActiveOK PROVE Busy \subseteq Run
<1>1. InFlight(active) \subseteq Run
  BY InFlightOf, InFlightNone DEF ActiveOK
<1>2. QED BY <1>1 DEF Busy, Pending

LEMMA OweSends ==
  ASSUME ActiveOK, NEW failed, active # None, active.stage # "reporting",
         Owe(active.run, failed)
  PROVE  Quiet \/ Reports
<1>1. active.run \in Busy
  BY InFlightOf DEF ActiveOK, Busy
<1>2. QED BY <1>1 DEF Owe, Send, Quiet, Reports

LEMMA HandleMoves ==
  ASSUME Server!TypeOK, NetOK, NEW m \in wire, HandleReport(m),
         HandedOut(m.run)
  PROVE  Ended(m)
<1>1. m.run \in Run /\ m.kind = "report"
  BY DEF HandleReport, NetOK, PollMessage, ReportMessage
<1>2. wire' = wire \ {m} /\ answer' \in {answer, answer \cup {m}}
  BY DEF HandleReport, Answer
<1>3. CASE Server!Settle(m.run, {})
  BY <1>1, <1>2, <1>3, SettleMoves DEF Ended
<1>4. CASE Server!Settle(m.run, Server!Of(owner[m.run], "waiting"))
  <2>1. /\ Server!Of(owner[m.run], "waiting") \in SUBSET Run
        /\ \A x \in Server!Of(owner[m.run], "waiting") : status[x] = "waiting"
    BY DEF Server!Of
  <2>2. QED BY <1>1, <1>2, <1>4, <2>1, SettleMoves DEF Ended
<1>5. CASE status[m.run] \notin {"working", "reclaimed"} /\ UNCHANGED server
  BY <1>1, <1>2, <1>5 DEF Ended, HandedOut, Settled, server, Server!TypeOK, Server!Status
<1>6. QED BY <1>3, <1>4, <1>5 DEF HandleReport

\* What the server knows of the runs that the daemon and its messages name.
ServerSound ==
  /\ \A r \in received : HandedOut(r)
  /\ \A m \in wire \cup answer :
       /\ m.kind = "poll" => \A r \in Elements(m.got) : HandedOut(r)
       /\ m.kind = "report" => HandedOut(m.run)
  /\ \A m \in answer : m.kind = "report" => Settled(m.run)

\* A request has an identity of its own.
Identified ==
  /\ wire \cap answer = {}
  /\ \A m, n \in wire \cup answer : m.kind = n.kind /\ m.id = n.id => m = n

LEMMA NextNet ==
  ASSUME TypeOK, ServerSound, [Next]_vars
  PROVE  NetMoves
<1>0. ActiveOK /\ NetOK /\ Server!TypeOK
  BY TypeParts
<1>1. CASE \/ PollTransient \/ PollAnswered \/ PollFatal \/ Signal \/ LeaveLoop
           \/ DropBacklog \/ Join \/ Crash \/ ServerElse \/ UNCHANGED vars
           \/ \E r \in Run : ReportUnanswered(r) \/ ReportConfirmed(r) \/ ReportFatal(r)
  <2>1. Quiet
    BY <1>1 DEF PollTransient, PollAnswered, PollFatal, Signal, LeaveLoop, DropBacklog, Join,
       Crash, ServerElse, vars, net, ReportUnanswered, ReportConfirmed, ReportFatal, Hangup,
       Quiet
  <2>2. QED BY <2>1 DEF NetMoves
<1>2. CASE Start
  BY <1>2 DEF Start, NetMoves, Quiet
<1>3. CASE PollOnce
  BY <1>3 DEF NetMoves
<1>4. CASE RunnerSettles \/ FinalSyncEnds
  <2>1. active # None /\ active.stage # "reporting"
    BY <1>4 DEF RunnerSettles, FinalSyncEnds
  <2>2. CASE \E failed : Owe(active.run, failed)
    BY <1>0, <2>1, <2>2, OweSends DEF NetMoves
  <2>3. CASE UNCHANGED net
    BY <2>3 DEF net, NetMoves, Quiet
  <2>4. QED BY <1>4, <2>2, <2>3 DEF RunnerSettles, FinalSyncEnds
<1>5. CASE \E r \in Run : RetryReport(r)
  BY <1>5 DEF RetryReport, Send, NetMoves, Reports, Busy, Pending
<1>6. CASE \E m \in wire : ClaimForPoll(m)
  BY <1>6 DEF NetMoves
<1>7. CASE \E m \in wire : AnswerPoll(m) \/ Lose(m)
  BY <1>7 DEF AnswerPoll, Answer, Lose, NetMoves, Ended
<1>8. CASE \E m \in wire : HandleReport(m)
  <2>1. PICK m \in wire : HandleReport(m)
    BY <1>8
  <2>2. HandedOut(m.run)
    BY <2>1 DEF HandleReport, ServerSound
  <2>3. QED BY <1>0, <2>1, <2>2, HandleMoves DEF NetMoves
<1>9. QED BY <1>1, <1>2, <1>3, <1>4, <1>5, <1>6, <1>7, <1>8
      DEF Next, DaemonStep, ServerStep

\* The poll request that a handler has claimed one more run for.
LEMMA ClaimedMessage ==
  ASSUME Server!TypeOK, NetOK, NEW m \in wire, ClaimForPoll(m)
  PROVE  \E n \in PollMessage, r \in Run :
           /\ m \in PollMessage /\ n.id = m.id /\ n.slots = m.slots
           /\ Elements(n.got) = Elements(m.got) \cup {r}
           /\ HandedOut(r)'
           /\ wire' = (wire \ {m}) \cup {n} /\ answer' = answer
<1>1. PICK r \in Run : /\ Server!HandOut(r)
                       /\ wire' = (wire \ {m}) \cup {[m EXCEPT !.got = Append(@, r)]}
  BY DEF ClaimForPoll
<1> DEFINE n == [m EXCEPT !.got = Append(@, r)]
<1>2. m \in PollMessage
  BY DEF ClaimForPoll, NetOK, PollMessage, ReportMessage
<1>3. n \in PollMessage /\ n.id = m.id /\ n.slots = m.slots /\ n.got = Append(m.got, r)
  BY <1>2 DEF PollMessage
<1>4. m.got \in Seq(Run) /\ Append(m.got, r) = m.got \o <<r>> /\ <<r>> \in Seq(Run)
  BY <1>2 DEF PollMessage
<1>5. Elements(<<r>>) = {r}
  BY DEF Elements
<1>6. Elements(n.got) = Elements(m.got) \cup {r}
  <2>1. Elements(m.got \o <<r>>) = Elements(m.got) \cup Elements(<<r>>)
    BY <1>4, ElementsConcat
  <2>2. n.got = m.got \o <<r>>
    BY <1>3, <1>4
  <2> HIDE DEF n
  <2>3. QED BY <1>5, <2>1, <2>2
<1>7. answer' = answer /\ HandedOut(r)'
  BY <1>1, OneMoves DEF ClaimForPoll
<1> HIDE DEF n
<1>8. wire' = (wire \ {m}) \cup {n}
  BY <1>1 DEF n
<1>9. QED BY <1>2, <1>3, <1>6, <1>7, <1>8

LEMMA PollAsks ==
  ASSUME PollOnce
  PROVE  \E id \in FreeAttempts("poll"), slots \in {0, 1} :
           /\ poll' = id /\ wire' = wire \cup {PollRequest(id, slots)} /\ answer' = answer
           /\ PollRequest(id, slots) \in PollMessage
           /\ slots = 1 => queue = <<>> /\ ExecutionIdle(active, report)
           /\ UNCHANGED <<queue, active, report, received>>
<1>1. PICK id \in FreeAttempts("poll") :
        poll' = id /\ wire' = wire \cup {PollRequest(id, AvailableSlots)}
  BY DEF PollOnce
<1>2. AvailableSlots \in {0, 1}
      /\ (AvailableSlots = 1 => queue = <<>> /\ ExecutionIdle(active, report))
  BY DEF AvailableSlots
<1>3. PollRequest(id, AvailableSlots) \in PollMessage
  <2>1. id \in Attempt /\ <<>> \in Seq(Run)
    BY DEF FreeAttempts
  <2>2. QED BY <1>2, <2>1 DEF PollRequest, PollMessage
<1>4. QED BY <1>1, <1>2, <1>3 DEF PollOnce

LEMMA NetStays ==
  ASSUME TypeOK, WorkSound, ServerSound, [Next]_vars
  PROVE  NetOK'
<1>0. NetOK /\ ActiveOK /\ Server!TypeOK /\ NetMoves
  BY TypeParts, NextNet
<1>1. CASE Quiet
  BY <1>0, <1>1 DEF NetOK, Quiet
<1>2. CASE PollOnce
  BY <1>0, <1>2, PollAsks DEF NetOK
<1>3. CASE Reports
  <2>1. PICK r \in Busy, id \in FreeAttempts("report") :
          wire' = wire \cup {ReportRequest(r, id)} /\ answer' = answer
    BY <1>3 DEF Reports
  <2>2. r \in Run /\ id \in Attempt
    BY <1>0, BusyRuns DEF FreeAttempts
  <2>3. ReportRequest(r, id) \in ReportMessage
    BY <2>2 DEF ReportRequest, ReportMessage
  <2>4. QED BY <1>0, <2>1, <2>3 DEF NetOK
<1>4. CASE \E m \in wire : ClaimForPoll(m)
  BY <1>0, <1>4, ClaimedMessage DEF NetOK
<1>5. CASE \E m \in wire : Ended(m)
  BY <1>0, <1>5 DEF NetOK, Ended
<1>6. QED BY <1>0, <1>1, <1>2, <1>3, <1>4, <1>5 DEF NetMoves

LEMMA MessageKinds ==
  /\ \A m \in PollMessage : m.kind = "poll" /\ m.id \in Attempt /\ m.got \in Seq(Run)
  /\ \A m \in ReportMessage : m.kind = "report" /\ m.id \in Attempt /\ m.run \in Run
BY DEF PollMessage, ReportMessage

\* A request with a free identity is told from all the others.
LEMMA FreshIdentified ==
  ASSUME Identified, NEW x, x.id \in FreeAttempts(x.kind),
         wire' = wire \cup {x}, answer' = answer
  PROVE  Identified'
<1>1. \A m \in wire \cup answer : m.kind = x.kind => m.id # x.id
  BY DEF FreeAttempts
<1>2. x \notin answer
  BY <1>1
<1>3. QED BY <1>1, <1>2 DEF Identified

LEMMA IdentifiedStays ==
  ASSUME TypeOK, WorkSound, ServerSound, Identified, [Next]_vars
  PROVE  Identified'
<1>0. NetOK /\ ActiveOK /\ Server!TypeOK /\ NetMoves
  BY TypeParts, NextNet
<1>1. CASE Quiet
  BY <1>1 DEF Identified, Quiet
<1>2. CASE PollOnce
  <2>1. PICK id \in FreeAttempts("poll"), slots \in {0, 1} :
          wire' = wire \cup {PollRequest(id, slots)} /\ answer' = answer
    BY <1>2, PollAsks
  <2>2. PollRequest(id, slots).id = id /\ PollRequest(id, slots).kind = "poll"
    BY DEF PollRequest
  <2>3. QED BY <2>1, <2>2, FreshIdentified
<1>3. CASE Reports
  <2>1. PICK r \in Busy, id \in FreeAttempts("report") :
          wire' = wire \cup {ReportRequest(r, id)} /\ answer' = answer
    BY <1>3 DEF Reports
  <2>2. ReportRequest(r, id).id = id /\ ReportRequest(r, id).kind = "report"
    BY DEF ReportRequest
  <2>3. QED BY <2>1, <2>2, FreshIdentified
<1>4. CASE \E m \in wire : ClaimForPoll(m)
  <2>1. PICK m \in wire : ClaimForPoll(m)
    BY <1>4
  <2>2. PICK n \in PollMessage : /\ m \in PollMessage /\ n.id = m.id
                                 /\ wire' = (wire \ {m}) \cup {n} /\ answer' = answer
    BY <1>0, <2>1, ClaimedMessage
  <2>3. n.kind = m.kind
    BY <2>2, MessageKinds
  <2>4. \A x \in (wire \cup answer) \ {m} : x.kind = n.kind => x.id # n.id
    BY <2>1, <2>2, <2>3 DEF Identified
  <2>5. m \notin answer
    BY <2>1 DEF Identified
  <2>6. n \notin answer
    BY <2>4, <2>5
  <2>7. QED BY <2>2, <2>4, <2>5, <2>6 DEF Identified
<1>5. CASE \E m \in wire : Ended(m)
  BY <1>5 DEF Identified, Ended
<1>6. QED BY <1>0, <1>1, <1>2, <1>3, <1>4, <1>5 DEF NetMoves

LEMMA HandedOutStays ==
  ASSUME ServerMoves, NEW r \in Run
  PROVE  (HandedOut(r) => HandedOut(r)') /\ (Settled(r) => Settled(r)')
BY DEF ServerMoves, HandedOut, Settled

LEMMA ReceivedHandedOut ==
  ASSUME TypeOK, WorkSound, ServerSound, [Next]_vars, NEW r \in received'
  PROVE  HandedOut(r)'
<1>1. NetOK /\ QueueOK /\ ActiveOK /\ ReportOK /\ SetsOK /\ Server!TypeOK
  BY TypeParts
<1>2. WorkMoves /\ ServerMoves
  BY <1>1, NextWork, NextServer
<1>3. CASE r \in received
  BY <1>1, <1>2, <1>3, HandedOutStays DEF ServerSound, SetsOK
<1>4. CASE r \notin received
  <2>1. PICK m \in answer : m.kind = "poll" /\ Delivered(m)
    BY <1>2, <1>4 DEF WorkMoves, Held, Emptied, Owed, Released
  <2>2. m.got \in Seq(Run)
    BY <1>1, <2>1 DEF NetOK, PollMessage, ReportMessage
  <2>3. r \in Elements(m.got)
    BY <1>4, <2>1, <2>2, DispatchedNew DEF Delivered
  <2>4. HandedOut(r) /\ r \in Run
    BY <2>1, <2>2, <2>3, ElementsIn DEF ServerSound
  <2>5. QED BY <1>2, <2>4, HandedOutStays
<1>5. QED BY <1>3, <1>4

\* What holds of the messages when it holds of a new one and of the old ones.
MessageSound(m) ==
  /\ m.kind = "poll" => \A r \in Elements(m.got) : HandedOut(r)
  /\ m.kind = "report" => HandedOut(m.run)

LEMMA MessageStays ==
  ASSUME NetOK, ServerMoves, NEW m \in wire \cup answer, MessageSound(m)
  PROVE  MessageSound(m)'
<1>1. m.kind = "poll" => m.got \in Seq(Run) /\ Elements(m.got) \subseteq Run
  BY ElementsIn DEF NetOK, PollMessage, ReportMessage
<1>2. m.kind = "report" => m.run \in Run
  BY DEF NetOK, PollMessage, ReportMessage
<1>3. QED BY <1>1, <1>2, HandedOutStays DEF MessageSound

LEMMA MessagesStay ==
  ASSUME TypeOK, WorkSound, ServerSound, [Next]_vars,
         NEW x \in wire' \cup answer'
  PROVE  MessageSound(x)'
<1>0. NetOK /\ ActiveOK /\ SetsOK /\ Server!TypeOK /\ NetMoves /\ ServerMoves
  BY TypeParts, NextNet, NextServer
<1>1. \A m \in wire \cup answer : MessageSound(m)'
  BY <1>0, MessageStays DEF ServerSound, MessageSound
<1>2. CASE Quiet \/ \E m \in wire : Ended(m)
  BY <1>1, <1>2 DEF Quiet, Ended
<1>3. CASE PollOnce
  <2>1. PICK id \in FreeAttempts("poll"), slots \in {0, 1} :
          wire' = wire \cup {PollRequest(id, slots)} /\ answer' = answer
    BY <1>3, PollAsks
  <2>2. MessageSound(PollRequest(id, slots))'
    BY EmptyElements DEF MessageSound, PollRequest
  <2>3. QED BY <1>1, <2>1, <2>2
<1>4. CASE Reports
  <2>1. PICK r \in Busy, id \in FreeAttempts("report") :
          wire' = wire \cup {ReportRequest(r, id)} /\ answer' = answer
    BY <1>4 DEF Reports
  <2>2. HandedOut(r) /\ r \in Run
    BY <1>0 DEF WorkSound, ServerSound, SetsOK
  <2>3. HandedOut(r)'
    BY <1>0, <2>2, HandedOutStays
  <2>4. MessageSound(ReportRequest(r, id))'
    BY <2>3 DEF MessageSound, ReportRequest
  <2>5. QED BY <1>1, <2>1, <2>4
<1>5. CASE \E m \in wire : ClaimForPoll(m)
  <2>1. PICK m \in wire : ClaimForPoll(m)
    BY <1>5
  <2>2. PICK n \in PollMessage, r \in Run :
          /\ m \in PollMessage
          /\ Elements(n.got) = Elements(m.got) \cup {r} /\ HandedOut(r)'
          /\ wire' = (wire \ {m}) \cup {n} /\ answer' = answer
    BY <1>0, <2>1, ClaimedMessage
  <2>3. MessageSound(n)'
    BY <1>1, <2>1, <2>2, MessageKinds DEF MessageSound
  <2>4. QED BY <1>1, <2>2, <2>3
<1>6. QED BY <1>0, <1>2, <1>3, <1>4, <1>5 DEF NetMoves

LEMMA AnswersSettled ==
  ASSUME TypeOK, ServerSound, [Next]_vars, NEW x \in answer', x.kind = "report"
  PROVE  Settled(x.run)'
<1>0. NetOK /\ Server!TypeOK /\ NetMoves /\ ServerMoves
  BY TypeParts, NextNet, NextServer
<1>1. CASE x \in answer
  <2>1. x.run \in Run
    BY <1>0, <1>1 DEF NetOK, PollMessage, ReportMessage
  <2>2. QED BY <1>0, <1>1, <2>1, HandedOutStays DEF ServerSound
<1>2. CASE x \notin answer
  BY <1>0, <1>2, PollAsks DEF NetMoves, Quiet, Reports, Ended, ClaimForPoll
<1>3. QED BY <1>1, <1>2

LEMMA ServerSoundStays ==
  ASSUME TypeOK, WorkSound, ServerSound, [Next]_vars
  PROVE  ServerSound'
BY ReceivedHandedOut, MessagesStay, AnswersSettled DEF ServerSound, MessageSound

--------------------------------------------------------------------------------
(***************************************************************************)
(* The theorems.                                                           *)
(***************************************************************************)

DaemonSound == TypeOK /\ WorkSound /\ ServerSound /\ Identified

LEMMA InitSound ==
  ASSUME Init PROVE DaemonSound
<1>1. Server!TypeOK
  BY DEF Init, Server!TypeOK, Server!Status
<1>2. NetOK /\ ControlOK /\ ActiveOK /\ SetsOK
  BY DEF Init, NetOK, ControlOK, ActiveOK, SetsOK
<1>3. QueueOK /\ ReportOK
  BY DEF Init, QueueOK, ReportOK, ReportType, NoReport
<1>4. Busy = {} /\ Elements(queue) = {} /\ Distinct(queue)
  BY InFlightNone, EmptyElements DEF Init, Busy, Pending, NoReport
<1>5. InFlight(active) = {}
  BY InFlightNone DEF Init
<1>6. WorkSound
  BY <1>4, <1>5 DEF Init, WorkSound, OneRunOccupiesTheDaemon, SnapshotCoversActivity, Busy
<1>7. ServerSound /\ Identified
  BY DEF Init, ServerSound, Identified
<1>8. QED BY <1>1, <1>2, <1>3, <1>6, <1>7, TypeParts DEF DaemonSound

LEMMA SoundStays ==
  ASSUME DaemonSound, [Next]_vars PROVE DaemonSound'
<1>1. TypeOK /\ WorkSound /\ ServerSound /\ Identified
  BY DEF DaemonSound
<1>2. WorkSound' /\ QueueOK' /\ SetsOK' /\ ActiveOK' /\ ReportOK' /\ ControlOK'
  BY <1>1, WorkStays
<1>3. NetOK' /\ Identified' /\ ServerSound'
  BY <1>1, NetStays, IdentifiedStays, ServerSoundStays
<1>4. Server!TypeOK'
  BY <1>1, TypeParts, NextServer
<1>5. TypeOK'
  BY <1>2, <1>3, <1>4 DEF TypeOK, NetOK, ControlOK, QueueOK, ActiveOK, ReportOK, ReportType,
     SetsOK
<1>6. QED BY <1>2, <1>3, <1>5 DEF DaemonSound

\* What the daemon, its messages and the server know of each other fits together
\* after every step.
LEMMA AlwaysSound == Spec => []DaemonSound
<1>1. QED BY InitSound, SoundStays, PTL DEF Spec

--------------------------------------------------------------------------------

LEMMA WakeupInit == Init => NoLostWakeup
BY DEF Init, NoLostWakeup

LEMMA WakeupStays ==
  ASSUME TypeOK, NoLostWakeup, [Next]_vars
  PROVE  NoLostWakeup'
<1>1. NetOK /\ QueueOK /\ ActiveOK /\ ReportOK /\ ControlOK
  BY TypeParts
<1>2. WorkMoves /\ ControlMoves
  BY <1>1, NextWork, NextControl
<1> SUFFICES ASSUME queue' # <<>>, proc' # "exited"
             PROVE  ~fatal' /\ (~ExecutionIdle(active', report') \/ aborted')
  BY DEF NoLostWakeup
<1>3. proc # "exited" /\ (fatal' => fatal) /\ (aborted => aborted')
  BY <1>2 DEF ControlMoves
<1>4. queue # <<>> => ~fatal /\ (~ExecutionIdle(active, report) \/ aborted)
  BY <1>3 DEF NoLostWakeup
<1>5. CASE Held
  BY <1>3, <1>4, <1>5 DEF Held, QueueHeld, DropQueue, ExecutionIdle
<1>6. CASE \E r \in Run : Owed(r)
  BY <1>3, <1>4, <1>6 DEF Owed, QueueHeld, DropQueue, ExecutionIdle
<1>7. CASE Emptied
  BY <1>7 DEF Emptied
<1>8. CASE \E r \in Run : Released(r)
  <2>1. PICK p \in {None} \cup Pipeline : MaybeStartNext(queue, p, report')
    BY <1>8 DEF Released
  <2>2. \/ queue' = queue /\ InFlight(active') = InFlight(p)
           /\ (queue = <<>> \/ fatal \/ aborted \/ ~ExecutionIdle(p, report'))
        \/ queue # <<>> /\ InFlight(active') # {}
    BY <1>1, <2>1, StartType DEF QueueOK
  <2>3. QED BY <1>3, <1>4, <2>2 DEF ExecutionIdle
<1>9. CASE \E m \in answer : m.kind = "poll" /\ Delivered(m)
  <2>1. PICK m \in answer : m.kind = "poll" /\ Delivered(m)
    BY <1>9
  <2>2. m.got \in Seq(Run)
    BY <1>1, <2>1 DEF NetOK, PollMessage, ReportMessage
  <2> DEFINE backlog == queue \o Dispatched(m.got, known)
  <2>3. backlog \in Seq(Run)
    BY <1>1, <2>2, DispatchedNew, ElementsConcat DEF QueueOK
  <2>4. MaybeStartNext(backlog, active, report) /\ report' = report /\ ~fatal
    BY <2>1 DEF Delivered
  <2> HIDE DEF backlog
  <2>5. \/ queue' = backlog /\ InFlight(active') = InFlight(active)
           /\ (backlog = <<>> \/ fatal \/ aborted \/ ~ExecutionIdle(active, report))
        \/ InFlight(active') # {}
    BY <1>1, <2>3, <2>4, StartType DEF ActiveOK
  <2>6. QED BY <1>3, <2>4, <2>5 DEF ExecutionIdle
<1>10. QED BY <1>2, <1>5, <1>6, <1>7, <1>8, <1>9 DEF WorkMoves

\* Every run the daemon has is in its activity snapshot, and a run waits only
\* behind another one: each way out of maybeStartNext leaves the queue empty, the
\* daemon occupied, or a stop that empties the queue.
THEOREM WorkTracked == Spec => []WorkIsTracked
<1>1. DaemonSound /\ NoLostWakeup /\ [Next]_vars => NoLostWakeup'
  BY WakeupStays DEF DaemonSound
<1>2. DaemonSound /\ NoLostWakeup => WorkIsTracked
  BY DEF DaemonSound, WorkSound, WorkIsTracked
<1>3. QED BY <1>1, <1>2, AlwaysSound, WakeupInit, PTL DEF Spec

--------------------------------------------------------------------------------

LEMMA PollKept ==
  ASSUME [Next]_vars PROVE poll' \in {poll, None} \/ PollOnce
<1>1. CASE ServerStep \/ ServerElse \/ UNCHANGED vars
  BY <1>1 DEF ServerStep, ServerElse, ClaimForPoll, AnswerPoll, HandleReport, Lose, daemon, vars
<1>2. CASE \/ PollTransient \/ PollAnswered \/ PollFatal \/ Signal \/ LeaveLoop
           \/ DropBacklog \/ Join \/ Crash \/ Start \/ RunnerSettles \/ FinalSyncEnds
  BY <1>2 DEF PollTransient, PollAnswered, PollFatal, Signal, LeaveLoop, DropBacklog, Join,
     Crash, Start, RunnerSettles, FinalSyncEnds, Owe
<1>3. CASE \E r \in Run : \/ ReportUnanswered(r) \/ RetryReport(r) \/ ReportConfirmed(r)
                          \/ ReportFatal(r)
  BY <1>3 DEF ReportUnanswered, RetryReport, ReportConfirmed, ReportFatal
<1>4. QED BY <1>1, <1>2, <1>3 DEF Next, DaemonStep

\* An idle daemon without a backlog gets its next run from a poll.
LEMMA IdleStays ==
  ASSUME TypeOK, [Next]_vars, queue = <<>>, ExecutionIdle(active, report), poll' # None
  PROVE  queue' = <<>> /\ ExecutionIdle(active', report')
<1>1. WorkMoves
  BY TypeParts, NextWork
<1>2. CASE Held \/ Emptied
  BY <1>2 DEF Held, Emptied, QueueHeld, DropQueue, ExecutionIdle
<1>3. CASE \E r \in Run : Owed(r) \/ Released(r)
  BY <1>3 DEF Owed, Released, ExecutionIdle
<1>4. CASE \E m \in answer : m.kind = "poll" /\ Delivered(m)
  BY <1>4 DEF Delivered
<1>5. QED BY <1>1, <1>2, <1>3, <1>4 DEF WorkMoves

\* A request or answer of the poll in flight goes on from one of the same slots.
LEMMA PollGoesOn ==
  ASSUME TypeOK, ServerSound, [Next]_vars, ~PollOnce,
         NEW m \in wire' \cup answer', m.kind = "poll"
  PROVE  \E n \in wire \cup answer : n.kind = "poll" /\ n.id = m.id /\ n.slots = m.slots
<1>1. NetMoves /\ NetOK /\ Server!TypeOK
  BY NextNet, TypeParts
<1>2. CASE Quiet \/ \E x \in wire : Ended(x)
  BY <1>2 DEF Quiet, Ended
<1>3. CASE Reports
  BY <1>3 DEF Reports, ReportRequest
<1>4. CASE \E x \in wire : ClaimForPoll(x)
  <2>1. PICK x \in wire : ClaimForPoll(x)
    BY <1>4
  <2>2. PICK n \in PollMessage : /\ x \in PollMessage /\ n.id = x.id /\ n.slots = x.slots
                                 /\ wire' = (wire \ {x}) \cup {n} /\ answer' = answer
    BY <1>1, <2>1, ClaimedMessage
  <2>3. x.kind = "poll"
    BY <2>2, MessageKinds
  <2>4. QED BY <2>1, <2>2, <2>3
<1>5. QED BY <1>1, <1>2, <1>3, <1>4 DEF NetMoves

LEMMA SlotStays ==
  ASSUME TypeOK, WorkSound, ServerSound, Identified, AdvertisedSlotStaysFree, [Next]_vars
  PROVE  AdvertisedSlotStaysFree'
<1> SUFFICES ASSUME NEW m \in wire' \cup answer', m.kind = "poll", m.id = poll', m.slots = 1
             PROVE  queue' = <<>> /\ ExecutionIdle(active', report')
  BY DEF AdvertisedSlotStaysFree
<1>1. NetOK'
  BY NetStays
<1>2. poll' \in Attempt /\ poll' # None
  <2>1. m.id \in Attempt
    BY <1>1 DEF NetOK, PollMessage, ReportMessage
  <2>2. QED BY <2>1, NamesAssumption
<1>3. CASE PollOnce
  <2>1. PICK id \in FreeAttempts("poll"), slots \in {0, 1} :
           /\ poll' = id /\ wire' = wire \cup {PollRequest(id, slots)} /\ answer' = answer
           /\ slots = 1 => queue = <<>> /\ ExecutionIdle(active, report)
           /\ UNCHANGED <<queue, active, report, received>>
    BY <1>3, PollAsks
  <2>2. m \notin wire \cup answer
    BY <2>1 DEF FreeAttempts
  <2>3. m = PollRequest(id, slots)
    BY <2>1, <2>2
  <2>4. slots = 1
    BY <2>3 DEF PollRequest
  <2>5. QED BY <2>1, <2>4
<1>4. CASE ~PollOnce
  <2>1. PICK n \in wire \cup answer : n.kind = "poll" /\ n.id = m.id /\ n.slots = m.slots
    BY <1>4, PollGoesOn
  <2>2. poll' = poll
    BY <1>2, <1>4, PollKept
  <2>3. queue = <<>> /\ ExecutionIdle(active, report)
    BY <2>1, <2>2 DEF AdvertisedSlotStaysFree
  <2>4. QED BY <1>2, <2>3, IdleStays
<1>5. QED BY <1>3, <1>4

\* One run at a time occupies the daemon, an unconfirmed report of one included,
\* and the slot that a poll advertised is free until its answer comes, however
\* late requests and answers of given-up polls arrive.
THEOREM OneRunOnly == Spec => []OneRunAtATime
<1>1. Init => AdvertisedSlotStaysFree
  BY DEF Init, AdvertisedSlotStaysFree
<1>2. DaemonSound /\ AdvertisedSlotStaysFree /\ [Next]_vars => AdvertisedSlotStaysFree'
  BY SlotStays DEF DaemonSound
<1>3. DaemonSound /\ AdvertisedSlotStaysFree => OneRunAtATime
  BY DEF DaemonSound, WorkSound, OneRunAtATime
<1>4. QED BY <1>1, <1>2, <1>3, AlwaysSound, PTL DEF Spec

--------------------------------------------------------------------------------

\* Only a new process is alive again.
LEMMA AliveMoves ==
  ASSUME ControlOK, [Next]_vars, Alive' PROVE Alive \/ received' = {}
<1>1. CASE ServerStep \/ ServerElse \/ UNCHANGED vars
  BY <1>1 DEF ServerStep, ServerElse, ClaimForPoll, AnswerPoll, HandleReport, Lose, daemon, vars,
     Alive
<1>2. CASE \/ PollOnce \/ PollTransient \/ PollAnswered \/ PollFatal \/ Signal \/ LeaveLoop
           \/ DropBacklog \/ Join \/ Crash \/ Start
  BY <1>2 DEF PollOnce, PollTransient, PollAnswered, PollFatal, Signal, LeaveLoop, DropBacklog,
     Join, Crash, Start, Alive
<1>3. CASE RunnerSettles \/ FinalSyncEnds
  <2>1. CASE UNCHANGED <<proc, fatal, aborted>>
    BY <2>1 DEF Alive
  <2>2. CASE \E failed : Owe(active.run, failed)
    <3>1. PICK failed : Owe(active.run, failed)
      BY <2>2
    <3>2. fatal' = (fatal \/ failed) /\ proc' = proc /\ aborted' = aborted
      BY <3>1, Zenon DEF Owe
    <3>3. ~fatal' /\ proc' = "running" /\ ~aborted'
      BY Zenon DEF Alive
    <3>4. ~fatal
      BY <3>2, <3>3, Zenon
    <3>5. QED BY <3>2, <3>3, <3>4, Zenon DEF Alive
  <2>3. QED BY <1>3, <2>1, <2>2 DEF RunnerSettles, FinalSyncEnds
<1>4. CASE \E r \in Run : \/ ReportUnanswered(r) \/ RetryReport(r) \/ ReportConfirmed(r)
                          \/ ReportFatal(r)
  BY <1>4 DEF ReportUnanswered, RetryReport, ReportConfirmed, ReportFatal, Alive
<1>5. QED BY <1>1, <1>2, <1>3, <1>4 DEF Next, DaemonStep

\* A daemon that stays up stops tracking a run only when its report is answered.
LEMMA KnownKept ==
  ASSUME ControlOK, [Next]_vars, Alive', received' # {}
  PROVE  \/ known \subseteq known'
         \/ \E m \in answer : m.kind = "report" /\ known \ {m.run} \subseteq known'
<1>1. CASE \/ ServerStep \/ ServerElse \/ UNCHANGED vars
           \/ \E r \in Run : ReportUnanswered(r) \/ RetryReport(r)
  BY <1>1 DEF ServerStep, ServerElse, ClaimForPoll, AnswerPoll, HandleReport, Lose, daemon, vars,
     ReportUnanswered, RetryReport
<1>2. CASE PollOnce \/ PollTransient \/ PollAnswered \/ Signal \/ LeaveLoop \/ Join
  BY <1>2 DEF PollOnce, PollTransient, PollAnswered, Signal, LeaveLoop, Join
<1>3. CASE PollFatal \/ DropBacklog \/ Crash \/ Start \/ \E r \in Run : ReportFatal(r)
  BY <1>3 DEF PollFatal, DropBacklog, Crash, Start, ReportFatal, Alive
<1>4. CASE RunnerSettles \/ FinalSyncEnds
  <2>1. CASE UNCHANGED known
    BY <2>1
  <2>2. CASE \E failed : Owe(active.run, failed)
    BY <2>2 DEF Owe, Alive
  <2>3. QED BY <1>4, <2>1, <2>2 DEF RunnerSettles, FinalSyncEnds
<1>5. CASE \E r \in Run : ReportConfirmed(r)
  BY <1>5 DEF ReportConfirmed
<1>6. QED BY <1>1, <1>2, <1>3, <1>4, <1>5 DEF Next, DaemonStep

LEMMA NewRunsKnown ==
  ASSUME TypeOK, [Next]_vars, NEW r \in received', r \notin received
  PROVE  r \in known'
<1>1. WorkMoves
  BY TypeParts, NextWork
<1>2. QED BY <1>1 DEF WorkMoves, Held, Emptied, Owed, Released, Delivered

LEMMA ForgottenStays ==
  ASSUME TypeOK, WorkSound, ServerSound, NoRunIsForgotten, [Next]_vars
  PROVE  NoRunIsForgotten'
<1> SUFFICES ASSUME Alive', NEW r \in received', status'[r] \in {"working", "reclaimed"}
             PROVE  r \in known'
  BY DEF NoRunIsForgotten
<1>1. ControlOK /\ NetOK /\ SetsOK /\ Server!TypeOK
  BY TypeParts
<1>2. ServerMoves /\ Alive
  BY <1>1, NextServer, AliveMoves
<1>3. CASE r \notin received
  BY <1>3, NewRunsKnown
<1>4. CASE r \in received
  <2>1. HandedOut(r) /\ r \in Run
    BY <1>1, <1>4 DEF ServerSound, SetsOK
  <2>2. status[r] \in {"working", "reclaimed"}
    BY <1>2, <2>1 DEF ServerMoves
  <2>3. r \in known
    BY <1>2, <1>4, <2>2 DEF NoRunIsForgotten
  <2>4. ASSUME NEW m \in answer, m.kind = "report" PROVE m.run # r
    BY <2>2, <2>4 DEF ServerSound, Settled
  <2>5. QED BY <1>1, <2>3, <2>4, KnownKept
<1>5. QED BY <1>3, <1>4

\* A daemon that is up still tracks every run it was given that the server counts
\* on: it stops tracking one only for an answer to its report, and such an answer
\* is sent only when the run has come to its end.
THEOREM NothingForgotten == Spec => []NoRunIsForgotten
<1>1. Init => NoRunIsForgotten
  BY DEF Init, NoRunIsForgotten
<1>2. DaemonSound /\ NoRunIsForgotten /\ [Next]_vars => NoRunIsForgotten'
  BY ForgottenStays DEF DaemonSound
<1>3. QED BY <1>1, <1>2, AlwaysSound, PTL DEF Spec

================================================================================
