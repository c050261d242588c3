--------------------------- MODULE AgentInputOrder ---------------------------
(***************************************************************************)
(* The proof that AgentInput loses and reorders nothing it accepted        *)
(* (InputNeverLostOrReordered), from the invariants of AgentInputProofs:   *)
(* what is on its way to an endpoint is picked out of USB, the queue and   *)
(* the calls by ReportsFor, and each step only moves reports along it or   *)
(* merges motion (NextBacklog).                                            *)
(***************************************************************************)
EXTENDS AgentInputProofs, WellFoundedInduction

-----------------------------------------------------------------------------
(* The reports for one endpoint *)

\* A nonempty set of natural numbers has a least element.
LEMMA LeastElement ==
    ASSUME NEW T, T \subseteq Nat, T # {}
    PROVE  \E x \in T : \A y \in T : x <= y
  <1> USE Zenon
  <1> DEFINE R == OpToRel(<, Nat)
  <1>1. IsWellFoundedOn(R, Nat)
    BY NatLessThanWellFounded
  <1>2. \A x \in Nat, y \in Nat : y < x => <<y, x>> \in R
    BY DEF OpToRel
  <1> HIDE DEF R
  <1>3. PICK x \in T : \A y \in T : <<y, x>> \notin R
    BY <1>1, WFMin
  <1>4. ASSUME NEW y \in T PROVE x <= y
    <2> x \in Nat /\ y \in Nat
      OBVIOUS
    <2>2. ~(y < x)
      BY <1>2, <1>3
    <2> QED BY SMT, <2>2
  <1> QED BY <1>3, <1>4

\* A set of numbers up to n that holds 0 and the successor of each of its
\* members holds all of them.
LEMMA UpTo ==
    ASSUME NEW n \in Nat, NEW T, 0 \in T,
           \A k \in 1..n : k - 1 \in T => k \in T
    PROVE  \A k \in 0..n : k \in T
  <1> USE Zenon
  <1> DEFINE Out == {k \in 0..n : k \notin T}
  <1>1. SUFFICES ASSUME Out # {} PROVE FALSE
    OBVIOUS
  <1>2. PICK k \in Out : \A m \in Out : k <= m
    <2>1. Out \subseteq Nat
      BY SMT
    <2> HIDE DEF Out
    <2> QED BY <1>1, <2>1, LeastElement
  <1>3. k # 0 /\ k \in 0..n /\ k \notin T
    BY <1>2
  <1> k \in 1..n /\ k - 1 \in 0..n /\ ~(k <= k - 1)
    BY SMT, <1>3
  <1>5. k - 1 \in T
    BY <1>2
  <1> QED BY <1>3, <1>5

\* f[m] holds the reports for e among the first m calls of s.
Chooses(s, e, n, f) ==
    f = [m \in 0..n |-> IF m = 0 THEN <<>>
                        ELSE IF IsFor(s[m], e) THEN Append(f[m - 1], s[m])
                        ELSE f[m - 1]]

\* The reports for an endpoint can be picked out of any sequence of calls.
LEMMA ChoiceExists ==
    ASSUME NEW n \in Nat, NEW s, NEW e
    PROVE  \E f : Chooses(s, e, n, f)
  <1> USE Zenon
  <1> DEFINE T == {m \in 0..n : \E f : Chooses(s, e, m, f)}
  <1>1. 0 \in T
    <2> DEFINE f == [m \in 0..0 |-> <<>>]
    <2>1. Chooses(s, e, 0, f)
      <3>1. \A m \in 0..0 : m = 0
        BY SMT
      <3> QED BY <3>1 DEF Chooses
    <2>2. 0 \in 0..n
      BY SMT
    <2> QED BY <2>1, <2>2
  <1>2. ASSUME NEW m \in 1..n, m - 1 \in T PROVE m \in T
    <2>1. PICK f : Chooses(s, e, m - 1, f)
      BY <1>2
    <2> DEFINE last == IF IsFor(s[m], e) THEN Append(f[m - 1], s[m]) ELSE f[m - 1]
               g == [k \in 0..m |-> IF k = m THEN last ELSE f[k]]
    <2>2. \A k \in 0..(m - 1) :
              f[k] = IF k = 0 THEN <<>>
                     ELSE IF IsFor(s[k], e) THEN Append(f[k - 1], s[k])
                     ELSE f[k - 1]
      BY <2>1 DEF Chooses
    <2>3. ASSUME NEW k \in 0..m
          PROVE  g[k] = IF k = 0 THEN <<>>
                        ELSE IF IsFor(s[k], e) THEN Append(g[k - 1], s[k])
                        ELSE g[k - 1]
      <3>1. CASE k = m
        <4>1. g[m] = last /\ m # 0 /\ g[m - 1] = f[m - 1]
          BY SMT
        <4> QED BY <3>1, <4>1
      <3>2. CASE k # m
        <4>1. k \in 0..(m - 1) /\ g[k] = f[k]
          BY SMT, <3>2
        <4>2. k # 0 => g[k - 1] = f[k - 1]
          BY SMT, <3>2
        <4> QED BY <2>2, <4>1, <4>2
      <3> QED BY <3>1, <3>2
    <2>4. Chooses(s, e, m, g)
      <3>1. g = [k \in 0..m |-> g[k]]
        OBVIOUS
      <3> HIDE DEF g
      <3> QED BY <2>3, <3>1 DEF Chooses
    <2>5. m \in 0..n
      BY SMT
    <2> QED BY <2>4, <2>5
  <1>3. n \in 0..n
    BY SMT
  <1>4. n \in T
    <2> HIDE DEF T
    <2> QED BY <1>1, <1>2, <1>3, UpTo
  <1> QED BY <1>4

\* f[m] holds the reports for e among the first m calls, for every m.
Picks(s, e, f) ==
    /\ f[0] = <<>>
    /\ \A m \in 1..Len(s) : /\ IsFor(s[m], e) => f[m] = Append(f[m - 1], s[m])
                            /\ ~IsFor(s[m], e) => f[m] = f[m - 1]

\* ReportsFor goes through the calls one by one.
LEMMA ReportsForIs ==
    ASSUME NEW s, NEW e, Len(s) \in Nat
    PROVE  \E f : Picks(s, e, f) /\ ReportsFor(s, e) = f[Len(s)]
  <1> USE Zenon
  <1> DEFINE f == CHOOSE f : Chooses(s, e, Len(s), f)
  <1>1. Chooses(s, e, Len(s), f)
    BY ChoiceExists
  <1>2. ReportsFor(s, e) = f[Len(s)]
    BY DEF ReportsFor, Chooses
  <1> HIDE DEF f
  <1>3. \A m \in 0..Len(s) :
              f[m] = IF m = 0 THEN <<>>
                     ELSE IF IsFor(s[m], e) THEN Append(f[m - 1], s[m])
                     ELSE f[m - 1]
    BY <1>1 DEF Chooses
  <1>4. 0 \in 0..Len(s) /\ \A m \in 1..Len(s) : m \in 0..Len(s) /\ m # 0
    BY SMT
  <1>5. Picks(s, e, f)
    BY <1>3, <1>4 DEF Picks
  <1> QED BY <1>2, <1>5

\* No calls, no reports.
LEMMA ForNothing ==
    ASSUME NEW e
    PROVE  ReportsFor(<<>>, e) = <<>>
  <1> USE Zenon
  <1> Len(<<>>) = 0
    OBVIOUS
  <1>2. PICK f : Picks(<<>>, e, f) /\ ReportsFor(<<>>, e) = f[Len(<<>>)]
    BY ReportsForIs
  <1> QED BY <1>2 DEF Picks

\* What is picked out are calls of the sequence.
LEMMA ForType ==
    ASSUME NEW S, NEW s \in Seq(S), NEW e
    PROVE  ReportsFor(s, e) \in Seq(S)
  <1>1. Len(s) \in Nat /\ \A m \in 1..Len(s) : s[m] \in S
    OBVIOUS
  <1>2. PICK f : Picks(s, e, f) /\ ReportsFor(s, e) = f[Len(s)]
    BY Zenon, <1>1, ReportsForIs
  <1> DEFINE T == {m \in 0..Len(s) : f[m] \in Seq(S)}
  <1>3. 0 \in T
    <2>1. 0 \in 0..Len(s) /\ <<>> \in Seq(S)
      BY <1>1
    <2> QED BY Zenon, <1>2, <2>1 DEF Picks
  <1>4. ASSUME NEW m \in 1..Len(s), m - 1 \in T PROVE m \in T
    <2> f[m - 1] \in Seq(S) /\ m \in 0..Len(s) /\ s[m] \in S
      BY <1>1, <1>4
    <2>2. Append(f[m - 1], s[m]) \in Seq(S)
      OBVIOUS
    <2>3. f[m] \in Seq(S)
      BY Zenon, <1>2, <2>2 DEF Picks
    <2> QED BY Zenon, <2>3
  <1>5. Len(s) \in 0..Len(s)
    BY <1>1
  <1>6. Len(s) \in T
    <2> HIDE DEF T
    <2> QED BY Zenon, <1>1, <1>3, <1>4, <1>5, UpTo
  <1> QED BY Zenon, <1>2, <1>6

\* One more call: it comes last if it is a report for e.
LEMMA ForAppend ==
    ASSUME NEW S, NEW s \in Seq(S), NEW x \in S, NEW e
    PROVE  /\ IsFor(x, e) => ReportsFor(Append(s, x), e) = Append(ReportsFor(s, e), x)
           /\ ~IsFor(x, e) => ReportsFor(Append(s, x), e) = ReportsFor(s, e)
  <1> USE Zenon
  <1> DEFINE t == Append(s, x)
  <1>1. /\ Len(s) \in Nat /\ Len(t) \in Nat /\ Len(t) = Len(s) + 1 /\ Len(t) - 1 = Len(s)
        /\ Len(t) \in 1..Len(t) /\ t[Len(t)] = x
        /\ \A m \in 1..Len(s) : t[m] = s[m] /\ m \in 1..Len(t)
    BY SMT
  <1> HIDE DEF t
  <1>2. PICK f : Picks(s, e, f) /\ ReportsFor(s, e) = f[Len(s)]
    BY <1>1, ReportsForIs
  <1>3. PICK g : Picks(t, e, g) /\ ReportsFor(t, e) = g[Len(t)]
    BY <1>1, ReportsForIs
  <1> DEFINE T == {m \in 0..Len(s) : f[m] = g[m]}
  <1>4. 0 \in T
    <2>1. 0 \in 0..Len(s)
      BY SMT, <1>1
    <2> QED BY <1>2, <1>3, <2>1 DEF Picks
  <1>5. ASSUME NEW m \in 1..Len(s), m - 1 \in T PROVE m \in T
    <2> f[m - 1] = g[m - 1] /\ m \in 0..Len(s) /\ t[m] = s[m] /\ m \in 1..Len(t)
      BY SMT, <1>1, <1>5
    <2>2. f[m] = g[m]
      BY <1>2, <1>3 DEF Picks
    <2> QED BY <2>2
  <1>6. Len(s) \in 0..Len(s)
    BY SMT, <1>1
  <1>7. Len(s) \in T
    <2> HIDE DEF T
    <2> QED BY <1>1, <1>4, <1>5, <1>6, UpTo
  <1>8. g[Len(t) - 1] = ReportsFor(s, e)
    BY <1>1, <1>2, <1>7
  <1>9. /\ IsFor(x, e) => g[Len(t)] = Append(ReportsFor(s, e), x)
        /\ ~IsFor(x, e) => g[Len(t)] = ReportsFor(s, e)
    BY <1>1, <1>3, <1>8 DEF Picks
  <1> QED BY <1>3, <1>9 DEF t

\* Appending to a concatenation.
AppendsToSecond(S) ==
    \A s \in Seq(S), t \in Seq(S), x \in S : Append(s \o t, x) = s \o Append(t, x)

LEMMA AppendToJoined ==
    ASSUME NEW S
    PROVE  AppendsToSecond(S)
  BY DEF AppendsToSecond

\* The first call: it comes first if it is a report for e.
LEMMA ForHead ==
    ASSUME NEW S, NEW s \in Seq(S), s # <<>>, NEW e
    PROVE  /\ IsFor(Head(s), e) =>
                ReportsFor(s, e) = <<Head(s)>> \o ReportsFor(Tail(s), e)
           /\ ~IsFor(Head(s), e) => ReportsFor(s, e) = ReportsFor(Tail(s), e)
  <1> USE Zenon
  <1> DEFINE t == Tail(s)
             x == Head(s)
             front == IF IsFor(x, e) THEN <<x>> ELSE <<>>
  <1>1. /\ Len(s) \in Nat /\ Len(t) \in Nat /\ Len(s) = Len(t) + 1 /\ t \in Seq(S)
        /\ 1 \in 1..Len(s) /\ s[1] = x /\ x \in S /\ 1 - 1 = 0
        /\ \A m \in 1..Len(t) : t[m] = s[m + 1] /\ m + 1 \in 1..Len(s) /\ (m + 1) - 1 = m
        /\ \A m \in 1..Len(t) : (m - 1) + 1 = m
    <2>1. /\ Len(s) \in Nat /\ Len(t) \in Nat /\ Len(s) = Len(t) + 1 /\ t \in Seq(S)
          /\ 1 \in 1..Len(s) /\ s[1] = x /\ x \in S
          /\ \A m \in 1..Len(t) : t[m] = s[m + 1]
      BY SMT
    <2> HIDE DEF t, x
    <2> QED BY SMT, <2>1
  <1>2. PICK f : Picks(s, e, f) /\ ReportsFor(s, e) = f[Len(s)]
    BY <1>1, ReportsForIs
  <1>3. PICK g : Picks(t, e, g) /\ ReportsFor(t, e) = g[Len(t)]
    BY <1>1, ReportsForIs
  <1>a. front \in Seq(S)
    BY SMT, <1>1
  <1>b. AppendsToSecond(S)
    BY AppendToJoined
  <1> HIDE DEF t, x
  <1> DEFINE T == {m \in 0..Len(t) : g[m] \in Seq(S) /\ f[m + 1] = front \o g[m]}
  <1>4. 0 \in T
    <2>1. f[0] = <<>> /\ g[0] = <<>>
      BY <1>2, <1>3 DEF Picks
    <2>2. f[1] = front
      <3>1. /\ IsFor(x, e) => f[1] = Append(<<>>, x)
            /\ ~IsFor(x, e) => f[1] = <<>>
        BY <1>1, <1>2, <2>1 DEF Picks
      <3>2. Append(<<>>, x) = <<x>>
        BY SMT, <1>1
      <3> QED BY <3>1, <3>2
    <2>3. front \o <<>> = front /\ 0 + 1 = 1 /\ 0 \in 0..Len(t) /\ <<>> \in Seq(S)
      <3> HIDE DEF front
      <3> QED BY SMT, <1>1, <1>a
    <2> QED BY <2>1, <2>2, <2>3
  <1>5. ASSUME NEW m \in 1..Len(t), m - 1 \in T PROVE m \in T
    <2>a. /\ m \in 0..Len(t) /\ t[m] = s[m + 1] /\ m + 1 \in 1..Len(s)
          /\ (m + 1) - 1 = m /\ (m - 1) + 1 = m /\ t[m] \in S
      BY SMT, <1>1
    <2>1. /\ g[m - 1] \in Seq(S) /\ f[m] = front \o g[m - 1]
          /\ t[m] = s[m + 1] /\ m + 1 \in 1..Len(s) /\ (m + 1) - 1 = m /\ t[m] \in S
      BY <1>5, <2>a
    <2>2. /\ IsFor(t[m], e) => f[m + 1] = Append(f[m], t[m]) /\ g[m] = Append(g[m - 1], t[m])
          /\ ~IsFor(t[m], e) => f[m + 1] = f[m] /\ g[m] = g[m - 1]
      BY <1>2, <1>3, <2>1 DEF Picks
    <2>3. Append(front \o g[m - 1], t[m]) = front \o Append(g[m - 1], t[m])
      <3> HIDE DEF front
      <3> QED BY <1>a, <1>b, <2>1 DEF AppendsToSecond
    <2>4. Append(g[m - 1], t[m]) \in Seq(S)
      BY SMT, <2>1
    <2>5. g[m] \in Seq(S) /\ f[m + 1] = front \o g[m]
      BY <2>1, <2>2, <2>3, <2>4
    <2> QED BY <2>a, <2>5
  <1>6. Len(t) \in 0..Len(t)
    BY SMT, <1>1
  <1>7. Len(t) \in T
    <2> HIDE DEF T
    <2> QED BY <1>1, <1>4, <1>5, <1>6, UpTo
  <1> f[Len(s)] = front \o g[Len(t)] /\ g[Len(t)] \in Seq(S)
    BY <1>1, <1>7
  <1>9. <<>> \o g[Len(t)] = g[Len(t)]
    BY SMT
  <1> QED BY <1>2, <1>3, <1>9 DEF t, x

-----------------------------------------------------------------------------
(* What a step does to the backlog of an endpoint *)

\* Three sequences one after the other.
Joins(a, p, q, t) ==
    /\ Len(a) = Len(p) + Len(q) + Len(t)
    /\ \A i \in 1..Len(p) : a[i] = p[i]
    /\ \A i \in 1..Len(q) : a[Len(p) + i] = q[i]
    /\ \A i \in 1..Len(t) : a[Len(p) + Len(q) + i] = t[i]

LEMMA Joined ==
    ASSUME NEW S, NEW p \in Seq(S), NEW q \in Seq(S), NEW t \in Seq(S)
    PROVE  p \o q \o t \in Seq(S) /\ Joins(p \o q \o t, p, q, t)
  <1>1. /\ p \o q \in Seq(S) /\ Len(p \o q) = Len(p) + Len(q)
        /\ \A i \in 1..Len(p) : (p \o q)[i] = p[i]
        /\ \A i \in 1..Len(q) : (p \o q)[Len(p) + i] = q[i]
    BY Concatenation
  <1>2. ASSUME NEW a \in Seq(S), a = p \o q
        PROVE  /\ a \o t \in Seq(S) /\ Len(a \o t) = Len(a) + Len(t)
               /\ \A i \in 1..Len(a) : (a \o t)[i] = a[i]
               /\ \A i \in 1..Len(t) : (a \o t)[Len(a) + i] = t[i]
    BY Concatenation
  <1> DEFINE a == p \o q
  <1>3. /\ a \o t \in Seq(S) /\ Len(a \o t) = Len(a) + Len(t) /\ Len(a) = Len(p) + Len(q)
        /\ \A i \in 1..Len(a) : (a \o t)[i] = a[i]
        /\ \A i \in 1..Len(t) : (a \o t)[Len(a) + i] = t[i]
        /\ \A i \in 1..Len(p) : a[i] = p[i]
        /\ \A i \in 1..Len(q) : a[Len(p) + i] = q[i]
    BY Zenon, <1>1, <1>2
  <1>4. Len(p) \in Nat /\ Len(q) \in Nat
    OBVIOUS
  <1> HIDE DEF a
  <1>5. /\ \A i \in 1..Len(p) : i \in 1..Len(a)
        /\ \A i \in 1..Len(q) : Len(p) + i \in 1..Len(a)
    BY <1>3, <1>4
  <1>6. /\ a \o t \in Seq(S) /\ Len(a \o t) = Len(p) + Len(q) + Len(t)
        /\ \A i \in 1..Len(p) : (a \o t)[i] = p[i]
        /\ \A i \in 1..Len(q) : (a \o t)[Len(p) + i] = q[i]
        /\ \A i \in 1..Len(t) : (a \o t)[Len(p) + Len(q) + i] = t[i]
    BY Zenon, <1>3, <1>5
  <1> QED BY Zenon, <1>6 DEF a, Joins

\* Concatenation is associative.
LEMMA Associates ==
    ASSUME NEW S, NEW p \in Seq(S), NEW q \in Seq(S), NEW t \in Seq(S)
    PROVE  (p \o q) \o t = p \o (q \o t)
  OBVIOUS

\* A report goes from the calls to the end of the queue.
QueuedSame(p, q, t, x) == p \o q \o (<<x>> \o t) = p \o Append(q, x) \o t

LEMMA QueuedNext ==
    ASSUME NEW S, NEW p \in Seq(S), NEW q \in Seq(S), NEW t \in Seq(S), NEW x \in S
    PROVE  QueuedSame(p, q, t, x)
  <1>1. <<x>> \in Seq(S)
    OBVIOUS
  <1>2. Append(q, x) = q \o <<x>>
    OBVIOUS
  <1> DEFINE a == p \o q
  <1>3. a \in Seq(S)
    OBVIOUS
  <1>4. a \o <<x>> = p \o (q \o <<x>>)
    BY SMTT(30), <1>1
  <1> HIDE DEF a
  <1>5. a \o (<<x>> \o t) = (a \o <<x>>) \o t
    BY SMTT(30), <1>1, <1>3
  <1> QED BY Zenon, <1>2, <1>4, <1>5 DEF QueuedSame, a

\* A report goes from the head of the queue to USB.
LEMMA SubmittedNext ==
    ASSUME NEW S, NEW q \in Seq(S), NEW t \in Seq(S), NEW x \in S
    PROVE  <<>> \o (<<x>> \o q) \o t = <<x>> \o q \o t
  OBVIOUS

\* A report goes from the calls to USB.
LEMMA WrittenNext ==
    ASSUME NEW S, NEW t \in Seq(S), NEW x \in S
    PROVE  <<>> \o <<>> \o (<<x>> \o t) = <<x>> \o <<>> \o t
  OBVIOUS

\* The host takes the report USB has.
LEMMA TakenNext ==
    ASSUME NEW S, NEW q \in Seq(S), NEW t \in Seq(S), NEW x \in S
    PROVE  /\ Head(<<x>> \o q \o t) = x
           /\ Tail(<<x>> \o q \o t) = <<>> \o q \o t
           /\ Len(<<x>> \o q \o t) = Len(<<>> \o q \o t) + 1
  OBVIOUS

\* Nothing changes, or calls are added after the last one.
LEMMA ExtendsItself ==
    ASSUME NEW S, NEW s \in Seq(S)
    PROVE  Extends(s, s)
  BY DEF Extends, SamePayload

LEMMA ExtendsLonger ==
    ASSUME NEW S, NEW p \in Seq(S), NEW q \in Seq(S), NEW t \in Seq(S)
    PROVE  Extends(p \o q \o <<>>, p \o q \o t)
  <1>1. p \o q \in Seq(S)
    OBVIOUS
  <1> DEFINE a == p \o q
  <1> HIDE DEF a
  <1> ASSUME a \in Seq(S) PROVE Extends(a \o <<>>, a \o t)
    BY DEF Extends, SamePayload
  <1> QED BY Zenon, <1>1 DEF a

\* The paste of a queued report is done: its payload stays.
LEMMA ExtendsPasted ==
    ASSUME NEW S, NEW p \in Seq(S), NEW q \in Seq(S), NEW t \in Seq(S),
           NEW x \in S, NEW y \in S, SamePayload(x, y)
    PROVE  Extends(p \o (<<x>> \o q) \o t, p \o (<<y>> \o q) \o t)
  <1> USE Zenon
  <1> DEFINE u == <<x>> \o q
             v == <<y>> \o q
  <1>1. /\ u \in Seq(S) /\ v \in Seq(S) /\ Len(u) = Len(v) /\ u[1] = x /\ v[1] = y
        /\ \A i \in 1..Len(u) : i # 1 => u[i] = v[i]
    BY SMT
  <1> HIDE DEF u, v
  <1>2. \A i \in 1..Len(u) : SamePayload(u[i], v[i])
    BY <1>1 DEF SamePayload
  <1> DEFINE a == p \o u \o t
             b == p \o v \o t
  <1>a. a \in Seq(S) /\ Joins(a, p, u, t) /\ b \in Seq(S) /\ Joins(b, p, v, t)
    BY <1>1, Joined
  <1> HIDE DEF a, b
  <1>3. /\ a \in Seq(S) /\ Len(a) = Len(p) + Len(u) + Len(t)
        /\ \A i \in 1..Len(p) : a[i] = p[i]
        /\ \A i \in 1..Len(u) : a[Len(p) + i] = u[i]
        /\ \A i \in 1..Len(t) : a[Len(p) + Len(u) + i] = t[i]
    BY <1>a DEF Joins
  <1>4. /\ b \in Seq(S) /\ Len(b) = Len(p) + Len(u) + Len(t)
        /\ \A i \in 1..Len(p) : b[i] = p[i]
        /\ \A i \in 1..Len(u) : b[Len(p) + i] = v[i]
        /\ \A i \in 1..Len(t) : b[Len(p) + Len(u) + i] = t[i]
    BY <1>1, <1>a DEF Joins
  <1>5. Len(p) \in Nat /\ Len(u) \in Nat /\ Len(t) \in Nat /\ DOMAIN a = 1..Len(a)
    BY SMT, <1>1, <1>3
  <1>6. ASSUME NEW i \in 1..Len(a) PROVE SamePayload(a[i], b[i])
    <2>1. CASE i \in 1..Len(p)
      BY <1>3, <1>4, <2>1 DEF SamePayload
    <2>2. CASE i - Len(p) \in 1..Len(u)
      <3>1. Len(p) + (i - Len(p)) = i
        BY SMT, <1>3, <1>5
      <3> QED BY ZenonT(30), <1>2, <1>3, <1>4, <2>2, <3>1
    <2>3. CASE i - (Len(p) + Len(u)) \in 1..Len(t)
      <3>1. Len(p) + Len(u) + (i - (Len(p) + Len(u))) = i
        BY SMT, <1>3, <1>5
      <3> QED BY <1>3, <1>4, <2>3, <3>1 DEF SamePayload
    <2> QED BY SMT, <1>3, <1>5, <2>1, <2>2, <2>3
  <1>7. Len(b) >= Len(a)
    BY SMT, <1>3, <1>4, <1>5
  <1>8. Extends(a, b)
    BY <1>5, <1>6, <1>7 DEF Extends
  <1> QED BY <1>8 DEF a, b, u, v

\* Motion takes the place of the motion queued last.
LEMMA MergedNext ==
    ASSUME NEW S, NEW p \in Seq(S), NEW q \in Seq(S), NEW t \in Seq(S),
           NEW x \in S, NEW y \in S, x.motion, y.motion, x.held = y.held
    PROVE  MergesMotion(p \o Append(q, x) \o (<<y>> \o t), p \o Append(q, y) \o t)
  <1> USE Zenon
  <1> DEFINE u == Append(q, x)
             v == Append(q, y)
             w == <<y>> \o t
             a == p \o u \o w
             b == p \o v \o t
             n == Len(p) + Len(q)
  <1>1. /\ u \in Seq(S) /\ v \in Seq(S) /\ w \in Seq(S)
        /\ Len(q) \in Nat /\ Len(t) \in Nat /\ Len(p) \in Nat
        /\ Len(u) = Len(q) + 1 /\ Len(v) = Len(q) + 1 /\ Len(w) = Len(t) + 1
        /\ \A i \in 1..Len(q) : u[i] = q[i] /\ v[i] = q[i]
        /\ u[Len(q) + 1] = x /\ v[Len(q) + 1] = y
        /\ w[1] = y /\ \A i \in 1..Len(t) : w[i + 1] = t[i]
    BY SMT
  <1> HIDE DEF u, v, w
  <1>a. a \in Seq(S) /\ Joins(a, p, u, w) /\ b \in Seq(S) /\ Joins(b, p, v, t)
    BY <1>1, Joined
  <1> HIDE DEF a, b
  <1>2. /\ a \in Seq(S) /\ Len(a) = Len(p) + Len(u) + Len(w)
        /\ \A i \in 1..Len(p) : a[i] = p[i]
        /\ \A i \in 1..Len(u) : a[Len(p) + i] = u[i]
        /\ \A i \in 1..Len(w) : a[Len(p) + Len(u) + i] = w[i]
    BY <1>a DEF Joins
  <1>3. /\ b \in Seq(S) /\ Len(b) = Len(p) + Len(v) + Len(t)
        /\ \A i \in 1..Len(p) : b[i] = p[i]
        /\ \A i \in 1..Len(v) : b[Len(p) + i] = v[i]
        /\ \A i \in 1..Len(t) : b[Len(p) + Len(v) + i] = t[i]
    BY <1>a DEF Joins
  <1>4. /\ Len(a) = Len(b) + 1 /\ DOMAIN b = 1..Len(b) /\ Len(b) = n + 1 + Len(t)
        /\ n + 1 \in 1..Len(b) /\ n \in Nat
    BY SMT, <1>1, <1>2, <1>3
  <1>5. a[n + 1] = x /\ a[n + 2] = y /\ b[n + 1] = y
    <2>1. Len(q) + 1 \in 1..Len(u) /\ Len(q) + 1 \in 1..Len(v) /\ 1 \in 1..Len(w)
      BY SMT, <1>1
    <2>2. Len(p) + (Len(q) + 1) = n + 1 /\ Len(p) + Len(u) + 1 = n + 2
      BY SMT, <1>1
    <2>3. /\ a[Len(p) + (Len(q) + 1)] = u[Len(q) + 1]
          /\ b[Len(p) + (Len(q) + 1)] = v[Len(q) + 1]
          /\ a[Len(p) + Len(u) + 1] = w[1]
      BY <1>2, <1>3, <2>1
    <2> QED BY <1>1, <2>2, <2>3
  <1>6. ASSUME NEW j \in 1..Len(b)
        PROVE  b[j] = IF j < n + 1 THEN a[j] ELSE a[j + 1]
    <2>1. CASE j \in 1..Len(p)
      <3>1. j < n + 1
        BY SMT, <1>1, <2>1
      <3> QED BY <1>2, <1>3, <2>1, <3>1
    <2>2. CASE j - Len(p) \in 1..Len(q)
      <3>1. Len(p) + (j - Len(p)) = j /\ j < n + 1
        BY SMT, <1>1, <2>2
      <3>2. j - Len(p) \in 1..Len(u) /\ j - Len(p) \in 1..Len(v)
        BY SMT, <1>1, <2>2
      <3> DEFINE k == j - Len(p)
      <3> k \in 1..Len(q) /\ k \in 1..Len(u) /\ k \in 1..Len(v) /\ Len(p) + k = j
        BY <2>2, <3>1, <3>2
      <3> HIDE DEF k
      <3>4. a[Len(p) + k] = u[k] /\ b[Len(p) + k] = v[k] /\ u[k] = q[k] /\ v[k] = q[k]
        BY <1>1, <1>2, <1>3
      <3> QED BY <3>1, <3>4
    <2>3. CASE j = n + 1
      <3>1. (n + 1) + 1 = n + 2 /\ ~(n + 1 < n + 1)
        BY SMT, <1>4
      <3> QED BY <1>5, <2>3, <3>1
    <2>4. CASE j - (n + 1) \in 1..Len(t)
      <3> DEFINE k == j - (n + 1)
      <3>1. /\ Len(p) + Len(v) + k = j /\ Len(p) + Len(u) + (k + 1) = j + 1 /\ ~(j < n + 1)
            /\ k + 1 \in 1..Len(w)
        BY SMT, <1>1, <2>4
      <3> HIDE DEF k
      <3>2. k \in 1..Len(t)
        BY <2>4 DEF k
      <3>3. b[Len(p) + Len(v) + k] = t[k] /\ a[Len(p) + Len(u) + (k + 1)] = w[k + 1]
        BY <1>2, <1>3, <3>1, <3>2
      <3>4. w[k + 1] = t[k]
        BY <1>1, <3>2
      <3> QED BY <3>1, <3>3, <3>4
    <2> QED BY SMT, <1>1, <1>4, <2>1, <2>2, <2>3, <2>4
  <1>7. (n + 1) + 1 = n + 2
    BY SMT, <1>4
  <1>8. MergesMotion(a, b)
    <2> HIDE DEF n
    <2>1. \A j \in 1..Len(b) : SamePayload(b[j], IF j < n + 1 THEN a[j] ELSE a[j + 1])
      BY <1>6 DEF SamePayload
    <2>2. a[n + 1].motion /\ a[(n + 1) + 1].motion /\ a[n + 1].held = a[(n + 1) + 1].held
      BY <1>5, <1>7
    <2> QED BY <1>4, <2>1, <2>2 DEF MergesMotion
  <1> QED BY <1>8 DEF a, b, u, v, w

\* What InputNeverLostOrReordered says of one step and one endpoint.
InOrder(e) ==
    \/ Cancelling
    \/ failed'
    \/ host'[e] = Gone
    \/ Advances(Backlog(e), Backlog(e)', host'[e])

Items == Calls \cup {NoReport}

\* The three parts of a backlog.
LEMMA BacklogParts ==
    ASSUME TypeOK, NEW e \in Endpoint
    PROVE  /\ ReportsFor(<<pending[e]>>, e) \in Seq(Items)
           /\ ReportsFor(reports[QueueOf(e)], e) \in Seq(Items)
           /\ ReportsFor(todo, e) \in Seq(Items)
           /\ Backlog(e) \in Seq(Items)
  <1> USE Zenon
  <1>1. Report \subseteq Items /\ Calls \subseteq Items
    BY CallsInclude DEF Items
  <1>2. /\ pending[e] \in Items /\ QueueOf(e) \in Queue
        /\ reports[QueueOf(e)] \in Seq(Report) /\ todo \in Seq(Calls)
    <2>1. QueueOf(e) \in Queue
      BY DEF QueueOf, Queue
    <2>2. pending[e] \in Report \cup {NoReport}
      BY DEF TypeOK, UsbTypes
    <2>3. reports[QueueOf(e)] \in Seq(Report) /\ todo \in Seq(Calls)
      BY <2>1 DEF TypeOK, QueueTypes, CallTypes
    <2> QED BY <1>1, <2>1, <2>2, <2>3 DEF Items
  <1>3. /\ <<pending[e]>> \in Seq(Items) /\ reports[QueueOf(e)] \in Seq(Items)
        /\ todo \in Seq(Items)
    BY SMT, <1>1, <1>2
  <1> /\ ReportsFor(<<pending[e]>>, e) \in Seq(Items)
      /\ ReportsFor(reports[QueueOf(e)], e) \in Seq(Items)
      /\ ReportsFor(todo, e) \in Seq(Items)
    BY <1>3, ForType
  <1>5. Backlog(e) \in Seq(Items)
    BY Joined DEF Backlog
  <1> QED BY <1>5

\* USB holds one report for the endpoint, or none.
LEMMA PendingPart ==
    ASSUME NEW x, NEW e
    PROVE  /\ IsFor(x, e) => ReportsFor(<<x>>, e) = <<x>>
           /\ ~IsFor(x, e) => ReportsFor(<<x>>, e) = <<>>
           /\ ~IsFor(NoReport, e)
  <1> USE Zenon
  <1>1. <<>> \in Seq({x}) /\ x \in {x} /\ Append(<<>>, x) = <<x>>
    BY SMT
  <1>2. /\ IsFor(x, e) => ReportsFor(Append(<<>>, x), e) = Append(ReportsFor(<<>>, e), x)
        /\ ~IsFor(x, e) => ReportsFor(Append(<<>>, x), e) = ReportsFor(<<>>, e)
    BY <1>1, ForAppend
  <1>3. ReportsFor(<<>>, e) = <<>>
    BY ForNothing
  <1>4. ~IsFor(NoReport, e)
    BY DEF IsFor, NoReport
  <1> QED BY <1>1, <1>2, <1>3, <1>4

\* A step that leaves the backlog of e alone.
LEMMA SameBacklog ==
    ASSUME TypeOK, NEW e \in Endpoint, Backlog(e)' = Backlog(e)
    PROVE  InOrder(e)
  <1> USE Zenon
  <1>1. Backlog(e) \in Seq(Items)
    BY BacklogParts
  <1>2. Extends(Backlog(e), Backlog(e))
    BY <1>1, ExtendsItself
  <1> QED BY <1>2 DEF InOrder, Advances

\* A step that leaves the calls, the queue and USB alone.
LEMMA SameParts ==
    ASSUME TypeOK, NEW e \in Endpoint, todo' = todo, pending'[e] = pending[e],
           reports'[QueueOf(e)] = reports[QueueOf(e)]
    PROVE  InOrder(e)
  <1> USE Zenon
  <1>1. Backlog(e)' = Backlog(e)
    BY DEF Backlog
  <1> QED BY <1>1, SameBacklog

\* A handler is entered: what it will report comes after everything else.
LEMMA EnterBacklog ==
    ASSUME TypeOK, TypeOK', Idle, reports' = reports, pending' = pending,
           NEW e \in Endpoint
    PROVE  InOrder(e)
  <1> USE Zenon
  <1>1. ReportsFor(todo, e) = <<>>
    BY ForNothing DEF Idle
  <1>2. /\ ReportsFor(<<pending[e]>>, e) \in Seq(Items)
        /\ ReportsFor(reports[QueueOf(e)], e) \in Seq(Items)
    BY BacklogParts
  <1>3. ReportsFor(todo, e)' \in Seq(Items)
    <2>1. (todo \in Seq(Calls))'
      BY DEF TypeOK, CallTypes
    <2>2. Calls \subseteq Items
      BY DEF Items
    <2>3. todo' \in Seq(Items)
      BY SMT, <2>1, <2>2
    <2> QED BY <2>3, ForType
  <1>4. Extends(Backlog(e), Backlog(e)')
    BY <1>1, <1>2, <1>3, ExtendsLonger DEF Backlog
  <1> QED BY <1>4 DEF InOrder, Advances

\* A false result is passed over, remembered or answered by hid_release_all.
LEMMA ReturnFalseCancels ==
    ASSUME TypeOK, NEW rest, ReturnFalse(rest)
    PROVE  /\ todo' = rest \/ Cancelling
           /\ space # "flushing" /\ ~Cancelling => onfail = "ignore" \/ failed'
  <1> USE Zenon
  <1>1. CASE space = "flushing" \/ onfail \in {"ignore", "defer"}
    BY <1>1 DEF ReturnFalse
  <1>2. CASE ~(space = "flushing" \/ onfail \in {"ignore", "defer"})
    <2>1. todo' = ReleaseCalls \/ todo' = ReleaseCalls \o ReleaseCalls
      BY <1>2 DEF ReturnFalse
    <2>2. /\ ReleaseCalls # <<>> /\ Head(ReleaseCalls) = Cancel
          /\ ReleaseCalls \o ReleaseCalls # <<>> /\ Head(ReleaseCalls \o ReleaseCalls) = Cancel
      BY SMT DEF ReleaseCalls, NeutralReports
    <2>3. Cancel.op = "cancel"
      BY DEF Cancel
    <2>4. Cancelling
      BY <2>1, <2>2, <2>3 DEF Cancelling
    <2> QED BY <2>4
  <1> QED BY <1>1, <1>2

\* The calls of a handler that is not idle: the first one and the others.
LEMMA FirstCall ==
    ASSUME TypeOK, todo # <<>>, NEW e \in Endpoint
    PROVE  /\ ReportsFor(Tail(todo), e) \in Seq(Items)
           /\ IsFor(Head(todo), e) =>
                ReportsFor(todo, e) = <<Head(todo)>> \o ReportsFor(Tail(todo), e)
           /\ ~IsFor(Head(todo), e) => ReportsFor(todo, e) = ReportsFor(Tail(todo), e)
           /\ Head(todo) \in Items
  <1>1. todo \in Seq(Calls)
    BY Zenon DEF TypeOK, CallTypes
  <1>2. Calls \subseteq Items
    BY Zenon DEF Items
  <1> todo \in Seq(Items)
    BY <1>1, <1>2
  <1>4. Tail(todo) \in Seq(Items) /\ Head(todo) \in Items
    OBVIOUS
  <1> QED BY Zenon, <1>4, ForType, ForHead

\* A call that is no report is done.
LEMMA SkipBacklog ==
    ASSUME TypeOK, todo # <<>>, Head(todo).op # "report", todo' = Tail(todo),
           reports' = reports, pending' = pending, NEW e \in Endpoint
    PROVE  InOrder(e)
  <1> USE Zenon
  <1>1. ~IsFor(Head(todo), e)
    BY DEF IsFor
  <1>2. ReportsFor(todo, e)' = ReportsFor(todo, e)
    BY <1>1, FirstCall
  <1>3. Backlog(e)' = Backlog(e)
    BY <1>2 DEF Backlog
  <1> QED BY <1>3, SameBacklog

\* The calls other than reports.
LEMMA OtherCallsBacklog ==
    ASSUME TypeOK, StartFlush \/ CancelQueues \/ CallFails, NEW e \in Endpoint
    PROVE  InOrder(e)
  <1> USE Zenon
  <1>1. CASE StartFlush
    <2>1. /\ todo # <<>> /\ Head(todo).op # "report" /\ todo' = Tail(todo)
          /\ reports' = reports /\ pending' = pending
      BY <1>1 DEF StartFlush, CallIs, queueVars, usbVars
    <2> QED BY <2>1, SkipBacklog
  <1>2. CASE CancelQueues
    BY <1>2 DEF CancelQueues, Cancelling, InOrder
  <1>3. CASE CallFails
    <2>1. /\ todo # <<>> /\ Head(todo).op # "report" /\ ReturnFalse(Tail(todo))
          /\ reports' = reports /\ pending' = pending
      BY <1>3 DEF CallFails, CallIs, queueVars, usbVars
    <2>2. todo' = Tail(todo) \/ Cancelling
      BY <2>1, ReturnFalseCancels
    <2>3. todo' = Tail(todo) => InOrder(e)
      BY <2>1, SkipBacklog
    <2> QED BY <2>2, <2>3 DEF InOrder
  <1> QED BY <1>1, <1>2, <1>3

\* A queue that is not empty: its oldest report and the others.
LEMMA FirstQueued ==
    ASSUME NEW s \in Seq(Report), s # <<>>, NEW e
    PROVE  /\ ReportsFor(Tail(s), e) \in Seq(Items)
           /\ IsFor(Head(s), e) => ReportsFor(s, e) = <<Head(s)>> \o ReportsFor(Tail(s), e)
           /\ ~IsFor(Head(s), e) => ReportsFor(s, e) = ReportsFor(Tail(s), e)
           /\ Head(s) \in Items
  <1>1. Report \subseteq Items
    BY Zenon, CallsInclude DEF Items
  <1> s \in Seq(Items)
    BY <1>1
  <1>3. Tail(s) \in Seq(Items) /\ Head(s) \in Items
    OBVIOUS
  <1> QED BY Zenon, <1>3, ForType, ForHead

\* The oldest report is submitted.
LEMMA SubmitBacklog ==
    ASSUME TypeOK, QueuesSorted, NEW q \in Queue, FlushSubmits(q), NEW e \in Endpoint
    PROVE  InOrder(e)
  <1> USE Zenon
  <1> DEFINE s == reports[q]
             h == Head(s)
  <1>1. /\ s # <<>> /\ pending[h.endpoint] = NoReport /\ todo' = todo
        /\ pending' = [pending EXCEPT ![h.endpoint] = h]
        /\ reports' = [reports EXCEPT ![q] = Tail(s)]
    BY DEF FlushSubmits, Writable, Due, Oldest, Submit, callVars
  <1>2. /\ reports \in [Queue -> Seq(Report)]
        /\ pending \in [Endpoint -> Report \cup {NoReport}]
    BY DEF TypeOK, QueueTypes, UsbTypes
  <1>3. s \in Seq(Report)
    BY <1>2
  <1>4. h \in Report /\ h = s[1] /\ 1 \in DOMAIN s
    BY SMT, <1>1, <1>3
  <1>5. QueueOf(h.endpoint) = q
    BY <1>4 DEF QueuesSorted
  <1>6. h.endpoint \in Endpoint /\ h.op = "report"
    BY <1>4 DEF Report
  <1>7. reports'[q] = Tail(s) /\ \A p \in Queue : p # q => reports'[p] = reports[p]
    BY SMT, <1>1, <1>2
  <1>8. /\ pending'[h.endpoint] = h
        /\ \A d \in Endpoint : d # h.endpoint => pending'[d] = pending[d]
    BY <1>1, <1>2, <1>6
  <1>9. QueueOf(e) \in Queue
    BY DEF QueueOf, Queue
  <1>10. /\ ReportsFor(Tail(s), e) \in Seq(Items)
         /\ IsFor(h, e) => ReportsFor(s, e) = <<h>> \o ReportsFor(Tail(s), e)
         /\ ~IsFor(h, e) => ReportsFor(s, e) = ReportsFor(Tail(s), e)
         /\ h \in Items
    BY <1>1, <1>3, FirstQueued
  <1>11. ReportsFor(todo, e) \in Seq(Items)
    BY BacklogParts
  <1> HIDE DEF s, h
  <1>12. CASE e = h.endpoint
    <2>1. IsFor(h, e)
      BY <1>6, <1>12 DEF IsFor
    <2>2. ReportsFor(<<pending[e]>>, e) = <<>> /\ ReportsFor(<<h>>, e) = <<h>>
      BY <1>1, <1>12, <2>1, PendingPart
    <2>3. Backlog(e) = <<>> \o (<<h>> \o ReportsFor(Tail(s), e)) \o ReportsFor(todo, e)
      BY <1>5, <1>10, <1>12, <2>1, <2>2 DEF Backlog, s
    <2>4. Backlog(e)' = <<h>> \o ReportsFor(Tail(s), e) \o ReportsFor(todo, e)
      BY <1>1, <1>5, <1>7, <1>8, <1>12, <2>2 DEF Backlog
    <2>5. Backlog(e)' = Backlog(e)
      BY ZenonT(30), <1>10, <1>11, <2>3, <2>4, SubmittedNext
    <2> QED BY <2>5, SameBacklog
  <1>13. CASE e # h.endpoint
    <2>1. ~IsFor(h, e) /\ pending'[e] = pending[e]
      BY <1>8, <1>13 DEF IsFor
    <2>2. ReportsFor(reports'[QueueOf(e)], e) = ReportsFor(reports[QueueOf(e)], e)
      <3>1. CASE QueueOf(e) = q
        BY <1>7, <1>10, <2>1, <3>1 DEF s
      <3> CASE QueueOf(e) # q
        BY <1>7, <1>9
      <3> QED BY <3>1
    <2>3. Backlog(e)' = Backlog(e)
      BY <1>1, <2>1, <2>2 DEF Backlog
    <2> QED BY <2>3, SameBacklog
  <1> QED BY <1>12, <1>13

\* The paste of the oldest report is done.
LEMMA PasteBacklog ==
    ASSUME TypeOK, NEW q \in Queue, FlushPastes(q), NEW e \in Endpoint
    PROVE  InOrder(e)
  <1> USE Zenon
  <1> DEFINE s == reports[q]
             x == s[1]
             y == [x EXCEPT !.paste = FALSE]
             t == [s EXCEPT ![1] = y]
  <1>1. /\ s # <<>> /\ todo' = todo /\ pending' = pending
        /\ reports' = [reports EXCEPT ![q][1].paste = FALSE]
    BY DEF FlushPastes, Writable, Due, ReturnTrue
  <1>2. reports \in [Queue -> Seq(Report)]
    BY DEF TypeOK, QueueTypes
  <1>3. s \in Seq(Report)
    BY <1>2
  <1>4. x \in Report /\ 1 \in DOMAIN s /\ x = Head(s)
    BY SMT, <1>1, <1>3
  <1>5. reports'[q] = t /\ \A p \in Queue : p # q => reports'[p] = reports[p]
    BY <1>1, <1>2
  <1>6. /\ y \in Report /\ y.op = x.op /\ y.endpoint = x.endpoint
        /\ y.held = x.held /\ y.pos = x.pos /\ y.delta = x.delta /\ y.motion = x.motion
    <2>1. y \in Report /\ y.op = x.op /\ y.endpoint = x.endpoint
      BY <1>4, PastedIs
    <2>2. y.held = x.held /\ y.pos = x.pos /\ y.delta = x.delta /\ y.motion = x.motion
      BY <1>4 DEF Report
    <2> QED BY <2>1, <2>2
  <1> HIDE DEF x, y
  <1>7. t \in Seq(Report) /\ t # <<>> /\ Head(t) = y /\ Tail(t) = Tail(s)
    BY SMT, <1>1, <1>3, <1>4, <1>6
  <1> HIDE DEF s, t
  <1>8. /\ IsFor(x, e) <=> IsFor(y, e)
        /\ SamePayload(x, y)
    BY <1>6 DEF IsFor, SamePayload
  <1>9. /\ ReportsFor(Tail(s), e) \in Seq(Items) /\ x \in Items
        /\ IsFor(x, e) => ReportsFor(s, e) = <<x>> \o ReportsFor(Tail(s), e)
        /\ ~IsFor(x, e) => ReportsFor(s, e) = ReportsFor(Tail(s), e)
    BY <1>1, <1>3, <1>4, FirstQueued
  <1>10. /\ IsFor(y, e) => ReportsFor(t, e) = <<y>> \o ReportsFor(Tail(s), e)
         /\ ~IsFor(y, e) => ReportsFor(t, e) = ReportsFor(Tail(s), e)
         /\ y \in Items
    BY <1>7, FirstQueued
  <1>11. ReportsFor(<<pending[e]>>, e) \in Seq(Items) /\ ReportsFor(todo, e) \in Seq(Items)
    BY BacklogParts
  <1>12. QueueOf(e) \in Queue
    BY DEF QueueOf, Queue
  <1>13. CASE QueueOf(e) = q /\ IsFor(x, e)
    <2>1. Backlog(e) = ReportsFor(<<pending[e]>>, e) \o (<<x>> \o ReportsFor(Tail(s), e))
                           \o ReportsFor(todo, e)
      BY <1>9, <1>13 DEF Backlog, s
    <2>2. Backlog(e)' = ReportsFor(<<pending[e]>>, e) \o (<<y>> \o ReportsFor(Tail(s), e))
                           \o ReportsFor(todo, e)
      BY <1>1, <1>5, <1>8, <1>10, <1>13 DEF Backlog
    <2>3. Extends(Backlog(e), Backlog(e)')
      BY <1>8, <1>9, <1>10, <1>11, <2>1, <2>2, ExtendsPasted
    <2> QED BY <2>3 DEF InOrder, Advances
  <1>14. CASE QueueOf(e) # q \/ ~IsFor(x, e)
    <2>1. ReportsFor(reports'[QueueOf(e)], e) = ReportsFor(reports[QueueOf(e)], e)
      <3>1. CASE QueueOf(e) = q
        BY <1>5, <1>8, <1>9, <1>10, <1>14, <3>1 DEF s
      <3> CASE QueueOf(e) # q
        BY <1>5, <1>12
      <3> QED BY <3>1
    <2>2. Backlog(e)' = Backlog(e)
      BY <1>1, <2>1 DEF Backlog
    <2> QED BY <2>2, SameBacklog
  <1> QED BY <1>13, <1>14

\* Every way an iteration of flush_reports ends.
LEMMA FlushBacklog ==
    ASSUME TypeOK, QueuesSorted, NEW q \in Queue, flush_reports(q), NEW e \in Endpoint
    PROVE  InOrder(e)
  <1> USE Zenon
  <1>1. CASE FlushEnds(q) \/ FlushAwaitsPrevious(q) \/ FlushRetained(q)
    <2>1. todo' = todo /\ reports' = reports /\ pending' = pending
      BY <1>1 DEF FlushEnds, FlushAwaitsPrevious, FlushRetained, ReturnTrue, queueVars
    <2> QED BY <2>1, SameParts
  <1>2. CASE FlushStalled(q) \/ FlushPreviousLost(q) \/ FlushPasteFails(q) \/ FlushWriteFails(q)
    <2>1. ReturnFalse(todo) /\ reports' = reports /\ pending' = pending
      BY <1>2 DEF FlushStalled, FlushPreviousLost, FlushPasteFails, FlushWriteFails,
                         queueVars
    <2>2. todo' = todo \/ Cancelling
      BY <2>1, ReturnFalseCancels
    <2>3. todo' = todo => InOrder(e)
      BY <2>1, SameParts
    <2> QED BY <2>2, <2>3 DEF InOrder
  <1>3. CASE FlushPastes(q)
    BY <1>3, PasteBacklog
  <1> CASE FlushSubmits(q)
    BY SubmitBacklog
  <1> QED BY <1>1, <1>2, <1>3 DEF flush_reports

\* The report of the call in progress is added to its queue.
LEMMA EnqueueBacklog ==
    ASSUME TypeOK, CallIs("report"), NEW e \in Endpoint,
           Enqueue(Head(todo), QueueOf(Head(todo).endpoint))
    PROVE  InOrder(e)
  <1> USE Zenon
  <1> DEFINE r == Head(todo)
             q == QueueOf(r.endpoint)
             s == reports[q]
  <1>1. /\ todo # <<>> /\ r.op = "report" /\ todo' = Tail(todo) /\ pending' = pending
        /\ reports' = [reports EXCEPT ![q] = Append(s, r)]
    BY DEF CallIs, Enqueue
  <1>2. r \in Report /\ q \in Queue
    <2>1. r \in Report
      BY <1>1, HeadOfTodo, CallsInclude
    <2>2. q \in Queue
      BY DEF QueueOf, Queue
    <2> QED BY <2>1, <2>2
  <1>3. reports \in [Queue -> Seq(Report)]
    BY DEF TypeOK, QueueTypes
  <1>4. reports'[q] = Append(s, r) /\ \A p \in Queue : p # q => reports'[p] = reports[p]
    BY <1>1, <1>2, <1>3
  <1>5. s \in Seq(Report)
    BY <1>2, <1>3
  <1>6. /\ IsFor(r, e) => ReportsFor(Append(s, r), e) = Append(ReportsFor(s, e), r)
        /\ ~IsFor(r, e) => ReportsFor(Append(s, r), e) = ReportsFor(s, e)
    BY <1>2, <1>5, ForAppend
  <1>7. /\ ReportsFor(Tail(todo), e) \in Seq(Items) /\ r \in Items
        /\ IsFor(r, e) => ReportsFor(todo, e) = <<r>> \o ReportsFor(Tail(todo), e)
        /\ ~IsFor(r, e) => ReportsFor(todo, e) = ReportsFor(Tail(todo), e)
    BY <1>1, FirstCall
  <1>8. /\ ReportsFor(<<pending[e]>>, e) \in Seq(Items)
        /\ ReportsFor(reports[QueueOf(e)], e) \in Seq(Items)
    BY BacklogParts
  <1>9. QueueOf(e) \in Queue
    BY DEF QueueOf, Queue
  <1>10. CASE IsFor(r, e)
    <2>1. q = QueueOf(e)
      BY <1>10 DEF IsFor
    <2> HIDE DEF r, q
    <2>2. Backlog(e) = ReportsFor(<<pending[e]>>, e) \o ReportsFor(s, e)
                           \o (<<r>> \o ReportsFor(Tail(todo), e))
      BY <1>7, <1>10, <2>1 DEF Backlog
    <2>3. Backlog(e)' = ReportsFor(<<pending[e]>>, e) \o Append(ReportsFor(s, e), r)
                           \o ReportsFor(Tail(todo), e)
      BY <1>1, <1>4, <1>6, <1>10, <2>1 DEF Backlog
    <2>4. /\ ReportsFor(<<pending[e]>>, e) \in Seq(Items) /\ ReportsFor(s, e) \in Seq(Items)
          /\ ReportsFor(Tail(todo), e) \in Seq(Items) /\ r \in Items
      BY <1>7, <1>8, <2>1
    <2>5. ReportsFor(<<pending[e]>>, e) \o ReportsFor(s, e)
              \o (<<r>> \o ReportsFor(Tail(todo), e)) =
          ReportsFor(<<pending[e]>>, e) \o Append(ReportsFor(s, e), r)
              \o ReportsFor(Tail(todo), e)
      <3>1. QueuedSame(ReportsFor(<<pending[e]>>, e), ReportsFor(s, e),
                       ReportsFor(Tail(todo), e), r)
        BY <2>4, QueuedNext
      <3> QED BY <3>1 DEF QueuedSame
    <2>6. Backlog(e)' = Backlog(e)
      BY <2>2, <2>3, <2>5
    <2> QED BY <2>6, SameBacklog
  <1>11. CASE ~IsFor(r, e)
    <2> HIDE DEF r, q
    <2>1. ReportsFor(reports'[QueueOf(e)], e) = ReportsFor(reports[QueueOf(e)], e)
      <3>1. CASE QueueOf(e) = q
        <4>1. reports'[QueueOf(e)] = Append(s, r) /\ reports[QueueOf(e)] = s
          BY <1>4, <3>1
        <4> HIDE DEF s
        <4> QED BY <1>6, <1>11, <4>1
      <3> CASE QueueOf(e) # q
        BY <1>4, <1>9
      <3> QED BY <3>1
    <2>2. Backlog(e)' = Backlog(e)
      BY <1>1, <1>7, <1>11, <2>1 DEF Backlog
    <2> QED BY <2>2, SameBacklog
  <1> QED BY <1>10, <1>11

\* A sequence that only adds its last element to another one.
AddsLast(u, f, x) ==
    Len(u) = Len(f) + 1 /\ u[Len(u)] = x /\ \A i \in 1..Len(f) : u[i] = f[i]

LEMMA AppendedIs ==
    ASSUME NEW S, NEW f \in Seq(S), NEW u \in Seq(S), NEW x \in S, AddsLast(u, f, x)
    PROVE  u = Append(f, x)
  <1>a. Len(u) = Len(f) + 1 /\ u[Len(u)] = x /\ \A i \in 1..Len(f) : u[i] = f[i]
    BY Zenon DEF AddsLast
  <1>1. /\ Append(f, x) \in Seq(S) /\ Len(Append(f, x)) = Len(u)
        /\ Append(f, x)[Len(u)] = x /\ \A i \in 1..Len(f) : Append(f, x)[i] = f[i]
    BY <1>a
  <1>2. \A i \in 1..Len(u) : i = Len(u) \/ i \in 1..Len(f)
    BY <1>a
  <1>3. \A i \in 1..Len(u) : u[i] = Append(f, x)[i]
    BY Zenon, <1>a, <1>1, <1>2
  <1>4. DOMAIN u = DOMAIN Append(f, x) /\ DOMAIN u = 1..Len(u)
    BY <1>1
  <1> QED BY <1>1, <1>3, <1>4

\* Replacing the last element of a sequence.
LastReplaced(s, r, f) ==
    s = Append(f, s[Len(s)]) /\ [s EXCEPT ![Len(s)] = r] = Append(f, r)

LEMMA ReplaceLastOne ==
    ASSUME NEW S, NEW s \in Seq(S), s # <<>>, NEW r \in S
    PROVE  s[Len(s)] \in S /\ \E f \in Seq(S) : LastReplaced(s, r, f)
  <1> USE Zenon
  <1> DEFINE f == SubSeq(s, 1, Len(s) - 1)
             t == [s EXCEPT ![Len(s)] = r]
  <1>1. Len(s) \in DOMAIN s /\ DOMAIN s = 1..Len(s) /\ s[Len(s)] \in S
    BY SMT
  <1>2. /\ t \in Seq(S) /\ Len(t) = Len(s) /\ t[Len(t)] = r
        /\ \A i \in DOMAIN s : i # Len(s) => t[i] = s[i]
    <2>1. /\ t \in Seq(S) /\ Len(t) = Len(s) /\ t[Len(s)] = r
          /\ \A i \in DOMAIN s : i # Len(s) => t[i] = s[i]
      BY SMT, <1>1, ReplaceOne
    <2> QED BY <2>1
  <1>3. /\ f \in Seq(S) /\ Len(f) \in Nat /\ Len(s) = Len(f) + 1
        /\ \A i \in 1..Len(f) : f[i] = s[i]
    BY SMT, <1>1
  <1> HIDE DEF f, t
  <1>4. \A i \in 1..Len(f) : i \in DOMAIN s /\ i # Len(s)
    BY SMT, <1>1, <1>3
  <1>5. Len(t) = Len(f) + 1 /\ \A i \in 1..Len(f) : t[i] = f[i]
    BY <1>2, <1>3, <1>4
  <1>6. t = Append(f, r)
    <2>1. AddsLast(t, f, r)
      BY <1>2, <1>5 DEF AddsLast
    <2> QED BY <1>2, <1>3, <2>1, AppendedIs
  <1>7. s = Append(f, s[Len(s)])
    <2>1. AddsLast(s, f, s[Len(s)])
      BY <1>3 DEF AddsLast
    <2> QED BY <1>1, <1>3, <2>1, AppendedIs
  <1> QED BY <1>1, <1>3, <1>6, <1>7 DEF LastReplaced, t

\* Motion replaces the motion queued last.
Merging(r, q) ==
    /\ todo # <<>> /\ r = Head(todo) /\ r.op = "report" /\ q = QueueOf(r.endpoint)
    /\ Replaces(r, q)
    /\ reports' = [reports EXCEPT ![q][Len(reports[q])] = r]
    /\ todo' = Tail(todo) /\ pending' = pending

LEMMA ReplaceBacklog ==
    ASSUME TypeOK, NEW r, NEW q, Merging(r, q), NEW e \in Endpoint
    PROVE  InOrder(e)
  <1> USE Zenon
  <1> DEFINE s == reports[q]
             x == s[Len(s)]
  <1>1. /\ todo # <<>> /\ r = Head(todo) /\ r.op = "report" /\ s # <<>>
        /\ r.motion /\ x.motion /\ x.endpoint = r.endpoint /\ x.held = r.held
        /\ q = QueueOf(r.endpoint) /\ todo' = Tail(todo) /\ pending' = pending
    BY DEF Merging, Replaces
  <1>2. r \in Report /\ q \in Queue
    <2>1. r \in Report
      BY <1>1, HeadOfTodo, CallsInclude
    <2>2. q \in Queue
      BY <1>1 DEF QueueOf, Queue
    <2> QED BY <2>1, <2>2
  <1>3. reports \in [Queue -> Seq(Report)]
    BY DEF TypeOK, QueueTypes
  <1>4. s \in Seq(Report)
    BY <1>2, <1>3
  <1>5. /\ reports'[q] = [s EXCEPT ![Len(s)] = r]
        /\ \A p \in Queue : p # q => reports'[p] = reports[p]
    BY <1>2, <1>3 DEF Merging
  <1>a. x \in Report /\ \E f \in Seq(Report) : LastReplaced(s, r, f)
    BY <1>1, <1>2, <1>4, ReplaceLastOne
  <1>6. PICK f \in Seq(Report) : LastReplaced(s, r, f)
    BY <1>a
  <1>7. x.op = "report" /\ Report \subseteq Items
    <2>1. x.op = "report"
      BY <1>a DEF Report
    <2> QED BY <2>1, CallsInclude DEF Items
  <1>8. reports'[q] = Append(f, r) /\ reports[q] = Append(f, x)
    BY <1>5, <1>6 DEF LastReplaced
  <1> HIDE DEF s, x
  <1>9. /\ IsFor(x, e) <=> IsFor(r, e)
        /\ IsFor(r, e) => ReportsFor(Append(f, r), e) = Append(ReportsFor(f, e), r)
        /\ IsFor(x, e) => ReportsFor(Append(f, x), e) = Append(ReportsFor(f, e), x)
        /\ ~IsFor(r, e) => ReportsFor(Append(f, r), e) = ReportsFor(f, e)
        /\ ~IsFor(x, e) => ReportsFor(Append(f, x), e) = ReportsFor(f, e)
    <2>1. IsFor(x, e) <=> IsFor(r, e)
      BY <1>1, <1>7 DEF IsFor
    <2>2. f \in Seq(Report) /\ r \in Report /\ x \in Report
      BY <1>2, <1>a
    <2>3. /\ IsFor(r, e) => ReportsFor(Append(f, r), e) = Append(ReportsFor(f, e), r)
          /\ ~IsFor(r, e) => ReportsFor(Append(f, r), e) = ReportsFor(f, e)
      BY <2>2, ForAppend
    <2>4. /\ IsFor(x, e) => ReportsFor(Append(f, x), e) = Append(ReportsFor(f, e), x)
          /\ ~IsFor(x, e) => ReportsFor(Append(f, x), e) = ReportsFor(f, e)
      BY <2>2, ForAppend
    <2> QED BY <2>1, <2>3, <2>4
  <1>10. /\ ReportsFor(Tail(todo), e) \in Seq(Items)
         /\ IsFor(r, e) => ReportsFor(todo, e) = <<r>> \o ReportsFor(Tail(todo), e)
         /\ ~IsFor(r, e) => ReportsFor(todo, e) = ReportsFor(Tail(todo), e)
    BY <1>1, FirstCall
  <1>11. /\ ReportsFor(<<pending[e]>>, e) \in Seq(Items) /\ ReportsFor(f, e) \in Seq(Items)
         /\ r \in Items /\ x \in Items
    <2>1. ReportsFor(<<pending[e]>>, e) \in Seq(Items)
      BY BacklogParts
    <2>2. f \in Seq(Items)
      BY SMT, <1>7
    <2> QED BY <1>2, <1>a, <1>7, <2>1, <2>2, ForType
  <1>12. QueueOf(e) \in Queue
    BY DEF QueueOf, Queue
  <1>13. CASE IsFor(r, e)
    <2>1. q = QueueOf(e)
      BY <1>1, <1>13 DEF IsFor
    <2>2. Backlog(e) = ReportsFor(<<pending[e]>>, e) \o Append(ReportsFor(f, e), x)
                           \o (<<r>> \o ReportsFor(Tail(todo), e))
      BY <1>8, <1>9, <1>10, <1>13, <2>1 DEF Backlog
    <2>3. Backlog(e)' = ReportsFor(<<pending[e]>>, e) \o Append(ReportsFor(f, e), r)
                           \o ReportsFor(Tail(todo), e)
      BY <1>1, <1>8, <1>9, <1>13, <2>1 DEF Backlog
    <2>4. MergesMotion(Backlog(e), Backlog(e)')
      BY ZenonT(30), <1>1, <1>10, <1>11, <2>2, <2>3, MergedNext
    <2> QED BY <2>4 DEF InOrder, Advances
  <1>14. CASE ~IsFor(r, e)
    <2>1. ReportsFor(reports'[QueueOf(e)], e) = ReportsFor(reports[QueueOf(e)], e)
      <3>1. CASE QueueOf(e) = q
        BY <1>8, <1>9, <1>14, <3>1
      <3> CASE QueueOf(e) # q
        BY <1>5, <1>12
      <3> QED BY <3>1
    <2>2. Backlog(e)' = Backlog(e)
      BY <1>1, <1>10, <1>14, <2>1 DEF Backlog
    <2> QED BY <2>2, SameBacklog
  <1> QED BY <1>13, <1>14

\* Pure motion is written past an empty queue.
LEMMA WriteBacklog ==
    ASSUME TypeOK, CallsSane, CallIs("report"), MayBypass(Head(todo)), Submit(Head(todo)),
           todo' = Tail(todo), reports' = reports, NEW e \in Endpoint
    PROVE  InOrder(e)
  <1> USE Zenon
  <1> DEFINE r == Head(todo)
  <1>1. /\ todo # <<>> /\ r.op = "report" /\ r.motion /\ reports["pointer"] = <<>>
        /\ pending["touch"] = NoReport
    BY DEF CallIs, MayBypass
  <1>2. r = todo[1] /\ 1 \in DOMAIN todo
    <2>1. todo \in Seq(Calls)
      BY DEF TypeOK, CallTypes
    <2> QED BY SMT, <1>1, <2>1
  <1>3. r.endpoint = "touch"
    BY <1>1, <1>2 DEF CallsSane
  <1>4. pending' = [pending EXCEPT !["touch"] = r]
    BY <1>3 DEF Submit
  <1>5. pending \in [Endpoint -> Report \cup {NoReport}] /\ "touch" \in Endpoint
    BY DEF TypeOK, UsbTypes, Endpoint
  <1> HIDE DEF r
  <1>6. pending'["touch"] = r /\ \A d \in Endpoint : d # "touch" => pending'[d] = pending[d]
    BY <1>4, <1>5
  <1>7. /\ ReportsFor(Tail(todo), e) \in Seq(Items) /\ r \in Items
        /\ IsFor(r, e) => ReportsFor(todo, e) = <<r>> \o ReportsFor(Tail(todo), e)
        /\ ~IsFor(r, e) => ReportsFor(todo, e) = ReportsFor(Tail(todo), e)
    BY <1>1, FirstCall DEF r
  <1>8. CASE e = "touch"
    <2>1. IsFor(r, e)
      BY <1>1, <1>3, <1>8 DEF IsFor
    <2>2. ReportsFor(<<pending[e]>>, e) = <<>> /\ ReportsFor(<<r>>, e) = <<r>>
      BY <1>1, <1>8, <2>1, PendingPart
    <2>3. reports[QueueOf(e)] = <<>>
      BY SMT, <1>1, <1>8 DEF QueueOf
    <2>4. ReportsFor(reports[QueueOf(e)], e) = <<>>
      BY <2>3, ForNothing
    <2>5. Backlog(e) = <<>> \o <<>> \o (<<r>> \o ReportsFor(Tail(todo), e))
      BY <1>7, <2>1, <2>2, <2>4 DEF Backlog
    <2>6. Backlog(e)' = <<r>> \o <<>> \o ReportsFor(Tail(todo), e)
      BY <1>6, <1>8, <2>2, <2>4 DEF Backlog
    <2>7. Backlog(e)' = Backlog(e)
      BY <1>7, <2>5, <2>6, WrittenNext
    <2> QED BY <2>7, SameBacklog
  <1>9. CASE e # "touch"
    <2>1. ~IsFor(r, e) /\ pending'[e] = pending[e]
      BY <1>3, <1>6, <1>9 DEF IsFor
    <2>2. Backlog(e)' = Backlog(e)
      BY <1>7, <2>1 DEF Backlog
    <2> QED BY <2>2, SameBacklog
  <1> QED BY <1>8, <1>9

\* Every way queue_report ends.
LEMMA QueueReportBacklog ==
    ASSUME TypeOK, CallsSane, ReleaseFindsRoom, queue_report, NEW e \in Endpoint
    PROVE  InOrder(e)
  <1> USE Zenon
  <1> DEFINE r == Head(todo)
             q == QueueOf(r.endpoint)
  <1>1. CallIs("report")
    BY DEF queue_report
  <1>2. CASE /\ MayBypass(r) /\ Submit(r) /\ todo' = Tail(todo)
             /\ UNCHANGED <<hidVars, reports, flushing, space, onfail, failed>>
    <2>1. reports' = reports
      BY <1>2
    <2> QED BY <1>1, <1>2, <2>1, WriteBacklog
  <1>3. CASE /\ ~MayBypass(r) /\ Replaces(r, q)
             /\ reports' = [reports EXCEPT ![q][Len(reports[q])] = r]
             /\ todo' = Tail(todo) /\ flushing' = q
             /\ UNCHANGED <<hidVars, space, onfail, failed, pending>>
    <2>1. Merging(r, q)
      BY <1>1, <1>3 DEF Merging, CallIs
    <2> QED BY <2>1, ReplaceBacklog
  <1>4. CASE ~MayBypass(r) /\ ~Replaces(r, q) /\ ~Full(q) /\ Enqueue(r, q)
    BY <1>1, <1>4, EnqueueBacklog
  <1>5. CASE /\ ~Replaces(r, q) /\ Full(q) /\ space = "no"
             /\ flushing' = q /\ space' = "flushing"
             /\ UNCHANGED <<hidVars, reports, todo, onfail, failed, pending>>
    BY <1>5, SameParts
  <1>6. CASE /\ ~Replaces(r, q) /\ Full(q) /\ space = "tried"
             /\ ReturnFalse(Tail(todo))
             /\ UNCHANGED <<reports, pending>>
    <2>1. onfail # "ignore"
      <3>1. onfail = "ignore" => Len(reports[q]) < Capacity
        BY <1>1 DEF ReleaseFindsRoom
      <3>2. Len(reports[q]) = Capacity
        BY <1>6 DEF Full
      <3> HIDE DEF q
      <3> QED BY SMT, <3>1, <3>2, CapacityAssumption
    <2>2. space # "flushing"
      BY <1>6
    <2> QED BY <1>6, <2>1, <2>2, ReturnFalseCancels DEF InOrder
  <1> QED BY <1>2, <1>3, <1>4, <1>5, <1>6 DEF queue_report

\* USB takes the next report or loses the endpoint.
LEMMA UsbBacklog ==
    ASSUME TypeOK, NEW d \in Endpoint, UsbCompletes(d) \/ UsbLost(d), NEW e \in Endpoint
    PROVE  InOrder(e)
  <1> USE Zenon
  <1>1. todo' = todo /\ reports' = reports /\ pending' = [pending EXCEPT ![d] = NoReport]
    BY DEF UsbCompletes, UsbLost, callVars, queueVars
  <1>2. /\ pending \in [Endpoint -> Report \cup {NoReport}]
        /\ host \in [Endpoint -> HostState \cup {Gone}]
    BY DEF TypeOK, UsbTypes
  <1>3. pending'[d] = NoReport /\ \A c \in Endpoint : c # d => pending'[c] = pending[c]
    BY <1>1, <1>2
  <1>4. CASE e # d
    BY <1>1, <1>3, <1>4, SameParts
  <1>5. CASE e = d /\ UsbLost(d)
    <2>1. host'[d] = Gone
      BY <1>2, <1>5 DEF UsbLost
    <2> QED BY <1>5, <2>1 DEF InOrder
  <1>6. CASE e = d /\ UsbCompletes(d) /\ ~IsFor(pending[d], d)
    <2>1. ReportsFor(<<pending'[e]>>, e) = ReportsFor(<<pending[e]>>, e)
      BY <1>3, <1>6, PendingPart
    <2>2. Backlog(e)' = Backlog(e)
      BY <1>1, <2>1 DEF Backlog
    <2> QED BY <2>2, SameBacklog
  <1>7. CASE e = d /\ UsbCompletes(d) /\ IsFor(pending[d], d)
    <2> DEFINE x == pending[d]
               b == ReportsFor(reports[QueueOf(e)], e)
               c == ReportsFor(todo, e)
    <2>1. host'[e] = [held |-> x.held, pos |-> x.pos]
      BY SMT, <1>2, <1>7 DEF UsbCompletes
    <2>2. b \in Seq(Items) /\ c \in Seq(Items) /\ x \in Items
      <3>1. x \in Items
        BY <1>2, CallsInclude DEF Items
      <3> QED BY <3>1, BacklogParts
    <2>3. ReportsFor(<<pending[e]>>, e) = <<x>> /\ ReportsFor(<<pending'[e]>>, e) = <<>>
      BY <1>3, <1>7, PendingPart
    <2>4. Backlog(e) = <<x>> \o b \o c
      BY <2>3 DEF Backlog
    <2>5. Backlog(e)' = <<>> \o b \o c
      BY <1>1, <2>3 DEF Backlog
    <2>6. /\ Head(Backlog(e)) = x /\ Tail(Backlog(e)) = Backlog(e)'
          /\ Len(Backlog(e)) = Len(Backlog(e)') + 1
      <3> HIDE DEF x, b, c
      <3>1. /\ Head(<<x>> \o b \o c) = x /\ Tail(<<x>> \o b \o c) = <<>> \o b \o c
            /\ Len(<<x>> \o b \o c) = Len(<<>> \o b \o c) + 1
        BY SMT, <2>2, TakenNext
      <3> QED BY <2>4, <2>5, <3>1
    <2>7. Extends(Tail(Backlog(e)), Backlog(e)')
      <3>1. <<>> \in Seq(Items)
        BY SMT
      <3>2. Backlog(e)' \in Seq(Items)
        <4> HIDE DEF b, c
        <4> QED BY <2>2, <2>5, <3>1, Joined
      <3> QED BY <2>6, <3>2, ExtendsItself
    <2> QED BY <2>1, <2>6, <2>7 DEF InOrder, Advances
  <1> QED BY <1>4, <1>5, <1>6, <1>7

\* Every step keeps the order of what is on its way to each endpoint.
LEMMA NextBacklog ==
    ASSUME TypeOK, TypeOK', CallsSane, QueuesSorted, ReleaseFindsRoom, [Next]_vars,
           NEW e \in Endpoint
    PROVE  InOrder(e)
  <1> USE Zenon
  <1>1. CASE UNCHANGED vars
    <2>1. todo' = todo /\ reports' = reports /\ pending' = pending
      BY <1>1 DEF vars, callVars, queueVars, usbVars
    <2> QED BY <2>1, SameParts
  <1>2. CASE handle_control
    <2>1. Idle /\ reports' = reports /\ pending' = pending
      BY <1>2 DEF handle_control, hid_scancode, hid_type_utf8, hid_absolute,
            hid_relative, hid_wheel, hid_synchronize, ReleaseMessage, hid_release_all,
            Message, Enter, queueVars, usbVars
    <2> QED BY <2>1, EnterBacklog
  <1>3. CASE ThreadStep
    <2>1. CASE queue_report
      BY <2>1, QueueReportBacklog
    <2>2. CASE StartFlush \/ CancelQueues \/ CallFails
      BY <2>2, OtherCallsBacklog
    <2>3. CASE \E q \in Queue : flush_reports(q)
      BY <2>3, FlushBacklog
    <2>4. CASE ReleaseAfterFailure \/ hid_flush \/ hid_keepalive(FALSE) \/ DrainFlush
      <3>1. Idle /\ reports' = reports /\ pending' = pending
        BY <2>4 DEF ReleaseAfterFailure, hid_flush, hid_keepalive, DrainFlush,
              hid_release_all, Enter, queueVars, usbVars
      <3> QED BY <3>1, EnterBacklog
    <2> QED BY <1>3, <2>1, <2>2, <2>3, <2>4 DEF ThreadStep
  <1>4. CASE Environment
    <2>1. CASE connect_control \/ disconnect_control \/ hid_keepalive(TRUE)
               \/ StopRequested \/ Exit
      <3>1. Idle /\ reports' = reports /\ pending' = pending
        BY <2>1 DEF connect_control, disconnect_control, hid_keepalive,
              StopRequested, Exit, hid_release_all, Enter, queueVars, usbVars
      <3> QED BY <3>1, EnterBacklog
    <2>2. CASE \E d \in Endpoint : UsbCompletes(d) \/ UsbLost(d)
      BY <2>2, UsbBacklog
    <2>3. CASE \/ \E d \in Endpoint : UsbRestored(d)
               \/ \E q \in Queue : DelayPasses(q) \/ StallPasses(q)
      <3>1. todo' = todo /\ reports' = reports /\ pending' = pending
        BY <2>3 DEF UsbRestored, DelayPasses, StallPasses, queueVars, callVars, usbVars
      <3> QED BY <3>1, SameParts
    <2> QED BY <1>4, <2>1, <2>2, <2>3 DEF Environment
  <1> QED BY <1>1, <1>2, <1>3, <1>4 DEF Next
-----------------------------------------------------------------------------

\* EAGAIN retains a report and transitions stay in order: outside a cancellation or
\* the loss of the device, what queue_report accepted for an endpoint is only added
\* to at the end, taken by the host at the front, or loses a motion report that the
\* next one supersedes (queue_report, flush_reports).
THEOREM InputStaysInOrder == Spec => InputNeverLostOrReordered
  <1> USE Zenon
  <1> DEFINE Kept == \A e \in Endpoint :
                        \/ Cancelling
                        \/ failed'
                        \/ host'[e] = Gone
                        \/ Advances(Backlog(e), Backlog(e)', host'[e])
  <1>1. TypeOK /\ TypeOK' /\ LastReportIsCurrent /\ ReleaseFindsRoom /\ [Next]_vars => [Kept]_vars
    <2> SUFFICES ASSUME TypeOK, TypeOK', LastReportIsCurrent, ReleaseFindsRoom, [Next]_vars
                 PROVE  Kept
      OBVIOUS
    <2>1. CallsSane /\ QueuesSorted
      BY DEF LastReportIsCurrent
    <2>2. \A e \in Endpoint : InOrder(e)
      BY <2>1, NextBacklog
    <2> QED BY <2>2 DEF InOrder
  <1> HIDE DEF Kept
  <1>2. Spec => [][Kept]_vars
    BY <1>1, TypeCorrect, ReportsAgree, ReleaseAlwaysFits, PTL DEF Spec
  <1> QED BY <1>2 DEF Kept, InputNeverLostOrReordered
=============================================================================
