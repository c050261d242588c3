--------------------------- MODULE VideoPathProofs ---------------------------
(***************************************************************************)
(* Proofs about VideoPath, for all shapes of images, numbers of images and *)
(* faults, and every range of the sequence numbers.                        *)
(***************************************************************************)
EXTENDS VideoPath, WellFoundedInduction, TLAPS

Kinds == {"SPS", "PPS", "IDR", "P"}
ShapeSet == Seq(Nat \ {0}) \ {<<>>}
Images == [kind : Kinds, picture : Nat, timestamp : Nat, shape : ShapeSet]
Fragments == [image : Images, nal : Nat, fragment : Nat, start : BOOLEAN,
              end : BOOLEAN, marker : BOOLEAN]

-----------------------------------------------------------------------------
(* Sequences *)

LEMMA Element ==
    ASSUME NEW S, NEW p \in Seq(S), NEW k \in 1..Len(p)
    PROVE  p[k] \in S
  OBVIOUS

LEMMA Lengths ==
    ASSUME NEW S, NEW p \in Seq(S)
    PROVE  Len(p) \in Nat /\ (p # <<>> <=> Len(p) \in Nat \ {0})
  OBVIOUS

LEMMA Concatenation ==
    ASSUME NEW S, NEW p \in Seq(S), NEW q \in Seq(S)
    PROVE  /\ p \o q \in Seq(S) /\ Len(p \o q) = Len(p) + Len(q)
           /\ \A k \in 1..(Len(p) + Len(q)) :
                (p \o q)[k] = IF k <= Len(p) THEN p[k] ELSE q[k - Len(p)]
  OBVIOUS

-----------------------------------------------------------------------------
(* The payloads of an image *)

\* A nonempty set of natural numbers has a least element.
LEMMA LeastElement ==
    ASSUME NEW T, T \subseteq Nat, T # {}
    PROVE  \E x \in T : \A y \in T : x <= y
  <1> USE Zenon
  <1> DEFINE R == OpToRel(<, Nat)
  <1>1. IsWellFoundedOn(R, Nat)
    BY NatLessThanWellFounded
  <1>2. \A x \in Nat, y \in Nat : y < x => <<y, x>> \in R
    BY DEF OpToRel
  <1> HIDE DEF R
  <1>3. PICK x \in T : \A y \in T : <<y, x>> \notin R
    BY <1>1, WFMin
  <1>4. ASSUME NEW y \in T PROVE x <= y
    <2>1. x \in Nat /\ y \in Nat
      OBVIOUS
    <2>2. ~(y < x)
      BY <1>2, <1>3, <2>1
    <2> QED BY SMT, <2>1, <2>2
  <1> QED BY <1>3, <1>4

\* f[m] is the concatenation of the payloads of the first m of n NAL units.
Packetizes(i, n, f) == f = [m \in 1..n |-> IF m = 1 THEN NalPayloads(i, m) ELSE f[m - 1] \o NalPayloads(i, m)]

\* The loop over the NAL units ends.
LEMMA PacketizeEnds ==
    ASSUME NEW n \in Nat, NEW i
    PROVE  \E f : Packetizes(i, n, f)
  <1> USE Zenon
  <1> DEFINE T == {m \in 0..n : ~ \E f : Packetizes(i, m, f)}
  <1>1. SUFFICES T = {}
    <2>1. n \in 0..n
      BY SMT
    <2> QED BY <2>1
  <1>2. SUFFICES ASSUME T # {} PROVE FALSE
    OBVIOUS
  <1>3. PICK m \in T : \A k \in T : m <= k
    <2>1. T \subseteq Nat
      BY SMT
    <2> HIDE DEF T
    <2> QED BY <1>2, <2>1, LeastElement
  <1>4. m # 0
    <2> DEFINE f == [k \in 1..0 |-> NalPayloads(i, k)]
    <2>1. SUFFICES Packetizes(i, 0, f)
      OBVIOUS
    <2> QED BY SMT DEF Packetizes
  <1>5. m \in 1..n /\ m - 1 \in 0..n /\ ~(m <= m - 1)
    BY SMT, <1>4
  <1>6. m - 1 \notin T
    BY <1>3, <1>5
  <1>7. PICK f : Packetizes(i, m - 1, f)
    BY <1>5, <1>6
  <1> DEFINE last_one == IF m = 1 THEN NalPayloads(i, m) ELSE f[m - 1] \o NalPayloads(i, m)
             g == [k \in 1..m |-> IF k = m THEN last_one ELSE f[k]]
  <1>8. \A k \in 1..(m - 1) : f[k] = IF k = 1 THEN NalPayloads(i, k) ELSE f[k - 1] \o NalPayloads(i, k)
    BY <1>7 DEF Packetizes
  <1>9. ASSUME NEW k \in 1..m
        PROVE  g[k] = IF k = 1 THEN NalPayloads(i, k) ELSE g[k - 1] \o NalPayloads(i, k)
    <2>1. CASE k = m
      <3>1. g[m] = last_one /\ m \in 1..m
        BY SMT, <1>5
      <3>2. m # 1 => g[m - 1] = f[m - 1]
        BY SMT, <1>5
      <3> QED BY <2>1, <3>1, <3>2
    <2>2. CASE k # m
      <3>1. k \in 1..(m - 1) /\ g[k] = f[k]
        BY SMT, <1>5, <2>2
      <3>2. k # 1 => g[k - 1] = f[k - 1]
        BY SMT, <1>5, <2>2
      <3> QED BY <1>8, <3>1, <3>2
    <2> QED BY <2>1, <2>2
  <1>10. Packetizes(i, m, g)
    <2>1. g = [k \in 1..m |-> g[k]]
      OBVIOUS
    <2> HIDE DEF g
    <2> QED BY <1>9, <2>1 DEF Packetizes
  <1> QED BY <1>3, <1>10 DEF T

\* Payloads takes one NAL unit after the other.
LEMMA PayloadsAre ==
    ASSUME NEW i, NEW n \in Nat \ {0}, Len(i.shape) = n
    PROVE  \E f : /\ Payloads(i) = f[n]
                  /\ f[1] = NalPayloads(i, 1)
                  /\ \A m \in 2..n : f[m] = f[m - 1] \o NalPayloads(i, m)
  <1> USE Zenon
  <1> DEFINE f == CHOOSE f : Packetizes(i, n, f)
  <1>1. Packetizes(i, n, f)
    BY PacketizeEnds
  <1>2. Payloads(i) = f[n]
    BY DEF Payloads, Packetizes
  <1> HIDE DEF f
  <1>3. f[1] = NalPayloads(i, 1) /\ \A m \in 2..n : f[m] = f[m - 1] \o NalPayloads(i, m)
    <2>1. \A m \in 1..n : f[m] = IF m = 1 THEN NalPayloads(i, m) ELSE f[m - 1] \o NalPayloads(i, m)
      BY <1>1 DEF Packetizes
    <2>2. 1 \in 1..n /\ \A m \in 2..n : m \in 1..n /\ m # 1
      BY SMT
    <2> QED BY <2>1, <2>2
  <1> QED BY <1>2, <1>3

\* p is a run of whole NAL units of the image i; the marker is on its last packet
\* if the run is `final'.
WholeUnits(p, i, final) ==
    /\ p \in Seq(Fragments) /\ Len(p) \in Nat \ {0}
    /\ \A k \in 1..Len(p) : /\ p[k].image = i
                            /\ p[k].marker <=> (final /\ k = Len(p))
    /\ p[1].start /\ p[Len(p)].end
    /\ \A k \in 1..(Len(p) - 1) : p[k].end <=> p[k + 1].start

\* rtp_h264_packetize_marker: the packets of one NAL unit.
LEMMA UnitPackets ==
    ASSUME NEW i \in Images, NEW m \in 1..Len(i.shape)
    PROVE  WholeUnits(NalPayloads(i, m), i, m = Len(i.shape))
  <1> USE Zenon
  <1> DEFINE n == i.shape[m]
             p == [k \in 1..n |-> Fragment(i, m, k)]
  <1>1. i.shape \in Seq(Nat \ {0}) /\ m \in Nat /\ n \in Nat \ {0}
    BY SMT DEF Images, ShapeSet
  <1>2. \A k \in 1..n : /\ p[k].image = i /\ p[k].nal = m /\ p[k].fragment = k
                        /\ p[k].start = (k = 1) /\ p[k].end = (k = n)
                        /\ p[k].marker = (m = Len(i.shape) /\ k = n)
                        /\ p[k] \in Fragments
    <2> SUFFICES ASSUME NEW k \in 1..n PROVE
          /\ p[k].image = i /\ p[k].nal = m /\ p[k].fragment = k
          /\ p[k].start = (k = 1) /\ p[k].end = (k = n)
          /\ p[k].marker = (m = Len(i.shape) /\ k = n)
          /\ p[k] \in Fragments
      OBVIOUS
    <2>1. p[k] = [image |-> i, nal |-> m, fragment |-> k, start |-> k = 1, end |-> k = n,
                  marker |-> m = Len(i.shape) /\ k = n]
      BY DEF Fragment
    <2>2. k \in Nat /\ (k = 1) \in BOOLEAN /\ (k = n) \in BOOLEAN
          /\ (m = Len(i.shape) /\ k = n) \in BOOLEAN
      BY SMT, <1>1
    <2> HIDE DEF n, p
    <2> QED BY SMT, <1>1, <2>1, <2>2 DEF Fragments
  <1>3. p = [k \in 1..n |-> p[k]]
    OBVIOUS
  <1> HIDE DEF p, n
  <1>4. p \in Seq(Fragments) /\ Len(p) = n
    BY SMT, <1>1, <1>2, <1>3
  <1>5. WholeUnits(p, i, m = Len(i.shape))
    <2>1. \A k \in 1..n : p[k].image = i /\ (p[k].marker <=> (m = Len(i.shape) /\ k = n))
      BY <1>2
    <2>2. p[1].start /\ p[n].end
      <3>1. 1 \in 1..n /\ n \in 1..n
        BY SMT, <1>1
      <3> QED BY <1>2, <3>1
    <2>3. ASSUME NEW k \in 1..(n - 1) PROVE p[k].end <=> p[k + 1].start
      <3>1. k \in 1..n /\ k + 1 \in 1..n /\ k # n /\ k + 1 # 1
        BY SMT, <1>1
      <3> QED BY <1>2, <3>1
    <2> QED BY <1>1, <1>4, <2>1, <2>2, <2>3 DEF WholeUnits
  <1> QED BY <1>5 DEF p, n, NalPayloads

\* One run after another.
LEMMA JoinUnits ==
    ASSUME NEW i, NEW p, NEW r, NEW final, WholeUnits(p, i, FALSE), WholeUnits(r, i, final)
    PROVE  WholeUnits(p \o r, i, final)
  <1> USE Zenon
  <1> DEFINE s == p \o r
             a == Len(p)
             b == Len(r)
  <1>1. /\ p \in Seq(Fragments) /\ r \in Seq(Fragments)
        /\ a \in Nat \ {0} /\ b \in Nat \ {0}
    BY DEF WholeUnits
  <1>2. /\ s \in Seq(Fragments) /\ Len(s) = a + b
        /\ \A k \in 1..a : s[k] = p[k]
        /\ \A k \in (a + 1)..(a + b) : s[k] = r[k - a]
    <2>1. s \in Seq(Fragments) /\ Len(s) = a + b
      BY SMT, <1>1
    <2>2. \A k \in 1..(a + b) : s[k] = IF k <= a THEN p[k] ELSE r[k - a]
      BY SMT, <1>1
    <2>3. \A k \in 1..a : k \in 1..(a + b) /\ k <= a
      BY SMT, <1>1
    <2>4. \A k \in (a + 1)..(a + b) : k \in 1..(a + b) /\ ~(k <= a)
      BY SMT, <1>1
    <2> HIDE DEF s, a, b
    <2> QED BY <2>1, <2>2, <2>3, <2>4
  <1>3. ASSUME NEW k \in 1..(a + b)
        PROVE  s[k].image = i /\ (s[k].marker <=> (final /\ k = a + b))
    <2>1. CASE k \in 1..a
      BY SMT, <1>1, <1>2, <2>1 DEF WholeUnits
    <2>2. CASE k \in (a + 1)..(a + b)
      <3>1. k - a \in 1..b /\ (k - a = b <=> k = a + b)
        BY SMT, <1>1, <2>2
      <3>2. r[k - a].image = i /\ (r[k - a].marker <=> (final /\ k - a = b))
        BY <3>1 DEF WholeUnits
      <3> QED BY <1>2, <2>2, <3>1, <3>2
    <2> QED BY SMT, <1>1, <2>1, <2>2
  <1>4. s[1].start /\ s[a + b].end
    <2>1. 1 \in 1..a /\ a + b \in (a + 1)..(a + b) /\ a + b - a = b
      BY SMT, <1>1
    <2>2. s[1] = p[1] /\ s[a + b] = r[b]
      <3> HIDE DEF s, a, b
      <3>1. s[1] = p[1] /\ s[a + b] = r[(a + b) - a]
        BY <1>2, <2>1
      <3>2. (a + b) - a = b
        BY SMT, <1>1
      <3> QED BY <3>1, <3>2
    <2> QED BY <2>2 DEF WholeUnits
  <1>5. ASSUME NEW k \in 1..(a + b - 1)
        PROVE  s[k].end <=> s[k + 1].start
    <2>1. CASE k < a
      <3>1. k \in 1..(a - 1) /\ k \in 1..a /\ k + 1 \in 1..a
        BY SMT, <1>1, <2>1
      <3>2. p[k].end <=> p[k + 1].start
        BY <3>1 DEF WholeUnits
      <3> QED BY <1>2, <3>1, <3>2
    <2>2. CASE k = a
      <3>1. a \in 1..a /\ a + 1 \in (a + 1)..(a + b) /\ a + 1 - a = 1
        BY SMT, <1>1
      <3>2. s[a] = p[a] /\ s[a + 1] = r[1]
        <4> HIDE DEF s, a, b
        <4> QED BY SMT, <1>2, <3>1
      <3>3. p[a].end /\ r[1].start
        BY DEF WholeUnits
      <3> QED BY <2>2, <3>2, <3>3
    <2>3. CASE k > a
      <3>1. /\ k - a \in 1..(b - 1) /\ k \in (a + 1)..(a + b) /\ k + 1 \in (a + 1)..(a + b)
            /\ (k + 1) - a = (k - a) + 1
        BY SMT, <1>1, <2>3
      <3>2. r[k - a].end <=> r[(k - a) + 1].start
        BY <3>1 DEF WholeUnits
      <3>3. s[k] = r[k - a] /\ s[k + 1] = r[(k + 1) - a]
        BY <1>2, <3>1
      <3> QED BY <3>1, <3>2, <3>3
    <2> QED BY SMT, <1>1, <2>1, <2>2, <2>3
  <1> HIDE DEF s, a, b
  <1>6. a + b \in Nat \ {0}
    BY SMT, <1>1
  <1>7. WholeUnits(s, i, final)
    <2> DEFINE n == Len(s)
    <2>1. n = a + b
      BY <1>2
    <2> HIDE DEF n
    <2>2. \A k \in 1..n : s[k].image = i /\ (s[k].marker <=> (final /\ k = n))
      BY <1>3, <2>1
    <2>3. s[1].start /\ s[n].end
      BY <1>4, <2>1
    <2>4. \A k \in 1..(n - 1) : s[k].end <=> s[k + 1].start
      <3> SUFFICES ASSUME NEW k \in 1..(n - 1) PROVE s[k].end <=> s[k + 1].start
        OBVIOUS
      <3>1. k \in 1..(a + b - 1)
        BY SMT, <1>1, <2>1
      <3> QED BY <1>5, <3>1
    <2>5. n \in Nat \ {0}
      BY <1>6, <2>1
    <2>6. s \in Seq(Fragments) /\ Len(s) \in Nat \ {0}
      BY <1>2, <2>5 DEF n
    <2>7. /\ \A k \in 1..Len(s) : s[k].image = i /\ (s[k].marker <=> (final /\ k = Len(s)))
          /\ s[1].start /\ s[Len(s)].end
          /\ \A k \in 1..(Len(s) - 1) : s[k].end <=> s[k + 1].start
      BY <2>2, <2>3, <2>4 DEF n
    <2> QED BY <2>6, <2>7 DEF WholeUnits
  <1> QED BY <1>7 DEF s

\* The packets of an image: whole NAL units, with the marker on the last packet.
LEMMA PayloadsWhole ==
    ASSUME NEW i \in Images
    PROVE  WholeUnits(Payloads(i), i, TRUE)
  <1> USE Zenon
  <1> DEFINE n == Len(i.shape)
  <1>1. i.shape \in Seq(Nat \ {0}) /\ i.shape # <<>>
    BY DEF Images, ShapeSet
  <1>2. n \in Nat \ {0}
    BY <1>1, Lengths
  <1>3. \A m \in 1..n : WholeUnits(NalPayloads(i, m), i, m = n)
    BY UnitPackets
  <1>6. PICK f : /\ Payloads(i) = f[n]
                 /\ f[1] = NalPayloads(i, 1)
                 /\ \A m \in 2..n : f[m] = f[m - 1] \o NalPayloads(i, m)
    BY <1>2, PayloadsAre
  <1> HIDE DEF n
  <1> DEFINE T == {m \in 1..n : ~WholeUnits(f[m], i, m = n)}
  <1>7. T = {}
    <2> SUFFICES ASSUME T # {} PROVE FALSE
      OBVIOUS
    <2>1. PICK m \in T : \A k \in T : m <= k
      <3>1. T \subseteq Nat
        BY SMT
      <3> HIDE DEF T
      <3> QED BY <3>1, LeastElement
    <2>2. m \in 1..n /\ ~WholeUnits(f[m], i, m = n)
      OBVIOUS
    <2>3. m # 1
      BY <1>3, <1>6, <2>2
    <2>4. m \in 2..n /\ m - 1 \in 1..n /\ m - 1 # n /\ ~(m <= m - 1)
      BY SMT, <1>2, <2>2, <2>3
    <2>5. WholeUnits(f[m - 1], i, m - 1 = n)
      BY <2>1, <2>4
    <2>6. WholeUnits(f[m - 1], i, FALSE)
      <3>1. (m - 1 = n) = FALSE
        BY <2>4
      <3> QED BY <2>5, <3>1
    <2>7. WholeUnits(f[m - 1] \o NalPayloads(i, m), i, m = n)
      BY <1>3, <2>2, <2>6, JoinUnits
    <2> QED BY <1>6, <2>2, <2>4, <2>7
  <1>8. n \in 1..n
    BY SMT, <1>2
  <1>9. WholeUnits(f[n], i, n = n)
    BY <1>7, <1>8
  <1>10. (n = n) = TRUE
    OBVIOUS
  <1> QED BY <1>6, <1>9, <1>10

\* A parameter set is one packet.
LEMMA OnePacket ==
    ASSUME NEW i \in Images
    PROVE  i.shape = <<1>> => Len(Payloads(i)) = 1
  <1> HAVE i.shape = <<1>>
  <1>1. Len(i.shape) = 1 /\ i.shape[1] = 1 /\ 1 \in Nat \ {0}
    OBVIOUS
  <1>2. Payloads(i) = NalPayloads(i, 1)
    BY Zenon, <1>1, PayloadsAre
  <1>3. Len([k \in 1..1 |-> Fragment(i, 1, k)]) = 1
    OBVIOUS
  <1> QED BY Zenon, <1>1, <1>2, <1>3 DEF NalPayloads

-----------------------------------------------------------------------------
(* Sequence numbers *)

\* x is a multiple of u and a rest below u.
LEMMA ModDef ==
    ASSUME NEW x \in Nat, NEW u \in Nat \ {0}
    PROVE  \E q \in Nat : x = u * q + (x % u) /\ x % u \in 0..(u - 1)
  <1>1. x = u * (x \div u) + (x % u) 
    OBVIOUS
  <1>2. x % u \in 0..(u - 1)
    OBVIOUS
  <1>3. x \div u \in Nat
    OBVIOUS
  <1> QED BY Zenon, <1>1, <1>2, <1>3

\* There is one way to write a number so.
LEMMA ModUnique ==
    ASSUME NEW u \in Nat \ {0}, NEW p \in Int, NEW q \in Int, NEW r \in 0..(u-1), NEW s \in 0..(u-1), u*p + r = u*q + s
    PROVE p = q /\ r = s
  <1>1. u * (p - q) = s - r
    OBVIOUS
  <1>2. ASSUME NEW d \in Int, d >= 1 PROVE u * d >= u
    BY <1>2
  <1>4. p - q < 1
    OBVIOUS
  <1>5. q - p < 1
    OBVIOUS
  <1> QED BY <1>4, <1>5

\* Whoever finds such a rest has found x % u.
LEMMA ModIs ==
    ASSUME NEW x \in Nat, NEW u \in Nat \ {0}, NEW q \in Int, NEW r \in 0..(u-1), x = u * q + r
    PROVE  x % u = r
  BY ModDef, ModUnique

\* Cutting a number before adding to it changes nothing: SequenceAfter.
LEMMA ModAdd ==
    ASSUME NEW x \in Nat, NEW n \in Nat, NEW u \in Nat \ {0}
    PROVE ((x % u) + n) % u = (x + n) % u
  <1>1. PICK p \in Nat : x = u * p + (x % u) /\ x % u \in 0..(u - 1)
    BY Zenon, ModDef
  <1> DEFINE y == (x % u) + n
  <1>2. y \in Nat /\ x + n = u * p + y
    <2> DEFINE v == x % u
    <2>1. x = u * p + v /\ v \in Nat /\ y = v + n
      BY <1>1
    <2> HIDE DEF v, y
    <2>2. u * p \in Nat
      OBVIOUS
    <2> QED BY <2>1, <2>2
  <1>3. PICK q \in Nat : y = u * q + (y % u) /\ y % u \in 0..(u - 1)
    BY Zenon, ModDef, <1>2
  <1> DEFINE r == y % u
  <1> HIDE DEF y
  <1>4. x + n = u * (p + q) + r
    BY <1>2, <1>3
  <1>5. r \in 0..(u - 1)
    BY Zenon, <1>3
  <1> HIDE DEF r
  <1>6. (x + n) % u = r
    <2>1. x + n \in Nat /\ p + q \in Int
      OBVIOUS
    <2> QED BY Zenon, <1>4, <1>5, <2>1, ModIs
  <1> QED BY Zenon, <1>6 DEF r, y

\* Numbers less than u apart have different rests.
LEMMA ModNear ==
    ASSUME NEW x \in Nat, NEW y \in Nat, NEW u \in Nat \ {0}, NEW d \in Nat, d < u,
           x <= y + d, y <= x + d, x % u = y % u
    PROVE x = y
  <1>1. PICK p \in Nat : x = u * p + (x % u) /\ x % u \in 0..(u - 1)
    BY Zenon, ModDef
  <1>2. PICK q \in Nat : y = u * q + (y % u) /\ y % u \in 0..(u - 1)
    BY Zenon, ModDef
  <1>3. x - y = u * (p - q)
    <2> DEFINE r == x % u
    <2>1. x = u * p + r /\ y = u * q + r /\ r \in Int
      BY <1>1, <1>2
    <2> HIDE DEF r
    <2> QED BY <2>1
  <1>4. ASSUME NEW e \in Int, e >= 1 PROVE u * e >= u
    BY <1>4
  <1>5. p - q < 1
    BY <1>3, <1>4
  <1>6. q - p < 1
    <2>1. y - x = u * (q - p)
      BY <1>3
    <2> QED BY <2>1, <1>4
  <1>7. p - q = 0
    BY <1>5, <1>6
  <1> QED BY <1>7, <1>3

-----------------------------------------------------------------------------
(* The inductive invariant                                                 *)
(*                                                                         *)
(* `log' is the list of all packets the agent has numbered since it was    *)
(* started, with a gap for each packet it failed to send; the packet at    *)
(* position k carries the number k % Uint16.  pos[k] is the position of    *)
(* the k-th datagram under way, and a the position of the one read last.   *)
(* With no fault the datagrams under way are the last ones of the log and  *)
(* a the one before them; each fault moves a position by one at most, so   *)
(* the reader is less than Uint16 away from what it expects and takes no   *)
(* number for another one.                                                 *)

Entries == [image : Images, index : Nat, before : Nat, gap : BOOLEAN]

\* The packet, whether it is the last one of its image, and the last picture sent
\* once its image is; `before' is the last picture sent before the image.
PayloadOf(e) == Payloads(e.image)[e.index]
Final(e) == e.index = Len(Payloads(e.image))
After(e) == IF e.image.kind \in Feed!Pictures THEN e.image.picture ELSE e.before

EntryOK(e, ts, rc) ==
    e.gap \/ /\ e.index \in 1..Len(Payloads(e.image))
             /\ e.image.timestamp < ts
             /\ e.image.kind = "P" => rc \/ e.image.picture = e.before + 1
             /\ e.image.kind \in Feed!ParameterSets => e.image.shape = <<1>>

\* f is sent directly after e: the next packet of the image, or the first of a
\* later one.
Succ(e, f) ==
    \/ f.image = e.image /\ f.index = e.index + 1 /\ f.before = e.before
    \/ /\ Final(e) /\ f.index = 1
       /\ e.image.timestamp < f.image.timestamp /\ f.before = After(e)

LogOK(log, ts, rc, snt, seq) ==
    /\ log \in Seq(Entries) /\ seq = (Len(log) + 1) % Uint16
    /\ \A k \in 1..Len(log) : EntryOK(log[k], ts, rc)
    /\ \A k \in 1..(Len(log) - 1) :
         log[k].gap \/ log[k + 1].gap \/ Succ(log[k], log[k + 1])
    /\ log # <<>> /\ ~log[Len(log)].gap =>
         Final(log[Len(log)]) /\ snt = After(log[Len(log)])

Near(x, y, d) == x <= y + d /\ y <= x + d

Datagrams == [payload : Fragments, sequence : 0..(Uint16 - 1)]

NetOK(log, pos, n, flt) ==
    /\ n \in Seq(Datagrams)
    /\ \A k \in 1..Len(n) : /\ pos[k] \in 1..Len(log)
                            /\ ~log[pos[k]].gap
                            /\ n[k] = Packet(PayloadOf(log[pos[k]]), pos[k] % Uint16)
                            /\ Near(pos[k] + Len(n), Len(log) + k, flt)

\* Nothing has been handed over since the opening.
Fresh(s) == s.awaiting_idr /\ ~s.have_sps /\ ~s.have_pps

\* The part of an image that the reader has, up to the packet `index'.
Holds(s, e, index) ==
    /\ \/ s.assembling = <<>>
       \/ /\ Len(s.assembling) <= index
          /\ s.assembling = SubSeq(Payloads(e.image), index + 1 - Len(s.assembling), index)
          /\ ~Payloads(e.image)[index].end
    /\ s.access_unit # <<>> =>
         /\ Timestamp(s.access_unit) <= e.image.timestamp
         /\ Timestamp(s.access_unit) = e.image.timestamp =>
              s.access_unit[1].image = e.image

\* It has all of it.
HoldsAll(s, e, index) ==
    /\ s.access_unit = SubSeq(Payloads(e.image), 1, index - Len(s.assembling))
    /\ index # 0 /\ ~Payloads(e.image)[index].end => s.assembling # <<>>

\* The reader s, whose last picture was l, after the packet e and before the
\* packet e.  It has missed something while it has a loss to report or is Fresh.
ReaderAfter(s, e, l) ==
    /\ Holds(s, e, e.index)
    /\ ~s.losses /\ ~Fresh(s) =>
         IF Final(e) THEN s.access_unit = <<>> ELSE HoldsAll(s, e, e.index)
    /\ ~s.losses /\ ~s.awaiting_idr => l = IF Final(e) THEN After(e) ELSE e.before

ReaderBefore(s, e, l) ==
    /\ Holds(s, e, e.index - 1)
    /\ e.index = 1 /\ s.access_unit # <<>> => Timestamp(s.access_unit) < e.image.timestamp
    /\ e.index = 1 => s.assembling = <<>>
    /\ ~s.losses /\ ~Fresh(s) => HoldsAll(s, e, e.index - 1)
    /\ ~s.losses /\ ~s.awaiting_idr => l = e.before

InStep(log, a, s, l, m, flt) ==
    /\ a \in 1..Len(log) /\ ~log[a].gap
    /\ s.expected = (a + 1) % Uint16
    /\ Near(a + m, Len(log), flt)
    /\ ReaderAfter(s, log[a], l)

Sync == source.have_sequence /\ ~restarted /\ ~mistaken

Tracked ==
    \E log, pos :
      /\ LogOK(log, timestamp, raced, sent, sequence)
      /\ NetOK(log, pos, net, faults)
      /\ Sync => \E a : InStep(log, a, source, last, Len(net), faults)

\* No P picture but the next one passes while `Ready'.
Ready == streaming /\ ~starting /\ ~wait_for_idr

PictureInHand == capture = "send" /\ image.kind \in Feed!Pictures

AgentOK ==
    /\ streaming \in BOOLEAN /\ wait_for_idr \in BOOLEAN /\ starting \in BOOLEAN
    /\ capture \in {"check", "read", "send"}
    /\ fails \in 0..CAPTURE_FAIL_LIMIT /\ reinits \in 0..CAPTURE_REINIT_LIMIT
    /\ timestamp \in Nat /\ sent \in Nat /\ raced \in BOOLEAN
    /\ faults \in 0..MaxFaults
    /\ encoder \in [kind : Kinds \cup {"none"}, picture : Nat]
    /\ capture = "send" => /\ image \in Images /\ image.timestamp = timestamp
                           /\ image.kind \in Feed!ParameterSets => image.shape = <<1>>
    /\ PictureInHand => image.picture = encoder.picture
    /\ Ready => IF PictureInHand
                THEN image.kind = "P" => image.picture = sent + 1
                ELSE sent = encoder.picture

Sources == [opened : BOOLEAN, have_sequence : BOOLEAN, expected : 0..(Uint16 - 1),
            assembling : Seq(Fragments), access_unit : Seq(Fragments), losses : BOOLEAN,
            awaiting_idr : BOOLEAN, have_sps : BOOLEAN, have_pps : BOOLEAN,
            pending_packet_loss : BOOLEAN]

Opened == [Closed EXCEPT !.opened = TRUE, !.awaiting_idr = TRUE]

StartsRight(p) == \A k \in 1..Len(p) : p[k].start <=> k = 1

\* The gate s of a reader that was handed the parameter sets ps.
GateOK(s, ps) ==
    /\ ps \subseteq Feed!ParameterSets
    /\ s.have_sps <=> "SPS" \in ps
    /\ s.have_pps <=> "PPS" \in ps
    /\ s.pending_packet_loss => s.awaiting_idr
    /\ s.opened /\ ~s.awaiting_idr => s.have_sps /\ s.have_pps

SourceOK(s, l, ps) ==
    /\ s \in Sources
    /\ StartsRight(s.assembling)
    /\ GateOK(s, ps)
    /\ s.opened /\ ~s.have_sequence => s = Opened /\ l = 0
    /\ ~s.opened => s = Closed

ReaderOK ==
    /\ SourceOK(source, last, params)
    /\ unit \in Feed!Units \cup {Feed!NoUnit}
    /\ last \in Nat
    /\ restarted \in BOOLEAN /\ mistaken \in BOOLEAN
    /\ restarted => source.have_sequence
    /\ faults = 0 => /\ ~restarted /\ ~mistaken /\ ~source.losses
                     /\ source.opened /\ last # 0 => ~source.awaiting_idr

VideoInv == AgentOK /\ ReaderOK /\ Tracked

-----------------------------------------------------------------------------
(* The reassembler and the gate, field by field *)

NewAssembling(s, f) ==
    IF (f.start /\ f.end) \/ ~Continues(s, f) THEN s.assembling
    ELSE IF f.end THEN <<>> ELSE Assembled(s, f)

NewUnit(s, f) ==
    IF f.end /\ Continues(s, f)
    THEN IF s.access_unit # <<>> /\ Timestamp(s.access_unit) = Timestamp(Assembled(s, f))
         THEN s.access_unit \o Assembled(s, f)
         ELSE Assembled(s, f)
    ELSE s.access_unit

\* t is s but for what is under construction.
SameGate(s, t) ==
    /\ t.opened = s.opened /\ t.have_sequence = s.have_sequence
    /\ t.expected = s.expected /\ t.losses = s.losses
    /\ t.awaiting_idr = s.awaiting_idr
    /\ t.have_sps = s.have_sps /\ t.have_pps = s.have_pps
    /\ t.pending_packet_loss = s.pending_packet_loss

\* rtp_h264_reassembler_push
LEMMA PushFields ==
    ASSUME NEW s \in Sources, NEW f \in Fragments
    PROVE  LET t == rtp_h264_reassembler_push(s, f)
           IN  /\ t = [s EXCEPT !.assembling = NewAssembling(s, f),
                                !.access_unit = NewUnit(s, f)]
               /\ t.assembling = NewAssembling(s, f)
               /\ t.access_unit = NewUnit(s, f)
               /\ SameGate(s, t)
  <1> USE Zenon
  <1> DEFINE t == rtp_h264_reassembler_push(s, f)
             x == NewAssembling(s, f)
             y == NewUnit(s, f)
  <1>1. t = [s EXCEPT !.assembling = x, !.access_unit = y]
    <2>1. CASE f.start /\ f.end
      <3>1. Continues(s, f) /\ Assembled(s, f) = <<f>>
        BY <2>1 DEF Continues, Assembled
      <3>2. t = [s EXCEPT !.access_unit = y]
        BY <2>1, <3>1 DEF rtp_h264_reassembler_push, save_nal, NewUnit
      <3>3. x = s.assembling
        BY <2>1 DEF NewAssembling
      <3> HIDE DEF t, x, y
      <3> QED BY <3>2, <3>3 DEF Sources
    <2>2. CASE ~(f.start /\ f.end) /\ ~Continues(s, f)
      <3>1. t = s /\ x = s.assembling /\ y = s.access_unit
        BY <2>2 DEF rtp_h264_reassembler_push, NewAssembling, NewUnit
      <3> HIDE DEF t, x, y
      <3> QED BY <3>1 DEF Sources
    <2>3. CASE ~(f.start /\ f.end) /\ Continues(s, f) /\ ~f.end
      <3>1. t = [s EXCEPT !.assembling = x] /\ y = s.access_unit
        BY <2>3 DEF rtp_h264_reassembler_push, NewAssembling, NewUnit
      <3> HIDE DEF t, x, y
      <3> QED BY <3>1 DEF Sources
    <2>4. CASE ~(f.start /\ f.end) /\ Continues(s, f) /\ f.end
      <3> DEFINE r == [s EXCEPT !.assembling = <<>>]
      <3>1. t = save_nal(r, Assembled(s, f)) /\ x = <<>>
        BY <2>4 DEF rtp_h264_reassembler_push, NewAssembling
      <3>2. r.access_unit = s.access_unit
        BY DEF Sources
      <3>3. t = [r EXCEPT !.access_unit = y]
        <4> HIDE DEF r
        <4> QED BY <2>4, <3>1, <3>2 DEF save_nal, NewUnit
      <3> HIDE DEF t, x, y
      <3> QED BY <3>1, <3>3 DEF Sources
    <2> QED BY <2>1, <2>2, <2>3, <2>4
  <1> HIDE DEF t, x, y
  <1>2. t.assembling = x /\ t.access_unit = y /\ SameGate(s, t)
    BY <1>1 DEF Sources, SameGate
  <1> QED BY <1>1, <1>2 DEF t, x, y

\* A number that was not expected.
Missed(s, n) == s.have_sequence /\ n # s.expected

LEMMA SequencedFields ==
    ASSUME NEW s \in Sources, NEW n \in Nat
    PROVE  LET t == Sequenced(s, n)
           IN  /\ t \in Sources
               /\ t.have_sequence = TRUE /\ t.expected = (n + 1) % Uint16
               /\ t.opened = s.opened /\ t.awaiting_idr = s.awaiting_idr
               /\ t.have_sps = s.have_sps /\ t.have_pps = s.have_pps
               /\ t.pending_packet_loss = s.pending_packet_loss
               /\ Missed(s, n) => /\ t.assembling = <<>> /\ t.access_unit = <<>>
                                  /\ t.losses = TRUE
               /\ ~Missed(s, n) => /\ t.assembling = s.assembling
                                   /\ t.access_unit = s.access_unit
                                   /\ t.losses = s.losses
  <1> USE Zenon
  <1> DEFINE x == (n + 1) % Uint16
             t == Sequenced(s, n)
  <1>1. x \in 0..(Uint16 - 1)
    BY SMT, SequenceAssumption
  <1> HIDE DEF x
  <1>2. CASE Missed(s, n)
    <2>1. t = [[s EXCEPT !.assembling = <<>>, !.access_unit = <<>>, !.losses = TRUE]
                 EXCEPT !.have_sequence = TRUE, !.expected = x]
      BY <1>2 DEF Sequenced, Missed, count_loss, x
    <2> HIDE DEF t
    <2>2. <<>> \in Seq(Fragments)
      BY SMT
    <2>3. t \in Sources
      BY <1>1, <2>1, <2>2 DEF Sources
    <2>4. /\ t.have_sequence = TRUE /\ t.expected = x
          /\ t.opened = s.opened /\ t.awaiting_idr = s.awaiting_idr
          /\ t.have_sps = s.have_sps /\ t.have_pps = s.have_pps
          /\ t.pending_packet_loss = s.pending_packet_loss
          /\ t.assembling = <<>> /\ t.access_unit = <<>> /\ t.losses = TRUE
      BY <2>1 DEF Sources
    <2> QED BY <1>2, <2>3, <2>4 DEF x, t
  <1>3. CASE ~Missed(s, n)
    <2>1. t = [s EXCEPT !.have_sequence = TRUE, !.expected = x]
      BY <1>3 DEF Sequenced, Missed, x
    <2> HIDE DEF t
    <2>2. t \in Sources
      BY <1>1, <2>1 DEF Sources
    <2>3. /\ t.have_sequence = TRUE /\ t.expected = x
          /\ t.opened = s.opened /\ t.awaiting_idr = s.awaiting_idr
          /\ t.have_sps = s.have_sps /\ t.have_pps = s.have_pps
          /\ t.pending_packet_loss = s.pending_packet_loss
          /\ t.assembling = s.assembling /\ t.access_unit = s.access_unit
          /\ t.losses = s.losses
      BY <2>1 DEF Sources
    <2> QED BY <1>3, <2>2, <2>3 DEF x, t
  <1> QED BY <1>2, <1>3

\* The gate t after a unit of the kind `kind' (video_source_read).
GateIs(s, kind, t) ==
    LET sps == s.have_sps \/ kind = "SPS"
        pps == s.have_pps \/ kind = "PPS"
    IN  /\ t \in Sources /\ t.access_unit = <<>> /\ t.assembling = s.assembling
        /\ t.opened = s.opened /\ t.have_sequence = s.have_sequence
        /\ t.expected = s.expected /\ t.losses = FALSE
        /\ t.have_sps = sps /\ t.have_pps = pps
        /\ t.pending_packet_loss = (s.pending_packet_loss \/ s.losses)
        /\ t.awaiting_idr = ((s.awaiting_idr \/ s.losses)
                               /\ ~(kind = "IDR" /\ sps /\ pps))

LEMMA GateFields ==
    ASSUME NEW s \in Sources, NEW kind
    PROVE  GateIs(s, kind, Gated(Noticed([s EXCEPT !.access_unit = <<>>]), kind))
  <1> USE Zenon
  <1> DEFINE r == [s EXCEPT !.access_unit = <<>>]
             q == Noticed(r)
             sps == s.have_sps \/ kind = "SPS"
             pps == s.have_pps \/ kind = "PPS"
             t == Gated(q, kind)
  <1>1. /\ r \in Sources /\ r.access_unit = <<>> /\ r.assembling = s.assembling
        /\ r.opened = s.opened /\ r.have_sequence = s.have_sequence
        /\ r.expected = s.expected /\ r.losses = s.losses
        /\ r.have_sps = s.have_sps /\ r.have_pps = s.have_pps
        /\ r.pending_packet_loss = s.pending_packet_loss
        /\ r.awaiting_idr = s.awaiting_idr
    <2>1. <<>> \in Seq(Fragments)
      BY SMT
    <2>2. r \in Sources
      BY <2>1 DEF Sources
    <2> QED BY <2>2 DEF Sources
  <1> HIDE DEF r
  <1> DEFINE pending == r.pending_packet_loss \/ r.losses
             awaiting == r.awaiting_idr \/ r.losses
  <1>2. q = [r EXCEPT !.pending_packet_loss = pending, !.awaiting_idr = awaiting,
                      !.losses = FALSE]
    BY DEF Noticed
  <1>3. pending \in BOOLEAN /\ awaiting \in BOOLEAN
    OBVIOUS
  <1> HIDE DEF q, pending, awaiting
  <1>4. /\ q \in Sources /\ q.access_unit = r.access_unit /\ q.assembling = r.assembling
        /\ q.opened = r.opened /\ q.have_sequence = r.have_sequence
        /\ q.expected = r.expected /\ q.losses = FALSE
        /\ q.have_sps = r.have_sps /\ q.have_pps = r.have_pps
        /\ q.pending_packet_loss = pending
        /\ q.awaiting_idr = awaiting
    <2>1. r \in Sources
      BY <1>1
    <2>2. q \in Sources
      BY ZenonT(30), <1>2, <1>3, <2>1 DEF Sources
    <2> QED BY <1>2, <2>1, <2>2 DEF Sources
  <1> DEFINE sps2 == q.have_sps \/ kind = "SPS"
             pps2 == q.have_pps \/ kind = "PPS"
             gate == q.awaiting_idr /\ ~(kind = "IDR" /\ sps2 /\ pps2)
  <1>5. t = [q EXCEPT !.have_sps = sps2, !.have_pps = pps2, !.awaiting_idr = gate]
    BY DEF Gated
  <1>6. sps2 \in BOOLEAN /\ pps2 \in BOOLEAN /\ gate \in BOOLEAN
    OBVIOUS
  <1> HIDE DEF t, sps2, pps2, gate
  <1>7. /\ t \in Sources /\ t.access_unit = q.access_unit /\ t.assembling = q.assembling
        /\ t.opened = q.opened /\ t.have_sequence = q.have_sequence
        /\ t.expected = q.expected /\ t.losses = q.losses
        /\ t.have_sps = sps2 /\ t.have_pps = pps2
        /\ t.pending_packet_loss = q.pending_packet_loss
        /\ t.awaiting_idr = gate
    <2>1. q \in Sources
      BY <1>4
    <2>2. t \in Sources
      BY ZenonT(30), <1>5, <1>6, <2>1 DEF Sources
    <2> QED BY SMT, <1>5, <2>1, <2>2 DEF Sources
  <1>8. sps2 = sps /\ pps2 = pps
    BY <1>1, <1>4 DEF sps2, pps2
  <1>9. t.pending_packet_loss = (s.pending_packet_loss \/ s.losses)
    BY <1>1, <1>4, <1>7 DEF pending
  <1>10. t.awaiting_idr = ((s.awaiting_idr \/ s.losses) /\ ~(kind = "IDR" /\ sps /\ pps))
    BY <1>1, <1>4, <1>7, <1>8 DEF awaiting, gate
  <1>11. /\ t \in Sources /\ t.access_unit = <<>> /\ t.assembling = s.assembling
         /\ t.opened = s.opened /\ t.have_sequence = s.have_sequence
         /\ t.expected = s.expected /\ t.losses = FALSE
         /\ t.have_sps = sps /\ t.have_pps = pps
    BY <1>1, <1>4, <1>7, <1>8
  <1>12. GateIs(s, kind, t)
    BY <1>9, <1>10, <1>11 DEF GateIs
  <1> QED BY <1>12 DEF t, q, r

\* What is under construction is a list of fragments that begins with the start of
\* a NAL unit, whatever arrives.
LEMMA PushTyped ==
    ASSUME NEW s \in Sources, StartsRight(s.assembling), NEW f \in Fragments
    PROVE  LET t == rtp_h264_reassembler_push(s, f)
           IN  /\ t \in Sources /\ StartsRight(t.assembling)
               /\ f.end /\ Continues(s, f) => t.access_unit # <<>>
  <1> USE Zenon
  <1> DEFINE n == Assembled(s, f)
             a == s.assembling
             x == NewAssembling(s, f)
             y == NewUnit(s, f)
             t == rtp_h264_reassembler_push(s, f)
  <1>1. a \in Seq(Fragments) /\ s.access_unit \in Seq(Fragments) /\ <<>> \in Seq(Fragments)
    BY SMT DEF Sources
  <1>2. n \in Seq(Fragments) /\ n # <<>>
    <2>1. CASE f.start
      <3>1. n = <<f>>
        BY <2>1 DEF Assembled
      <3> HIDE DEF n
      <3> QED BY SMT, <3>1
    <2>2. CASE ~f.start
      <3>1. n = Append(a, f)
        BY <2>2 DEF Assembled
      <3> HIDE DEF n, a
      <3> QED BY SMT, <1>1, <3>1
    <2> QED BY <2>1, <2>2
  <1>3. ASSUME Continues(s, f) PROVE StartsRight(n)
    <2>1. CASE f.start
      <3>1. n = <<f>>
        BY <2>1 DEF Assembled
      <3> HIDE DEF n
      <3>2. \A k \in 1..Len(n) : k = 1 /\ n[k] = f
        BY SMT, <3>1
      <3> QED BY <2>1, <3>2 DEF StartsRight
    <2>2. CASE ~f.start
      <3>1. n = Append(a, f) /\ a # <<>>
        BY <1>3, <2>2 DEF Assembled, Continues
      <3> HIDE DEF n, a
      <3>2. Len(a) \in Nat \ {0}
        BY <1>1, <3>1, Lengths
      <3>3. \A k \in 1..Len(n) : IF k \in 1..Len(a) THEN n[k] = a[k] ELSE n[k] = f /\ k # 1
        BY SMT, <1>1, <3>1, <3>2
      <3> QED BY <2>2, <3>3 DEF StartsRight, a
    <2> QED BY <2>1, <2>2
  <1>4. x \in Seq(Fragments) /\ StartsRight(x)
    <2>1. x = a \/ x = <<>> \/ (x = n /\ Continues(s, f))
      BY DEF NewAssembling
    <2>2. StartsRight(<<>>)
      <3>1. Len(<<>>) = 0
        OBVIOUS
      <3>2. 1..Len(<<>>) = {}
        BY SMT, <3>1
      <3> QED BY <3>2 DEF StartsRight
    <2> HIDE DEF x, n
    <2> QED BY <1>1, <1>2, <1>3, <2>1, <2>2
  <1>5. y \in Seq(Fragments) /\ (f.end /\ Continues(s, f) => y # <<>>)
    <2>1. \/ y = s.access_unit /\ ~(f.end /\ Continues(s, f))
          \/ y = n
          \/ y = s.access_unit \o n
      BY DEF NewUnit
    <2>2. s.access_unit \o n \in Seq(Fragments) /\ s.access_unit \o n # <<>>
      <3> HIDE DEF n
      <3> DEFINE u == s.access_unit
      <3>1. u \in Seq(Fragments)
        BY <1>1
      <3> HIDE DEF u
      <3>2. Len(n) \in Nat \ {0} /\ Len(u) \in Nat
        BY <1>2, <3>1, Lengths
      <3>3. u \o n \in Seq(Fragments) /\ Len(u \o n) = Len(u) + Len(n)
        BY <1>2, <3>1, Concatenation
      <3>4. Len(u \o n) \in Nat \ {0}
        BY SMT, <3>2, <3>3
      <3>5. u \o n # <<>>
        BY <3>3, <3>4, Lengths
      <3> QED BY <3>3, <3>5 DEF u
    <2> HIDE DEF y, n
    <2> QED BY <1>1, <1>2, <2>1, <2>2
  <1>6. t = [s EXCEPT !.assembling = x, !.access_unit = y] /\ t.assembling = x
        /\ t.access_unit = y
    BY PushFields
  <1> HIDE DEF x, y, t
  <1>7. t \in Sources
    BY <1>4, <1>5, <1>6 DEF Sources
  <1> QED BY <1>4, <1>5, <1>6, <1>7 DEF t

\* The packets of an image, one by one.
LEMMA Parts ==
    ASSUME NEW i \in Images
    PROVE  LET p == Payloads(i)
           IN  /\ p \in Seq(Fragments) /\ Len(p) \in Nat \ {0}
               /\ \A k \in 1..Len(p) : /\ p[k] \in Fragments /\ p[k].image = i
                                       /\ p[k].marker <=> k = Len(p)
                                       /\ k # 1 => (p[k - 1].end <=> p[k].start)
               /\ p[1].start /\ p[Len(p)].end
  <1> USE Zenon
  <1> DEFINE p == Payloads(i)
  <1>1. WholeUnits(p, i, TRUE)
    BY PayloadsWhole
  <1> HIDE DEF p
  <1>2. p \in Seq(Fragments) /\ Len(p) \in Nat \ {0}
    BY <1>1 DEF WholeUnits
  <1>3. ASSUME NEW k \in 1..Len(p)
        PROVE  /\ p[k] \in Fragments /\ p[k].image = i
               /\ p[k].marker <=> k = Len(p)
               /\ k # 1 => (p[k - 1].end <=> p[k].start)
    <2>1. p[k] \in Fragments
      BY <1>2, Element
    <2>2. p[k].image = i /\ (p[k].marker <=> k = Len(p))
      BY <1>1 DEF WholeUnits
    <2>3. ASSUME k # 1 PROVE p[k - 1].end <=> p[k].start
      <3>1. k - 1 \in 1..(Len(p) - 1) /\ (k - 1) + 1 = k
        BY SMT, <1>2, <2>3
      <3>2. p[k - 1].end <=> p[(k - 1) + 1].start
        BY <1>1, <3>1 DEF WholeUnits
      <3> QED BY <3>1, <3>2
    <2> QED BY <2>1, <2>2, <2>3
  <1>4. p[1].start /\ p[Len(p)].end
    BY <1>1 DEF WholeUnits
  <1> QED BY <1>2, <1>3, <1>4 DEF p

-----------------------------------------------------------------------------
(* A packet read in its place *)

Sent(e) == e \in Entries /\ e.index \in 1..Len(Payloads(e.image))

LEMMA SentImage ==
    ASSUME NEW e, Sent(e)
    PROVE  /\ e.image \in Images /\ e.image.timestamp \in Nat /\ e.image.kind \in Kinds
           /\ e.image.picture \in Nat /\ e.index \in Nat /\ e.before \in Nat
  BY Zenon DEF Sent, Entries, Images

\* After the packet g comes its successor e.
LEMMA InOrder ==
    ASSUME NEW s \in Sources, NEW g, NEW e, NEW l, Sent(g), Sent(e), Succ(g, e),
           ReaderAfter(s, g, l)
    PROVE  ReaderBefore(s, e, l)
  <1> USE Zenon
  <1>0. g.index \in Nat /\ e.index \in Nat
    BY SentImage
  <1>1. CASE e.image = g.image /\ e.index = g.index + 1 /\ e.before = g.before
    <2>1. e.index - 1 = g.index /\ e.index # 1 /\ ~Final(g)
      <3>1. g.index \in 1..Len(Payloads(g.image)) /\ e.index \in 1..Len(Payloads(g.image))
        BY <1>1 DEF Sent
      <3>2. Len(Payloads(g.image)) \in Nat
        BY SentImage, Parts
      <3> QED BY SMT, <1>0, <1>1, <3>1, <3>2 DEF Final
    <2>2. Holds(s, e, e.index - 1)
      BY <1>1, <2>1 DEF ReaderAfter, Holds
    <2>3. ~s.losses /\ ~Fresh(s) => HoldsAll(s, e, e.index - 1)
      BY <1>1, <2>1 DEF ReaderAfter, HoldsAll
    <2>4. ~s.losses /\ ~s.awaiting_idr => l = e.before
      BY <1>1, <2>1 DEF ReaderAfter
    <2> QED BY <2>1, <2>2, <2>3, <2>4 DEF ReaderBefore
  <1>2. CASE /\ Final(g) /\ e.index = 1
             /\ g.image.timestamp < e.image.timestamp /\ e.before = After(g)
    <2>1. s.assembling = <<>>
      <3>1. Payloads(g.image)[g.index].end
        BY <1>2, SentImage, Parts DEF Final
      <3> QED BY <3>1 DEF ReaderAfter, Holds
    <2>2. s.access_unit # <<>> =>
            /\ Timestamp(s.access_unit) <= e.image.timestamp
            /\ Timestamp(s.access_unit) # e.image.timestamp
            /\ Timestamp(s.access_unit) < e.image.timestamp
      <3> SUFFICES ASSUME s.access_unit # <<>>
                   PROVE  /\ Timestamp(s.access_unit) <= e.image.timestamp
                          /\ Timestamp(s.access_unit) # e.image.timestamp
                          /\ Timestamp(s.access_unit) < e.image.timestamp
        OBVIOUS
      <3>1. Timestamp(s.access_unit) <= g.image.timestamp
        BY DEF ReaderAfter, Holds
      <3>2. g.image.timestamp \in Nat /\ e.image.timestamp \in Nat
        BY SentImage
      <3>3. Timestamp(s.access_unit) \in Nat
        <4> DEFINE u == s.access_unit
        <4>1. u \in Seq(Fragments) /\ u # <<>>
          BY DEF Sources
        <4> HIDE DEF u
        <4>2. u[1] \in Fragments
          BY SMT, <4>1
        <4> QED BY <4>2 DEF Timestamp, Fragments, Images, u
      <3> QED BY SMT, <1>2, <3>1, <3>2, <3>3
    <2>3. e.index - 1 = 0
      BY SMT, <1>2
    <2>4. Holds(s, e, 0)
      BY <2>1, <2>2 DEF Holds
    <2>5. ASSUME ~s.losses, ~Fresh(s) PROVE HoldsAll(s, e, 0)
      <3>1. s.access_unit = <<>>
        BY <1>2, <2>5 DEF ReaderAfter
      <3>2. 0 - Len(s.assembling) = 0
        <4>1. Len(<<>>) = 0 /\ 0 - 0 = 0
          BY SMT
        <4> QED BY <2>1, <4>1
      <3>3. SubSeq(Payloads(e.image), 1, 0) = <<>>
        BY SMT
      <3> QED BY <3>1, <3>2, <3>3 DEF HoldsAll
    <2>6. ~s.losses /\ ~s.awaiting_idr => l = e.before
      BY <1>2 DEF ReaderAfter
    <2> QED BY <2>1, <2>2, <2>3, <2>4, <2>5, <2>6 DEF ReaderBefore
  <1> QED BY <1>1, <1>2 DEF Succ

\* The first packet, or the first after a gap.
LEMMA Anew ==
    ASSUME NEW s \in Sources, NEW e, NEW l, s.assembling = <<>>, s.access_unit = <<>>,
           s.losses \/ Fresh(s)
    PROVE  ReaderBefore(s, e, l)
  BY Zenon DEF ReaderBefore, Holds, Fresh

\* A part of a sequence, and the part that follows it.
LEMMA SubSeqFacts ==
    ASSUME NEW S, NEW p \in Seq(S), NEW m \in 1..Len(p), NEW n \in m..Len(p)
    PROVE  /\ SubSeq(p, m, n) \in Seq(S) /\ Len(SubSeq(p, m, n)) = n - m + 1
           /\ SubSeq(p, m, n)[1] = p[m]
           /\ SubSeq(p, m, n) # <<>>
  OBVIOUS

LEMMA ConcatParts ==
    ASSUME NEW S, NEW p \in Seq(S), NEW k \in 0..Len(p), NEW i \in k..Len(p)
    PROVE  SubSeq(p, 1, k) \o SubSeq(p, k + 1, i) = SubSeq(p, 1, i)
  OBVIOUS

\* A fragment read in its place continues the NAL unit under construction.
LEMMA PlacedFragment ==
    ASSUME NEW s \in Sources, NEW e, NEW l, Sent(e), ReaderBefore(s, e, l)
    PROVE  LET p == Payloads(e.image)
               f == PayloadOf(e)
               n == Assembled(s, f)
           IN  /\ Continues(s, f) <=> f.start \/ s.assembling # <<>>
               /\ f.start => s.assembling = <<>>
               /\ Continues(s, f) =>
                    /\ Len(n) \in Nat \ {0} /\ Len(n) = Len(s.assembling) + 1
                    /\ Len(n) <= e.index
                    /\ n = SubSeq(p, e.index + 1 - Len(n), e.index)
                    /\ n \in Seq(Fragments) /\ n[1].image = e.image
  <1> USE Zenon
  <1> DEFINE p == Payloads(e.image)
             f == PayloadOf(e)
             n == Assembled(s, f)
             i == e.index
             a == s.assembling
  <1>1. /\ p \in Seq(Fragments) /\ Len(p) \in Nat \ {0} /\ i \in 1..Len(p)
        /\ \A k \in 1..Len(p) : p[k] \in Fragments /\ p[k].image = e.image
        /\ i # 1 => (p[i - 1].end <=> p[i].start)
        /\ f = p[i] /\ p[1].start
    BY ZenonT(30), SentImage, Parts DEF Sent, PayloadOf
  <1>2. a \in Seq(Fragments) /\ Len(a) \in Nat
    BY SMT DEF Sources
  <1>3. ASSUME a # <<>>
        PROVE  /\ i # 1 /\ ~f.start /\ Len(a) <= i - 1 /\ Len(a) # 0
               /\ a = SubSeq(p, i - Len(a), i - 1)
               /\ a[1].image = e.image
    <2>1. i # 1 /\ Len(a) <= i - 1 /\ a = SubSeq(p, (i - 1) + 1 - Len(a), i - 1)
          /\ ~p[i - 1].end
      BY <1>3 DEF ReaderBefore, Holds
    <2>2. ~f.start
      BY <1>1, <2>1
    <2>3. Len(a) # 0
      BY <1>2, <1>3, Lengths
    <2>4. (i - 1) + 1 - Len(a) = i - Len(a) /\ i - Len(a) \in 1..Len(p) /\ i - 1 \in (i - Len(a))..Len(p)
      <3> HIDE DEF a, p, i
      <3> QED BY SMT, <1>1, <1>2, <2>1, <2>3
    <2>5. a = SubSeq(p, i - Len(a), i - 1)
      BY <2>1, <2>4
    <2>6. a[1] = p[i - Len(a)]
      <3> DEFINE k == i - Len(a)
      <3>1. SubSeq(p, k, i - 1)[1] = p[k]
        <4>1. p \in Seq(Fragments) /\ k \in 1..Len(p) /\ i - 1 \in k..Len(p)
          BY <1>1, <2>4
        <4> HIDE DEF k, p, i
        <4> QED BY <4>1, SubSeqFacts
      <3> QED BY <2>5, <3>1
    <2> QED BY <1>1, <2>1, <2>2, <2>3, <2>4, <2>5, <2>6
  <1>4. Timestamp(<<f>>) = e.image.timestamp
    <2>1. <<f>>[1] = f /\ f.image = e.image
      BY <1>1
    <2> QED BY <2>1 DEF Timestamp
  <1>5. Continues(s, f) <=> f.start \/ a # <<>>
    BY <1>3, <1>4 DEF Continues, Timestamp
  <1>6. f.start => a = <<>>
    BY <1>3
  <1>7. ASSUME Continues(s, f)
        PROVE  /\ Len(n) = Len(a) + 1 /\ Len(n) <= i
               /\ n = SubSeq(p, i + 1 - Len(n), i)
    <2>1. CASE f.start
      <3>1. n = <<f>> /\ a = <<>>
        BY <1>6, <2>1 DEF Assembled
      <3>2. Len(n) = 1 /\ Len(a) = 0
        <4> HIDE DEF n, a
        <4> QED BY <3>1
      <3>3. i + 1 - 1 = i /\ 1 <= i /\ i \in 1..Len(p) /\ i \in i..Len(p) /\ 1 = 0 + 1
        <4> HIDE DEF p, i
        <4> QED BY SMT, <1>1
      <3>4. SubSeq(p, i, i) = <<p[i]>>
        <4> DEFINE q == SubSeq(p, i, i)
        <4>0. p \in Seq(Fragments) /\ i \in 1..Len(p) /\ i \in i..Len(p)
          BY <1>1, <3>3
        <4>1. q \in Seq(Fragments) /\ Len(q) = i - i + 1 /\ q[1] = p[i]
          <5> HIDE DEF p, i
          <5> QED BY <4>0, SubSeqFacts
        <4> HIDE DEF q, p, i
        <4>2. Len(q) = 1
          BY SMT, <1>1, <4>1
        <4>3. q = <<p[i]>>
          <5> DEFINE r == <<p[i]>>
          <5>0. p[i] \in Fragments
            BY <1>1
          <5>1. r \in Seq(Fragments) /\ Len(r) = 1 /\ r[1] = p[i]
            BY SMT, <5>0
          <5> HIDE DEF r
          <5>2. \A k \in 1..Len(q) : q[k] = r[k]
            <6>1. \A k \in 1..1 : k = 1
              BY SMT
            <6> QED BY <4>1, <4>2, <5>1, <6>1
          <5>3. q = r
            BY SMT, <4>1, <4>2, <5>1, <5>2
          <5> QED BY <5>3 DEF r
        <4> QED BY <4>3 DEF q
      <3> QED BY <1>1, <3>1, <3>2, <3>3, <3>4
    <2>2. CASE ~f.start
      <3>1. n = Append(a, f) /\ a # <<>>
        BY <1>5, <1>7, <2>2 DEF Assembled
      <3>2. Len(n) = Len(a) + 1
        <4> HIDE DEF n, a, f
        <4> QED BY SMT, <1>2, <3>1
      <3>3. /\ Len(n) <= i /\ i + 1 - Len(n) = i - Len(a)
            /\ i - Len(a) \in 1..Len(p) /\ i \in (i - Len(a))..Len(p)
        <4>1. Len(a) <= i - 1 /\ Len(a) # 0
          BY <1>3, <3>1
        <4> HIDE DEF p, i, a, n
        <4> QED BY SMT, <1>1, <1>2, <3>2, <4>1
      <3>4. SubSeq(p, i - Len(a), i) = SubSeq(p, i - Len(a), i - 1) \o <<p[i]>>
        <4> HIDE DEF a, p, i
        <4> QED BY SMTT(30), <1>1, <3>3
      <3>5. a \o <<p[i]>> = Append(a, f)
        <4> HIDE DEF a, p, i
        <4> QED BY SMT, <1>1, <1>2
      <3> QED BY <1>3, <3>1, <3>2, <3>3, <3>4, <3>5
    <2> QED BY <2>1, <2>2
  <1>8. ASSUME Continues(s, f)
        PROVE  /\ Len(n) \in Nat \ {0} /\ n \in Seq(Fragments) /\ n[1].image = e.image
    <2> DEFINE m == i + 1 - Len(n)
    <2>1. Len(n) \in Nat \ {0} /\ m \in 1..Len(p) /\ i \in m..Len(p)
      <3>1. Len(n) = Len(a) + 1 /\ Len(n) <= i
        BY <1>7, <1>8
      <3> HIDE DEF p, i, a, n
      <3> QED BY SMT, <1>1, <1>2, <3>1
    <2>2. SubSeq(p, m, i) \in Seq(Fragments) /\ SubSeq(p, m, i)[1] = p[m]
      <3>1. p \in Seq(Fragments)
        BY <1>1
      <3> HIDE DEF m, p, i
      <3> QED BY <2>1, <3>1, SubSeqFacts
    <2>3. n = SubSeq(p, m, i)
      BY <1>7, <1>8
    <2> QED BY <1>1, <2>1, <2>2, <2>3
  <1> QED BY <1>5, <1>6, <1>7, <1>8

\* A NAL unit completed in its place is added to the access unit.
LEMMA PlacedUnit ==
    ASSUME NEW s \in Sources, NEW e, NEW l, Sent(e), ReaderBefore(s, e, l),
           PayloadOf(e).end, Continues(s, PayloadOf(e))
    PROVE  LET f == PayloadOf(e)
               y == NewUnit(s, f)
           IN  /\ NewAssembling(s, f) = <<>>
               /\ y[1].image = e.image /\ Timestamp(y) = e.image.timestamp
               /\ ~s.losses /\ ~Fresh(s) => y = SubSeq(Payloads(e.image), 1, e.index)
               /\ e.index = 1 => y = SubSeq(Payloads(e.image), 1, e.index)
  <1> USE Zenon
  <1> DEFINE p == Payloads(e.image)
             f == PayloadOf(e)
             n == Assembled(s, f)
             i == e.index
             a == s.assembling
             u == s.access_unit
             y == NewUnit(s, f)
             k == i - Len(n)
  <1>1. /\ p \in Seq(Fragments) /\ Len(p) \in Nat \ {0} /\ i \in 1..Len(p)
        /\ \A j \in 1..Len(p) : p[j] \in Fragments /\ p[j].image = e.image
    BY ZenonT(30), SentImage, Parts DEF Sent
  <1>2. /\ f.start => a = <<>>
        /\ Len(n) \in Nat \ {0} /\ Len(n) = Len(a) + 1 /\ Len(n) <= i
        /\ n = SubSeq(p, i + 1 - Len(n), i)
        /\ n \in Seq(Fragments) /\ n[1].image = e.image
    BY PlacedFragment
  <1>3. NewAssembling(s, f) = <<>>
    BY <1>2 DEF NewAssembling
  <1>4. u \in Seq(Fragments) /\ Len(a) \in Nat
    BY SMT DEF Sources
  <1>5. Timestamp(n) = e.image.timestamp
    BY <1>2 DEF Timestamp
  <1>6. y = IF u # <<>> /\ Timestamp(u) = e.image.timestamp THEN u \o n ELSE n
    BY <1>5 DEF NewUnit
  <1>7. y[1].image = e.image
    <2>1. CASE u # <<>> /\ Timestamp(u) = e.image.timestamp
      <3>1. u[1].image = e.image
        BY <2>1 DEF ReaderBefore, Holds
      <3>2. (u \o n)[1] = u[1]
        <4> HIDE DEF u, n
        <4>1. Len(u) \in Nat \ {0}
          BY <1>4, <2>1, Lengths
        <4> QED BY SMT, <1>2, <1>4, <4>1
      <3> QED BY <1>6, <2>1, <3>1, <3>2
    <2>2. CASE ~(u # <<>> /\ Timestamp(u) = e.image.timestamp)
      BY <1>2, <1>6, <2>2
    <2> QED BY <2>1, <2>2
  <1>8. Timestamp(y) = e.image.timestamp
    BY <1>7 DEF Timestamp
  <1>9. /\ k \in 0..(i - 1) /\ k + 1 = i + 1 - Len(n) /\ k = (i - 1) - Len(a)
        /\ 1 \in 1..(Len(p) + 1) /\ k \in (1 - 1)..Len(p) /\ i \in k..Len(p)
    <2> HIDE DEF i, n, p, a
    <2> QED BY SMT, <1>1, <1>2, <1>4
  <1>10. n = SubSeq(p, k + 1, i)
    BY <1>2, <1>9
  <1>11. ASSUME ~s.losses, ~Fresh(s) PROVE y = SubSeq(p, 1, i)
    <2>1. u = SubSeq(p, 1, k)
      BY <1>9, <1>11 DEF ReaderBefore, HoldsAll
    <2>2. CASE k = 0
      <3>1. u = <<>>
        <4>1. SubSeq(p, 1, 0) = <<>>
          BY SMT
        <4> QED BY <2>1, <2>2, <4>1
      <3>2. y = n
        BY <1>6, <3>1
      <3>3. k + 1 = 1
        BY SMT, <2>2
      <3> QED BY <1>10, <3>2, <3>3
    <2>3. CASE k # 0
      <3>1. 1 \in 1..Len(p) /\ k \in 1..Len(p)
        <4> HIDE DEF k, p, i
        <4> QED BY SMT, <1>1, <1>9, <2>3
      <3>2. u # <<>> /\ u[1] = p[1]
        <4>1. p \in Seq(Fragments)
          BY <1>1
        <4> HIDE DEF k, p, u
        <4>2. SubSeq(p, 1, k) # <<>> /\ SubSeq(p, 1, k)[1] = p[1]
          <5> DEFINE one == 1
          <5>1. one \in 1..Len(p) /\ k \in one..Len(p)
            BY <3>1
          <5> HIDE DEF one
          <5>2. SubSeq(p, one, k) # <<>> /\ SubSeq(p, one, k)[1] = p[one]
            BY ZenonT(30), <4>1, <5>1, SubSeqFacts
          <5> QED BY <5>2 DEF one
        <4> QED BY <2>1, <4>2
      <3>3. Timestamp(u) = e.image.timestamp
        BY <1>1, <3>1, <3>2 DEF Timestamp
      <3>4. y = u \o n
        BY <1>6, <3>2, <3>3
      <3>5. SubSeq(p, 1, k) \o SubSeq(p, k + 1, i) = SubSeq(p, 1, i)
        <4>1. p \in Seq(Fragments)
          BY <1>1
        <4> HIDE DEF k, p, i
        <4>2. Len(p) \in Nat /\ k \in 0..Len(p) /\ i \in k..Len(p)
          BY SMT, <1>1, <1>9
        <4> QED BY <4>1, <4>2, ConcatParts
      <3> QED BY <1>10, <2>1, <3>4, <3>5
    <2> QED BY <2>2, <2>3
  <1>12. ASSUME i = 1 PROVE y = SubSeq(p, 1, i)
    <2>1. k = 0 /\ k + 1 = 1
      <3> HIDE DEF k, i
      <3> QED BY SMT, <1>9, <1>12
    <2>2. ASSUME u # <<>> PROVE Timestamp(u) # e.image.timestamp
      <3>1. Timestamp(u) < e.image.timestamp
        BY <1>12, <2>2 DEF ReaderBefore
      <3>2. e.image.timestamp \in Nat
        BY SentImage
      <3> QED BY SMT, <3>1, <3>2
    <2> QED BY <1>6, <1>10, <2>1, <2>2
  <1> QED BY <1>3, <1>7, <1>8, <1>11, <1>12

\* A packet that completes no unit leaves the reader after it.
LEMMA PushOn ==
    ASSUME NEW s \in Sources, NEW e, NEW l, Sent(e), ReaderBefore(s, e, l),
           ~Completes(s, PayloadOf(e))
    PROVE  ReaderAfter(rtp_h264_reassembler_push(s, PayloadOf(e)), e, l)
  <1> USE Zenon
  <1> DEFINE p == Payloads(e.image)
             f == PayloadOf(e)
             n == Assembled(s, f)
             i == e.index
             t == rtp_h264_reassembler_push(s, f)
             x == NewAssembling(s, f)
             y == NewUnit(s, f)
  <1>1. /\ p \in Seq(Fragments) /\ Len(p) \in Nat \ {0} /\ i \in 1..Len(p)
        /\ f = p[i] /\ f \in Fragments
        /\ f.marker <=> Final(e)
        /\ i # 1 => (p[i - 1].end <=> f.start)
        /\ i = 1 => f.start
    BY SentImage, Parts DEF Sent, PayloadOf, Final
  <1>2. t.assembling = x /\ t.access_unit = y /\ SameGate(s, t)
    BY <1>1, PushFields
  <1>3. /\ Continues(s, f) <=> f.start \/ s.assembling # <<>>
        /\ f.start => s.assembling = <<>>
        /\ Continues(s, f) =>
             /\ Len(n) \in Nat \ {0} /\ Len(n) = Len(s.assembling) + 1
             /\ Len(n) <= i /\ n = SubSeq(p, i + 1 - Len(n), i)
    BY PlacedFragment
  <1>4. ASSUME ~s.losses, ~Fresh(s) PROVE Continues(s, f) /\ ~Final(e)
    <2>1. HoldsAll(s, e, i - 1)
      BY <1>4 DEF ReaderBefore
    <2>2. i # 1 => i - 1 # 0
      BY SMT, <1>1
    <2>3. Continues(s, f)
      BY <1>1, <1>3, <2>1, <2>2 DEF HoldsAll
    <2> QED BY <1>1, <2>3 DEF Completes
  <1>5. ~s.losses /\ ~s.awaiting_idr => l = e.before /\ ~Final(e)
    BY <1>4 DEF ReaderBefore, Fresh
  <1>6. Holds(s, e, i - 1)
    BY DEF ReaderBefore
  <1>7. Holds(t, e, i) /\ (~s.losses /\ ~Fresh(s) => HoldsAll(t, e, i))
    <2>1. CASE f.end /\ Continues(s, f)
      <3>1. /\ x = <<>> /\ y[1].image = e.image /\ Timestamp(y) = e.image.timestamp
            /\ ~s.losses /\ ~Fresh(s) => y = SubSeq(p, 1, i)
        BY <2>1, PlacedUnit
      <3>2. e.image.timestamp <= e.image.timestamp /\ i - Len(x) = i
        <4>1. e.image.timestamp \in Nat
          BY SentImage
        <4>2. Len(x) = 0
          <5> HIDE DEF x
          <5> QED BY <3>1
        <4>3. i \in Nat
          BY SMT, <1>1
        <4> HIDE DEF x, i
        <4> QED BY SMT, <4>1, <4>2, <4>3
      <3> QED BY <1>1, <1>2, <2>1, <3>1, <3>2 DEF Holds, HoldsAll
    <2>2. CASE ~f.end /\ Continues(s, f)
      <3>1. x = n /\ y = s.access_unit
        BY <2>2 DEF NewAssembling, NewUnit
      <3>2. n # <<>> /\ (i - 1) - Len(s.assembling) = i - Len(n)
        <4>1. n # <<>>
          <5>1. Len(<<>>) = 0
            OBVIOUS
          <5> QED BY <1>3, <2>2, <5>1
        <4>2. Len(s.assembling) \in Nat
          BY SMT DEF Sources
        <4>3. Len(n) = Len(s.assembling) + 1 /\ i \in Nat
          BY SMT, <1>1, <1>3, <2>2
        <4> HIDE DEF n, i, p
        <4>4. (i - 1) - Len(s.assembling) = i - Len(n)
          BY SMT, <4>2, <4>3
        <4> QED BY <4>1, <4>4
      <3>3. Holds(t, e, i)
        BY <1>1, <1>2, <1>3, <1>6, <2>2, <3>1 DEF Holds
      <3>4. ASSUME ~s.losses, ~Fresh(s) PROVE HoldsAll(t, e, i)
        <4>1. HoldsAll(s, e, i - 1)
          BY <3>4 DEF ReaderBefore
        <4> QED BY <1>2, <3>1, <3>2, <4>1 DEF HoldsAll
      <3> QED BY <3>3, <3>4
    <2>3. CASE ~Continues(s, f)
      <3>1. x = <<>> /\ y = s.access_unit
        BY <1>3, <2>3 DEF NewAssembling, NewUnit
      <3> QED BY <1>2, <1>4, <1>6, <2>3, <3>1 DEF Holds
    <2> QED BY <2>1, <2>2, <2>3
  <1>8. t.losses = s.losses /\ (Fresh(t) <=> Fresh(s)) /\ t.awaiting_idr = s.awaiting_idr
    BY <1>2 DEF SameGate, Fresh
  <1> HIDE DEF t
  <1>9. ReaderAfter(t, e, l)
    BY <1>4, <1>5, <1>7, <1>8 DEF ReaderAfter
  <1> QED BY <1>9 DEF t

\* One that completes a unit: the unit is of the packet's image, and all of it
\* unless something was missed.
LEMMA PushDone ==
    ASSUME NEW s \in Sources, NEW e, NEW l, Sent(e), ReaderBefore(s, e, l),
           Completes(s, PayloadOf(e))
    PROVE  LET t == rtp_h264_reassembler_push(s, PayloadOf(e))
           IN  /\ Final(e) /\ t.assembling = <<>>
               /\ t.access_unit # <<>> /\ t.access_unit[1].image = e.image
               /\ (~s.losses /\ ~Fresh(s)) \/ e.image.shape = <<1>> =>
                    t.access_unit = Payloads(e.image)
  <1> USE Zenon
  <1> DEFINE p == Payloads(e.image)
             f == PayloadOf(e)
             i == e.index
             t == rtp_h264_reassembler_push(s, f)
             x == NewAssembling(s, f)
             y == NewUnit(s, f)
  <1>1. /\ p \in Seq(Fragments) /\ Len(p) \in Nat \ {0} /\ i \in 1..Len(p)
        /\ f = p[i] /\ f \in Fragments
        /\ f.marker <=> Final(e)
        /\ p[Len(p)].end
    BY SentImage, Parts DEF Sent, PayloadOf, Final
  <1>2. t.assembling = x /\ t.access_unit = y
    BY <1>1, PushFields
  <1>3. Final(e) /\ Continues(s, f)
    BY <1>1 DEF Completes
  <1>4. i = Len(p) /\ f.end
    BY <1>1, <1>3 DEF Final
  <1>5. /\ x = <<>> /\ y[1].image = e.image
        /\ ~s.losses /\ ~Fresh(s) => y = SubSeq(p, 1, i)
        /\ i = 1 => y = SubSeq(p, 1, i)
    BY <1>3, <1>4, PlacedUnit
  <1>6. SubSeq(p, 1, i) = p
    <2>1. p \in Seq(Fragments)
      BY <1>1
    <2> HIDE DEF p
    <2>2. SubSeq(p, 1, Len(p)) = p
      BY SMT, <2>1
    <2> QED BY <1>4, <2>2
  <1>7. e.image.shape = <<1>> => i = 1
    BY <1>4, SentImage, OnePacket
  <1>8. y # <<>>
    <2> DEFINE n == Assembled(s, f)
    <2>1. Len(n) \in Nat \ {0} /\ n \in Seq(Fragments)
      BY <1>3, PlacedFragment
    <2>2. s.access_unit \in Seq(Fragments)
      BY DEF Sources
    <2>3. y = n \/ y = s.access_unit \o n
      BY <1>3, <1>4 DEF NewUnit
    <2> HIDE DEF n, y
    <2>4. Len(s.access_unit \o n) = Len(s.access_unit) + Len(n) /\ Len(s.access_unit) \in Nat
      BY <2>1, <2>2, Concatenation, Lengths
    <2>5. Len(<<>>) = 0
      OBVIOUS
    <2>6. Len(y) # 0
      BY SMT, <2>1, <2>3, <2>4
    <2> QED BY <2>5, <2>6
  <1> QED BY <1>2, <1>3, <1>5, <1>6, <1>7, <1>8

-----------------------------------------------------------------------------
(* A datagram read *)

\* The gate t of the reader s that has completed a unit of the kind `kind', and u,
\* once the unit is handed over.
GateResult(s, ps, kind, t, u) ==
    /\ ~Passes(t, kind) => GateOK(t, ps)
    /\ Passes(t, kind) =>
         /\ GateOK(u, ps \cup ({kind} \cap Feed!ParameterSets))
         /\ kind \in Feed!Pictures => ps = Feed!ParameterSets
         /\ kind = "P" => /\ ~t.pending_packet_loss
                          /\ ~s.losses /\ ~s.awaiting_idr
    /\ u \in Sources /\ u.assembling = t.assembling
    /\ u.access_unit = t.access_unit /\ u.losses = t.losses
    /\ u.opened = t.opened /\ u.have_sequence = t.have_sequence
    /\ u.expected = t.expected
    /\ u.awaiting_idr = t.awaiting_idr
    /\ u.have_sps = t.have_sps /\ u.have_pps = t.have_pps
    /\ u.pending_packet_loss = FALSE

\* The gate, once a unit of the kind `kind' is complete.
LEMMA GateStep ==
    ASSUME NEW s \in Sources, NEW ps, NEW kind \in Kinds, GateOK(s, ps), s.opened,
           NEW t, t = Gated(Noticed([s EXCEPT !.access_unit = <<>>]), kind),
           NEW u, u = [t EXCEPT !.pending_packet_loss = FALSE]
    PROVE  GateResult(s, ps, kind, t, u)
  <1> USE Zenon
  <1> DEFINE qs == ps \cup ({kind} \cap Feed!ParameterSets)
             sps == s.have_sps \/ kind = "SPS"
             pps == s.have_pps \/ kind = "PPS"
  <1>1. /\ t \in Sources /\ t.access_unit = <<>> /\ t.assembling = s.assembling
        /\ t.opened = s.opened /\ t.have_sequence = s.have_sequence
        /\ t.expected = s.expected /\ t.losses = FALSE
        /\ t.have_sps = sps /\ t.have_pps = pps
        /\ t.pending_packet_loss = (s.pending_packet_loss \/ s.losses)
        /\ t.awaiting_idr = ((s.awaiting_idr \/ s.losses)
                               /\ ~(kind = "IDR" /\ sps /\ pps))
    <2>1. GateIs(s, kind, Gated(Noticed([s EXCEPT !.access_unit = <<>>]), kind))
      BY GateFields
    <2>2. GateIs(s, kind, t)
      BY <2>1
    <2> QED BY <2>2 DEF GateIs
  <1>2. /\ u \in Sources /\ u.assembling = t.assembling
        /\ u.access_unit = t.access_unit /\ u.losses = t.losses
        /\ u.opened = t.opened /\ u.have_sequence = t.have_sequence
        /\ u.expected = t.expected
        /\ u.awaiting_idr = t.awaiting_idr
        /\ u.have_sps = t.have_sps /\ u.have_pps = t.have_pps
        /\ u.pending_packet_loss = FALSE
    <2>1. u \in Sources
      BY ZenonT(30), <1>1 DEF Sources
    <2> QED BY SMT, <1>1, <2>1 DEF Sources
  <1>3. /\ Feed!ParameterSets = {"SPS", "PPS"} /\ Feed!Pictures = {"IDR", "P"}
        /\ kind \in {"SPS", "PPS", "IDR", "P"}
    BY DEF Feed!ParameterSets, Feed!Pictures, Kinds
  <1>4. /\ ps \subseteq Feed!ParameterSets
        /\ s.have_sps <=> "SPS" \in ps
        /\ s.have_pps <=> "PPS" \in ps
        /\ s.pending_packet_loss => s.awaiting_idr
        /\ ~s.awaiting_idr => s.have_sps /\ s.have_pps
    BY DEF GateOK
  <1>5. ASSUME ~Passes(t, kind) PROVE GateOK(t, ps)
    <2>1. t.awaiting_idr /\ kind # "SPS" /\ kind # "PPS"
      BY <1>3, <1>5 DEF Passes
    <2> QED BY <1>1, <1>4, <2>1 DEF GateOK
  <1>6. ASSUME Passes(t, kind) PROVE GateOK(u, qs)
    <2>1. qs \subseteq Feed!ParameterSets
      BY <1>4
    <2>2. /\ "SPS" \in qs <=> "SPS" \in ps \/ kind = "SPS"
          /\ "PPS" \in qs <=> "PPS" \in ps \/ kind = "PPS"
      BY <1>3
    <2>3. ~t.awaiting_idr => sps /\ pps
      BY <1>1, <1>4
    <2> HIDE DEF qs
    <2> QED BY <1>1, <1>2, <1>4, <2>1, <2>2, <2>3 DEF GateOK
  <1>7. ASSUME Passes(t, kind), kind \in Feed!Pictures PROVE ps = Feed!ParameterSets
    <2>1. kind # "SPS" /\ kind # "PPS"
      BY <1>3, <1>7
    <2>2. ~t.awaiting_idr
      BY <1>3, <1>7, <2>1 DEF Passes
    <2>3. s.have_sps /\ s.have_pps
      BY <1>1, <1>4, <2>1, <2>2
    <2>4. "SPS" \in ps /\ "PPS" \in ps
      BY <1>4, <2>3
    <2> QED BY <1>3, <1>4, <2>4
  <1>8. ASSUME Passes(t, kind), kind = "P"
        PROVE  ~t.pending_packet_loss /\ ~s.losses /\ ~s.awaiting_idr
    <2>1. kind \notin Feed!ParameterSets /\ kind # "IDR"
      BY <1>3, <1>8
    <2>2. ~t.awaiting_idr
      BY <1>8, <2>1 DEF Passes
    <2>3. ~s.losses /\ ~s.awaiting_idr
      BY <1>1, <2>1, <2>2
    <2> QED BY <1>1, <1>4, <2>3
  <1> QED BY <1>2, <1>5, <1>6, <1>7, <1>8 DEF GateResult

\* The three ways a datagram can go: it completes no unit, the unit is held back, or
\* it is handed over.
LEMMA ReadCases ==
    ASSUME NEW p, Received(p)
    PROVE  LET f == p.payload
               s0 == Sequenced(source, p.sequence)
               s1 == rtp_h264_reassembler_push(s0, f)
               au == s1.access_unit
               t == Gated(Noticed([s1 EXCEPT !.access_unit = <<>>]), Kind(au))
           IN  \/ /\ ~Completes(s0, f) /\ source' = s1
                  /\ unit' = unit /\ last' = last /\ params' = params
               \/ /\ Completes(s0, f) /\ ~Passes(t, Kind(au)) /\ source' = t
                  /\ unit' = unit /\ last' = last /\ params' = params
               \/ /\ Completes(s0, f) /\ Passes(t, Kind(au))
                  /\ source' = [t EXCEPT !.pending_packet_loss = FALSE]
                  /\ unit' = UnitOf(au, t.pending_packet_loss)
                  /\ last' = IF Kind(au) \in Feed!Pictures THEN unit'.picture ELSE last
                  /\ params' = params \cup ({Kind(au)} \cap Feed!ParameterSets)
  <1> USE Zenon
  <1> DEFINE f == p.payload
             s0 == Sequenced(source, p.sequence)
             s1 == rtp_h264_reassembler_push(s0, f)
             au == s1.access_unit
             t == Gated(Noticed([s1 EXCEPT !.access_unit = <<>>]), Kind(au))
  <1>1. IF ~Completes(s0, f)
        THEN source' = s1 /\ UNCHANGED <<unit, last, params>>
        ELSE IF ~Passes(t, Kind(au))
        THEN source' = t /\ UNCHANGED <<unit, last, params>>
        ELSE /\ source' = [t EXCEPT !.pending_packet_loss = FALSE]
             /\ unit' = UnitOf(au, t.pending_packet_loss)
             /\ last' = IF Kind(au) \in Feed!Pictures THEN unit'.picture ELSE last
             /\ params' = params \cup ({Kind(au)} \cap Feed!ParameterSets)
    BY DEF Received
  <1>2. UNCHANGED <<unit, last, params>> => unit' = unit /\ last' = last /\ params' = params
    OBVIOUS
  <1> HIDE DEF f, s0, s1, au, t
  <1>3. \/ /\ ~Completes(s0, f) /\ source' = s1
           /\ unit' = unit /\ last' = last /\ params' = params
        \/ /\ Completes(s0, f) /\ ~Passes(t, Kind(au)) /\ source' = t
           /\ unit' = unit /\ last' = last /\ params' = params
        \/ /\ Completes(s0, f) /\ Passes(t, Kind(au))
           /\ source' = [t EXCEPT !.pending_packet_loss = FALSE]
           /\ unit' = UnitOf(au, t.pending_packet_loss)
           /\ last' = IF Kind(au) \in Feed!Pictures THEN unit'.picture ELSE last
           /\ params' = params \cup ({Kind(au)} \cap Feed!ParameterSets)
    BY <1>1, <1>2
  <1> QED BY <1>3 DEF f, s0, s1, au, t

\* The unit u is handed over, and with a picture both parameter sets have been.
Given(u) ==
    /\ u \in Feed!Units
    /\ last' = IF u.kind \in Feed!Pictures THEN u.picture ELSE last
    /\ params' = params \cup ({u.kind} \cap Feed!ParameterSets)
    /\ u.kind \in Feed!Pictures => params = Feed!ParameterSets

\* The first fragment of a unit names a kind and a picture.
LEMMA UnitTyped ==
    ASSUME NEW au \in Seq(Fragments), au # <<>>, NEW loss \in BOOLEAN
    PROVE  /\ Kind(au) \in Kinds /\ UnitOf(au, loss) \in Feed!Units
           /\ UnitOf(au, loss).kind = Kind(au) /\ UnitOf(au, loss).picture \in Nat
           /\ UnitOf(au, loss).picture = au[1].image.picture
           /\ UnitOf(au, loss).packet_loss = loss
           /\ UnitOf(au, loss).whole = (au = Payloads(au[1].image))
  <1> USE Zenon
  <1> DEFINE i == au[1].image
             w == au = Payloads(i)
             k == Kind(au)
             u == UnitOf(au, loss)
  <1>1. au[1] \in Fragments
    BY SMT
  <1>2. i \in Images /\ i.kind \in Kinds /\ i.picture \in Nat
    BY <1>1 DEF Fragments, Images
  <1>3. k = i.kind
    BY DEF Kind
  <1>4. u = [kind |-> k, picture |-> i.picture, whole |-> w, packet_loss |-> loss]
    BY DEF UnitOf
  <1>5. w \in BOOLEAN
    OBVIOUS
  <1>6. Kinds = Feed!Pictures \cup Feed!ParameterSets
    BY DEF Kinds, Feed!Pictures, Feed!ParameterSets
  <1> HIDE DEF i, w, k, u
  <1>7. /\ u.kind = k /\ u.picture = i.picture /\ u.packet_loss = loss /\ u.whole = w
    BY <1>4
  <1>8. u \in Feed!Units
    BY <1>2, <1>3, <1>4, <1>5, <1>6 DEF Feed!Units
  <1> QED BY <1>2, <1>3, <1>7, <1>8 DEF i, w, k, u

\* Whatever datagram is read, what is handed over has its type and comes after the
\* parameter sets.
LEMMA ReadTyped ==
    ASSUME NEW p, SourceOK(source, last, params), source.opened, last \in Nat,
           unit \in Feed!Units \cup {Feed!NoUnit},
           p.payload \in Fragments, p.payload.marker => p.payload.end,
           p.sequence \in Nat, Received(p)
    PROVE  /\ SourceOK(source', last', params')
           /\ source'.opened /\ source'.have_sequence
           /\ source'.expected = (p.sequence + 1) % Uint16
           /\ unit' \in Feed!Units \cup {Feed!NoUnit} /\ last' \in Nat
           /\ (unit' = unit /\ last' = last /\ params' = params) \/ Given(unit')
  <1> USE Zenon
  <1> DEFINE f == p.payload
             s0 == Sequenced(source, p.sequence)
             s1 == rtp_h264_reassembler_push(s0, f)
             au == s1.access_unit
             kind == Kind(au)
             t == Gated(Noticed([s1 EXCEPT !.access_unit = <<>>]), kind)
             u == [t EXCEPT !.pending_packet_loss = FALSE]
             x == (p.sequence + 1) % Uint16
  <1>1. source \in Sources /\ StartsRight(source.assembling) /\ GateOK(source, params)
    BY DEF SourceOK
  <1>2. /\ s0 \in Sources /\ s0.have_sequence = TRUE /\ s0.expected = x
        /\ s0.opened = source.opened /\ s0.awaiting_idr = source.awaiting_idr
        /\ s0.have_sps = source.have_sps /\ s0.have_pps = source.have_pps
        /\ s0.pending_packet_loss = source.pending_packet_loss
        /\ s0.assembling = <<>> \/ s0.assembling = source.assembling
    BY <1>1, SequencedFields
  <1>3. StartsRight(s0.assembling)
    <2>1. StartsRight(<<>>)
      <3>1. 1..Len(<<>>) = {}
        BY SMT
      <3> QED BY <3>1 DEF StartsRight
    <2> QED BY <1>1, <1>2, <2>1
  <1>4. /\ s1 \in Sources /\ StartsRight(s1.assembling)
        /\ f.end /\ Continues(s0, f) => au # <<>>
    BY <1>2, <1>3, PushTyped
  <1>5. SameGate(s0, s1)
    BY <1>2, PushFields
  <1>6. GateOK(s1, params) /\ s1.opened /\ s1.have_sequence /\ s1.expected = x
    <2> HIDE DEF s0, s1, x
    <2> QED BY <1>1, <1>2, <1>5 DEF SameGate, GateOK
  <1>7. ASSUME Completes(s0, f) PROVE au # <<>> /\ au \in Seq(Fragments)
    <2>1. au # <<>>
      BY <1>4, <1>7 DEF Completes
    <2>2. au \in Seq(Fragments)
      <3>1. s1 \in Sources
        BY <1>4
      <3> HIDE DEF s1
      <3> QED BY <3>1 DEF Sources
    <2> QED BY <2>1, <2>2
  <1>8. ASSUME Completes(s0, f)
        PROVE  /\ kind \in Kinds
               /\ t \in Sources /\ t.assembling = s1.assembling
               /\ t.opened = s1.opened /\ t.have_sequence = s1.have_sequence
               /\ t.expected = s1.expected
               /\ ~Passes(t, kind) => GateOK(t, params)
               /\ Passes(t, kind) =>
                    /\ GateOK(u, params \cup ({kind} \cap Feed!ParameterSets))
                    /\ kind \in Feed!Pictures => params = Feed!ParameterSets
               /\ u \in Sources /\ u.assembling = t.assembling
               /\ u.opened = t.opened /\ u.have_sequence = t.have_sequence
               /\ u.expected = t.expected /\ t.pending_packet_loss \in BOOLEAN
    <2>1. kind \in Kinds
      BY <1>7, <1>8, UnitTyped
    <2> HIDE DEF kind, s1
    <2>2. /\ t \in Sources /\ t.assembling = s1.assembling
          /\ t.opened = s1.opened /\ t.have_sequence = s1.have_sequence
          /\ t.expected = s1.expected
      <3>1. GateIs(s1, kind, t)
        BY <1>4, GateFields
      <3> HIDE DEF t
      <3> QED BY <3>1 DEF GateIs
    <2>3. t.pending_packet_loss \in BOOLEAN
      <3> HIDE DEF t
      <3> QED BY <2>2 DEF Sources
    <2>4. /\ ~Passes(t, kind) => GateOK(t, params)
          /\ Passes(t, kind) =>
               /\ GateOK(u, params \cup ({kind} \cap Feed!ParameterSets))
               /\ kind \in Feed!Pictures => params = Feed!ParameterSets
          /\ u \in Sources /\ u.assembling = t.assembling
          /\ u.opened = t.opened /\ u.have_sequence = t.have_sequence
          /\ u.expected = t.expected
      <3>1. t = Gated(Noticed([s1 EXCEPT !.access_unit = <<>>]), kind)
        OBVIOUS
      <3>2. u = [t EXCEPT !.pending_packet_loss = FALSE]
        OBVIOUS
      <3> HIDE DEF t, u
      <3>3. GateResult(s1, params, kind, t, u)
        BY <1>4, <1>6, <2>1, <3>1, <3>2, GateStep
      <3> QED BY <3>3 DEF GateResult
    <2> HIDE DEF t, u
    <2> QED BY <2>1, <2>2, <2>3, <2>4
  <1>9. \/ /\ ~Completes(s0, f) /\ source' = s1
           /\ unit' = unit /\ last' = last /\ params' = params
        \/ /\ Completes(s0, f) /\ ~Passes(t, kind) /\ source' = t
           /\ unit' = unit /\ last' = last /\ params' = params
        \/ /\ Completes(s0, f) /\ Passes(t, kind) /\ source' = u
           /\ unit' = UnitOf(au, t.pending_packet_loss)
           /\ last' = IF kind \in Feed!Pictures THEN unit'.picture ELSE last
           /\ params' = params \cup ({kind} \cap Feed!ParameterSets)
    BY ReadCases
  <1> HIDE DEF f, s0, s1, kind, t, u, x
  <1>10. CASE ~Completes(s0, f) /\ source' = s1
              /\ unit' = unit /\ last' = last /\ params' = params
    BY <1>4, <1>6, <1>10 DEF SourceOK, x
  <1>11. CASE /\ Completes(s0, f) /\ ~Passes(t, kind) /\ source' = t
              /\ unit' = unit /\ last' = last /\ params' = params
    BY <1>4, <1>6, <1>8, <1>11 DEF SourceOK, x
  <1>12. CASE /\ Completes(s0, f) /\ Passes(t, kind) /\ source' = u
              /\ unit' = UnitOf(au, t.pending_packet_loss)
              /\ last' = IF kind \in Feed!Pictures THEN unit'.picture ELSE last
              /\ params' = params \cup ({kind} \cap Feed!ParameterSets)
    <2>1. /\ unit' \in Feed!Units /\ unit'.kind = kind /\ unit'.picture \in Nat
      BY <1>7, <1>8, <1>12, UnitTyped DEF kind
    <2>2. last' \in Nat
      BY <1>12, <2>1
    <2>3. Given(unit')
      BY <1>8, <1>12, <2>1 DEF Given
    <2>4. SourceOK(source', last', params') /\ source'.opened /\ source'.have_sequence
          /\ source'.expected = x
      BY <1>4, <1>6, <1>8, <1>12 DEF SourceOK
    <2> QED BY <2>1, <2>2, <2>3, <2>4 DEF x
  <1> QED BY <1>9, <1>10, <1>11, <1>12

\* A datagram read in its place: the reader is after it, and what is handed over can
\* be used.
LEMMA ReadPlaced ==
    ASSUME NEW p, NEW e, NEW ts, NEW rc, SourceOK(source, last, params), source.opened,
           Sent(e), ~e.gap, EntryOK(e, ts, rc), p.payload = PayloadOf(e),
           p.sequence \in Nat, ReaderBefore(Sequenced(source, p.sequence), e, last),
           Received(p)
    PROVE  /\ ReaderAfter(source', e, last')
           /\ \/ unit' = unit /\ last' = last /\ params' = params
              \/ rc \/ Feed!Usable(unit')
  <1> USE Zenon
  <1> DEFINE f == p.payload
             s0 == Sequenced(source, p.sequence)
             s1 == rtp_h264_reassembler_push(s0, f)
             au == s1.access_unit
             kind == Kind(au)
             t == Gated(Noticed([s1 EXCEPT !.access_unit = <<>>]), kind)
             u == [t EXCEPT !.pending_packet_loss = FALSE]
  <1>1. source \in Sources /\ StartsRight(source.assembling) /\ GateOK(source, params)
    BY DEF SourceOK
  <1>2. /\ s0 \in Sources
        /\ s0.opened = source.opened /\ s0.awaiting_idr = source.awaiting_idr
        /\ s0.have_sps = source.have_sps /\ s0.have_pps = source.have_pps
        /\ s0.pending_packet_loss = source.pending_packet_loss
    BY <1>1, SequencedFields
  <1>3. f = PayloadOf(e) /\ f \in Fragments
    <2>1. e.image \in Images /\ e.index \in 1..Len(Payloads(e.image))
      BY SentImage DEF Sent
    <2> QED BY ZenonT(30), <2>1, Parts DEF PayloadOf
  <1>4. ~Completes(s0, f) => ReaderAfter(s1, e, last)
    BY <1>2, PushOn
  <1>5. ASSUME Completes(s0, f)
        PROVE  /\ Final(e) /\ s1.assembling = <<>>
               /\ au # <<>> /\ au[1].image = e.image
               /\ (~s0.losses /\ ~Fresh(s0)) \/ e.image.shape = <<1>> =>
                    au = Payloads(e.image)
    BY ZenonT(30), <1>2, <1>5, PushDone
  <1>6. SameGate(s0, s1)
    BY <1>2, <1>3, PushFields
  <1>7. ASSUME Completes(s0, f)
        PROVE  /\ s1 \in Sources /\ au \in Seq(Fragments) /\ kind = e.image.kind
               /\ kind \in Kinds
    <2>1. s1 = [s0 EXCEPT !.assembling = NewAssembling(s0, f), !.access_unit = NewUnit(s0, f)]
      BY <1>2, <1>3, PushFields
    <2>2. kind = e.image.kind /\ kind \in Kinds
      BY <1>5, <1>7, SentImage DEF Kind
    <2>3. s1 \in Sources
      <3>1. StartsRight(s0.assembling)
        <4>1. s0.assembling = <<>> \/ s0.assembling = source.assembling
          BY <1>1, SequencedFields
        <4>2. 1..Len(<<>>) = {}
          BY SMT
        <4>3. StartsRight(<<>>)
          BY <4>2 DEF StartsRight
        <4> QED BY <1>1, <4>1, <4>3
      <3> QED BY <1>2, <1>3, <3>1, PushTyped
    <2>4. au \in Seq(Fragments)
      <3> HIDE DEF s1
      <3> QED BY <2>3 DEF Sources
    <2> QED BY <2>2, <2>3, <2>4
  <1>8. ASSUME Completes(s0, f) PROVE GateResult(s1, params, kind, t, u)
    <2>1. t = Gated(Noticed([s1 EXCEPT !.access_unit = <<>>]), kind)
      OBVIOUS
    <2>2. u = [t EXCEPT !.pending_packet_loss = FALSE]
      OBVIOUS
    <2>3. GateOK(s1, params) /\ s1.opened
      <3> HIDE DEF s0, s1
      <3> QED BY <1>1, <1>2, <1>6 DEF SameGate, GateOK
    <2> HIDE DEF s0, s1, kind, t, u
    <2> QED BY <1>7, <1>8, <2>1, <2>2, <2>3, GateStep
  <1>9. ASSUME Completes(s0, f)
        PROVE  /\ t.access_unit = <<>> /\ t.assembling = s1.assembling /\ t.losses = FALSE
               /\ t.pending_packet_loss = (s1.pending_packet_loss \/ s1.losses)
               /\ ~t.awaiting_idr /\ kind # "IDR" => ~s1.awaiting_idr /\ ~s1.losses
               /\ t.pending_packet_loss \in BOOLEAN
    <2> HIDE DEF s1, kind
    <2>1. GateIs(s1, kind, t)
      BY <1>7, <1>9, GateFields
    <2> HIDE DEF t
    <2> QED BY <2>1 DEF GateIs
  <1>10. \/ /\ ~Completes(s0, f) /\ source' = s1
            /\ unit' = unit /\ last' = last /\ params' = params
         \/ /\ Completes(s0, f) /\ ~Passes(t, kind) /\ source' = t
            /\ unit' = unit /\ last' = last /\ params' = params
         \/ /\ Completes(s0, f) /\ Passes(t, kind) /\ source' = u
            /\ unit' = UnitOf(au, t.pending_packet_loss)
            /\ last' = IF kind \in Feed!Pictures THEN unit'.picture ELSE last
            /\ params' = params \cup ({kind} \cap Feed!ParameterSets)
    BY ReadCases
  <1>11. /\ ~s0.losses /\ ~s0.awaiting_idr => last = e.before
         /\ s0.losses = s1.losses /\ s0.awaiting_idr = s1.awaiting_idr
         /\ s0.have_sps = s1.have_sps
    BY <1>6 DEF ReaderBefore, SameGate
  <1> HIDE DEF f, s0, s1, kind, t, u
  <1>12. ASSUME NEW v, NEW l, Completes(s0, f), v.assembling = <<>>, v.access_unit = <<>>,
                ~v.losses /\ ~v.awaiting_idr => l = After(e)
         PROVE  ReaderAfter(v, e, l)
    BY <1>5, <1>12 DEF ReaderAfter, Holds
  <1>13. CASE /\ ~Completes(s0, f) /\ source' = s1
              /\ unit' = unit /\ last' = last /\ params' = params
    BY <1>4, <1>13
  <1>14. CASE /\ Completes(s0, f) /\ ~Passes(t, kind) /\ source' = t
              /\ unit' = unit /\ last' = last /\ params' = params
    <2>1. t.awaiting_idr
      BY <1>14 DEF Passes
    <2> QED BY <1>5, <1>9, <1>12, <1>14, <2>1
  <1>15. CASE /\ Completes(s0, f) /\ Passes(t, kind) /\ source' = u
              /\ unit' = UnitOf(au, t.pending_packet_loss)
              /\ last' = IF kind \in Feed!Pictures THEN unit'.picture ELSE last
              /\ params' = params \cup ({kind} \cap Feed!ParameterSets)
    <2>1. /\ unit'.kind = kind /\ unit'.picture = e.image.picture
          /\ unit'.packet_loss = t.pending_packet_loss
          /\ unit'.whole = (au = Payloads(e.image))
      <3>1. /\ unit'.kind = kind /\ unit'.picture = au[1].image.picture
            /\ unit'.packet_loss = t.pending_packet_loss
            /\ unit'.whole = (au = Payloads(au[1].image))
        BY <1>5, <1>7, <1>9, <1>15, UnitTyped DEF kind
      <3> QED BY <1>5, <1>15, <3>1
    <2>2. /\ kind \in Feed!Pictures => params = Feed!ParameterSets
          /\ kind = "P" => ~t.pending_packet_loss /\ ~s1.losses /\ ~s1.awaiting_idr
          /\ u.assembling = t.assembling /\ u.access_unit = t.access_unit
          /\ u.losses = t.losses /\ u.awaiting_idr = t.awaiting_idr
      BY <1>8, <1>15 DEF GateResult
    <2>3. /\ kind = e.image.kind
          /\ kind \in Feed!Pictures \/ kind \in Feed!ParameterSets
          /\ kind = "IDR" => kind \in Feed!Pictures
          /\ "SPS" \in Feed!ParameterSets
      <3>1. kind = e.image.kind /\ kind \in Kinds
        BY <1>7, <1>15
      <3> QED BY <3>1 DEF Kinds, Feed!Pictures, Feed!ParameterSets
    <2>4. ReaderAfter(u, e, last')
      <3>1. ASSUME ~u.awaiting_idr PROVE last' = After(e)
        <4>1. CASE kind \in Feed!Pictures
          BY <1>15, <2>1, <2>3, <4>1 DEF After
        <4>2. CASE kind \notin Feed!Pictures
          <5>1. ~s1.awaiting_idr /\ ~s1.losses
            BY <1>9, <1>15, <2>2, <2>3, <3>1, <4>2
          <5> QED BY <1>11, <1>15, <2>3, <4>2, <5>1 DEF After
        <4> QED BY <4>1, <4>2
      <3> QED BY <1>5, <1>9, <1>12, <1>15, <2>2, <3>1
    <2>5. ASSUME ~t.pending_packet_loss PROVE unit'.whole
      <3>1. ~s1.losses
        BY <1>9, <1>15, <2>5
      <3>2. CASE kind \in Feed!ParameterSets
        <4>1. e.image.shape = <<1>>
          BY <2>3, <3>2 DEF EntryOK
        <4> QED BY <1>5, <1>15, <2>1, <4>1
      <3>3. CASE kind \in Feed!Pictures
        <4>1. s1.have_sps
          <5>1. params = Feed!ParameterSets
            BY <2>2, <3>3
          <5>2. source.have_sps
            BY <1>1, <2>3, <5>1 DEF GateOK
          <5> QED BY <1>2, <1>11, <5>2
        <4>2. ~Fresh(s0)
          BY <1>11, <4>1 DEF Fresh
        <4> QED BY <1>5, <1>11, <1>15, <2>1, <3>1, <4>2
      <3> QED BY <2>3, <3>2, <3>3
    <2>6. ASSUME ~rc PROVE Feed!Usable(unit')
      <3>1. unit'.packet_loss \/ unit'.whole
        BY <2>1, <2>5
      <3>2. unit'.kind \in Feed!Pictures => params = Feed!ParameterSets
        BY <2>1, <2>2
      <3>3. ASSUME unit'.kind = "P"
            PROVE  unit'.whole /\ ~unit'.packet_loss /\ unit'.picture = last + 1
        <4>1. kind = "P" /\ ~t.pending_packet_loss /\ ~s1.losses /\ ~s1.awaiting_idr
          BY <2>1, <2>2, <3>3
        <4>2. last = e.before
          BY <1>11, <4>1
        <4>3. e.image.picture = e.before + 1
          BY <2>3, <2>6, <4>1 DEF EntryOK
        <4> QED BY <2>1, <2>5, <4>1, <4>2, <4>3
      <3> QED BY <3>1, <3>2, <3>3 DEF Feed!Usable
    <2> QED BY <1>15, <2>4, <2>6
  <1> QED BY <1>10, <1>13, <1>14, <1>15

\* Nothing missed, nothing waited for: an IDR picture is not needed again.
LEMMA ReadLossless ==
    ASSUME NEW p, SourceOK(source, last, params), source.opened,
           p.payload \in Fragments, p.payload.marker => p.payload.end,
           p.sequence \in Nat, Received(p),
           ~Missed(source, p.sequence), ~source.losses,
           last # 0 => ~source.awaiting_idr
    PROVE  ~source'.losses /\ (last' # 0 => ~source'.awaiting_idr)
  <1> USE Zenon
  <1> DEFINE f == p.payload
             s0 == Sequenced(source, p.sequence)
             s1 == rtp_h264_reassembler_push(s0, f)
             au == s1.access_unit
             kind == Kind(au)
             t == Gated(Noticed([s1 EXCEPT !.access_unit = <<>>]), kind)
             u == [t EXCEPT !.pending_packet_loss = FALSE]
  <1>1. source \in Sources /\ StartsRight(source.assembling)
    BY DEF SourceOK
  <1>2. /\ s0 \in Sources /\ s0.awaiting_idr = source.awaiting_idr
        /\ s0.losses = source.losses /\ s0.assembling = source.assembling
    BY <1>1, SequencedFields
  <1>3. s1 \in Sources
    BY <1>1, <1>2, PushTyped
  <1>4. s1.losses = s0.losses /\ s1.awaiting_idr = s0.awaiting_idr
    BY <1>2, PushFields DEF SameGate
  <1>5. \/ /\ ~Completes(s0, f) /\ source' = s1
           /\ unit' = unit /\ last' = last /\ params' = params
        \/ /\ Completes(s0, f) /\ ~Passes(t, kind) /\ source' = t
           /\ unit' = unit /\ last' = last /\ params' = params
        \/ /\ Completes(s0, f) /\ Passes(t, kind) /\ source' = u
           /\ unit' = UnitOf(au, t.pending_packet_loss)
           /\ last' = IF kind \in Feed!Pictures THEN unit'.picture ELSE last
           /\ params' = params \cup ({kind} \cap Feed!ParameterSets)
    BY ReadCases
  <1> HIDE DEF f, s0, s1, kind
  <1>6. /\ t \in Sources /\ t.losses = FALSE
        /\ t.awaiting_idr => s1.awaiting_idr \/ s1.losses
    <2>1. GateIs(s1, kind, t)
      BY <1>3, GateFields
    <2> HIDE DEF t
    <2> QED BY <2>1 DEF GateIs
  <1> HIDE DEF t
  <1>7. u.losses = t.losses /\ u.awaiting_idr = t.awaiting_idr
    BY <1>6 DEF Sources
  <1> HIDE DEF u
  <1>8. kind \in Feed!Pictures /\ Passes(t, kind) => ~t.awaiting_idr
    <2>1. kind \in Feed!Pictures => kind \notin Feed!ParameterSets
      BY DEF Feed!Pictures, Feed!ParameterSets
    <2> QED BY <2>1 DEF Passes
  <1> QED BY <1>2, <1>4, <1>5, <1>6, <1>7, <1>8

-----------------------------------------------------------------------------
(* The agent *)

LEMMA AgentControl ==
    ASSUME AgentOK, Control
    PROVE  AgentOK'
  <1> USE Zenon
  <1>1. UNCHANGED <<captureVars, sent, raced, faults>>
    BY DEF Control, START_STREAM, start_waits_for_idr, STOP_STREAM, IDR_REQUEST,
           disconnect_control, historyVars
  <1>2. streaming' \in BOOLEAN /\ wait_for_idr' \in BOOLEAN /\ starting' \in BOOLEAN
    BY DEF Control, START_STREAM, start_waits_for_idr, STOP_STREAM, IDR_REQUEST,
           disconnect_control, AgentOK
  <1>3. Ready' => Ready
    BY DEF Control, START_STREAM, start_waits_for_idr, STOP_STREAM, IDR_REQUEST,
           disconnect_control, Ready
  <1>4. PictureInHand' <=> PictureInHand
    BY <1>1 DEF captureVars, PictureInHand, Feed!Pictures
  <1>5. /\ capture' = capture /\ image' = image /\ fails' = fails /\ reinits' = reinits
        /\ timestamp' = timestamp /\ encoder' = encoder /\ sent' = sent /\ raced' = raced
        /\ faults' = faults
    BY <1>1 DEF captureVars
  <1> QED BY <1>2, <1>3, <1>4, <1>5 DEF AgentOK

LEMMA AgentUnchanged ==
    ASSUME AgentOK, UNCHANGED <<flagVars, captureVars, sent, raced>>, faults' \in 0..MaxFaults
    PROVE  AgentOK'
  <1> USE Zenon
  <1>1. /\ capture' = capture /\ image' = image /\ fails' = fails /\ reinits' = reinits
        /\ timestamp' = timestamp /\ encoder' = encoder /\ sent' = sent /\ raced' = raced
        /\ streaming' = streaming /\ wait_for_idr' = wait_for_idr /\ starting' = starting
    BY DEF captureVars, flagVars
  <1> QED BY ZenonT(30), <1>1 DEF AgentOK, Ready, PictureInHand

LEMMA AgentRead ==
    ASSUME AgentOK, read_image
    PROVE  AgentOK'
  <1> USE Zenon
  <1>1. PICK kind \in Following(encoder.kind) : \E i \in NewImage(kind) :
         /\ image' = i
         /\ encoder' = [kind |-> kind,
                        picture |-> IF kind \in Feed!Pictures THEN i.picture
                                    ELSE encoder.picture]
         /\ wait_for_idr' = (wait_for_idr /\ kind # "IDR")
    BY DEF read_image
  <1>2. kind \in Kinds
    BY DEF Following, Kinds
  <1>3. PICK sh \in Shapes[kind] :
         image' = [kind |-> kind, timestamp |-> timestamp, shape |-> sh,
                   picture |-> IF kind \in Feed!Pictures THEN encoder.picture + 1 ELSE 0]
    BY <1>1 DEF NewImage
  <1> DEFINE pic == IF kind \in Feed!Pictures THEN encoder.picture + 1 ELSE 0
  <1>4. encoder.picture \in Nat /\ pic \in Nat /\ timestamp \in Nat
    BY SMT DEF AgentOK
  <1>5. sh \in ShapeSet /\ (kind \in Feed!ParameterSets => sh = <<1>>)
    BY <1>2, ShapesAssumption DEF ShapeSet, Kinds, Feed!ParameterSets
  <1>6. /\ image'.kind = kind /\ image'.timestamp = timestamp /\ image'.shape = sh
        /\ image'.picture = pic
    BY <1>3
  <1>7. image' \in Images
    <2> HIDE DEF pic
    <2> QED BY <1>2, <1>3, <1>4, <1>5 DEF Images, pic
  <1>8. encoder' = [kind |-> kind, picture |-> IF kind \in Feed!Pictures THEN image'.picture
                                               ELSE encoder.picture]
        /\ wait_for_idr' = (wait_for_idr /\ kind # "IDR")
    BY <1>1
  <1>9. /\ encoder'.picture = IF kind \in Feed!Pictures THEN image'.picture
                              ELSE encoder.picture
        /\ encoder' \in [kind : Kinds \cup {"none"}, picture : Nat]
    <2>1. (IF kind \in Feed!Pictures THEN image'.picture ELSE encoder.picture) \in Nat
      BY <1>4, <1>6
    <2> QED BY <1>2, <1>8, <2>1
  <1>10. /\ capture = "read" /\ capture' = "send" /\ fails' = 0 /\ reinits' = 0
         /\ streaming' = streaming /\ starting' = starting /\ timestamp' = timestamp
         /\ sent' = sent /\ raced' = raced /\ faults' = faults
    BY DEF read_image, historyVars
  <1>11. PictureInHand' => image'.picture = encoder'.picture
    BY <1>6, <1>9 DEF PictureInHand
  <1>12. ASSUME Ready'
         PROVE  IF PictureInHand' THEN image'.kind = "P" => image'.picture = sent' + 1
                ELSE sent' = encoder'.picture
    <2>0. PictureInHand' <=> kind \in Feed!Pictures
      BY <1>6, <1>10 DEF PictureInHand, Feed!Pictures
    <2>1. kind # "IDR" => Ready /\ sent = encoder.picture
      <3>1. ~PictureInHand
        BY <1>10 DEF PictureInHand
      <3>2. kind # "IDR" => Ready
        BY <1>8, <1>10, <1>12 DEF Ready, AgentOK
      <3> QED BY <3>1, <3>2 DEF AgentOK
    <2>2. kind = "IDR" => kind \in Feed!Pictures /\ kind # "P"
      BY DEF Feed!Pictures
    <2> QED BY <1>6, <1>9, <1>10, <2>0, <2>1, <2>2
  <1>13. 0 \in 0..CAPTURE_FAIL_LIMIT /\ 0 \in 0..CAPTURE_REINIT_LIMIT
    BY SMT, SequenceAssumption
  <1>14. wait_for_idr' \in BOOLEAN
    BY <1>8
  <1> QED BY <1>5, <1>6, <1>7, <1>9, <1>10, <1>11, <1>12, <1>13, <1>14 DEF AgentOK

LEMMA AgentFails ==
    ASSUME AgentOK, read_image_fails \/ agent_restarts
    PROVE  AgentOK'
  <1> USE Zenon
  <1>1. /\ faults' \in 0..MaxFaults /\ sent' = sent /\ raced' = raced
    BY SMT, SequenceAssumption DEF AgentOK, read_image_fails, agent_restarts
  <1>2. CASE Rebooted
    <2>1. /\ streaming' = FALSE /\ wait_for_idr' = TRUE /\ starting' = FALSE
          /\ capture' = "check" /\ fails' = 0 /\ reinits' = 0 /\ timestamp' = 1
          /\ encoder' = [encoder EXCEPT !.kind = "none"]
      BY <1>2 DEF Rebooted
    <2>2. encoder' \in [kind : Kinds \cup {"none"}, picture : Nat]
      BY <2>1 DEF AgentOK
    <2>3. 0 \in 0..CAPTURE_FAIL_LIMIT /\ 0 \in 0..CAPTURE_REINIT_LIMIT /\ 1 \in Nat
      BY SMT, SequenceAssumption
    <2>4. ~PictureInHand' /\ ~Ready' /\ capture' # "send"
      BY <2>1 DEF PictureInHand, Ready
    <2>5. /\ streaming' \in BOOLEAN /\ wait_for_idr' \in BOOLEAN /\ starting' \in BOOLEAN
          /\ capture' \in {"check", "read", "send"}
      BY <2>1
    <2> QED BY <1>1, <2>1, <2>2, <2>3, <2>4, <2>5 DEF AgentOK
  <1>3. CASE ~Rebooted
    <2>1. /\ read_image_fails /\ capture = "read" /\ capture' = "check"
          /\ (fails' = fails + 1 /\ fails + 1 < CAPTURE_FAIL_LIMIT) \/ fails' = 0
          /\ \/ reinits' = reinits
             \/ reinits' = reinits + 1 /\ reinits + 1 <= CAPTURE_REINIT_LIMIT
          /\ UNCHANGED <<flagVars, image, timestamp>>
          /\ encoder' = encoder \/ encoder' = [encoder EXCEPT !.kind = "none"]
      <3>0. read_image_fails
        BY <1>3 DEF agent_restarts
      <3>1. CASE fails + 1 < CAPTURE_FAIL_LIMIT
        <4>1. /\ capture = "read" /\ fails' = fails + 1 /\ capture' = "check"
              /\ UNCHANGED <<flagVars, image, reinits, sequence, timestamp, encoder, net,
                             restarted>>
          BY <3>0, <3>1 DEF read_image_fails
        <4>2. UNCHANGED <<flagVars, image, timestamp>> /\ reinits' = reinits /\ encoder' = encoder
          BY <4>1
        <4> QED BY <3>0, <3>1, <4>1, <4>2
      <3>2. CASE ~(fails + 1 < CAPTURE_FAIL_LIMIT)
        <4>1. /\ capture = "read" /\ reinits + 1 <= CAPTURE_REINIT_LIMIT
              /\ fails' = 0 /\ reinits' = reinits + 1 /\ capture' = "check"
              /\ encoder' = [encoder EXCEPT !.kind = "none"]
              /\ UNCHANGED <<flagVars, image, sequence, timestamp, net, restarted>>
          BY <1>3, <3>0, <3>2 DEF read_image_fails
        <4> QED BY <3>0, <4>1
      <3> QED BY <3>1, <3>2
    <2>2. /\ fails' \in 0..CAPTURE_FAIL_LIMIT /\ reinits' \in 0..CAPTURE_REINIT_LIMIT
      <3>1. fails \in 0..CAPTURE_FAIL_LIMIT /\ reinits \in 0..CAPTURE_REINIT_LIMIT
        BY DEF AgentOK
      <3> QED BY SMT, <2>1, <3>1, SequenceAssumption
    <2>3. /\ encoder' \in [kind : Kinds \cup {"none"}, picture : Nat]
          /\ encoder'.picture = encoder.picture
      <3>1. encoder \in [kind : Kinds \cup {"none"}, picture : Nat]
        BY DEF AgentOK
      <3> QED BY <2>1, <3>1
    <2>4. /\ streaming' = streaming /\ wait_for_idr' = wait_for_idr /\ starting' = starting
          /\ image' = image /\ timestamp' = timestamp
      BY <2>1 DEF flagVars
    <2>5. ~PictureInHand' /\ ~PictureInHand /\ capture' # "send"
          /\ capture' \in {"check", "read", "send"}
      BY <2>1 DEF PictureInHand
    <2>6. Ready' <=> Ready
      BY <2>4 DEF Ready
    <2> QED BY <1>1, <2>2, <2>3, <2>4, <2>5, <2>6 DEF AgentOK
  <1> QED BY <1>2, <1>3

\* The image is done with.  A P picture that is sent is the next one, unless it
\* passes between the two stores of START_STREAM.
LEMMA AgentSends ==
    ASSUME AgentOK, image_not_sent \/ send_image \/ send_packet_fails
    PROVE  /\ AgentOK'
           /\ ~image_not_sent /\ image.kind = "P" => raced' \/ image.picture = sent + 1
  <1> USE Zenon
  <1>1. /\ capture = "send" /\ image \in Images /\ timestamp \in Nat /\ sent \in Nat
        /\ capture' = "check" /\ timestamp' = timestamp + 1
        /\ streaming' = streaming /\ starting' = starting /\ fails' = fails
        /\ reinits' = reinits /\ encoder' = encoder
        /\ wait_for_idr' = wait_for_idr \/ wait_for_idr' = TRUE
    BY DEF AgentOK, image_not_sent, send_image, send_packet_fails, NextImage
  <1>2. /\ timestamp' \in Nat /\ capture' \in {"check", "read", "send"} /\ capture' # "send"
        /\ ~PictureInHand'
    BY SMT, <1>1 DEF PictureInHand
  <1>3. faults' \in 0..MaxFaults
    <2>1. faults \in 0..MaxFaults
      BY DEF AgentOK
    <2>2. faults' = faults \/ (faults < MaxFaults /\ faults' = faults + 1)
      BY DEF image_not_sent, send_image, send_packet_fails
    <2> QED BY SMT, <2>1, <2>2, SequenceAssumption
  <1>4. wait_for_idr' \in BOOLEAN /\ raced' \in BOOLEAN
    <2>1. raced' = raced \/ raced' = (raced \/ (starting /\ image.kind = "P"))
      BY DEF image_not_sent, send_image, send_packet_fails, historyVars
    <2> QED BY <1>1, <2>1 DEF AgentOK
  <1>5. image.picture \in Nat /\ image.kind \in Kinds
    BY <1>1 DEF Images
  <1>6. sent' \in Nat
    BY <1>1, <1>5 DEF image_not_sent, send_image, send_packet_fails, historyVars
  <1>7. image.kind \in Feed!Pictures <=> PictureInHand
    BY <1>1 DEF PictureInHand
  <1>8. ASSUME Ready' PROVE Ready /\ sent' = encoder'.picture
    <2>1. Ready
      <3>1. streaming' /\ ~starting' /\ ~wait_for_idr'
        BY <1>8 DEF Ready
      <3>2. wait_for_idr' = wait_for_idr
        BY <1>1, <3>1
      <3> QED BY <1>1, <3>1, <3>2 DEF Ready
    <2>2. Sendable \/ image.kind # "IDR"
      BY <2>1 DEF Sendable, Ready
    <2>3. ~send_packet_fails
      BY <1>8 DEF send_packet_fails, Ready
    <2>4. CASE send_image
      <3>1. sent' = IF image.kind \in Feed!Pictures THEN image.picture ELSE sent
        BY <2>4 DEF send_image
      <3> QED BY <1>1, <1>7, <2>1, <3>1 DEF AgentOK
    <2>5. CASE image_not_sent
      <3>1. ~Sendable /\ sent' = sent
        BY <2>5 DEF image_not_sent, historyVars
      <3>2. FALSE
        BY <2>1, <3>1 DEF Sendable, Ready
      <3> QED BY <3>2
    <2> QED BY <2>1, <2>3, <2>4, <2>5
  <1>9. AgentOK'
    BY <1>1, <1>2, <1>3, <1>4, <1>6, <1>8 DEF AgentOK
  <1>10. ASSUME ~image_not_sent, image.kind = "P"
         PROVE  raced' \/ image.picture = sent + 1
    <2>1. Sendable /\ raced' = (raced \/ (starting /\ image.kind = "P"))
      BY <1>10 DEF send_image, send_packet_fails
    <2>2. CASE starting
      BY <1>10, <2>1, <2>2
    <2>3. CASE ~starting
      <3>1. Ready
        BY <1>10, <2>1, <2>3 DEF Sendable, Ready
      <3>2. "P" \in Feed!Pictures
        BY DEF Feed!Pictures
      <3> QED BY <1>7, <1>10, <3>1, <3>2 DEF AgentOK
    <2> QED BY <2>2, <2>3
  <1> QED BY <1>9, <1>10

-----------------------------------------------------------------------------
(* The log and the datagrams under way *)

\* Time passes.
LEMMA LogLater ==
    ASSUME NEW log, NEW ts \in Nat, NEW ts2 \in Nat, NEW rc, NEW rc2, NEW snt, NEW seq,
           LogOK(log, ts, rc, snt, seq), ts <= ts2, rc => rc2
    PROVE  LogOK(log, ts2, rc2, snt, seq)
  <1> USE Zenon
  <1>1. log \in Seq(Entries)
    BY DEF LogOK
  <1>2. ASSUME NEW k \in 1..Len(log) PROVE EntryOK(log[k], ts2, rc2)
    <2> DEFINE e == log[k]
    <2>1. EntryOK(e, ts, rc) /\ e \in Entries
      BY <1>1, Element DEF LogOK
    <2> HIDE DEF e
    <2>2. e.image.timestamp \in Nat
      BY <2>1 DEF Entries, Images
    <2>3. e.image.timestamp < ts => e.image.timestamp < ts2
      BY SMT, <2>2
    <2>4. EntryOK(e, ts2, rc2)
      BY <2>1, <2>3 DEF EntryOK
    <2> QED BY <2>4 DEF e
  <1> QED BY <1>2 DEF LogOK

LEMMA NearSum ==
    ASSUME NEW a \in Nat, NEW b \in Nat, NEW c \in Nat, NEW i \in Nat, NEW j \in Nat,
           NEW k \in Nat, NEW d \in Nat, NEW f \in Nat,
           Near(a + b, c + j, f), Near(j + i, k + b, d)
    PROVE  Near(a + i, c + k, f + d)
  BY DEF Near

\* Datagrams taken out, repeated or overtaken: the k-th one was the h[k]-th.
Moves(n, n2, h, d) ==
    \A k \in 1..Len(n2) : /\ h[k] \in 1..Len(n) /\ n2[k] = n[h[k]]
                          /\ Near(h[k] + Len(n2), k + Len(n), d)

Moved(pos, h, n2) == [k \in 1..Len(n2) |-> pos[h[k]]]

LEMMA NetMoves ==
    ASSUME NEW log, log \in Seq(Entries), NEW pos, NEW n, NEW flt \in Nat, NetOK(log, pos, n, flt),
           NEW n2 \in Seq(Datagrams), NEW h, NEW d \in Nat, Moves(n, n2, h, d)
    PROVE  NetOK(log, Moved(pos, h, n2), n2, flt + d)
  <1> USE Zenon
  <1> DEFINE q == [k \in 1..Len(n2) |-> pos[h[k]]]
  <1>1. ASSUME NEW k \in 1..Len(n2)
        PROVE  /\ q[k] \in 1..Len(log) /\ ~log[q[k]].gap
               /\ n2[k] = Packet(PayloadOf(log[q[k]]), q[k] % Uint16)
               /\ Near(q[k] + Len(n2), Len(log) + k, flt + d)
    <2> DEFINE j == h[k]
    <2>1. q[k] = pos[j]
      OBVIOUS
    <2>2. j \in 1..Len(n) /\ n2[k] = n[j] /\ Near(j + Len(n2), k + Len(n), d)
      BY DEF Moves
    <2> HIDE DEF q, j
    <2>3. /\ pos[j] \in 1..Len(log) /\ ~log[pos[j]].gap
          /\ n[j] = Packet(PayloadOf(log[pos[j]]), pos[j] % Uint16)
          /\ Near(pos[j] + Len(n), Len(log) + j, flt)
      BY <2>2 DEF NetOK
    <2>4. Near(pos[j] + Len(n2), Len(log) + k, flt + d)
      <3>1. Len(log) \in Nat /\ Len(n) \in Nat /\ Len(n2) \in Nat /\ n \in Seq(Datagrams)
        BY SMT DEF NetOK
      <3>2. pos[j] \in Nat /\ j \in Nat /\ k \in Nat
        BY SMT, <2>2, <2>3, <3>1
      <3> QED BY <2>2, <2>3, <3>1, <3>2, NearSum
    <2> QED BY <2>1, <2>2, <2>3, <2>4
  <1> HIDE DEF q
  <1>2. NetOK(log, q, n2, flt + d)
    BY <1>1 DEF NetOK
  <1> QED BY <1>2 DEF q, Moved

\* More faults than before.
LEMMA NetLater ==
    ASSUME NEW log \in Seq(Entries), NEW pos, NEW n, NEW flt \in Nat, NEW flt2 \in Nat,
           NetOK(log, pos, n, flt), flt <= flt2
    PROVE  NetOK(log, pos, n, flt2)
  <1>1. Len(log) \in Nat /\ Len(n) \in Nat
    BY DEF NetOK
  <1>2. ASSUME NEW k \in 1..Len(n) PROVE Near(pos[k] + Len(n), Len(log) + k, flt2)
    <2>1. pos[k] \in 1..Len(log) /\ Near(pos[k] + Len(n), Len(log) + k, flt)
      BY Zenon DEF NetOK
    <2> QED BY <1>1, <2>1 DEF Near
  <1> QED BY Zenon, <1>2 DEF NetOK

LEMMA StepLater ==
    ASSUME NEW log \in Seq(Entries), NEW a, NEW s, NEW l, NEW m \in Nat, NEW m2 \in Nat,
           NEW flt \in Nat, NEW d \in Nat, InStep(log, a, s, l, m, flt), Near(m, m2, d)
    PROVE  InStep(log, a, s, l, m2, flt + d)
  <1>1. Len(log) \in Nat /\ a \in 1..Len(log) /\ Near(a + m, Len(log), flt)
    BY DEF InStep
  <1>2. Near(a + m2, Len(log), flt + d)
    BY <1>1 DEF Near
  <1> QED BY Zenon, <1>2 DEF InStep

\* What is left when the first datagram is gone.
LEMMA TailDatagrams ==
    ASSUME NEW n \in Seq(Datagrams), n # <<>>
    PROVE  /\ Tail(n) \in Seq(Datagrams) /\ Len(n) \in Nat \ {0} /\ Len(Tail(n)) = Len(n) - 1
           /\ Head(n) = n[1]
           /\ \A k \in 1..Len(Tail(n)) : Tail(n)[k] = n[k + 1]
  OBVIOUS

LEMMA NetTail ==
    ASSUME NEW log, log \in Seq(Entries), NEW pos, NEW n, NEW flt \in Nat, NetOK(log, pos, n, flt),
           n # <<>>
    PROVE  \E q : NetOK(log, q, Tail(n), flt)
  <1> USE Zenon
  <1> DEFINE m == Tail(n)
             h == [k \in 1..Len(m) |-> k + 1]
  <1>1. n \in Seq(Datagrams)
    BY DEF NetOK
  <1>2. /\ m \in Seq(Datagrams) /\ Len(n) \in Nat \ {0} /\ Len(m) = Len(n) - 1
        /\ \A k \in 1..Len(m) : m[k] = n[k + 1]
    BY <1>1, TailDatagrams
  <1> HIDE DEF m
  <1>3. \A k \in 1..Len(m) : /\ h[k] \in 1..Len(n) /\ m[k] = n[h[k]]
                             /\ Near(h[k] + Len(m), k + Len(n), 0)
    <2> SUFFICES ASSUME NEW k \in 1..Len(m)
                 PROVE  /\ h[k] \in 1..Len(n) /\ m[k] = n[h[k]]
                        /\ Near(h[k] + Len(m), k + Len(n), 0)
      OBVIOUS
    <2>1. h[k] = k + 1
      OBVIOUS
    <2>2. k + 1 \in 1..Len(n) /\ Near((k + 1) + Len(m), k + Len(n), 0)
      BY SMT, <1>2 DEF Near
    <2> QED BY <1>2, <2>1, <2>2
  <1>4. flt + 0 = flt /\ 0 \in Nat
    BY SMT
  <1> HIDE DEF h
  <1>6. Moves(n, m, h, 0)
    BY <1>3 DEF Moves
  <1>5. NetOK(log, Moved(pos, h, m), m, flt + 0)
    BY <1>2, <1>4, <1>6, NetMoves
  <1> QED BY <1>4, <1>5 DEF m

LEMMA NetOvertaken ==
    ASSUME NEW log, log \in Seq(Entries), NEW pos, NEW n, NEW flt \in Nat, NetOK(log, pos, n, flt),
           Len(n) > 1, NEW m, m = <<n[2], n[1]>> \o SubSeq(n, 3, Len(n))
    PROVE  Len(m) = Len(n) /\ \E q : NetOK(log, q, m, flt + 1)
  <1> USE Zenon
  <1> DEFINE h == [k \in 1..Len(n) |-> IF k = 1 THEN 2 ELSE IF k = 2 THEN 1 ELSE k]
             f == <<n[2], n[1]>>
             r == SubSeq(n, 3, Len(n))
  <1>1. n \in Seq(Datagrams) /\ Len(n) \in Nat
    BY SMT DEF NetOK
  <1>2. f \in Seq(Datagrams) /\ Len(f) = 2 /\ f[1] = n[2] /\ f[2] = n[1]
    <2>1. n[1] \in Datagrams /\ n[2] \in Datagrams
      BY SMT, <1>1
    <2> QED BY SMT, <2>1
  <1>3. /\ r \in Seq(Datagrams) /\ Len(r) = Len(n) - 2
        /\ \A k \in 1..(Len(n) - 2) : r[k] = n[k + 2]
    <2>1. 3 \in Int /\ Len(n) \in Int /\ \A k \in 3..Len(n) : n[k] \in Datagrams
      BY SMT, <1>1
    <2>2. /\ r \in Seq(Datagrams) /\ Len(r) = IF 3 <= Len(n) THEN Len(n) - 3 + 1 ELSE 0
          /\ \A k \in 1..(Len(n) - 3 + 1) : r[k] = n[3 + k - 1]
      BY SMT, <1>1, <2>1
    <2> HIDE DEF r
    <2>3. Len(r) = Len(n) - 2
      BY SMT, <1>1, <2>2
    <2>4. ASSUME NEW k \in 1..(Len(n) - 2) PROVE r[k] = n[k + 2]
      <3>1. k \in 1..(Len(n) - 3 + 1) /\ 3 + k - 1 = k + 2
        BY SMT, <1>1
      <3> QED BY <2>2, <3>1
    <2> QED BY <2>2, <2>3, <2>4
  <1> HIDE DEF f, r
  <1>4. m = f \o r
    BY DEF f, r
  <1>5. /\ m \in Seq(Datagrams) /\ Len(m) = Len(n)
        /\ \A k \in 1..Len(n) : m[k] = IF k <= 2 THEN f[k] ELSE r[k - 2]
    <2>1. /\ m \in Seq(Datagrams) /\ Len(m) = 2 + Len(r)
          /\ \A k \in 1..(2 + Len(r)) : m[k] = IF k <= 2 THEN f[k] ELSE r[k - 2]
      <3>1. /\ m \in Seq(Datagrams) /\ Len(m) = Len(f) + Len(r)
            /\ \A k \in 1..(Len(f) + Len(r)) :
                 m[k] = IF k <= Len(f) THEN f[k] ELSE r[k - Len(f)]
        <4>1. /\ f \o r \in Seq(Datagrams) /\ Len(f \o r) = Len(f) + Len(r)
              /\ \A k \in 1..(Len(f) + Len(r)) :
                   (f \o r)[k] = IF k <= Len(f) THEN f[k] ELSE r[k - Len(f)]
          <5>1. f \in Seq(Datagrams) /\ r \in Seq(Datagrams)
            BY <1>2, <1>3
          <5> QED BY <5>1, Concatenation
        <4> QED BY <1>4, <4>1
      <3> QED BY <1>2, <3>1
    <2>2. 2 + Len(r) = Len(n)
      BY SMT, <1>1, <1>3
    <2> QED BY <2>1, <2>2
  <1>6. \A k \in 1..Len(m) : /\ h[k] \in 1..Len(n) /\ m[k] = n[h[k]]
                             /\ Near(h[k] + Len(m), k + Len(n), 1)
    <2> SUFFICES ASSUME NEW k \in 1..Len(m)
                 PROVE  /\ h[k] \in 1..Len(n) /\ m[k] = n[h[k]]
                        /\ Near(h[k] + Len(m), k + Len(n), 1)
      OBVIOUS
    <2>1. h[k] = IF k = 1 THEN 2 ELSE IF k = 2 THEN 1 ELSE k
      BY <1>5
    <2> HIDE DEF h
    <2>2. h[k] \in 1..Len(n) /\ Near(h[k] + Len(m), k + Len(n), 1)
      <3>1. k \in 1..Len(n)
        BY <1>5
      <3>2. h[k] \in 1..Len(n) /\ h[k] <= k + 1 /\ k <= h[k] + 1
        BY SMT, <1>1, <2>1, <3>1
      <3>3. Near(h[k] + Len(n), k + Len(n), 1)
        BY SMT, <1>1, <3>1, <3>2 DEF Near
      <3> QED BY <1>5, <3>2, <3>3
    <2>3. m[k] = IF k <= 2 THEN f[k] ELSE r[k - 2]
      BY <1>5
    <2>4. CASE k \in 1..2
      <3>1. m[k] = f[k] /\ (k = 1 \/ k = 2)
        BY SMT, <2>3, <2>4
      <3> QED BY <1>2, <2>1, <2>2, <3>1
    <2>5. CASE k \notin 1..2
      <3>1. m[k] = r[k - 2] /\ k - 2 \in 1..(Len(n) - 2) /\ (k - 2) + 2 = k /\ h[k] = k
        BY SMT, <1>1, <1>5, <2>1, <2>3, <2>5
      <3>2. r[k - 2] = n[(k - 2) + 2]
        BY <1>3, <3>1
      <3> QED BY <2>2, <3>1, <3>2
    <2> QED BY <2>4, <2>5
  <1> HIDE DEF h
  <1>8. NetOK(log, Moved(pos, h, m), m, flt + 1)
    <2> DEFINE d == 1
    <2>1. d \in Nat
      OBVIOUS
    <2>2. Moves(n, m, h, d)
      BY <1>6 DEF Moves
    <2> HIDE DEF d
    <2>3. NetOK(log, Moved(pos, h, m), m, flt + d)
      BY <1>5, <2>1, <2>2, NetMoves
    <2> QED BY <2>3 DEF d
  <1> QED BY <1>5, <1>8

LEMMA NetRepeated ==
    ASSUME NEW log, log \in Seq(Entries), NEW pos, NEW n, NEW flt \in Nat, NetOK(log, pos, n, flt),
           n # <<>>, NEW m, m = <<n[1]>> \o n
    PROVE  Len(m) = Len(n) + 1 /\ \E q : NetOK(log, q, m, flt + 1)
  <1> USE Zenon
  <1> DEFINE h == [k \in 1..(Len(n) + 1) |-> IF k = 1 THEN 1 ELSE k - 1]
             f == <<n[1]>>
  <1>1. n \in Seq(Datagrams) /\ Len(n) \in Nat \ {0}
    BY TailDatagrams DEF NetOK
  <1>2. f \in Seq(Datagrams) /\ Len(f) = 1 /\ f[1] = n[1]
    <2>1. n[1] \in Datagrams
      BY SMT, <1>1
    <2> QED BY SMT, <2>1
  <1> HIDE DEF f
  <1>3. m = f \o n
    BY DEF f
  <1>4. /\ m \in Seq(Datagrams) /\ Len(m) = Len(n) + 1
        /\ \A k \in 1..(Len(n) + 1) : m[k] = IF k <= 1 THEN f[k] ELSE n[k - 1]
    BY SMT, <1>1, <1>2, <1>3
  <1>5. \A k \in 1..Len(m) : /\ h[k] \in 1..Len(n) /\ m[k] = n[h[k]]
                             /\ Near(h[k] + Len(m), k + Len(n), 1)
    <2> SUFFICES ASSUME NEW k \in 1..Len(m)
                 PROVE  /\ h[k] \in 1..Len(n) /\ m[k] = n[h[k]]
                        /\ Near(h[k] + Len(m), k + Len(n), 1)
      OBVIOUS
    <2>1. h[k] = IF k = 1 THEN 1 ELSE k - 1
      BY <1>4
    <2> HIDE DEF h
    <2>2. h[k] \in 1..Len(n) /\ Near(h[k] + Len(m), k + Len(n), 1)
      BY SMT, <1>1, <1>4, <2>1 DEF Near
    <2>3. m[k] = IF k <= 1 THEN f[k] ELSE n[k - 1]
      BY <1>4
    <2>4. m[k] = n[h[k]]
      BY SMT, <1>2, <2>1, <2>3
    <2> QED BY <2>2, <2>4
  <1> HIDE DEF h
  <1>7. NetOK(log, Moved(pos, h, m), m, flt + 1)
    <2> DEFINE d == 1
    <2>1. d \in Nat
      OBVIOUS
    <2>2. Moves(n, m, h, d)
      BY <1>5 DEF Moves
    <2> HIDE DEF d
    <2>3. NetOK(log, Moved(pos, h, m), m, flt + d)
      BY <1>4, <2>1, <2>2, NetMoves
    <2> QED BY <2>3 DEF d
  <1> QED BY <1>4, <1>7

\* The entries of the first n packets of an image; the last of them is a gap if g.
NewEntries(i, n, b, g) ==
    [k \in 1..n |-> [image |-> i, index |-> k, before |-> b, gap |-> g /\ k = n]]

IsNew(e, i, n, b, g, k) ==
    /\ e.image = i /\ e.index = k /\ e.before = b /\ (e.gap <=> g /\ k = n)

\* p followed by n more.
Extends(p, n, q) ==
    /\ Len(p) \in Nat /\ Len(q) = Len(p) + n
    /\ \A k \in 1..Len(p) : q[k] = p[k]

LEMMA ConcatFacts ==
    ASSUME NEW S, NEW p \in Seq(S), NEW w \in Seq(S)
    PROVE  /\ p \o w \in Seq(S) /\ Extends(p, Len(w), p \o w)
           /\ \A k \in 1..Len(w) : (p \o w)[Len(p) + k] = w[k]
  <1> DEFINE q == p \o w
  <1>1. /\ q \in Seq(S) /\ Len(q) = Len(p) + Len(w)
        /\ \A k \in 1..(Len(p) + Len(w)) :
             q[k] = IF k <= Len(p) THEN p[k] ELSE w[k - Len(p)]
    BY Zenon, Concatenation
  <1>2. Len(p) \in Nat /\ Len(w) \in Nat
    OBVIOUS
  <1> HIDE DEF q
  <1>3. \A k \in 1..Len(p) : q[k] = p[k]
    BY <1>1, <1>2
  <1>4. ASSUME NEW k \in 1..Len(w) PROVE q[Len(p) + k] = w[k]
    <2>1. /\ Len(p) + k \in 1..(Len(p) + Len(w)) /\ ~(Len(p) + k <= Len(p))
          /\ (Len(p) + k) - Len(p) = k
      BY <1>2
    <2>2. q[Len(p) + k] = w[(Len(p) + k) - Len(p)]
      BY Zenon, <1>1, <2>1
    <2> QED BY Zenon, <2>1, <2>2
  <1> QED BY Zenon, <1>1, <1>2, <1>3, <1>4 DEF q, Extends

LEMMA LogGrows ==
    ASSUME NEW log \in Seq(Entries), NEW i \in Images, NEW n \in Nat, NEW b \in Nat, NEW g \in BOOLEAN
    PROVE  LET q == log \o NewEntries(i, n, b, g)
           IN  /\ q \in Seq(Entries) /\ Extends(log, n, q)
               /\ \A k \in 1..n : IsNew(q[Len(log) + k], i, n, b, g, k)
  <1> USE Zenon
  <1> DEFINE w == NewEntries(i, n, b, g)
             q == log \o w
  <1>1. ASSUME NEW k \in 1..n PROVE w[k] \in Entries /\ IsNew(w[k], i, n, b, g, k)
    <2> DEFINE c == g /\ k = n
    <2>1. w[k] = [image |-> i, index |-> k, before |-> b, gap |-> c]
      BY DEF NewEntries
    <2>2. k \in Nat
      BY SMT
    <2>3. c \in BOOLEAN
      OBVIOUS
    <2> HIDE DEF w, c
    <2>4. w[k] \in Entries
      BY SMT, <2>1, <2>2, <2>3 DEF Entries
    <2>5. w[k].image = i /\ w[k].index = k /\ w[k].before = b /\ w[k].gap = c
      BY SMT, <2>1
    <2> QED BY <2>4, <2>5 DEF IsNew, c
  <1>2. w \in Seq(Entries) /\ Len(w) = n
    BY SMT, <1>1 DEF NewEntries
  <1> HIDE DEF w
  <1>3. /\ q \in Seq(Entries) /\ Extends(log, Len(w), q)
        /\ \A k \in 1..Len(w) : q[Len(log) + k] = w[k]
    BY <1>2, ConcatFacts
  <1> HIDE DEF q
  <1>4. /\ q \in Seq(Entries) /\ Extends(log, n, q)
        /\ \A k \in 1..n : q[Len(log) + k] = w[k]
    BY <1>2, <1>3
  <1>5. ASSUME NEW k \in 1..n PROVE IsNew(q[Len(log) + k], i, n, b, g, k)
    BY <1>1, <1>4
  <1> QED BY <1>4, <1>5 DEF q, w

\* An image is sent, or given up with its n-th packet.
LogSend(log, ts, rc, snt, seq, i, n, g, rc2, snt2) ==
    /\ ts \in Nat /\ snt \in Nat /\ g \in BOOLEAN
    /\ LogOK(log, ts, rc, snt, seq) /\ (rc => rc2)
    /\ i \in Images /\ i.timestamp = ts
    /\ i.kind \in Feed!ParameterSets => i.shape = <<1>>
    /\ i.kind = "P" => rc2 \/ i.picture = snt + 1
    /\ n \in 1..Len(Payloads(i)) /\ (~g => n = Len(Payloads(i)))
    /\ ~g => snt2 = IF i.kind \in Feed!Pictures THEN i.picture ELSE snt

LEMMA LogExtend ==
    ASSUME NEW log, NEW ts, NEW rc, NEW snt, NEW seq, NEW i, NEW n, NEW g, NEW rc2, NEW snt2,
           LogSend(log, ts, rc, snt, seq, i, n, g, rc2, snt2)
    PROVE  LogOK(log \o NewEntries(i, n, snt, g), ts + 1, rc2, snt2, (seq + n) % Uint16)
  <1> USE Zenon
  <1>0. /\ ts \in Nat /\ snt \in Nat /\ g \in BOOLEAN
        /\ LogOK(log, ts, rc, snt, seq) /\ (rc => rc2)
        /\ i \in Images /\ i.timestamp = ts
        /\ i.kind \in Feed!ParameterSets => i.shape = <<1>>
        /\ i.kind = "P" => rc2 \/ i.picture = snt + 1
        /\ n \in 1..Len(Payloads(i)) /\ (~g => n = Len(Payloads(i)))
        /\ ~g => snt2 = IF i.kind \in Feed!Pictures THEN i.picture ELSE snt
    BY DEF LogSend
  <1> USE <1>0
  <1> DEFINE q == log \o NewEntries(i, n, snt, g)
             m == Len(log)
  <1>1. log \in Seq(Entries) /\ n \in Nat \ {0} /\ m \in Nat /\ Len(Payloads(i)) \in Nat \ {0}
    <2>1. log \in Seq(Entries)
      BY DEF LogOK
    <2>2. Len(Payloads(i)) \in Nat \ {0}
      BY Parts
    <2> QED BY SMT, <2>1, <2>2
  <1>2. /\ q \in Seq(Entries) /\ Extends(log, n, q)
        /\ \A k \in 1..n : IsNew(q[m + k], i, n, snt, g, k)
    <2>1. n \in Nat
      BY <1>1
    <2> QED BY ZenonT(30), <1>1, <2>1, LogGrows
  <1> HIDE DEF q
  <1>3. Len(q) = m + n /\ \A k \in 1..m : q[k] = log[k]
    BY <1>2 DEF Extends, m
  <1>4. LogOK(log, ts + 1, rc2, snt, seq)
    BY SMT, LogLater
  <1> HIDE DEF m
  <1>5. (seq + n) % Uint16 = (Len(q) + 1) % Uint16
    <2>1. seq = (m + 1) % Uint16
      BY DEF LogOK, m
    <2>2. Uint16 \in Nat \ {0} /\ m + 1 \in Nat /\ n \in Nat
      BY SMT, <1>1, SequenceAssumption
    <2>3. (((m + 1) % Uint16) + n) % Uint16 = ((m + 1) + n) % Uint16
      BY <2>2, ModAdd
    <2>4. (m + 1) + n = (m + n) + 1
      BY SMT, <1>1
    <2> QED BY <1>3, <2>1, <2>3, <2>4
  <1>6. ASSUME NEW j \in 1..Len(q) PROVE EntryOK(q[j], ts + 1, rc2)
    <2>1. CASE j \in 1..m
      BY <1>3, <1>4, <2>1 DEF LogOK, m
    <2>2. CASE j \notin 1..m
      <3> DEFINE k == j - m
      <3>1. k \in 1..n /\ j = m + k /\ k \in 1..Len(Payloads(i)) /\ i.timestamp < ts + 1
        BY SMT, <1>1, <1>3, <2>2
      <3> HIDE DEF k
      <3>2. q[j].image = i /\ q[j].index = k /\ q[j].before = snt
        BY <1>2, <3>1 DEF IsNew
      <3> QED BY <3>1, <3>2 DEF EntryOK
    <2> QED BY <2>1, <2>2
  <1>7. ASSUME NEW j \in 1..(Len(q) - 1)
        PROVE  q[j].gap \/ q[j + 1].gap \/ Succ(q[j], q[j + 1])
    <2>1. CASE j < m
      <3>1. j \in 1..m /\ j + 1 \in 1..m /\ j \in 1..(m - 1)
        BY SMT, <1>1, <1>3, <2>1
      <3>2. log[j].gap \/ log[j + 1].gap \/ Succ(log[j], log[j + 1])
        BY <3>1 DEF LogOK, m
      <3> QED BY <1>3, <3>1, <3>2
    <2>2. CASE j = m
      <3>1. /\ m \in 1..m /\ q[m] = log[m] /\ log # <<>>
        <4>1. m \in 1..m
          BY SMT, <1>1, <2>2
        <4>2. log # <<>>
          BY SMT, <4>1 DEF m
        <4> QED BY <1>3, <4>1, <4>2
      <3> DEFINE one == 1
      <3>2. one \in 1..n
        BY SMT, <1>1
      <3> HIDE DEF one
      <3>3. q[m + one].image = i /\ q[m + one].index = one /\ q[m + one].before = snt
        BY <1>2, <3>2 DEF IsNew
      <3>4. CASE ~log[m].gap
        <4>1. Final(log[m]) /\ snt = After(log[m])
          BY <3>1, <3>4 DEF LogOK, m
        <4>2. log[m].image.timestamp < ts
          BY <3>1, <3>4 DEF LogOK, EntryOK, m
        <4>3. Succ(q[m], q[m + one])
          BY <3>1, <3>3, <4>1, <4>2 DEF Succ, one
        <4> QED BY <2>2, <4>3 DEF one
      <3> QED BY <2>2, <3>1, <3>4
    <2>3. CASE j > m
      <3> DEFINE k == j - m
                 k2 == k + 1
      <3>1. k \in 1..n /\ k2 \in 1..n /\ j = m + k /\ j + 1 = m + k2
        BY SMT, <1>1, <1>3, <2>3
      <3>2. k2 = k + 1
        OBVIOUS
      <3> HIDE DEF k, k2
      <3>3. /\ q[j].image = i /\ q[j].index = k /\ q[j].before = snt
            /\ q[j + 1].image = i /\ q[j + 1].index = k2 /\ q[j + 1].before = snt
        BY <1>2, <3>1 DEF IsNew
      <3> QED BY <3>2, <3>3 DEF Succ
    <2>4. j < m \/ j = m \/ j > m
      BY SMT, <1>1, <1>3
    <2> QED BY <2>1, <2>2, <2>3, <2>4
  <1>8. ASSUME ~q[Len(q)].gap PROVE Final(q[Len(q)]) /\ snt2 = After(q[Len(q)])
    <2>1. n \in 1..n
      BY SMT, <1>1
    <2>2. /\ q[m + n].image = i /\ q[m + n].index = n /\ q[m + n].before = snt
          /\ (q[m + n].gap <=> g)
      BY <1>2, <2>1 DEF IsNew
    <2>3. ~g /\ n = Len(Payloads(i))
      BY <1>3, <1>8, <2>2
    <2> QED BY <1>3, <2>2, <2>3 DEF Final, After
  <1> QED BY <1>2, <1>5, <1>6, <1>7, <1>8 DEF LogOK, q

LEMMA PacketsNumbered ==
    ASSUME NEW l \in Nat, sequence = (l + 1) % Uint16, NEW i \in Images,
           NEW m \in 0..Len(Payloads(i))
    PROVE  /\ Packets(i, m) \in Seq(Datagrams) /\ Len(Packets(i, m)) = m
           /\ \A j \in 1..m : Packets(i, m)[j] = Packet(Payloads(i)[j], (l + j) % Uint16)
  <1> USE Zenon
  <1> DEFINE w == Packets(i, m)
  <1>1. Uint16 \in Nat \ {0} /\ Len(Payloads(i)) \in Nat
    <2>1. Len(Payloads(i)) \in Nat \ {0}
      BY Parts
    <2> QED BY SMT, <2>1, SequenceAssumption
  <1>2. ASSUME NEW j \in 1..m
        PROVE  w[j] = Packet(Payloads(i)[j], (l + j) % Uint16) /\ w[j] \in Datagrams
    <2> DEFINE k == j - 1
    <2>1. w[j] = Packet(Payloads(i)[j], SequenceAfter(k))
      BY DEF Packets
    <2>2. k \in Nat /\ l + 1 \in Nat /\ (l + 1) + k = l + j /\ l + j \in Nat
          /\ j \in 1..Len(Payloads(i))
      BY SMT, <1>1
    <2> HIDE DEF k, w
    <2>3. (((l + 1) % Uint16) + k) % Uint16 = ((l + 1) + k) % Uint16
      BY <1>1, <2>2, ModAdd
    <2>4. SequenceAfter(k) = (l + j) % Uint16
      BY <2>2, <2>3 DEF SequenceAfter
    <2> DEFINE r == (l + j) % Uint16
    <2>5. r \in 0..(Uint16 - 1)
      BY SMT, <1>1, <2>2
    <2> HIDE DEF r
    <2>6. Payloads(i)[j] \in Fragments
      BY <2>2, Parts
    <2>7. w[j] = Packet(Payloads(i)[j], r)
      BY <2>1, <2>4 DEF r
    <2>8. w[j] \in Datagrams
      BY SMT, <2>5, <2>6, <2>7 DEF Packet, Datagrams
    <2> QED BY <2>7, <2>8 DEF r
  <1>3. w \in Seq(Datagrams) /\ Len(w) = m
    <2>1. m \in Nat
      BY SMT, <1>1
    <2> QED BY SMT, <1>2, <2>1 DEF Packets
  <1> HIDE DEF w
  <1> QED BY <1>2, <1>3 DEF w

NetSend(log, pos, net1, flt, i, n, b, g, m, flt2) ==
    /\ log \in Seq(Entries) /\ sequence = (Len(log) + 1) % Uint16
    /\ flt \in Nat /\ NetOK(log, pos, net1, flt)
    /\ i \in Images /\ n \in 1..Len(Payloads(i)) /\ b \in Nat /\ g \in BOOLEAN
    /\ m \in 0..n /\ (g => m < n) /\ flt2 \in Nat /\ flt + n <= flt2 + m

LEMMA NetExtend ==
    ASSUME NEW log, NEW pos, NEW net1, NEW flt, NEW i, NEW n, NEW b, NEW g, NEW m, NEW flt2,
           NetSend(log, pos, net1, flt, i, n, b, g, m, flt2)
    PROVE  /\ Len(net1 \o Packets(i, m)) = Len(net1) + m
           /\ \E q : NetOK(log \o NewEntries(i, n, b, g), q, net1 \o Packets(i, m), flt2)
  <1> USE Zenon
  <1> DEFINE log2 == log \o NewEntries(i, n, b, g)
             w == Packets(i, m)
             net2 == net1 \o w
             l == Len(log)
             c == Len(net1)
             q == [k \in 1..(c + m) |-> IF k <= c THEN pos[k] ELSE l + (k - c)]
  <1>0. /\ log \in Seq(Entries) /\ sequence = (Len(log) + 1) % Uint16
        /\ flt \in Nat /\ NetOK(log, pos, net1, flt)
        /\ i \in Images /\ n \in 1..Len(Payloads(i)) /\ b \in Nat /\ g \in BOOLEAN
        /\ m \in 0..n /\ (g => m < n) /\ flt2 \in Nat /\ flt + n <= flt2 + m
    BY DEF NetSend
  <1> USE <1>0
  <1>1. /\ l \in Nat /\ c \in Nat /\ net1 \in Seq(Datagrams) /\ n \in Nat /\ m \in Nat
        /\ m \in 0..Len(Payloads(i))
    <2>1. net1 \in Seq(Datagrams)
      BY DEF NetOK
    <2>2. Len(Payloads(i)) \in Nat \ {0}
      BY Parts
    <2>3. l \in Nat /\ c \in Nat /\ n \in Nat /\ m \in Nat /\ m \in 0..Len(Payloads(i))
      BY SMT, <2>1, <2>2
    <2> QED BY <2>1, <2>3
  <1>2. /\ w \in Seq(Datagrams) /\ Len(w) = m
        /\ \A j \in 1..m : w[j] = Packet(Payloads(i)[j], (l + j) % Uint16)
    BY <1>1, PacketsNumbered
  <1>3. /\ Extends(log, n, log2)
        /\ \A k \in 1..n : IsNew(log2[l + k], i, n, b, g, k)
    BY <1>1, LogGrows
  <1> HIDE DEF w, log2
  <1>4. /\ net2 \in Seq(Datagrams) /\ Extends(net1, Len(w), net2)
        /\ \A k \in 1..Len(w) : net2[Len(net1) + k] = w[k]
    BY <1>1, <1>2, ConcatFacts
  <1>5. /\ net2 \in Seq(Datagrams) /\ Len(net2) = c + m
        /\ \A k \in 1..c : net2[k] = net1[k]
        /\ \A k \in 1..m : net2[c + k] = w[k]
    BY <1>2, <1>4 DEF Extends
  <1>6. Len(log2) = l + n /\ \A k \in 1..l : log2[k] = log[k]
    BY <1>3 DEF Extends
  <1> HIDE DEF net2
  <1>7. ASSUME NEW k \in 1..Len(net2)
        PROVE  /\ q[k] \in 1..Len(log2) /\ ~log2[q[k]].gap
               /\ net2[k] = Packet(PayloadOf(log2[q[k]]), q[k] % Uint16)
               /\ Near(q[k] + Len(net2), Len(log2) + k, flt2)
    <2>1. k \in 1..(c + m) /\ q[k] = IF k <= c THEN pos[k] ELSE l + (k - c)
      BY <1>5
    <2> HIDE DEF q
    <2>2. CASE k <= c
      <3>1. q[k] = pos[k] /\ k \in 1..c
        BY SMT, <1>1, <2>1, <2>2
      <3>2. /\ pos[k] \in 1..l /\ ~log[pos[k]].gap
            /\ net1[k] = Packet(PayloadOf(log[pos[k]]), pos[k] % Uint16)
            /\ Near(pos[k] + c, l + k, flt)
        BY <3>1 DEF NetOK
      <3> HIDE DEF l, c
      <3>3. Near(pos[k] + (c + m), (l + n) + k, flt2) /\ pos[k] \in 1..(l + n)
        <4> DEFINE x == pos[k]
        <4>1. x \in 1..l /\ x <= (l + k) + flt - c /\ l + k <= (x + c) + flt /\ k \in Nat
          <5>1. x \in 1..l /\ Near(x + c, l + k, flt)
            BY <3>2
          <5> HIDE DEF x
          <5> QED BY SMT, <1>1, <3>1, <5>1 DEF Near
        <4> HIDE DEF x
        <4>2. m <= n /\ flt <= flt2
          BY SMT, <1>1
        <4>3. Near(x + (c + m), (l + n) + k, flt2) /\ x \in 1..(l + n)
          BY SMT, <1>1, <4>1, <4>2 DEF Near
        <4> QED BY <4>3 DEF x
      <3>4. log2[q[k]] = log[pos[k]] /\ net2[k] = net1[k]
        <4>1. \A x \in 1..l : log2[x] = log[x]
          BY <1>6
        <4>2. log2[pos[k]] = log[pos[k]]
          BY <3>2, <4>1
        <4>3. net2[k] = net1[k]
          BY <1>5, <3>1
        <4> QED BY <3>1, <4>2, <4>3
      <3> QED BY <1>5, <1>6, <3>1, <3>2, <3>3, <3>4
    <2>3. CASE ~(k <= c)
      <3> DEFINE j == k - c
      <3> HIDE DEF l, c
      <3>1. q[k] = l + j /\ j \in 1..m /\ k = c + j /\ j \in 1..n /\ (g => j # n)
        BY SMT, <1>1, <2>1, <2>3
      <3> HIDE DEF j
      <3>2. log2[l + j].image = i /\ log2[l + j].index = j /\ ~log2[l + j].gap
        BY <1>3, <3>1 DEF IsNew
      <3>3. net2[k] = Packet(Payloads(i)[j], (l + j) % Uint16)
        BY <1>2, <1>5, <3>1
      <3>4. l + j \in 1..(l + n) /\ Near((l + j) + (c + m), (l + n) + (c + j), flt2)
        BY SMT, <1>1, <3>1 DEF Near
      <3> QED BY <1>5, <1>6, <3>1, <3>2, <3>3, <3>4 DEF PayloadOf
    <2> QED BY <2>2, <2>3
  <1> HIDE DEF q, l, c
  <1>8. NetOK(log2, q, net2, flt2)
    BY <1>5, <1>7 DEF NetOK
  <1> QED BY <1>5, <1>8 DEF log2, net2, w, c

\* The reader stays where it is.
LEMMA StepExtends ==
    ASSUME NEW log, NEW log2, NEW n \in Nat, NEW a, NEW s, NEW l, NEW c \in Nat, NEW m \in 0..n,
           NEW flt \in Nat, NEW flt2 \in Nat, flt + n <= flt2 + m,
           Extends(log, n, log2), InStep(log, a, s, l, c, flt)
    PROVE  InStep(log2, a, s, l, c + m, flt2)
  <1> USE Zenon
  <1>1. a \in 1..Len(log) /\ Near(a + c, Len(log), flt)
    BY DEF InStep
  <1>2. Len(log) \in Nat /\ Len(log2) = Len(log) + n /\ log2[a] = log[a]
    BY <1>1 DEF Extends
  <1>3. a \in 1..Len(log2) /\ Near(a + (c + m), Len(log2), flt2)
    BY SMT, <1>1, <1>2 DEF Near
  <1> QED BY <1>2, <1>3 DEF InStep

LEMMA TrackedSends ==
    ASSUME AgentOK, Tracked, send_image \/ send_packet_fails
    PROVE  Tracked'
  <1> USE Zenon
  <1>1. /\ capture = "send" /\ image \in Images /\ image.timestamp = timestamp
        /\ image.kind \in Feed!ParameterSets => image.shape = <<1>>
        /\ timestamp \in Nat /\ sent \in Nat
    BY DEF AgentOK, send_image, send_packet_fails
  <1>2. faults \in Nat /\ faults' \in Nat
    <2>1. faults \in 0..MaxFaults /\ faults' \in 0..MaxFaults
      BY AgentSends DEF AgentOK
    <2> QED BY SMT, <2>1, SequenceAssumption
  <1>3. image.kind = "P" => raced' \/ image.picture = sent + 1
    <2>1. ~image_not_sent
      BY DEF image_not_sent, send_image, send_packet_fails
    <2> QED BY <2>1, AgentSends
  <1>4. /\ timestamp' = timestamp + 1 /\ source' = source /\ last' = last
        /\ restarted' = restarted /\ mistaken' = mistaken /\ (raced => raced')
    BY DEF send_image, send_packet_fails, NextImage, readerVars
  <1>5. PICK g \in BOOLEAN, n \in 1..Len(Payloads(image)), m \in Nat :
          /\ ~g => n = Len(Payloads(image)) /\ m = n /\ faults' = faults
          /\ g => m = n - 1 /\ faults' = faults + 1
          /\ ~g => sent' = IF image.kind \in Feed!Pictures THEN image.picture ELSE sent
          /\ net' = net \o Packets(image, m) /\ sequence' = SequenceAfter(n)
    <2>0. Len(Payloads(image)) \in Nat \ {0}
      BY <1>1, Parts
    <2>1. CASE send_image
      <3> DEFINE n == Len(Payloads(image))
      <3>1. n \in 1..n /\ n \in Nat
        BY SMT, <2>0
      <3>2. /\ net' = net \o Packets(image, n) /\ sequence' = SequenceAfter(n)
            /\ sent' = IF image.kind \in Feed!Pictures THEN image.picture ELSE sent
            /\ faults' = faults
        BY <2>1 DEF send_image
      <3> QED BY <3>1, <3>2
    <2>2. CASE send_packet_fails
      <3>1. PICK n \in 1..Len(Payloads(image)) : /\ net' = net \o Packets(image, n - 1)
                                                 /\ sequence' = SequenceAfter(n)
        BY <2>2 DEF send_packet_fails
      <3> DEFINE m == n - 1
      <3>2. m \in Nat
        BY SMT, <2>0
      <3>3. faults' = faults + 1
        BY <2>2 DEF send_packet_fails
      <3> QED BY <3>1, <3>2, <3>3
    <2> QED BY <2>1, <2>2
  <1>6. PICK log, pos : /\ LogOK(log, timestamp, raced, sent, sequence)
                        /\ NetOK(log, pos, net, faults)
                        /\ Sync => \E a : InStep(log, a, source, last, Len(net), faults)
    BY DEF Tracked
  <1> DEFINE log2 == log \o NewEntries(image, n, sent, g)
             ts == timestamp + 1
  <1>7. LogOK(log2, ts, raced', sent', (sequence + n) % Uint16)
    <2>1. LogSend(log, timestamp, raced, sent, sequence, image, n, g, raced', sent')
      BY <1>1, <1>3, <1>4, <1>5, <1>6 DEF LogSend
    <2> QED BY <2>1, LogExtend
  <1>8. log \in Seq(Entries) /\ sequence = (Len(log) + 1) % Uint16 /\ net \in Seq(Datagrams)
    BY <1>6 DEF LogOK, NetOK
  <1>9. /\ g => m < n
        /\ faults + n <= faults' + m /\ n \in Nat /\ Len(net) \in Nat /\ m \in 0..n
    <2>1. Len(Payloads(image)) \in Nat \ {0}
      BY <1>1, Parts
    <2>2. Len(net) \in Nat
      BY SMT, <1>8
    <2>3. n \in Nat /\ m \in Nat
      BY SMT, <2>1
    <2>4. CASE g
      <3>1. m = n - 1 /\ faults' = faults + 1
        BY <1>5, <2>4
      <3> QED BY SMT, <1>2, <2>2, <2>3, <3>1
    <2>5. CASE ~g
      <3>1. m = n /\ faults' = faults
        BY <1>5, <2>5
      <3> QED BY SMT, <1>2, <2>2, <2>3, <2>5, <3>1
    <2> QED BY <2>4, <2>5
  <1> DEFINE net2 == net \o Packets(image, m)
             flt2 == faults'
  <1>10. flt2 \in Nat /\ faults + n <= flt2 + m
    BY <1>2, <1>9
  <1> HIDE DEF flt2
  <1>11. Len(net2) = Len(net) + m /\ \E q : NetOK(log2, q, net2, flt2)
    <2>1. NetSend(log, pos, net, faults, image, n, sent, g, m, flt2)
      BY <1>1, <1>2, <1>6, <1>8, <1>9, <1>10 DEF NetSend
    <2> QED BY <2>1, NetExtend
  <1>12. Extends(log, n, log2)
    BY <1>1, <1>8, <1>9, LogGrows
  <1> HIDE DEF log2
  <1>13. ASSUME NEW a, InStep(log, a, source, last, Len(net), faults)
         PROVE  InStep(log2, a, source, last, Len(net) + m, flt2)
    BY <1>2, <1>9, <1>10, <1>12, <1>13, StepExtends
  <1>14. net' = net2 /\ Sync' = Sync /\ sequence' = (sequence + n) % Uint16
    BY <1>4, <1>5 DEF Sync, SequenceAfter
  <1>15. LogOK(log2, timestamp', raced', sent', sequence')
    BY <1>4, <1>7, <1>14
  <1>16. PICK q : NetOK(log2, q, net', faults')
    BY <1>11, <1>14 DEF flt2
  <1>17. Sync' => \E a : InStep(log2, a, source', last', Len(net'), faults')
    BY <1>4, <1>6, <1>11, <1>13, <1>14 DEF flt2
  <1> QED BY <1>15, <1>16, <1>17 DEF Tracked

\* Neither the agent's packets nor the reader change, but perhaps the datagrams
\* between them.
LEMMA TrackedNet ==
    ASSUME NEW log, LogOK(log, timestamp, raced, sent, sequence),
           timestamp \in Nat, timestamp' \in Nat, timestamp <= timestamp',
           raced' = raced, sent' = sent, sequence' = sequence,
           NEW q, NetOK(log, q, net', faults'),
           ~Sync' \/ (/\ source' = source /\ last' = last
                      /\ \E a : InStep(log, a, source, last, Len(net'), faults'))
    PROVE  Tracked'
  <1> USE Zenon
  <1>1. LogOK(log, timestamp', raced, sent, sequence)
    BY SMT, LogLater
  <1>2. LogOK(log, timestamp', raced', sent', sequence')
    BY <1>1
  <1>3. Sync' => \E a : InStep(log, a, source', last', Len(net'), faults')
    OBVIOUS
  <1> QED BY <1>2, <1>3 DEF Tracked

LEMMA FaultCount ==
    ASSUME AgentOK
    PROVE  faults \in Nat /\ timestamp \in Nat
  <1>1. faults \in 0..MaxFaults /\ timestamp \in Nat
    BY Zenon DEF AgentOK
  <1> QED BY <1>1, SequenceAssumption

LEMMA TrackedKept ==
    ASSUME AgentOK, Tracked, timestamp' \in Nat, timestamp <= timestamp',
           UNCHANGED <<raced, sent, sequence, net, restarted, mistaken, source, last, faults>>
    PROVE  Tracked'
  <1> USE Zenon
  <1>1. PICK log, pos : /\ LogOK(log, timestamp, raced, sent, sequence)
                        /\ NetOK(log, pos, net, faults)
                        /\ Sync => \E a : InStep(log, a, source, last, Len(net), faults)
    BY DEF Tracked
  <1>2. /\ raced' = raced /\ sent' = sent /\ sequence' = sequence
        /\ source' = source /\ last' = last /\ net' = net /\ faults' = faults
        /\ restarted' = restarted /\ mistaken' = mistaken
    OBVIOUS
  <1>3. NetOK(log, pos, net', faults')
    BY <1>1, <1>2
  <1>4. ~Sync' \/ \E a : InStep(log, a, source, last, Len(net'), faults')
    BY SMT, <1>1, <1>2 DEF Sync
  <1> QED BY <1>1, <1>2, <1>3, <1>4, FaultCount, TrackedNet

\* The reader is opened or closed.
LEMMA TrackedAnew ==
    ASSUME AgentOK, Tracked, video_source_open \/ video_source_close
    PROVE  Tracked'
  <1> USE Zenon
  <1>1. PICK log, pos : /\ LogOK(log, timestamp, raced, sent, sequence)
                        /\ NetOK(log, pos, net, faults)
    BY DEF Tracked
  <1>2. /\ raced' = raced /\ sent' = sent /\ sequence' = sequence
        /\ net' = net /\ faults' = faults /\ timestamp' = timestamp
    BY DEF video_source_open, video_source_close, captureVars
  <1>3. ~source'.have_sequence
    <2>1. source' = Opened \/ source' = Closed
      BY DEF video_source_open, video_source_close, Opened
    <2>2. Opened.have_sequence = FALSE /\ Closed.have_sequence = FALSE
      BY DEF Opened, Closed
    <2> QED BY <2>1, <2>2
  <1>4. LogOK(log, timestamp', raced', sent', sequence')
    BY <1>1, <1>2
  <1>5. NetOK(log, pos, net', faults')
    BY <1>1, <1>2
  <1> QED BY <1>3, <1>4, <1>5 DEF Tracked, Sync

\* Nothing has been sent.
LEMMA NothingSent ==
    ASSUME NEW ts, NEW rc, NEW snt, NEW flt
    PROVE  \E log, pos : LogOK(log, ts, rc, snt, 1 % Uint16) /\ NetOK(log, pos, <<>>, flt)
  <1> DEFINE log == <<>>
  <1>1. /\ log \in Seq(Entries) /\ log \in Seq(Datagrams) /\ Len(log) = 0 /\ log = <<>>
        /\ 0 + 1 = 1
    OBVIOUS
  <1> HIDE DEF log
  <1>2. 1 % Uint16 = (Len(log) + 1) % Uint16
    BY Zenon, <1>1
  <1>3. ASSUME NEW k \in 1..Len(log) PROVE FALSE
    BY <1>1
  <1>4. ASSUME NEW k \in 1..(Len(log) - 1) PROVE FALSE
    BY <1>1
  <1>5. LogOK(log, ts, rc, snt, 1 % Uint16)
    BY Zenon, <1>1, <1>2, <1>3, <1>4 DEF LogOK
  <1>6. NetOK(log, log, log, flt)
    BY Zenon, <1>1, <1>3 DEF NetOK
  <1> QED BY Zenon, <1>1, <1>5, <1>6

\* The agent has just been started.
LEMMA TrackedReboot ==
    ASSUME Rebooted, net' = <<>>, UNCHANGED <<source, mistaken, raced, sent>>
    PROVE  Tracked'
  <1> USE Zenon
  <1>1. sequence' = 1 % Uint16 /\ restarted' = source.have_sequence /\ source' = source
    BY DEF Rebooted
  <1>2. ~Sync'
    BY <1>1 DEF Sync
  <1>3. PICK log, pos : /\ LogOK(log, timestamp', raced', sent', 1 % Uint16)
                        /\ NetOK(log, pos, <<>>, faults')
    BY NothingSent
  <1> QED BY <1>1, <1>2, <1>3 DEF Tracked

LEMMA TrackedFails ==
    ASSUME AgentOK, Tracked, read_image_fails \/ agent_restarts
    PROVE  Tracked'
  <1> USE Zenon
  <1>1. /\ faults' = faults + 1 /\ UNCHANGED <<source, last, mistaken, raced, sent>>
    BY DEF read_image_fails, agent_restarts, readerVars
  <1>2. CASE Rebooted /\ net' = <<>>
    BY <1>1, <1>2, TrackedReboot
  <1>3. CASE UNCHANGED <<sequence, timestamp, net, restarted>>
    <2>1. PICK log, pos : /\ LogOK(log, timestamp, raced, sent, sequence)
                          /\ NetOK(log, pos, net, faults)
                          /\ Sync => \E a : InStep(log, a, source, last, Len(net), faults)
      BY DEF Tracked
    <2>2. log \in Seq(Entries) /\ net \in Seq(Datagrams)
      BY <2>1 DEF LogOK, NetOK
    <2> DEFINE one == 1
               flt2 == faults + one
    <2>3. /\ one \in Nat /\ flt2 \in Nat /\ faults \in Nat /\ faults <= flt2 /\ Len(net) \in Nat
          /\ Near(Len(net), Len(net), one)
          /\ timestamp \in Nat /\ timestamp <= timestamp
      BY SMT, <2>2, FaultCount DEF Near
    <2>4. faults' = flt2
      BY <1>1
    <2> HIDE DEF one
    <2>5. ASSUME NEW a, InStep(log, a, source, last, Len(net), faults)
          PROVE  InStep(log, a, source, last, Len(net), flt2)
      BY <2>2, <2>3, <2>5, StepLater
    <2> HIDE DEF flt2
    <2>6. NetOK(log, pos, net, flt2)
      BY <2>1, <2>2, <2>3, NetLater
    <2>7. NetOK(log, pos, net', faults')
      BY <1>3, <2>4, <2>6
    <2>8. ~Sync' \/ \E a : InStep(log, a, source, last, Len(net'), faults')
      BY <1>1, <1>3, <2>1, <2>4, <2>5 DEF Sync
    <2>9. /\ raced' = raced /\ sent' = sent /\ sequence' = sequence
          /\ source' = source /\ last' = last /\ timestamp' = timestamp
      BY <1>1, <1>3
    <2> QED BY <2>1, <2>3, <2>7, <2>8, <2>9, TrackedNet
  <1>4. (Rebooted /\ net' = <<>>) \/ UNCHANGED <<sequence, timestamp, net, restarted>>
    BY DEF read_image_fails, agent_restarts
  <1> QED BY <1>2, <1>3, <1>4

LEMMA NetFaults ==
    ASSUME NEW log, log \in Seq(Entries), NEW pos, faults \in Nat, NetOK(log, pos, net, faults),
           datagram_lost \/ datagram_overtaken \/ datagram_repeated
    PROVE  /\ \E q : NetOK(log, q, net', faults + 1)
           /\ Len(net) \in Nat /\ Len(net') \in Nat /\ Near(Len(net), Len(net'), 1)
  <1> USE Zenon
  <1>1. net \in Seq(Datagrams) /\ Len(net) \in Nat
    BY SMT DEF NetOK
  <1> DEFINE flt2 == faults + 1
  <1>2. CASE datagram_lost
    <2>1. net # <<>> /\ net' = Tail(net)
      BY <1>2 DEF datagram_lost, Fault
    <2>2. Len(net) \in Nat \ {0} /\ Len(net') = Len(net) - 1
      BY <1>1, <2>1, TailDatagrams
    <2>3. PICK q : NetOK(log, q, net', faults)
      BY <2>1, NetTail
    <2>4. flt2 \in Nat /\ faults <= flt2
      BY SMT
    <2> HIDE DEF flt2
    <2>5. NetOK(log, q, net', flt2)
      BY <2>3, <2>4, NetLater
    <2>6. Len(net') \in Nat /\ Near(Len(net), Len(net'), 1)
      BY SMT, <2>2 DEF Near
    <2> QED BY <1>1, <2>5, <2>6 DEF flt2
  <1>3. CASE datagram_overtaken
    <2>1. Len(net) > 1 /\ net' = <<net[2], net[1]>> \o SubSeq(net, 3, Len(net))
      BY <1>3 DEF datagram_overtaken, Fault
    <2>2. Len(net') = Len(net) /\ \E q : NetOK(log, q, net', faults + 1)
      BY ZenonT(30), <2>1, NetOvertaken
    <2>3. Near(Len(net), Len(net), 1)
      BY SMT, <1>1 DEF Near
    <2> QED BY <1>1, <2>2, <2>3
  <1>4. CASE datagram_repeated
    <2>1. net # <<>> /\ net' = <<net[1]>> \o net
      BY <1>4 DEF datagram_repeated, Fault
    <2>2. Len(net') = Len(net) + 1 /\ \E q : NetOK(log, q, net', faults + 1)
      BY ZenonT(30), <2>1, NetRepeated
    <2>3. Near(Len(net), Len(net) + 1, 1) /\ Len(net) + 1 \in Nat
      BY SMT, <1>1 DEF Near
    <2> QED BY <1>1, <2>2, <2>3
  <1> QED BY <1>2, <1>3, <1>4

LEMMA TrackedFaults ==
    ASSUME AgentOK, Tracked, datagram_lost \/ datagram_overtaken \/ datagram_repeated
    PROVE  Tracked'
  <1> USE Zenon
  <1>1. PICK log, pos : /\ LogOK(log, timestamp, raced, sent, sequence)
                        /\ NetOK(log, pos, net, faults)
                        /\ Sync => \E a : InStep(log, a, source, last, Len(net), faults)
    BY DEF Tracked
  <1>2. log \in Seq(Entries)
    BY <1>1 DEF LogOK
  <1>3. /\ faults' = faults + 1
        /\ raced' = raced /\ sent' = sent /\ sequence' = sequence /\ timestamp' = timestamp
        /\ source' = source /\ last' = last /\ restarted' = restarted /\ mistaken' = mistaken
    BY DEF datagram_lost, datagram_overtaken, datagram_repeated, Fault, captureVars,
           historyVars, readerVars
  <1> DEFINE one == 1
             flt2 == faults + one
  <1>4. /\ Len(net) \in Nat /\ Len(net') \in Nat /\ Near(Len(net), Len(net'), one)
        /\ \E q : NetOK(log, q, net', flt2)
    BY <1>1, <1>2, FaultCount, NetFaults
  <1>5. one \in Nat /\ timestamp \in Nat /\ timestamp <= timestamp /\ faults \in Nat
    BY SMT, FaultCount
  <1>6. faults' = flt2
    BY <1>3
  <1> HIDE DEF one
  <1>7. ASSUME NEW a, InStep(log, a, source, last, Len(net), faults)
        PROVE  InStep(log, a, source, last, Len(net'), flt2)
    BY <1>2, <1>4, <1>5, <1>7, StepLater
  <1> HIDE DEF flt2
  <1>8. PICK q : NetOK(log, q, net', faults')
    BY <1>4, <1>6
  <1>9. ~Sync' \/ \E a : InStep(log, a, source, last, Len(net'), faults')
    <2>1. Sync' => Sync
      BY <1>3 DEF Sync
    <2> QED BY <1>1, <1>6, <1>7, <2>1
  <1>10. timestamp' \in Nat /\ timestamp <= timestamp'
    BY <1>3, <1>5
  <1> QED BY <1>1, <1>3, <1>5, <1>8, <1>9, <1>10, TrackedNet

LEMMA TrackedRefused ==
    ASSUME AgentOK, ReaderOK, Tracked, datagram_refused
    PROVE  Tracked'
  <1> USE Zenon
  <1>1. PICK log, pos : /\ LogOK(log, timestamp, raced, sent, sequence)
                        /\ NetOK(log, pos, net, faults)
    BY DEF Tracked
  <1>2. log \in Seq(Entries) /\ faults \in Nat
    BY <1>1, FaultCount DEF LogOK
  <1>3. /\ net # <<>> /\ net' = Tail(net) /\ ~source.opened
        /\ faults' = faults /\ raced' = raced /\ sent' = sent /\ sequence' = sequence
        /\ timestamp' = timestamp /\ source' = source
    BY DEF datagram_refused, captureVars, historyVars, readerVars
  <1>4. \E q : NetOK(log, q, net', faults)
    BY <1>1, <1>2, <1>3, NetTail
  <1>5. ~Sync'
    <2>1. source = Closed
      BY <1>3 DEF ReaderOK, SourceOK
    <2>2. Closed.have_sequence = FALSE
      BY DEF Closed
    <2> QED BY <1>3, <2>1, <2>2 DEF Sync
  <1>6. LogOK(log, timestamp', raced', sent', sequence')
    BY <1>1, <1>3
  <1> QED BY <1>3, <1>4, <1>5, <1>6 DEF Tracked

-----------------------------------------------------------------------------
(* The reader takes the next datagram *)

\* It is the packet at position x of the log.
HeadAt(log, x, n, ts, rc, flt) ==
    /\ x \in 1..Len(log) /\ Sent(log[x]) /\ ~log[x].gap /\ EntryOK(log[x], ts, rc)
    /\ Head(n).payload = PayloadOf(log[x]) /\ Head(n).payload \in Fragments
    /\ Head(n).payload.marker => Head(n).payload.end
    /\ Head(n).sequence = x % Uint16 /\ Head(n).sequence \in Nat
    /\ Near(x + Len(n), Len(log) + 1, flt)

LEMMA HeadPlaced ==
    ASSUME NEW log, NEW ts, NEW rc, NEW snt, NEW seq, LogOK(log, ts, rc, snt, seq),
           NEW pos, NEW n, NEW flt, NetOK(log, pos, n, flt), n # <<>>
    PROVE  HeadAt(log, pos[1], n, ts, rc, flt)
  <1> USE Zenon
  <1> DEFINE x == pos[1]
             e == log[x]
  <1>1. n \in Seq(Datagrams) /\ log \in Seq(Entries)
    BY DEF NetOK, LogOK
  <1>2. Head(n) = n[1] /\ Len(n) \in Nat \ {0}
    BY <1>1, TailDatagrams
  <1>3. 1 \in 1..Len(n)
    BY SMT, <1>2
  <1>4. /\ x \in 1..Len(log) /\ ~e.gap /\ n[1] = Packet(PayloadOf(e), x % Uint16)
        /\ Near(x + Len(n), Len(log) + 1, flt)
    BY <1>3 DEF NetOK
  <1> HIDE DEF x
  <1>5. e \in Entries /\ EntryOK(e, ts, rc)
    BY <1>1, <1>4, Element DEF LogOK
  <1>6. Sent(e)
    BY <1>4, <1>5 DEF Sent, EntryOK
  <1>7. Head(n).payload = PayloadOf(e) /\ Head(n).sequence = x % Uint16
    BY SMT, <1>2, <1>4 DEF Packet
  <1>8. x % Uint16 \in Nat
    BY SMT, <1>1, <1>4, SequenceAssumption
  <1> DEFINE i == e.image
             k == e.index
  <1>9. i \in Images /\ k \in 1..Len(Payloads(i))
    BY <1>6, SentImage DEF Sent
  <1>10. PayloadOf(e) = Payloads(i)[k]
    BY DEF PayloadOf
  <1> HIDE DEF e, i, k
  <1>11. /\ Payloads(i)[k] \in Fragments
         /\ Payloads(i)[k].marker => Payloads(i)[k].end
    <2> DEFINE p == Payloads(i)
    <2>1. WholeUnits(p, i, TRUE)
      BY <1>9, PayloadsWhole
    <2>2. k \in 1..Len(p)
      BY <1>9
    <2> HIDE DEF p
    <2>3. p[k] \in Fragments
      BY <2>1, <2>2, Element DEF WholeUnits
    <2>4. p[k].marker => p[k].end
      BY <2>1, <2>2 DEF WholeUnits
    <2> QED BY <2>3, <2>4 DEF p
  <1>12. /\ PayloadOf(e) \in Fragments /\ (PayloadOf(e).marker => PayloadOf(e).end)
    BY <1>10, <1>11
  <1>13. HeadAt(log, x, n, ts, rc, flt)
    BY <1>4, <1>5, <1>6, <1>7, <1>8, <1>12 DEF HeadAt, e
  <1> QED BY <1>13 DEF x

\* So few faults cannot make it look like the one that is expected.
LEMMA PlaceTold ==
    ASSUME NEW l \in Nat, NEW x \in 1..l, NEW a \in 1..l, NEW c \in Nat, NEW flt \in 0..MaxFaults,
           Near(x + c, l + 1, flt), Near(a + c, l, flt)
    PROVE  /\ x % Uint16 = (a + 1) % Uint16 => x = a + 1
           /\ flt = 0 => x = a + 1
  <1> DEFINE y == a + 1
             d == 2 * MaxFaults
  <1>1. /\ Uint16 \in Nat \ {0} /\ d \in Nat /\ d < Uint16 /\ x \in Nat /\ y \in Nat
        /\ x <= y + d /\ y <= x + d
    BY SequenceAssumption DEF Near
  <1>2. flt = 0 => x = y
    BY DEF Near
  <1> HIDE DEF y, d
  <1>3. x % Uint16 = y % Uint16 => x = y
    BY Zenon, <1>1, ModNear
  <1> QED BY Zenon, <1>2, <1>3 DEF y

LEMMA AfterSequenced ==
    ASSUME NEW s \in Sources, NEW n \in Nat, NEW e, NEW l, ReaderAfter(s, e, l), ~Missed(s, n)
    PROVE  ReaderAfter(Sequenced(s, n), e, l)
  <1> USE Zenon
  <1> DEFINE t == Sequenced(s, n)
  <1>1. /\ t.awaiting_idr = s.awaiting_idr
        /\ t.have_sps = s.have_sps /\ t.have_pps = s.have_pps
        /\ t.assembling = s.assembling /\ t.access_unit = s.access_unit
        /\ t.losses = s.losses
    BY SequencedFields
  <1> HIDE DEF t
  <1>2. Fresh(t) <=> Fresh(s)
    BY <1>1 DEF Fresh
  <1>3. Holds(t, e, e.index) <=> Holds(s, e, e.index)
    BY <1>1 DEF Holds
  <1>4. HoldsAll(t, e, e.index) <=> HoldsAll(s, e, e.index)
    BY <1>1 DEF HoldsAll
  <1>5. ReaderAfter(t, e, l)
    BY <1>1, <1>2, <1>3, <1>4 DEF ReaderAfter
  <1> QED BY <1>5 DEF t

\* Whatever comes, the reader is ready for it: it follows what was read last, or
\* begins anew.
LEMMA BeforeHead ==
    ASSUME NEW log, NEW ts, NEW rc, NEW snt, NEW seq, LogOK(log, ts, rc, snt, seq),
           NEW x, NEW n, NEW flt \in 0..MaxFaults, HeadAt(log, x, n, ts, rc, flt), Len(n) \in Nat,
           NEW s, NEW l, NEW ps, SourceOK(s, l, ps), s.opened,
           \/ Missed(s, Head(n).sequence)
           \/ ~s.have_sequence
           \/ \E a : InStep(log, a, s, l, Len(n), flt)
    PROVE  ReaderBefore(Sequenced(s, Head(n).sequence), log[x], l)
  <1> USE Zenon
  <1> DEFINE m == Head(n).sequence
             t == Sequenced(s, m)
  <1>1. m \in Nat /\ m = x % Uint16 /\ x \in 1..Len(log) /\ Sent(log[x]) /\ ~log[x].gap
    BY DEF HeadAt
  <1>2. s \in Sources
    BY DEF SourceOK
  <1> HIDE DEF m
  <1>3. /\ t \in Sources
        /\ t.awaiting_idr = s.awaiting_idr
        /\ t.have_sps = s.have_sps /\ t.have_pps = s.have_pps
        /\ Missed(s, m) => t.assembling = <<>> /\ t.access_unit = <<>> /\ t.losses = TRUE
        /\ ~Missed(s, m) => t.assembling = s.assembling /\ t.access_unit = s.access_unit
    BY <1>1, <1>2, SequencedFields
  <1> HIDE DEF t
  <1>4. CASE Missed(s, m)
    BY <1>3, <1>4, Anew DEF m, t
  <1>5. CASE ~s.have_sequence
    <2>1. s = Opened /\ ~Missed(s, m)
      BY <1>5 DEF SourceOK, Missed
    <2>2. /\ Opened.awaiting_idr = TRUE /\ Opened.have_sps = FALSE /\ Opened.have_pps = FALSE
          /\ Opened.assembling = <<>> /\ Opened.access_unit = <<>>
      BY DEF Opened, Closed
    <2>3. t.assembling = <<>> /\ t.access_unit = <<>> /\ Fresh(t)
      BY <1>3, <2>1, <2>2 DEF Fresh
    <2> QED BY <1>3, <2>3, Anew DEF m, t
  <1>6. CASE ~Missed(s, m) /\ s.have_sequence
    <2>1. PICK a : InStep(log, a, s, l, Len(n), flt)
      BY <1>6 DEF m
    <2>2. /\ a \in 1..Len(log) /\ ~log[a].gap /\ s.expected = (a + 1) % Uint16
          /\ Near(a + Len(n), Len(log), flt) /\ ReaderAfter(s, log[a], l)
      BY <2>1 DEF InStep
    <2>3. log \in Seq(Entries) /\ Len(log) \in Nat
      BY SMT DEF LogOK
    <2>4. Near(x + Len(n), Len(log) + 1, flt)
      BY DEF HeadAt
    <2>5. x % Uint16 = (a + 1) % Uint16
      BY <1>1, <1>6, <2>2 DEF Missed
    <2>6. x = a + 1
      BY <1>1, <2>2, <2>3, <2>4, <2>5, PlaceTold
    <2>7. a \in 1..(Len(log) - 1)
      BY SMT, <1>1, <2>2, <2>3, <2>6
    <2>8. Succ(log[a], log[x])
      BY <1>1, <2>2, <2>6, <2>7 DEF LogOK
    <2>9. Sent(log[a])
      BY <2>2, <2>3, Element DEF LogOK, EntryOK, Sent
    <2>10. ReaderAfter(t, log[a], l)
      BY <1>1, <1>2, <1>6, <2>2, AfterSequenced DEF t
    <2>11. ReaderBefore(t, log[x], l)
      BY <1>1, <1>3, <2>8, <2>9, <2>10, InOrder
    <2> QED BY <2>11 DEF m, t
  <1> QED BY <1>4, <1>5, <1>6

LEMMA ReadKeeps ==
    ASSUME AgentOK, ReaderOK, Tracked, video_source_read
    PROVE  /\ ReaderOK' /\ Tracked'
           /\ \/ unit' = unit /\ last' = last /\ params' = params
              \/ Given(unit') /\ (mistaken' \/ raced \/ Feed!Usable(unit'))
  <1> USE Zenon
  <1> DEFINE p == Head(net)
  <1>1. /\ source.opened /\ net # <<>> /\ Received(p) /\ net' = Tail(net)
        /\ restarted' = FALSE /\ mistaken' = (mistaken \/ Mistakes(p))
        /\ sent' = sent /\ raced' = raced /\ faults' = faults
        /\ timestamp' = timestamp /\ sequence' = sequence
    BY DEF video_source_read, captureVars
  <1>2. PICK log, pos : /\ LogOK(log, timestamp, raced, sent, sequence)
                        /\ NetOK(log, pos, net, faults)
                        /\ Sync => \E a : InStep(log, a, source, last, Len(net), faults)
    BY DEF Tracked
  <1> DEFINE x == pos[1]
  <1>3. HeadAt(log, x, net, timestamp, raced, faults)
    BY <1>1, <1>2, HeadPlaced
  <1> HIDE DEF x, p
  <1>4. /\ x \in 1..Len(log) /\ Sent(log[x]) /\ ~log[x].gap /\ EntryOK(log[x], timestamp, raced)
        /\ p.payload = PayloadOf(log[x]) /\ p.payload \in Fragments
        /\ p.payload.marker => p.payload.end
        /\ p.sequence = x % Uint16 /\ p.sequence \in Nat
        /\ Near(x + Len(net), Len(log) + 1, faults)
    BY <1>3 DEF HeadAt, p
  <1>5. /\ SourceOK(source, last, params) /\ last \in Nat
        /\ unit \in Feed!Units \cup {Feed!NoUnit} /\ mistaken \in BOOLEAN /\ restarted \in BOOLEAN
        /\ faults = 0 => /\ ~restarted /\ ~mistaken /\ ~source.losses
                         /\ source.opened /\ last # 0 => ~source.awaiting_idr
    BY DEF ReaderOK
  <1>6. /\ SourceOK(source', last', params')
        /\ source'.opened /\ source'.have_sequence
        /\ source'.expected = (p.sequence + 1) % Uint16
        /\ unit' \in Feed!Units \cup {Feed!NoUnit} /\ last' \in Nat
        /\ (unit' = unit /\ last' = last /\ params' = params) \/ Given(unit')
    BY <1>1, <1>4, <1>5, ReadTyped
  <1>7. /\ log \in Seq(Entries) /\ net \in Seq(Datagrams) /\ Len(log) \in Nat
        /\ Len(net) \in Nat \ {0} /\ Len(net') = Len(net) - 1
    <2>1. log \in Seq(Entries) /\ net \in Seq(Datagrams)
      BY <1>2 DEF LogOK, NetOK
    <2>2. Len(log) \in Nat
      BY SMT, <2>1
    <2> QED BY <1>1, <2>1, <2>2, TailDatagrams
  <1>8. faults \in 0..MaxFaults /\ faults \in Nat
    BY FaultCount DEF AgentOK
  <1>9. ASSUME ~mistaken'
        PROVE  \/ Missed(source, p.sequence) \/ ~source.have_sequence
               \/ \E a : InStep(log, a, source, last, Len(net), faults)
    BY <1>1, <1>2, <1>9 DEF Sync, Mistakes, Missed
  <1>10. ASSUME ~mistaken'
         PROVE  /\ ReaderAfter(source', log[x], last')
                /\ \/ unit' = unit /\ last' = last /\ params' = params
                   \/ raced \/ Feed!Usable(unit')
    <2>1. Len(net) \in Nat
      BY <1>7
    <2>2. ReaderBefore(Sequenced(source, p.sequence), log[x], last)
      BY <1>1, <1>2, <1>3, <1>5, <1>8, <1>9, <1>10, <2>1, BeforeHead DEF p
    <2> DEFINE e == log[x]
               ts == timestamp
               rc == raced
    <2>3. /\ Sent(e) /\ ~e.gap /\ EntryOK(e, ts, rc) /\ p.payload = PayloadOf(e)
          /\ p.sequence \in Nat
      BY <1>4
    <2>4. SourceOK(source, last, params) /\ source.opened /\ Received(p)
      BY <1>1, <1>5
    <2>5. ReaderBefore(Sequenced(source, p.sequence), e, last)
      BY <2>2
    <2> HIDE DEF e, ts, rc
    <2>6. /\ ReaderAfter(source', e, last')
          /\ \/ unit' = unit /\ last' = last /\ params' = params
             \/ rc \/ Feed!Usable(unit')
      BY SMT, <2>3, <2>4, <2>5, ReadPlaced
    <2> QED BY <2>6 DEF e, rc
  <1>11. ASSUME ~mistaken'
         PROVE  InStep(log, x, source', last', Len(net'), faults')
    <2>1. source'.expected = (x + 1) % Uint16
      <3> DEFINE one == 1
      <3>1. one \in Nat /\ x \in Nat /\ Uint16 \in Nat \ {0}
        BY SMT, <1>4, <1>7, SequenceAssumption
      <3>2. source'.expected = ((x % Uint16) + one) % Uint16
        BY <1>4, <1>6
      <3> HIDE DEF one
      <3>3. ((x % Uint16) + one) % Uint16 = (x + one) % Uint16
        BY <3>1, ModAdd
      <3> QED BY <3>2, <3>3 DEF one
    <2>2. Near(x + Len(net'), Len(log), faults)
      <3>1. x \in 1..Len(log) /\ Near(x + Len(net), Len(log) + 1, faults)
        BY <1>4
      <3> QED BY SMT, <1>7, <1>8, <3>1 DEF Near
    <2> QED BY <1>1, <1>4, <1>10, <1>11, <2>1, <2>2 DEF InStep
  <1>12. Tracked'
    <2>1. \E q : NetOK(log, q, net', faults')
      BY <1>1, <1>2, <1>7, <1>8, NetTail
    <2>2. LogOK(log, timestamp', raced', sent', sequence')
      BY <1>1, <1>2
    <2> QED BY <1>11, <2>1, <2>2 DEF Tracked, Sync
  <1>13. ASSUME faults' = 0
         PROVE  /\ ~mistaken' /\ ~source'.losses
                /\ source'.opened /\ last' # 0 => ~source'.awaiting_idr
    <2>1. /\ faults = 0 /\ ~restarted /\ ~mistaken /\ ~source.losses
          /\ last # 0 => ~source.awaiting_idr
      BY <1>1, <1>5, <1>13
    <2>2. ~mistaken'
      BY <1>1, <2>1 DEF Mistakes
    <2>3. ~Missed(source, p.sequence)
      <3>1. CASE source.have_sequence
        <4>1. PICK a : InStep(log, a, source, last, Len(net), faults)
          BY <1>2, <2>1, <3>1 DEF Sync
        <4>2. /\ a \in 1..Len(log) /\ source.expected = (a + 1) % Uint16
              /\ Near(a + Len(net), Len(log), faults)
          BY <4>1 DEF InStep
        <4>3. x = a + 1
          <5>1. /\ x \in 1..Len(log) /\ Near(x + Len(net), Len(log) + 1, faults)
            BY <1>4
          <5> QED BY SMT, <1>7, <2>1, <4>2, <5>1 DEF Near
        <4> QED BY <1>4, <4>2, <4>3 DEF Missed
      <3> QED BY <3>1 DEF Missed
    <2>4. ~source'.losses /\ (last' # 0 => ~source'.awaiting_idr)
      BY <1>1, <1>4, <1>5, <2>1, <2>3, ReadLossless
    <2> QED BY <2>2, <2>4
  <1>14. ReaderOK'
    <2>1. restarted' \in BOOLEAN /\ mistaken' \in BOOLEAN /\ ~restarted'
      BY <1>1, <1>5 DEF Mistakes
    <2> QED BY <1>6, <1>13, <2>1 DEF ReaderOK
  <1> QED BY <1>6, <1>10, <1>12, <1>14

-----------------------------------------------------------------------------
(* The reader in all other steps *)

LEMMA ReaderKept ==
    ASSUME ReaderOK, UNCHANGED <<source, unit, last, params, mistaken>>,
           restarted' = restarted \/ (restarted' = source.have_sequence /\ faults' # 0),
           faults' = faults \/ faults' # 0
    PROVE  ReaderOK'
  <1> USE Zenon
  <1>1. /\ source' = source /\ unit' = unit /\ last' = last /\ params' = params
        /\ mistaken' = mistaken
    OBVIOUS
  <1>2. source \in Sources
    BY DEF ReaderOK, SourceOK
  <1>3. source.have_sequence \in BOOLEAN
    BY <1>2 DEF Sources
  <1>7. /\ restarted \in BOOLEAN /\ (restarted => source.have_sequence)
        /\ faults = 0 => /\ ~restarted /\ ~mistaken /\ ~source.losses
                         /\ source.opened /\ last # 0 => ~source.awaiting_idr
    BY DEF ReaderOK
  <1>4. restarted' \in BOOLEAN /\ (restarted' => source'.have_sequence)
    <2>1. CASE restarted' = restarted
      BY <1>1, <1>7, <2>1
    <2>2. CASE restarted' = source.have_sequence
      BY <1>1, <1>3, <2>2
    <2> QED BY <2>1, <2>2
  <1>5. ASSUME faults' = 0
        PROVE  /\ ~restarted' /\ ~mistaken' /\ ~source'.losses
               /\ source'.opened /\ last' # 0 => ~source'.awaiting_idr
    <2>1. faults = 0 /\ restarted' = restarted
      BY <1>5
    <2>2. /\ ~restarted /\ ~mistaken /\ ~source.losses
          /\ source.opened /\ last # 0 => ~source.awaiting_idr
      BY <1>7, <2>1
    <2>3. ~restarted' /\ ~mistaken'
      BY SMT, <1>1, <2>1, <2>2
    <2> QED BY <1>1, <2>2, <2>3
  <1>6. SourceOK(source', last', params')
    BY <1>1 DEF ReaderOK
  <1> QED BY <1>1, <1>4, <1>5, <1>6 DEF ReaderOK

LEMMA SourceAnew ==
    /\ SourceOK(Opened, 0, {}) /\ SourceOK(Closed, 0, {})
    /\ Opened.losses = FALSE /\ Closed.losses = FALSE /\ Closed.have_sequence = FALSE
  <1> USE Zenon
  <1>1. /\ Opened.opened = TRUE /\ Opened.have_sequence = FALSE /\ Opened.losses = FALSE
        /\ Opened.assembling = <<>> /\ Opened.awaiting_idr = TRUE
        /\ Opened.have_sps = FALSE /\ Opened.have_pps = FALSE
        /\ Opened.pending_packet_loss = FALSE
    BY DEF Opened, Closed
  <1>2. /\ Closed.opened = FALSE /\ Closed.have_sequence = FALSE /\ Closed.losses = FALSE
        /\ Closed.assembling = <<>> /\ Closed.have_sps = FALSE /\ Closed.have_pps = FALSE
        /\ Closed.pending_packet_loss = FALSE
    BY DEF Closed
  <1>3. 0 \in 0..(Uint16 - 1) /\ <<>> \in Seq(Fragments)
    BY SMT, SequenceAssumption
  <1>4. Opened \in Sources /\ Closed \in Sources
    BY <1>3 DEF Opened, Closed, Sources
  <1>5. StartsRight(<<>>)
    BY SMT DEF StartsRight
  <1>6. GateOK(Opened, {}) /\ GateOK(Closed, {})
    BY <1>1, <1>2 DEF GateOK
  <1>7. SourceOK(Opened, 0, {})
    BY <1>1, <1>4, <1>5, <1>6 DEF SourceOK
  <1>8. SourceOK(Closed, 0, {})
    BY <1>2, <1>4, <1>5, <1>6 DEF SourceOK
  <1> QED BY <1>1, <1>2, <1>7, <1>8

LEMMA ReaderAnew ==
    ASSUME ReaderOK, video_source_open \/ video_source_close
    PROVE  ReaderOK'
  <1> USE Zenon
  <1>1. /\ source' = Opened \/ source' = Closed
        /\ unit' = Feed!NoUnit /\ last' = 0 /\ params' = {} /\ restarted' = FALSE
        /\ mistaken' = mistaken /\ faults' = faults
    BY DEF video_source_open, video_source_close, Opened
  <1>2. SourceOK(source', last', params') /\ ~source'.losses
    BY <1>1, SourceAnew
  <1>3. last' \in Nat
    BY <1>1
  <1>4. unit' \in Feed!Units \cup {Feed!NoUnit}
    BY <1>1
  <1> QED BY <1>1, <1>2, <1>3, <1>4 DEF ReaderOK

-----------------------------------------------------------------------------
(* The inductive invariant *)

LEMMA VideoStarts ==
    ASSUME Init
    PROVE  VideoInv
  <1> USE Zenon
  <1>1. /\ streaming = FALSE /\ wait_for_idr = TRUE /\ starting = FALSE /\ capture = "check"
        /\ fails = 0 /\ reinits = 0 /\ timestamp = 1
        /\ encoder = [kind |-> "none", picture |-> 0]
        /\ sent = 0 /\ raced = FALSE /\ faults = 0
    BY DEF Init
  <1>2. /\ source = Closed /\ unit = Feed!NoUnit /\ last = 0 /\ params = {}
        /\ restarted = FALSE /\ mistaken = FALSE
    BY DEF Init
  <1>3. AgentOK
    <2>1. fails \in 0..CAPTURE_FAIL_LIMIT /\ reinits \in 0..CAPTURE_REINIT_LIMIT
          /\ timestamp \in Nat /\ sent \in Nat /\ faults \in 0..MaxFaults
      BY SMT, <1>1, SequenceAssumption
    <2>2. encoder \in [kind : Kinds \cup {"none"}, picture : Nat]
      BY <1>1
    <2>3. capture \in {"check", "read", "send"} /\ capture # "send"
      BY <1>1
    <2> QED BY <1>1, <2>1, <2>2, <2>3 DEF AgentOK, PictureInHand, Ready
  <1>4. ReaderOK
    <2>1. last \in Nat
      BY <1>2
    <2>2. SourceOK(source, last, params) /\ ~source.losses
      BY <1>2, SourceAnew
    <2> QED BY <1>2, <2>1, <2>2 DEF ReaderOK
  <1>5. Tracked
    <2>1. net = <<>> /\ sequence = 1 % Uint16
      BY DEF Init
    <2>2. PICK log, pos : /\ LogOK(log, timestamp, raced, sent, 1 % Uint16)
                          /\ NetOK(log, pos, <<>>, faults)
      BY NothingSent
    <2>3. ~Sync
      BY <1>2, SourceAnew DEF Sync
    <2> QED BY <2>1, <2>2, <2>3 DEF Tracked
  <1> QED BY <1>3, <1>4, <1>5 DEF VideoInv

LEMMA AgentChecks ==
    ASSUME AgentOK, check_streaming
    PROVE  AgentOK'
  <1> USE Zenon
  <1>1. /\ capture = "check" /\ capture' = "read"
        /\ image' = image /\ fails' = fails /\ reinits' = reinits
        /\ timestamp' = timestamp /\ encoder' = encoder /\ sent' = sent /\ raced' = raced
        /\ faults' = faults /\ streaming' = streaming /\ wait_for_idr' = wait_for_idr
        /\ starting' = starting
    BY DEF check_streaming, flagVars, historyVars
  <1>2. capture # "send" /\ capture' # "send" /\ capture' \in {"check", "read", "send"}
    BY <1>1
  <1>3. ~PictureInHand /\ ~PictureInHand' /\ Ready' = Ready
    BY <1>1, <1>2 DEF PictureInHand, Ready
  <1>4. Ready' => sent' = encoder'.picture
    BY <1>1, <1>3 DEF AgentOK
  <1> QED BY <1>1, <1>2, <1>3, <1>4 DEF AgentOK

\* What the steps that do not touch the reader leave alone.
LEMMA StepFrame ==
    ASSUME Control \/ Capture \/ Network
    PROVE  UNCHANGED <<source, unit, last, params, mistaken>>
  <1> USE Zenon
  <1>1. CASE Control
    BY <1>1 DEF Control, START_STREAM, start_waits_for_idr, STOP_STREAM, IDR_REQUEST,
           disconnect_control, readerVars, historyVars
  <1>2. CASE Capture
    BY <1>2 DEF Capture, check_streaming, read_image, read_image_fails, image_not_sent,
           send_image, send_packet_fails, agent_restarts, NextImage, readerVars, historyVars
  <1>3. CASE Network
    BY <1>3 DEF Network, datagram_lost, datagram_overtaken, datagram_repeated,
           datagram_refused, Fault, readerVars, historyVars
  <1> QED BY <1>1, <1>2, <1>3

LEMMA VideoStep ==
    ASSUME VideoInv, [Next]_vars
    PROVE  VideoInv'
  <1> USE Zenon
  <1>1. AgentOK /\ ReaderOK /\ Tracked
    BY DEF VideoInv
  <1>2. faults \in Nat /\ timestamp \in Nat /\ faults \in 0..MaxFaults
        /\ timestamp <= timestamp /\ timestamp + 1 \in Nat /\ timestamp <= timestamp + 1
        /\ faults + 1 # 0
    <2>1. faults \in Nat /\ timestamp \in Nat
      BY <1>1, FaultCount
    <2>2. faults \in 0..MaxFaults
      BY <1>1 DEF AgentOK
    <2> QED BY SMT, <2>1, <2>2
  <1>3. ASSUME Control \/ Capture \/ Network, AgentOK', Tracked',
               restarted' = restarted \/ (restarted' = source.have_sequence /\ faults' # 0),
               faults' = faults \/ faults' = faults + 1
        PROVE  VideoInv'
    BY <1>1, <1>2, <1>3, StepFrame, ReaderKept DEF VideoInv
  <1>4. CASE Control
    <2>1. UNCHANGED <<raced, sent, sequence, net, restarted, faults, timestamp>>
      BY <1>4 DEF Control, START_STREAM, start_waits_for_idr, STOP_STREAM, IDR_REQUEST,
           disconnect_control, captureVars, historyVars
    <2>2. timestamp' \in Nat /\ timestamp <= timestamp' /\ restarted' = restarted
          /\ faults' = faults
      BY <1>2, <2>1
    <2>3. UNCHANGED <<raced, sent, sequence, net, restarted, mistaken, source, last, faults>>
      BY <1>4, <2>1, StepFrame
    <2>4. AgentOK' /\ Tracked'
      BY <1>1, <1>4, <2>2, <2>3, AgentControl, TrackedKept
    <2> QED BY <1>3, <1>4, <2>2, <2>4
  <1>5. CASE check_streaming \/ read_image \/ image_not_sent
    <2>1. /\ UNCHANGED <<raced, sent, sequence, net, restarted, faults>>
          /\ timestamp' = timestamp \/ timestamp' = timestamp + 1
      BY <1>5 DEF check_streaming, read_image, image_not_sent, NextImage, captureVars,
           historyVars
    <2>2. timestamp' \in Nat /\ timestamp <= timestamp' /\ restarted' = restarted
          /\ faults' = faults
      BY <1>2, <2>1
    <2>3. Capture
      BY <1>5 DEF Capture
    <2>4. UNCHANGED <<raced, sent, sequence, net, restarted, mistaken, source, last, faults>>
      BY <2>1, <2>3, StepFrame
    <2>5. AgentOK'
      BY <1>1, <1>5, AgentChecks, AgentRead, AgentSends
    <2>6. Tracked'
      BY <1>1, <2>2, <2>4, TrackedKept
    <2> QED BY <1>3, <2>2, <2>3, <2>5, <2>6
  <1>6. CASE read_image_fails \/ agent_restarts
    <2>1. /\ faults' = faults + 1
          /\ restarted' = restarted \/ restarted' = source.have_sequence
      BY <1>6 DEF read_image_fails, agent_restarts, Rebooted
    <2>2. Capture
      BY <1>6 DEF Capture
    <2>3. AgentOK' /\ Tracked'
      BY <1>1, <1>6, AgentFails, TrackedFails
    <2> QED BY <1>2, <1>3, <2>1, <2>2, <2>3
  <1>7. CASE send_image \/ send_packet_fails
    <2>1. (faults' = faults \/ faults' = faults + 1) /\ restarted' = restarted
      BY <1>7 DEF send_image, send_packet_fails
    <2>2. Capture
      BY <1>7 DEF Capture
    <2>3. AgentOK' /\ Tracked'
      BY <1>1, <1>7, AgentSends, TrackedSends
    <2> QED BY <1>3, <2>1, <2>2, <2>3
  <1>8. CASE Network
    <2>1. /\ UNCHANGED <<flagVars, captureVars, sent, raced, restarted>>
          /\ faults' = faults \/ (faults < MaxFaults /\ faults' = faults + 1)
      BY <1>8 DEF Network, datagram_lost, datagram_overtaken, datagram_repeated,
           datagram_refused, Fault, historyVars
    <2>2. faults' \in 0..MaxFaults
      BY SMT, <1>2, <2>1, SequenceAssumption
    <2>3. AgentOK'
      BY <1>1, <2>1, <2>2, AgentUnchanged
    <2>4. Tracked'
      BY <1>1, <1>8, TrackedFaults, TrackedRefused DEF Network
    <2> QED BY <1>3, <1>8, <2>1, <2>3, <2>4
  <1>9. CASE Reader
    <2>1. UNCHANGED <<flagVars, captureVars, sent, raced>> /\ faults' = faults
      BY <1>9 DEF Reader, video_source_read, video_source_open, video_source_close
    <2>2. AgentOK'
      BY <1>1, <1>2, <2>1, AgentUnchanged
    <2>3. ReaderOK' /\ Tracked'
      BY <1>1, <1>9, ReadKeeps, ReaderAnew, TrackedAnew DEF Reader
    <2> QED BY <2>2, <2>3 DEF VideoInv
  <1>10. CASE UNCHANGED vars
    <2>1. /\ UNCHANGED <<flagVars, captureVars, sent, raced>> /\ faults' = faults
          /\ net' = net /\ restarted' = restarted
          /\ UNCHANGED <<source, unit, last, params, mistaken>>
      BY <1>10 DEF vars, historyVars, readerVars
    <2>2. AgentOK'
      BY <1>1, <1>2, <2>1, AgentUnchanged
    <2>3. sequence' = sequence /\ timestamp' = timestamp
      BY <2>1 DEF captureVars
    <2>4. Tracked'
      BY <1>1, <1>2, <2>1, <2>3, TrackedKept
    <2>5. ReaderOK'
      BY <1>1, <2>1, ReaderKept
    <2> QED BY <2>2, <2>4, <2>5 DEF VideoInv
  <1> QED BY <1>4, <1>5, <1>6, <1>7, <1>8, <1>9, <1>10 DEF Next, Capture

\* Every reachable state of the video path satisfies the inductive invariant: the
\* flags agree with the pictures sent, the gate with the units handed over, and the
\* reader stands at a position of the log the agent has written (Tracked).
THEOREM VideoInvariant == VideoSpec => []VideoInv
  <1> USE Zenon
  <1>1. Init => VideoInv
    BY VideoStarts
  <1>2. VideoInv /\ [Next]_vars => VideoInv'
    BY VideoStep
  <1> QED BY <1>1, <1>2, PTL DEF VideoSpec

LEMMA TypedAt ==
    ASSUME VideoInv
    PROVE  VideoTypeOK
  <1> USE Zenon
  <1>1. AgentOK /\ ReaderOK /\ source \in Sources
    BY DEF VideoInv, ReaderOK, SourceOK
  <1>2. \E log, pos : /\ LogOK(log, timestamp, raced, sent, sequence)
                      /\ NetOK(log, pos, net, faults)
    BY DEF VideoInv, Tracked
  <1>3. PICK log : log \in Seq(Entries) /\ sequence = (Len(log) + 1) % Uint16
    BY <1>2 DEF LogOK
  <1>4. net \in Seq(Datagrams)
    BY <1>2 DEF NetOK
  <1>5. sequence \in 0..(Uint16 - 1)
    <2>1. Len(log) + 1 \in Nat /\ Uint16 \in Nat \ {0}
      BY SMT, <1>3, SequenceAssumption
    <2> QED BY SMT, <1>3, <2>1
  <1>6. source.expected \in 0..(Uint16 - 1) /\ source.assembling \in Seq(Fragments)
    BY <1>1 DEF Sources
  <1>7. ASSUME NEW k \in DOMAIN net PROVE net[k].sequence \in 0..(Uint16 - 1)
    <2>1. net[k] \in Datagrams
      BY SMT, <1>4
    <2> QED BY <2>1 DEF Datagrams
  <1>8. {sequence, source.expected} \cup {net[k].sequence : k \in DOMAIN net}
            \subseteq 0..(Uint16 - 1)
    BY <1>5, <1>6, <1>7
  <1>9. \A k \in DOMAIN source.assembling : source.assembling[k].start <=> k = 1
    <2>1. StartsRight(source.assembling) /\ DOMAIN source.assembling = 1..Len(source.assembling)
      BY SMT, <1>1, <1>6 DEF ReaderOK, SourceOK
    <2> QED BY <2>1 DEF StartsRight
  <1>10. {streaming, wait_for_idr, starting, raced, restarted, mistaken} \subseteq BOOLEAN
    BY <1>1 DEF AgentOK, ReaderOK
  <1> QED BY <1>1, <1>8, <1>9, <1>10 DEF VideoTypeOK, AgentOK, ReaderOK

\* Sequence numbers stay in the 16 bits of the RTP header, on the agent, in the
\* datagrams and in what the reassembler expects; a NAL unit under construction
\* begins with its first fragment and has no other one that starts.
THEOREM VideoTyped == VideoSpec => []VideoTypeOK
  <1>1. VideoInv => VideoTypeOK
    BY Zenon, TypedAt
  <1> QED BY <1>1, VideoInvariant, PTL

LEMMA NothingWithheldAt ==
    ASSUME VideoInv
    PROVE  NothingWithheld
  <1> USE Zenon
  <1> SUFFICES ASSUME source.opened, last # 0, faults = 0, net = <<>>
               PROVE  last = sent
    BY DEF NothingWithheld
  <1>1. /\ SourceOK(source, last, params)
        /\ ~restarted /\ ~mistaken /\ ~source.losses /\ ~source.awaiting_idr
    BY DEF VideoInv, ReaderOK
  <1>2. source.have_sequence
    BY <1>1 DEF SourceOK
  <1>3. PICK log : /\ LogOK(log, timestamp, raced, sent, sequence)
                   /\ \E a : InStep(log, a, source, last, Len(net), faults)
    BY <1>1, <1>2 DEF VideoInv, Tracked, Sync
  <1>4. PICK a : InStep(log, a, source, last, Len(net), faults)
    BY <1>3
  <1>5. log \in Seq(Entries) /\ Len(log) \in Nat /\ Len(net) = 0
    BY SMT, <1>3 DEF LogOK
  <1>6. a \in 1..Len(log) /\ Near(a + Len(net), Len(log), faults) /\ ~log[a].gap
        /\ ReaderAfter(source, log[a], last)
    BY <1>4 DEF InStep
  <1>7. a = Len(log)
    BY SMT, <1>5, <1>6 DEF Near
  <1>8. log # <<>>
    BY SMT, <1>5, <1>6
  <1>9. Final(log[a]) /\ sent = After(log[a])
    BY <1>3, <1>6, <1>7, <1>8 DEF LogOK
  <1> QED BY <1>1, <1>6, <1>9 DEF ReaderAfter

\* Without a fault every picture the agent sends reaches the reader that was given
\* one: the gate of video_source_read never closes on it again.
THEOREM PicturesNotWithheld == VideoSpec => []NothingWithheld
  <1>1. VideoInv => NothingWithheld
    BY Zenon, NothingWithheldAt
  <1> QED BY <1>1, VideoInvariant, PTL

-----------------------------------------------------------------------------
(* The video path implements VideoFeed *)

LEMMA FeedStarts ==
    ASSUME Init
    PROVE  Feed!FeedInit
  BY Zenon DEF Init, Feed!FeedInit

LEMMA FeedStep ==
    ASSUME VideoInv, [Next]_vars
    PROVE  [Feed!FeedNext]_(Feed!feedVars)
  <1> USE Zenon
  <1> DEFINE assured == ~raced /\ ~mistaken
  <1>1. AgentOK /\ ReaderOK /\ Tracked /\ raced \in BOOLEAN /\ mistaken \in BOOLEAN
    BY DEF VideoInv, AgentOK, ReaderOK
  <1>2. VideoInv'
    BY VideoStep
  <1>3. raced' \in BOOLEAN /\ mistaken' \in BOOLEAN
    BY <1>2 DEF VideoInv, AgentOK, ReaderOK
  <1>4. ASSUME unit' = unit, last' = last, params' = params, raced => raced', mistaken => mistaken'
        PROVE  [Feed!FeedNext]_(Feed!feedVars)
    <2>1. CASE raced' \/ mistaken'
      <3>1. Feed!Forfeit
        BY <1>4, <2>1 DEF Feed!Forfeit
      <3> QED BY <3>1 DEF Feed!FeedNext
    <2>2. CASE ~raced' /\ ~mistaken'
      <3>1. raced' = raced /\ mistaken' = mistaken
        BY <1>1, <1>3, <1>4, <2>2
      <3> QED BY <1>4, <3>1 DEF Feed!feedVars
    <2> QED BY <2>1, <2>2
  <1>5. CASE Control \/ Capture \/ Network
    <2>1. unit' = unit /\ last' = last /\ params' = params /\ mistaken' = mistaken
      BY <1>5, StepFrame
    <2>2. raced' = raced \/ raced' = (raced \/ (starting /\ image.kind = "P"))
      BY <1>5 DEF Control, START_STREAM, start_waits_for_idr, STOP_STREAM, IDR_REQUEST,
           disconnect_control, Capture, check_streaming, read_image, read_image_fails,
           image_not_sent, send_image, send_packet_fails, agent_restarts, Network,
           datagram_lost, datagram_overtaken, datagram_repeated, datagram_refused, Fault,
           historyVars
    <2>3. raced => raced'
      BY <2>2
    <2> QED BY <1>4, <2>1, <2>3
  <1>6. CASE video_source_read
    <2>1. raced' = raced /\ mistaken' = (mistaken \/ Mistakes(Head(net)))
      BY <1>6 DEF video_source_read
    <2>2. \/ unit' = unit /\ last' = last /\ params' = params
          \/ Given(unit') /\ (mistaken' \/ raced \/ Feed!Usable(unit'))
      BY <1>1, <1>6, ReadKeeps
    <2>3. CASE unit' = unit /\ last' = last /\ params' = params
      BY <1>4, <2>1, <2>3
    <2>4. CASE Given(unit') /\ (mistaken' \/ raced \/ Feed!Usable(unit'))
      <3>1. assured' \in BOOLEAN /\ (assured' => assured /\ Feed!Usable(unit'))
        BY <2>1, <2>4
      <3>2. Feed!HandOver
        BY <2>4, <3>1 DEF Given, Feed!HandOver
      <3> QED BY <3>2 DEF Feed!FeedNext
    <2> QED BY <2>2, <2>3, <2>4
  <1>7. CASE video_source_open \/ video_source_close
    <2>1. /\ unit' = Feed!NoUnit /\ last' = 0 /\ params' = {}
          /\ raced' = raced /\ mistaken' = mistaken
      BY <1>7 DEF video_source_open, video_source_close
    <2>2. Feed!Reopen
      BY <2>1 DEF Feed!Reopen
    <2> QED BY <2>2 DEF Feed!FeedNext
  <1>8. CASE UNCHANGED vars
    BY <1>8 DEF vars, readerVars, historyVars, Feed!feedVars
  <1> QED BY <1>5, <1>6, <1>7, <1>8 DEF Next, Reader

\* Refinement, for any number of faults that cannot make the sequence numbers come
\* round: whatever is lost, repeated, overtaken, given up half sent, skipped or cut
\* off by a restart, a unit that video_source_read hands over without packet_loss is
\* whole, a P picture comes directly after the picture it refers to, and a picture
\* only after both parameter sets.
THEOREM VideoImplementsFeed == VideoSpec => ImplementsFeed
  <1> USE Zenon
  <1>1. Init => Feed!FeedInit
    BY FeedStarts
  <1>2. VideoInv /\ [Next]_vars => [Feed!FeedNext]_(Feed!feedVars)
    BY FeedStep
  <1> QED BY <1>1, <1>2, VideoInvariant, PTL DEF VideoSpec, ImplementsFeed, Feed!FeedSpec
=============================================================================
