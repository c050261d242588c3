--------------------------- MODULE AvcOutputProofs ---------------------------
(***************************************************************************)
(* Proofs about the AVC output, for every window, byte budget and set of   *)
(* frame sizes.  First, that a P frame is never submitted after a gap:     *)
(* need_idr is read and written in three critical sections of rdp_gfx.c,   *)
(* and the invariant ReferencesKnown says what it, `stopping' and the      *)
(* place of the video thread know together about the references the        *)
(* client has.  Then the window of frame_flow.h: sums over a window whose  *)
(* entries leave in any order, the invariant AvcInv that holds them        *)
(* together with the place of the thread between admission and             *)
(* registration, and what follows from it for the limit and the budget.    *)
(***************************************************************************)
EXTENDS AvcOutput, SequenceTheorems, FiniteSetTheorems, WellFoundedInduction, TLAPS

ReferencesKnown ==
    /\ need_idr \in BOOLEAN /\ stopping \in BOOLEAN /\ decodable \in BOOLEAN
    /\ pc = "read" => decodable \/ need_idr \/ stopping
    /\ pc \in {"admit", "wait", "submit"} => Idr \/ decodable \/ stopping
    /\ pc = "register" => decodable

\* Reading an access unit: a unit that is not sent, or one that follows a loss,
\* leaves need_idr set or breaks no reference (video_thread).
LEMMA ReadKeeps ==
    ASSUME ReferencesKnown, read_unit
    PROVE  ReferencesKnown'
  <1>1. PICK u \in Units :
          LET need == NeedIdrAfter(u)
              should_send == /\ ~u.lost /\ ~stopping
                             /\ frame_flow_avc_should_send(need, u.nal = "idr", u.nal = "p")
          IN  /\ unit' = u
              /\ need_idr' = need
              /\ pc' = IF should_send THEN "admit" ELSE "read"
              /\ decodable' = (decodable /\ ~u.lost /\ (should_send \/ u.nal = "params"))
    BY DEF read_unit
  <1>2. /\ pc = "read" /\ stopping' = stopping
        /\ u.nal \in {"idr", "p", "params"} /\ u.lost \in BOOLEAN
    BY DEF read_unit, Units
  <1> DEFINE should_send == /\ ~u.lost /\ ~stopping
                            /\ \/ u.nal = "idr"
                               \/ ~(need_idr \/ u.lost) /\ u.nal = "p"
  <1>3. /\ unit' = u /\ need_idr' = (need_idr \/ u.lost)
        /\ pc' = IF should_send THEN "admit" ELSE "read"
        /\ decodable' = (decodable /\ ~u.lost /\ (should_send \/ u.nal = "params"))
    BY <1>1 DEF NeedIdrAfter, frame_flow_avc_should_send
  <1>4. CASE should_send
    <2>1. pc' = "admit" /\ decodable' = decodable
      BY <1>3, <1>4 DEF ReferencesKnown
    <2>2. u.nal = "idr" \/ decodable
      BY <1>2, <1>4 DEF ReferencesKnown
    <2> QED BY <1>2, <1>3, <2>1, <2>2 DEF ReferencesKnown, Idr
  <1>5. CASE ~should_send
    <2>1. pc' = "read"
      BY <1>3, <1>5
    <2>2. decodable' \/ need_idr' \/ stopping'
      BY <1>2, <1>3, <1>5 DEF ReferencesKnown
    <2> QED BY <1>2, <1>3, <2>1, <2>2 DEF ReferencesKnown
  <1> QED BY <1>4, <1>5

\* Admission, the wait for an acknowledgement, submission and registration.
LEMMA VideoThreadKeeps ==
    ASSUME ReferencesKnown, VideoThread
    PROVE  ReferencesKnown'
  <1>1. CASE read_unit
    BY <1>1, ReadKeeps
  <1>2. CASE read_fails
    BY Zenon, <1>2 DEF read_fails, ReferencesKnown, clientVars
  <1>3. CASE client_accept_avc_frame
    <2> DEFINE admission == frame_flow_avc_admit(flow, unit.bytes, Idr, wait = "elapsed")
               skipped == stopping \/ admission = "resync"
    <2>1. /\ pc = "admit" /\ unit' = unit /\ stopping' = stopping
          /\ pc' = IF skipped THEN "read" ELSE IF admission = "send" THEN "submit" ELSE "wait"
          /\ need_idr' = (need_idr \/ (~stopping /\ admission = "resync"))
          /\ decodable' = (decodable /\ ~skipped)
      BY <1>3 DEF client_accept_avc_frame
    <2> HIDE DEF admission
    <2>2. Idr' = Idr
      BY <2>1 DEF Idr
    <2>3. CASE skipped
      BY Zenon, <2>1, <2>3 DEF ReferencesKnown
    <2>4. CASE ~skipped
      BY <2>1, <2>2, <2>4 DEF ReferencesKnown
    <2> QED BY <2>3, <2>4
  <1>4. CASE wait_ends
    BY <1>4 DEF wait_ends, ReferencesKnown, Idr, clientVars
  <1>5. CASE submit
    <2>1. CASE stopping
      BY Zenon, <1>5, <2>1 DEF submit, ReferencesKnown
    <2>2. CASE ~stopping
      BY Zenon, <1>5, <2>2 DEF submit, ReferencesKnown
    <2> QED BY <2>1, <2>2
  <1>6. CASE submit_fails
    BY Zenon, <1>6 DEF submit_fails, ReferencesKnown
  <1>7. CASE register
    BY <1>7 DEF register, ReferencesKnown, clientVars
  <1>8. CASE thread_exits
    BY <1>8 DEF thread_exits, ReferencesKnown, clientVars
  <1> QED
    BY <1>1, <1>2, <1>3, <1>4, <1>5, <1>6, <1>7, <1>8 DEF VideoThread

\* A P frame is submitted only when every access unit since the last submitted IDR
\* frame was submitted too, however acknowledgements, losses, waits, failures and
\* the end of the client interleave with the video thread.
THEOREM PFramesAlwaysDecodable == Spec => []PFramesDecodable
  <1>1. Init => ReferencesKnown
    BY Zenon DEF Init, ReferencesKnown
  <1>2. ReferencesKnown /\ [Next]_vars => ReferencesKnown'
    <2> SUFFICES ASSUME ReferencesKnown, [Next]_vars PROVE ReferencesKnown'
      OBVIOUS
    <2>1. CASE VideoThread
      BY <2>1, VideoThreadKeeps
    <2>2. CASE on_gfx_frame_ack
      BY <2>2 DEF on_gfx_frame_ack, ReferencesKnown, Idr, threadVars
    <2>3. CASE on_gfx_ack_suspended
      BY <2>3 DEF on_gfx_ack_suspended, ReferencesKnown, Idr, threadVars
    <2>4. CASE client_stop
      BY <2>4 DEF client_stop, ReferencesKnown, Idr, threadVars, clientVars
    <2>5. CASE ack_goes_stale
      BY <2>5 DEF ack_goes_stale, ReferencesKnown, Idr, threadVars, clientVars
    <2>6. CASE UNCHANGED vars
      BY <2>6 DEF vars, ReferencesKnown, Idr, threadVars, clientVars
    <2> QED BY <2>1, <2>2, <2>3, <2>4, <2>5, <2>6 DEF Next
  <1>3. ReferencesKnown => PFramesDecodable
    BY DEF ReferencesKnown, PFramesDecodable
  <1> QED
    BY <1>1, <1>2, <1>3, PTL DEF Spec

(***************************************************************************)
(* Sums over the window                                                    *)
(***************************************************************************)
\* A nonempty set of natural numbers has a least element.
LEMMA LeastElement ==
    ASSUME NEW T, T \subseteq Nat, T # {}
    PROVE  \E x \in T : \A y \in T : x <= y
  <1> DEFINE R == OpToRel(<, Nat)
  <1>1. IsWellFoundedOn(R, Nat)
    BY Zenon, NatLessThanWellFounded
  <1>2. \A x \in Nat, y \in Nat : y < x => <<y, x>> \in R
    BY DEF OpToRel
  <1> HIDE DEF R
  <1>3. PICK x \in T : \A y \in T : <<y, x>> \notin R
    BY Zenon, <1>1, WFMin
  <1>4. ASSUME NEW y \in T PROVE x <= y
    <2>1. x \in Nat /\ y \in Nat
      OBVIOUS
    <2>2. ~(y < x)
      BY Zenon, <1>2, <1>3, <2>1
    <2> QED BY <2>1, <2>2
  <1> QED BY Zenon, <1>3, <1>4

\* s[i] is the sum of the first i of n weights.
SumsUp(w, n, s) ==
    /\ s \in [0..n -> Nat] /\ s[0] = 0
    /\ \A i \in 1..n : s[i] = s[i - 1] + w[i]

Total(w, n) == (CHOOSE s : SumsUp(w, n, s))[n]

\* Every sequence of weights has sums.
LEMMA SumsExist ==
    ASSUME NEW n \in Nat, NEW w \in [1..n -> Nat]
    PROVE  \E s : SumsUp(w, n, s)
  <1> DEFINE T == {m \in 0..n : ~ \E s : SumsUp(w, m, s)}
  <1>1. SUFFICES T = {}
    <2>1. n \in 0..n
      OBVIOUS
    <2> QED BY Zenon, <2>1
  <1>2. SUFFICES ASSUME T # {} PROVE FALSE
    OBVIOUS
  <1>3. PICK m \in T : \A k \in T : m <= k
    <2>1. T \subseteq Nat
      OBVIOUS
    <2> HIDE DEF T
    <2> QED BY Zenon, <1>2, <2>1, LeastElement
  <1>4. m # 0
    <2>1. SUFFICES SumsUp(w, 0, [i \in 0..0 |-> 0])
      BY Zenon
    <2> QED BY DEF SumsUp
  <1>5. m \in 1..n /\ m - 1 \in 0..n /\ ~(m <= m - 1)
    BY <1>4
  <1>6. m - 1 \notin T
    BY Zenon, <1>3, <1>5
  <1>7. PICK s : SumsUp(w, m - 1, s)
    BY Zenon, <1>5, <1>6
  <1> DEFINE t == [i \in 0..m |-> IF i = m THEN s[m - 1] + w[m] ELSE s[i]]
  <1>8. /\ s \in [0..(m - 1) -> Nat] /\ s[0] = 0 /\ w[m] \in Nat
        /\ \A i \in 1..(m - 1) : s[i] = s[i - 1] + w[i]
    BY <1>5, <1>7 DEF SumsUp
  <1> HIDE DEF T
  <1>9. t \in [0..m -> Nat] /\ t[0] = 0
    BY <1>5, <1>8
  <1>10. ASSUME NEW i \in 1..m PROVE t[i] = t[i - 1] + w[i]
    <2>1. CASE i = m
      BY <1>5, <2>1
    <2>2. CASE i # m
      <3>1. i \in 1..(m - 1) /\ t[i] = s[i] /\ t[i - 1] = s[i - 1]
        BY <1>5, <2>2
      <3> QED BY <1>8, <3>1
    <2> QED BY <2>1, <2>2
  <1>11. SumsUp(w, m, t)
    BY Zenon, <1>9, <1>10 DEF SumsUp
  <1> QED BY Zenon, <1>3, <1>11 DEF T

\* Whatever satisfies the equations of the sums is the sums.
LEMMA SumsUnique ==
    ASSUME NEW n \in Nat, NEW w, NEW s, NEW t, SumsUp(w, n, s), t[0] = 0,
           \A i \in 1..n : t[i] = t[i - 1] + w[i]
    PROVE  t[n] = s[n]
  <1> DEFINE T == {i \in 0..n : t[i] # s[i]}
  <1>1. SUFFICES T = {}
    <2>1. n \in 0..n
      OBVIOUS
    <2> QED BY Zenon, <2>1
  <1>2. SUFFICES ASSUME T # {} PROVE FALSE
    OBVIOUS
  <1>3. PICK m \in T : \A k \in T : m <= k
    <2>1. T \subseteq Nat
      OBVIOUS
    <2> HIDE DEF T
    <2> QED BY Zenon, <1>2, <2>1, LeastElement
  <1>4. m # 0
    BY Zenon DEF SumsUp
  <1>5. m \in 1..n /\ m - 1 \in 0..n /\ ~(m <= m - 1)
    BY <1>4
  <1>6. t[m - 1] = s[m - 1]
    BY Zenon, <1>3, <1>5
  <1>7. t[m] = s[m]
    BY Zenon, <1>5, <1>6 DEF SumsUp
  <1> QED BY Zenon, <1>7

\* The total is the last of the sums.
LEMMA TotalIs ==
    ASSUME NEW n \in Nat, NEW w, NEW s, SumsUp(w, n, s)
    PROVE  Total(w, n) = s[n] /\ s[n] \in Nat
  <1> DEFINE t == CHOOSE u : SumsUp(w, n, u)
  <1>1. SumsUp(w, n, t)
    BY Zenon
  <1>2. t[0] = 0 /\ \A i \in 1..n : t[i] = t[i - 1] + w[i]
    BY Zenon, <1>1 DEF SumsUp
  <1>3. Total(w, n) = t[n]
    BY Zenon DEF Total
  <1> HIDE DEF t
  <1>4. t[n] = s[n]
    BY Zenon, <1>2, SumsUnique
  <1>5. s[n] \in Nat
    BY DEF SumsUp
  <1> QED BY <1>3, <1>4, <1>5

\* The total of no weights.
LEMMA TotalOfNone ==
    ASSUME NEW w
    PROVE  Total(w, 0) = 0
  <1> DEFINE s == [i \in 0..0 |-> 0]
  <1>1. SumsUp(w, 0, s) /\ s[0] = 0 /\ 0 \in Nat
    BY DEF SumsUp
  <1> HIDE DEF s
  <1> QED BY Zenon, <1>1, TotalIs

\* A weight is added at the end.
LEMMA TotalAppend ==
    ASSUME NEW n \in Nat, NEW w \in [1..n -> Nat], NEW v \in [1..(n + 1) -> Nat],
           \A i \in 1..n : v[i] = w[i]
    PROVE  Total(v, n + 1) = Total(w, n) + v[n + 1] /\ Total(w, n) \in Nat
  <1>1. PICK s : SumsUp(w, n, s)
    BY Zenon, SumsExist
  <1>2. Total(w, n) = s[n] /\ s[n] \in Nat
    BY Zenon, <1>1, TotalIs
  <1> DEFINE t == [i \in 0..(n + 1) |-> IF i = n + 1 THEN s[n] + v[n + 1] ELSE s[i]]
  <1>3. /\ s \in [0..n -> Nat] /\ s[0] = 0 /\ v[n + 1] \in Nat
        /\ \A i \in 1..n : s[i] = s[i - 1] + w[i]
    BY <1>1 DEF SumsUp
  <1>4. t \in [0..(n + 1) -> Nat] /\ t[0] = 0 /\ t[n + 1] = s[n] + v[n + 1] /\ n + 1 \in Nat
    BY <1>3
  <1>5. ASSUME NEW i \in 1..(n + 1) PROVE t[i] = t[i - 1] + v[i]
    <2>1. CASE i = n + 1
      BY <2>1
    <2>2. CASE i # n + 1
      <3>1. i \in 1..n /\ t[i] = s[i] /\ t[i - 1] = s[i - 1]
        BY <2>2
      <3> QED BY <1>3, <3>1
    <2> QED BY <2>1, <2>2
  <1>6. SumsUp(v, n + 1, t)
    BY Zenon, <1>4, <1>5 DEF SumsUp
  <1>7. Total(v, n + 1) = t[n + 1]
    BY Zenon, <1>4, <1>6, TotalIs
  <1> QED BY Zenon, <1>2, <1>4, <1>7

\* A weight is taken out anywhere.
LEMMA TotalRemove ==
    ASSUME NEW n \in Nat, NEW w \in [1..n -> Nat], NEW i \in 1..n,
           NEW v \in [1..(n - 1) -> Nat],
           \A j \in 1..(n - 1) : v[j] = IF j < i THEN w[j] ELSE w[j + 1]
    PROVE  Total(w, n) = Total(v, n - 1) + w[i] /\ Total(v, n - 1) \in Nat
  <1>1. n - 1 \in Nat /\ w[i] \in Nat
    OBVIOUS
  <1>2. PICK s : SumsUp(v, n - 1, s)
    BY Zenon, <1>1, SumsExist
  <1>3. Total(v, n - 1) = s[n - 1] /\ s[n - 1] \in Nat
    BY Zenon, <1>1, <1>2, TotalIs
  <1> DEFINE t == [j \in 0..n |-> IF j < i THEN s[j] ELSE s[j - 1] + w[i]]
  <1>4. /\ s \in [0..(n - 1) -> Nat] /\ s[0] = 0
        /\ \A j \in 1..(n - 1) : s[j] = s[j - 1] + v[j]
    BY Zenon, <1>2 DEF SumsUp
  <1>5. t \in [0..n -> Nat] /\ t[0] = 0 /\ t[n] = s[n - 1] + w[i]
    BY <1>1, <1>4
  <1>6. ASSUME NEW j \in 1..n PROVE t[j] = t[j - 1] + w[j]
    <2>1. CASE j < i
      <3>1. j \in 1..(n - 1) /\ t[j] = s[j] /\ t[j - 1] = s[j - 1] /\ v[j] = w[j]
        BY <2>1
      <3> QED BY <1>4, <3>1
    <2>2. CASE j = i
      BY <2>2
    <2>3. CASE j > i
      <3>1. /\ j - 1 \in 1..(n - 1) /\ t[j] = s[j - 1] + w[i]
            /\ t[j - 1] = s[(j - 1) - 1] + w[i]
        BY <2>3
      <3>2. v[j - 1] = w[j] /\ w[j] \in Nat
        <4>1. \A k \in 1..(n - 1) : ~(k < i) => v[k] = w[k + 1]
          BY Zenon
        <4>2. ~(j - 1 < i) /\ (j - 1) + 1 = j /\ w[j] \in Nat
          BY <2>3
        <4>3. v[j - 1] = w[(j - 1) + 1]
          BY Zenon, <3>1, <4>1, <4>2
        <4> QED BY <4>2, <4>3
      <3>3. s[j - 1] = s[(j - 1) - 1] + w[j] /\ s[(j - 1) - 1] \in Nat
        BY <1>4, <3>1, <3>2
      <3> DEFINE a == s[(j - 1) - 1]
                 x == w[i]
                 y == w[j]
      <3>4. a \in Nat /\ x \in Nat /\ y \in Nat /\ t[j] = (a + y) + x /\ t[j - 1] = a + x
        BY Zenon, <1>1, <3>1, <3>2, <3>3
      <3> HIDE DEF t, a, x
      <3>5. t[j] = t[j - 1] + y
        <4> HIDE DEF y
        <4> QED BY <3>4
      <3> QED BY Zenon, <3>5
    <2> QED BY <2>1, <2>2, <2>3
  <1>7. SumsUp(w, n, t)
    BY Zenon, <1>5, <1>6 DEF SumsUp
  <1>8. Total(w, n) = t[n]
    BY Zenon, <1>7, TotalIs
  <1> QED BY Zenon, <1>3, <1>5, <1>8

\* Smaller weights have a smaller total.
LEMMA TotalBelow ==
    ASSUME NEW n \in Nat, NEW w \in [1..n -> Nat], NEW v \in [1..n -> Nat],
           \A i \in 1..n : v[i] <= w[i]
    PROVE  Total(v, n) <= Total(w, n) /\ Total(w, n) \in Nat /\ Total(v, n) \in Nat
  <1>1. PICK s : SumsUp(w, n, s)
    BY Zenon, SumsExist
  <1>2. PICK t : SumsUp(v, n, t)
    BY Zenon, SumsExist
  <1>3. Total(w, n) = s[n] /\ Total(v, n) = t[n] /\ s[n] \in Nat /\ t[n] \in Nat
    BY Zenon, <1>1, <1>2, TotalIs
  <1> DEFINE T == {i \in 0..n : ~(t[i] <= s[i])}
  <1>4. SUFFICES T = {}
    <2>1. n \in 0..n
      OBVIOUS
    <2> QED BY Zenon, <1>3, <2>1
  <1>5. SUFFICES ASSUME T # {} PROVE FALSE
    OBVIOUS
  <1>6. PICK m \in T : \A k \in T : m <= k
    <2>1. T \subseteq Nat
      OBVIOUS
    <2> HIDE DEF T
    <2> QED BY Zenon, <1>5, <2>1, LeastElement
  <1>7. /\ s \in [0..n -> Nat] /\ s[0] = 0 /\ t \in [0..n -> Nat] /\ t[0] = 0
        /\ \A i \in 1..n : s[i] = s[i - 1] + w[i] /\ t[i] = t[i - 1] + v[i]
    BY Zenon, <1>1, <1>2 DEF SumsUp
  <1>8. m # 0
    BY <1>7
  <1>9. m \in 1..n /\ m - 1 \in 0..n /\ ~(m <= m - 1)
    BY <1>8
  <1>10. t[m - 1] <= s[m - 1]
    BY Zenon, <1>6, <1>9
  <1>11. /\ s[m] = s[m - 1] + w[m] /\ t[m] = t[m - 1] + v[m] /\ v[m] <= w[m]
         /\ s[m - 1] \in Nat /\ t[m - 1] \in Nat /\ w[m] \in Nat /\ v[m] \in Nat
    BY <1>7, <1>9
  <1> HIDE DEF T
  <1>12. ASSUME NEW a \in Nat, NEW b \in Nat, NEW c \in Nat, NEW d \in Nat, a <= b, c <= d
         PROVE  a + c <= b + d
    BY <1>12
  <1>13. t[m] <= s[m]
    BY Zenon, <1>10, <1>11, <1>12
  <1> QED BY Zenon, <1>13 DEF T

\* Weights of at most q have a total of at most n times q.
LEMMA TotalBound ==
    ASSUME NEW n \in Nat, NEW w \in [1..n -> Nat], NEW q \in Nat,
           \A i \in 1..n : w[i] <= q
    PROVE  Total(w, n) <= n * q /\ Total(w, n) \in Nat
  <1>1. PICK s : SumsUp(w, n, s)
    BY Zenon, SumsExist
  <1>2. Total(w, n) = s[n] /\ s[n] \in Nat
    BY Zenon, <1>1, TotalIs
  <1> DEFINE T == {i \in 0..n : ~(s[i] <= i * q)}
  <1>3. SUFFICES T = {}
    <2>1. n \in 0..n
      OBVIOUS
    <2> QED BY Zenon, <1>2, <2>1
  <1>4. SUFFICES ASSUME T # {} PROVE FALSE
    OBVIOUS
  <1>5. PICK m \in T : \A k \in T : m <= k
    <2>1. T \subseteq Nat
      OBVIOUS
    <2> HIDE DEF T
    <2> QED BY Zenon, <1>4, <2>1, LeastElement
  <1>6. /\ s \in [0..n -> Nat] /\ s[0] = 0
        /\ \A i \in 1..n : s[i] = s[i - 1] + w[i]
    BY Zenon, <1>1 DEF SumsUp
  <1>7. m # 0
    BY <1>6
  <1>8. m \in 1..n /\ m - 1 \in 0..n /\ ~(m <= m - 1)
    BY <1>7
  <1>9. s[m - 1] <= (m - 1) * q
    BY Zenon, <1>5, <1>8
  <1>10. s[m] = s[m - 1] + w[m] /\ w[m] <= q /\ s[m - 1] \in Nat /\ w[m] \in Nat
    BY <1>6, <1>8
  <1> HIDE DEF T
  <1>11. (m - 1) * q + q = m * q /\ (m - 1) * q \in Int /\ m * q \in Int
    BY <1>8
  <1>12. s[m] <= m * q
    BY <1>9, <1>10, <1>11
  <1> QED BY Zenon, <1>12 DEF T

(***************************************************************************)
(* The window                                                              *)
(***************************************************************************)
Entry == [id : Nat, bytes : Sizes, idr : BOOLEAN]

\* The weights of the entries, with and without the IDR frames.
Bytes(fr) == [i \in 1..Len(fr) |-> fr[i].bytes]
Ordinary(fr) == [i \in 1..Len(fr) |-> IF fr[i].idr THEN 0 ELSE fr[i].bytes]

\* The frames that are not IDR frames stay within the budget, unless the first of
\* them was alone in the window and is larger than the budget by itself.
BudgetKept(fr) ==
    \/ Total(Ordinary(fr), Len(fr)) <= FRAME_FLOW_MAX_INFLIGHT_BYTES
    \/ /\ fr # <<>> /\ ~fr[1].idr /\ fr[1].bytes > FRAME_FLOW_MAX_INFLIGHT_BYTES
       /\ Total(Ordinary(fr), Len(fr)) = fr[1].bytes
       /\ \A i \in 2..Len(fr) : fr[i].idr

WindowSound(fr, b) ==
    /\ fr \in Seq(Entry) /\ Len(fr) <= FRAME_FLOW_LIMIT
    /\ b = Total(Bytes(fr), Len(fr))
    /\ BudgetKept(fr)

MaxSize == Uint32 \div (2 * (FRAME_FLOW_LIMIT + 1))

\* A full window and one frame more fit in a uint32_t.
LEMMA SizesFit ==
    ASSUME NEW n \in 0..(FRAME_FLOW_LIMIT + 1)
    PROVE  MaxSize \in Nat /\ n * MaxSize \in Nat /\ n * MaxSize < Uint32
  <1> DEFINE k == FRAME_FLOW_LIMIT + 1
             d == 2 * k
             q == Uint32 \div d
  <1>1. k \in Nat /\ d \in Nat /\ k > 0 /\ d > 0 /\ n <= k /\ n \in Nat
    BY FlowAssumption
  <1>2. MaxSize = q /\ Uint32 \in Nat /\ Uint32 > 0
    BY FlowAssumption DEF MaxSize
  <1>3. d = k + k
    BY <1>1
  <1> HIDE DEF d
  <1>4. q \in Nat /\ d * q <= Uint32
    BY <1>1, <1>2
  <1> HIDE DEF q
  <1> HIDE DEF k
  <1>5. d * q = k * q + k * q /\ k * q \in Nat
    BY <1>1, <1>3, <1>4
  <1>6. n * q <= k * q /\ n * q \in Nat
    BY <1>1, <1>4
  <1>7. n * q < Uint32
    BY <1>2, <1>4, <1>5, <1>6
  <1> QED BY <1>2, <1>4, <1>6, <1>7

\* The size of an access unit.
LEMMA SizesAreNumbers == \A z \in Sizes : z \in Nat /\ z <= MaxSize
  <1>1. Sizes \subseteq 1..MaxSize
    BY UnitsAssumption DEF MaxSize
  <1>2. MaxSize \in Nat
    BY SizesFit, FlowAssumption
  <1> QED BY <1>1, <1>2

\* What an entry of the window weighs.
LEMMA EntryWeights ==
    ASSUME NEW fr \in Seq(Entry)
    PROVE  /\ Len(fr) \in Nat
           /\ Bytes(fr) \in [1..Len(fr) -> Nat] /\ Ordinary(fr) \in [1..Len(fr) -> Nat]
           /\ \A i \in 1..Len(fr) : /\ fr[i] \in Entry /\ fr[i].bytes \in Nat
                                    /\ fr[i].bytes <= MaxSize
                                    /\ Bytes(fr)[i] = fr[i].bytes
                                    /\ Ordinary(fr)[i] = IF fr[i].idr THEN 0 ELSE fr[i].bytes
  <1>1. Len(fr) \in Nat /\ \A i \in 1..Len(fr) : fr[i] \in Entry
    BY LenProperties, ElementOfSeq
  <1>2. \A z \in Sizes : z \in Nat /\ z <= MaxSize
    BY Zenon, SizesAreNumbers
  <1>3. \A i \in 1..Len(fr) : fr[i].bytes \in Nat /\ fr[i].bytes <= MaxSize
    BY <1>1, <1>2 DEF Entry
  <1> QED
    BY <1>1, <1>3 DEF Bytes, Ordinary

\* The bytes of a window that is not too long are a uint32_t, and those that are
\* not of IDR frames are no more.
LEMMA WindowBytes ==
    ASSUME NEW fr \in Seq(Entry), Len(fr) <= FRAME_FLOW_LIMIT + 1
    PROVE  /\ Total(Bytes(fr), Len(fr)) \in Nat /\ Total(Bytes(fr), Len(fr)) < Uint32
           /\ Total(Ordinary(fr), Len(fr)) \in Nat
           /\ Total(Ordinary(fr), Len(fr)) <= Total(Bytes(fr), Len(fr))
  <1> DEFINE n == Len(fr)
             b == Bytes(fr)
             o == Ordinary(fr)
  <1>1. /\ n \in Nat /\ b \in [1..n -> Nat] /\ o \in [1..n -> Nat]
        /\ \A i \in 1..n : b[i] <= MaxSize
    BY Zenon, EntryWeights
  <1>2. \A i \in 1..n : o[i] <= b[i]
    <2> SUFFICES ASSUME NEW i \in 1..n PROVE o[i] <= b[i]
      OBVIOUS
    <2>1. fr[i].bytes \in Nat /\ b[i] = fr[i].bytes /\ o[i] = IF fr[i].idr THEN 0 ELSE fr[i].bytes
      BY Zenon, EntryWeights
    <2> HIDE DEF b, o
    <2> QED BY <2>1
  <1>3. n \in 0..(FRAME_FLOW_LIMIT + 1)
    BY <1>1, FlowAssumption
  <1>4. MaxSize \in Nat /\ n * MaxSize \in Nat /\ n * MaxSize < Uint32
    BY <1>3, SizesFit
  <1> HIDE DEF n, b, o
  <1>5. Total(b, n) <= n * MaxSize /\ Total(b, n) \in Nat
    BY Zenon, <1>1, <1>4, TotalBound
  <1>6. Total(o, n) <= Total(b, n) /\ Total(o, n) \in Nat
    BY Zenon, <1>1, <1>2, TotalBelow
  <1>7. Total(b, n) < Uint32
    BY <1>4, <1>5, FlowAssumption
  <1> QED BY Zenon, <1>5, <1>6, <1>7 DEF n, b, o

\* The recursive sum of TrackedBytes is the total of the weights.
LEMMA TrackedBytesIsTotal ==
    ASSUME NEW f, f.frames \in Seq(Entry)
    PROVE  TrackedBytes(f) = Total(Bytes(f.frames), Len(f.frames))
  <1> DEFINE fr == f.frames
             n == Len(fr)
             Eq(s) == s = [i \in 0..n |-> IF i = 0 THEN 0 ELSE s[i - 1] + fr[i].bytes]
             t == CHOOSE s : Eq(s)
  <1>1. /\ n \in Nat /\ Bytes(fr) \in [1..n -> Nat]
        /\ \A i \in 1..n : Bytes(fr)[i] = fr[i].bytes
    BY Zenon, EntryWeights
  <1>2. PICK s : SumsUp(Bytes(fr), n, s)
    BY Zenon, <1>1, SumsExist
  <1>3. TrackedBytes(f) = t[n]
    BY DEF TrackedBytes
  <1> HIDE DEF fr, n
  <1>4. Eq(s)
    <2>1. /\ s \in [0..n -> Nat] /\ s[0] = 0
          /\ \A i \in 1..n : s[i] = s[i - 1] + fr[i].bytes
      BY <1>1, <1>2 DEF SumsUp
    <2>2. \A i \in 0..n : s[i] = IF i = 0 THEN 0 ELSE s[i - 1] + fr[i].bytes
      BY <1>1, <2>1
    <2>3. s = [i \in 0..n |-> s[i]]
      BY <2>1
    <2> QED BY Zenon, <2>2, <2>3
  <1>5. Eq(t)
    BY Zenon, <1>4
  <1> HIDE DEF t
  <1>6. t[0] = 0 /\ \A i \in 1..n : t[i] = t[i - 1] + fr[i].bytes
    <2>1. \A i \in 0..n : t[i] = IF i = 0 THEN 0 ELSE t[i - 1] + fr[i].bytes
      BY Zenon, <1>5
    <2>2. 0 \in 0..n /\ \A i \in 1..n : i \in 0..n /\ i # 0
      BY <1>1
    <2> QED BY Zenon, <2>1, <2>2
  <1>7. \A i \in 1..n : t[i] = t[i - 1] + Bytes(fr)[i]
    BY Zenon, <1>1, <1>6
  <1>8. t[n] = s[n]
    BY <1>1, <1>2, <1>6, <1>7, SumsUnique
  <1>9. Total(Bytes(fr), n) = s[n]
    BY Zenon, <1>1, <1>2, TotalIs
  <1> QED BY Zenon, <1>3, <1>8, <1>9 DEF fr, n

\* What taking out an entry leaves.
LEMMA CloseUpProperties ==
    ASSUME NEW S, NEW fr \in Seq(S), NEW i \in 1..Len(fr)
    PROVE  /\ CloseUp(fr, i) \in Seq(S) /\ Len(CloseUp(fr, i)) = Len(fr) - 1
           /\ \A j \in 1..(Len(fr) - 1) :
                CloseUp(fr, i)[j] = IF j < i THEN fr[j] ELSE fr[j + 1]
  <1> DEFINE n == Len(fr)
             a == SubSeq(fr, 1, i - 1)
             b == SubSeq(fr, i + 1, n)
  <1>1. n \in Nat /\ i \in 1..n /\ \A j \in 1..n : fr[j] \in S
    BY LenProperties, ElementOfSeq
  <1> HIDE DEF n
  <1>2. a \in Seq(S) /\ Len(a) = i - 1 /\ \A j \in 1..(i - 1) : a[j] = fr[j]
    <2>1. /\ 1 \in Int /\ i - 1 \in Int /\ \A j \in 1..(i - 1) : fr[j] \in S
      BY <1>1
    <2>2. /\ a \in Seq(S) /\ Len(a) = IF 1 <= i - 1 THEN (i - 1) - 1 + 1 ELSE 0
          /\ \A j \in 1..((i - 1) - 1 + 1) : a[j] = fr[1 + j - 1]
      BY <2>1, SubSeqProperties
    <2> HIDE DEF a
    <2> QED BY <1>1, <2>2
  <1>3. b \in Seq(S) /\ Len(b) = n - i /\ \A j \in 1..(n - i) : b[j] = fr[i + j]
    <2>1. /\ i + 1 \in Int /\ n \in Int /\ \A j \in (i + 1)..n : fr[j] \in S
      BY <1>1
    <2>2. /\ b \in Seq(S) /\ Len(b) = IF i + 1 <= n THEN n - (i + 1) + 1 ELSE 0
          /\ \A j \in 1..(n - (i + 1) + 1) : b[j] = fr[(i + 1) + j - 1]
      BY <2>1, SubSeqProperties
    <2> HIDE DEF b
    <2> QED BY <1>1, <2>2
  <1>4. CloseUp(fr, i) = a \o b
    BY Zenon DEF CloseUp, n
  <1> HIDE DEF a, b
  <1>5. /\ a \o b \in Seq(S) /\ Len(a \o b) = Len(a) + Len(b)
        /\ \A j \in 1..(Len(a) + Len(b)) :
             (a \o b)[j] = IF j <= Len(a) THEN a[j] ELSE b[j - Len(a)]
    BY Zenon, <1>2, <1>3, ConcatProperties
  <1> DEFINE c == a \o b
  <1>6. c \in Seq(S) /\ Len(c) = n - 1
    BY <1>1, <1>2, <1>3, <1>5
  <1>7. \A j \in 1..(n - 1) : c[j] = IF j <= i - 1 THEN a[j] ELSE b[j - (i - 1)]
    <2>1. Len(a) + Len(b) = n - 1
      BY <1>1, <1>2, <1>3
    <2> QED BY Zenon, <1>2, <1>5, <2>1
  <1> HIDE DEF c
  <1>8. \A j \in 1..(n - 1) : c[j] = IF j < i THEN fr[j] ELSE fr[j + 1]
    <2> SUFFICES ASSUME NEW j \in 1..(n - 1) PROVE c[j] = IF j < i THEN fr[j] ELSE fr[j + 1]
      OBVIOUS
    <2>1. CASE j < i
      BY <1>1, <1>2, <1>7, <2>1
    <2>2. CASE ~(j < i)
      <3>1. j - (i - 1) \in 1..(n - i) /\ ~(j <= i - 1) /\ i + (j - (i - 1)) = j + 1
        BY <1>1, <2>2
      <3>2. c[j] = b[j - (i - 1)] /\ b[j - (i - 1)] = fr[i + (j - (i - 1))]
        BY Zenon, <1>3, <1>7, <3>1
      <3> QED BY <2>2, <3>1, <3>2
    <2> QED BY <2>1, <2>2
  <1> QED BY Zenon, <1>4, <1>6, <1>8 DEF n, c

\* frame_flow_sent: a frame that is let in keeps the window sound.
LEMMA TrackKeepsWindow ==
    ASSUME NEW fr, NEW b, WindowSound(fr, b), NEW e \in Entry,
           Len(fr) < FRAME_FLOW_LIMIT,
           e.idr \/ fr = <<>> \/ b + e.bytes <= FRAME_FLOW_MAX_INFLIGHT_BYTES
    PROVE  WindowSound(Append(fr, e), (b + e.bytes) % Uint32)
  <1> DEFINE n == Len(fr)
             g == Append(fr, e)
             M == FRAME_FLOW_MAX_INFLIGHT_BYTES
  <1>1. /\ fr \in Seq(Entry) /\ b = Total(Bytes(fr), n) /\ BudgetKept(fr)
        /\ FRAME_FLOW_LIMIT \in Nat /\ M \in Nat
    BY FlowAssumption DEF WindowSound
  <1>2. /\ g \in Seq(Entry) /\ Len(g) = n + 1 /\ n \in Nat /\ g # <<>>
        /\ (\A i \in 1..n : g[i] = fr[i]) /\ g[n + 1] = e
    BY <1>1, AppendProperties, LenProperties
  <1> HIDE DEF g
  <1>3. /\ Bytes(fr) \in [1..n -> Nat] /\ Ordinary(fr) \in [1..n -> Nat]
        /\ \A i \in 1..n : /\ Bytes(fr)[i] = fr[i].bytes
                           /\ Ordinary(fr)[i] = IF fr[i].idr THEN 0 ELSE fr[i].bytes
    BY Zenon, <1>1, EntryWeights
  <1>4. /\ Bytes(g) \in [1..(n + 1) -> Nat] /\ Ordinary(g) \in [1..(n + 1) -> Nat]
        /\ \A i \in 1..(n + 1) : /\ Bytes(g)[i] = g[i].bytes /\ g[i].bytes \in Nat
                                 /\ Ordinary(g)[i] = IF g[i].idr THEN 0 ELSE g[i].bytes
    BY Zenon, <1>2, EntryWeights
  <1>5. /\ Bytes(g)[n + 1] = e.bytes /\ e.bytes \in Nat
        /\ Ordinary(g)[n + 1] = IF e.idr THEN 0 ELSE e.bytes
    <2>1. n + 1 \in 1..(n + 1)
      BY <1>2
    <2> QED BY Zenon, <1>2, <1>4, <2>1
  <1>6. \A i \in 1..n : i \in 1..(n + 1)
    BY <1>2
  <1>7. \A i \in 1..n : Bytes(g)[i] = Bytes(fr)[i] /\ Ordinary(g)[i] = Ordinary(fr)[i]
    BY Zenon, <1>2, <1>3, <1>4, <1>6
  <1> HIDE DEF n
  <1>8. Total(Bytes(g), n + 1) = b + e.bytes /\ b \in Nat
    <2>1. /\ Total(Bytes(g), n + 1) = Total(Bytes(fr), n) + Bytes(g)[n + 1]
          /\ Total(Bytes(fr), n) \in Nat
      BY Zenon, <1>2, <1>3, <1>4, <1>7, TotalAppend
    <2> QED BY Zenon, <1>1, <1>5, <2>1
  <1>9. /\ Total(Ordinary(g), n + 1) = Total(Ordinary(fr), n) + Ordinary(g)[n + 1]
        /\ Total(Ordinary(fr), n) \in Nat
    BY Zenon, <1>2, <1>3, <1>4, <1>7, TotalAppend
  <1>10. n + 1 <= FRAME_FLOW_LIMIT /\ n + 1 <= FRAME_FLOW_LIMIT + 1 /\ n <= FRAME_FLOW_LIMIT + 1
    BY <1>1, <1>2 DEF n
  <1>11. (b + e.bytes) % Uint32 = Total(Bytes(g), n + 1)
    <2>1. b + e.bytes \in Nat /\ b + e.bytes < Uint32
      BY <1>2, <1>8, <1>10, WindowBytes
    <2> QED BY <1>8, <2>1, FlowAssumption
  <1>12. BudgetKept(g)
    <2> DEFINE o == Total(Ordinary(fr), n)
    <2>1. o <= b
      BY <1>1, <1>10, WindowBytes DEF n
    <2>2. o \in Nat /\ Total(Ordinary(g), Len(g)) = o + (IF e.idr THEN 0 ELSE e.bytes)
      BY Zenon, <1>2, <1>5, <1>9
    <2> HIDE DEF o
    <2>3. CASE fr = <<>>
      <3>1. n = 0 /\ o = 0
        BY <2>3, TotalOfNone DEF n, o
      <3>2. g[1] = e /\ \A i \in 2..Len(g) : FALSE
        BY <1>2, <3>1
      <3>3. CASE e.idr
        BY <1>1, <2>2, <3>1, <3>3 DEF BudgetKept
      <3>4. CASE ~e.idr
        <4>1. Total(Ordinary(g), Len(g)) = e.bytes
          BY <1>5, <2>2, <3>1, <3>4
        <4> QED BY <1>1, <1>2, <1>5, <3>2, <3>4, <4>1 DEF BudgetKept
      <3> QED BY <3>3, <3>4
    <2>4. CASE fr # <<>> /\ ~e.idr
      <3>1. b + e.bytes <= M
        BY Zenon, <2>4
      <3>2. Total(Ordinary(g), Len(g)) <= M
        BY <1>1, <1>5, <1>8, <2>1, <2>2, <2>4, <3>1
      <3> QED BY Zenon, <3>2 DEF BudgetKept
    <2>5. CASE fr # <<>> /\ e.idr
      <3>1. Total(Ordinary(g), Len(g)) = o
        BY <2>2, <2>5
      <3>2. n # 0 /\ g[1] = fr[1]
        <4>1. n # 0
          BY <1>1, <2>5, EmptySeq DEF n
        <4> QED BY <1>2, <4>1
      <3>3. ASSUME \A i \in 2..n : fr[i].idr PROVE \A i \in 2..Len(g) : g[i].idr
        <4> SUFFICES ASSUME NEW i \in 2..Len(g) PROVE g[i].idr
          OBVIOUS
        <4>1. CASE i = n + 1
          BY <1>2, <2>5, <4>1
        <4>2. CASE i # n + 1
          <5>1. i \in 1..n /\ i \in 2..n
            BY <1>2, <4>2
          <5> QED BY Zenon, <1>2, <3>3, <5>1
        <4> QED BY <4>1, <4>2
      <3>4. CASE o <= M
        BY Zenon, <3>1, <3>4 DEF BudgetKept
      <3>5. CASE ~(o <= M)
        <4>1. /\ ~fr[1].idr /\ fr[1].bytes > M /\ o = fr[1].bytes
              /\ \A i \in 2..n : fr[i].idr
          BY Zenon, <1>1, <3>5 DEF BudgetKept, n, o
        <4> QED BY Zenon, <1>2, <3>1, <3>2, <3>3, <4>1 DEF BudgetKept
      <3> QED BY <3>4, <3>5
    <2> QED BY <2>3, <2>4, <2>5
  <1> QED
    BY <1>2, <1>10, <1>11, <1>12 DEF WindowSound, g

\* frame_flow_ack: an entry that is taken out gives back its bytes, no more.
LEMMA ReleaseKeepsWindow ==
    ASSUME NEW fr, NEW b, WindowSound(fr, b), NEW i \in 1..Len(fr)
    PROVE  /\ WindowSound(CloseUp(fr, i), (b - fr[i].bytes) % Uint32)
           /\ (b - fr[i].bytes) % Uint32 <= b /\ b \in Nat
           /\ (b - fr[i].bytes) % Uint32 \in Nat
           /\ Len(CloseUp(fr, i)) < Len(fr)
  <1> DEFINE n == Len(fr)
             g == CloseUp(fr, i)
             M == FRAME_FLOW_MAX_INFLIGHT_BYTES
  <1>1. /\ fr \in Seq(Entry) /\ b = Total(Bytes(fr), n) /\ BudgetKept(fr)
        /\ n <= FRAME_FLOW_LIMIT /\ FRAME_FLOW_LIMIT \in Nat /\ M \in Nat
    BY FlowAssumption DEF WindowSound
  <1>2. /\ g \in Seq(Entry) /\ Len(g) = n - 1 /\ n \in Nat
        /\ \A j \in 1..(n - 1) : g[j] = IF j < i THEN fr[j] ELSE fr[j + 1]
    BY Zenon, <1>1, CloseUpProperties, LenProperties
  <1> HIDE DEF g
  <1>3. /\ Bytes(fr) \in [1..n -> Nat] /\ Ordinary(fr) \in [1..n -> Nat]
        /\ \A j \in 1..n : /\ Bytes(fr)[j] = fr[j].bytes /\ fr[j].bytes \in Nat
                           /\ Ordinary(fr)[j] = IF fr[j].idr THEN 0 ELSE fr[j].bytes
    BY Zenon, <1>1, EntryWeights
  <1>4. /\ Bytes(g) \in [1..(n - 1) -> Nat] /\ Ordinary(g) \in [1..(n - 1) -> Nat]
        /\ \A j \in 1..(n - 1) : /\ Bytes(g)[j] = g[j].bytes
                                 /\ Ordinary(g)[j] = IF g[j].idr THEN 0 ELSE g[j].bytes
    BY Zenon, <1>2, EntryWeights
  <1> HIDE DEF n
  <1>5. n - 1 \in Nat /\ i \in 1..n /\ n - 1 < n
        /\ \A j \in 1..(n - 1) : j \in 1..n /\ j + 1 \in 1..n
    BY <1>2 DEF n
  <1>6. /\ \A j \in 1..(n - 1) :
             Bytes(g)[j] = IF j < i THEN Bytes(fr)[j] ELSE Bytes(fr)[j + 1]
        /\ \A j \in 1..(n - 1) :
             Ordinary(g)[j] = IF j < i THEN Ordinary(fr)[j] ELSE Ordinary(fr)[j + 1]
    BY Zenon, <1>2, <1>3, <1>4, <1>5
  <1>7. b = Total(Bytes(g), n - 1) + fr[i].bytes /\ Total(Bytes(g), n - 1) \in Nat
    <2>1. /\ Total(Bytes(fr), n) = Total(Bytes(g), n - 1) + Bytes(fr)[i]
          /\ Total(Bytes(g), n - 1) \in Nat
      BY Zenon, <1>2, <1>3, <1>4, <1>5, <1>6, TotalRemove
    <2> QED BY Zenon, <1>1, <1>3, <1>5, <2>1
  <1> DEFINE o == Total(Ordinary(fr), n)
             p == Total(Ordinary(g), n - 1)
  <1>8. o = p + Ordinary(fr)[i] /\ p \in Nat
    BY Zenon, <1>2, <1>3, <1>4, <1>5, <1>6, TotalRemove
  <1>9. /\ fr[i].bytes \in Nat /\ Ordinary(fr)[i] \in Nat
        /\ Ordinary(fr)[i] = IF fr[i].idr THEN 0 ELSE fr[i].bytes
    BY <1>3, <1>5
  <1>10. b \in Nat /\ b < Uint32
    <2>1. n <= FRAME_FLOW_LIMIT + 1
      BY <1>1, <1>2
    <2> QED BY <1>1, <2>1, WindowBytes DEF n
  <1>11. (b - fr[i].bytes) % Uint32 = Total(Bytes(g), n - 1)
    <2> DEFINE z == Total(Bytes(g), n - 1)
    <2> HIDE DEF z
    <2>1. b - fr[i].bytes = z /\ z \in Nat /\ z < Uint32
      BY <1>7, <1>9, <1>10, FlowAssumption DEF z
    <2>2. z % Uint32 = z
      BY <2>1, FlowAssumption
    <2> QED BY Zenon, <2>1, <2>2 DEF z
  <1> HIDE DEF o, p
  <1>12. BudgetKept(g)
    <2>1. CASE o <= M
      <3>1. p <= M
        BY <1>1, <1>8, <1>9, <2>1
      <3> QED BY Zenon, <1>2, <3>1 DEF BudgetKept, p
    <2>2. CASE ~(o <= M)
      <3>1. /\ ~fr[1].idr /\ fr[1].bytes > M /\ o = fr[1].bytes
            /\ \A j \in 2..n : fr[j].idr
        BY Zenon, <1>1, <2>2 DEF BudgetKept, n, o
      <3>2. CASE i = 1
        <4>1. Ordinary(fr)[i] = fr[1].bytes
          BY Zenon, <1>9, <3>1, <3>2
        <4>2. p <= M
          BY <1>1, <1>8, <1>9, <3>1, <4>1
        <4> QED BY Zenon, <1>2, <4>2 DEF BudgetKept, p
      <3>3. CASE i # 1
        <4>1. i \in 2..n /\ 1 < i /\ 1 \in 1..(n - 1)
          BY <1>2, <1>5, <3>3
        <4>2. Ordinary(fr)[i] = 0
          BY Zenon, <1>9, <3>1, <4>1
        <4>3. p = o
          BY <1>8, <4>2
        <4>4. g[1] = fr[1]
          BY Zenon, <1>2, <4>1
        <4>5. \A j \in 2..(n - 1) : g[j].idr
          <5>1. \A j \in 2..(n - 1) : j \in 1..(n - 1) /\ j \in 2..n /\ j + 1 \in 2..n
            BY <1>2
          <5> QED BY Zenon, <1>2, <3>1, <5>1
        <4>6. g # <<>>
          BY <1>2, <4>1, EmptySeq
        <4> QED BY Zenon, <1>2, <3>1, <4>3, <4>4, <4>5, <4>6 DEF BudgetKept, p
      <3> QED BY <3>2, <3>3
    <2> QED BY <2>1, <2>2
  <1>13. n - 1 <= FRAME_FLOW_LIMIT
    BY <1>1, <1>2
  <1>14. WindowSound(g, (b - fr[i].bytes) % Uint32)
    BY Zenon, <1>2, <1>11, <1>12, <1>13 DEF WindowSound
  <1>15. /\ Total(Bytes(g), n - 1) <= b /\ Len(g) < n
    BY <1>2, <1>7, <1>9
  <1> QED
    BY Zenon, <1>7, <1>10, <1>11, <1>14, <1>15 DEF g, n

(***************************************************************************)
(* The operations on a FrameFlow                                           *)
(***************************************************************************)
FlowType == [suspended : BOOLEAN, frames : Seq(Entry), inflight_bytes : Nat,
             acked : BOOLEAN, stale : BOOLEAN]

FlowSound(f) ==
    /\ f \in FlowType
    /\ WindowSound(f.frames, f.inflight_bytes)
    /\ f.suspended => f.frames = <<>>

\* There is room for an access unit: registering it is not refused.
Fits(f, u) ==
    \/ f.suspended
    \/ /\ Len(f.frames) < FRAME_FLOW_LIMIT
       /\ \/ u.nal = "idr" \/ f.frames = <<>>
          \/ f.inflight_bytes + u.bytes <= FRAME_FLOW_MAX_INFLIGHT_BYTES

\* The empty window.
LEMMA EmptyWindow == WindowSound(<<>>, 0)
  <1>1. <<>> \in Seq(Entry) /\ Len(<<>>) = 0
    BY EmptySeq
  <1>2. Total(Bytes(<<>>), 0) = 0 /\ Total(Ordinary(<<>>), 0) = 0
    BY Zenon, TotalOfNone
  <1> QED
    BY <1>1, <1>2, FlowAssumption DEF WindowSound, BudgetKept

\* A flow with the same window, after the client has been heard or has not.
LEMMA SameWindow ==
    ASSUME NEW f, FlowSound(f), NEW g \in FlowType, g.frames = f.frames,
           g.inflight_bytes = f.inflight_bytes, g.suspended => f.suspended
    PROVE  FlowSound(g)
  BY DEF FlowSound

\* frame_flow_ack with UINT32_MAX, and the zeroed flow.
LEMMA SuspendKeepsFlow ==
    ASSUME NEW f
    PROVE  FlowSound(EmptyFlow) /\ FlowSound(frame_flow_suspend(f))
  <1>1. <<>> \in Seq(Entry)
    BY EmptySeq
  <1>2. EmptyFlow \in FlowType /\ EmptyFlow.frames = <<>> /\ EmptyFlow.inflight_bytes = 0
    BY <1>1 DEF EmptyFlow, FlowType
  <1> DEFINE g == frame_flow_suspend(f)
  <1>3. g \in FlowType /\ g.frames = <<>> /\ g.inflight_bytes = 0
    BY Zenon, <1>1 DEF EmptyFlow, FlowType, frame_flow_suspend
  <1> HIDE DEF g
  <1> QED BY Zenon, <1>2, <1>3, EmptyWindow DEF FlowSound, g

\* The scan for an acknowledged frame finds its entry if there is one.
LEMMA IndexOfFinds ==
    ASSUME NEW f, f.frames \in Seq(Entry), NEW id
    PROVE  \/ IndexOf(f, id) = 0
           \/ IndexOf(f, id) \in 1..Len(f.frames) /\ f.frames[IndexOf(f, id)].id = id
  <1> DEFINE hits == {i \in DOMAIN f.frames : f.frames[i].id = id}
  <1>1. CASE hits = {}
    BY <1>1 DEF IndexOf
  <1>2. CASE hits # {}
    <2>1. DOMAIN f.frames = 1..Len(f.frames) /\ Len(f.frames) \in Nat
      BY LenProperties
    <2>2. hits \subseteq Nat
      BY <2>1
    <2>3. \E i \in hits : \A j \in hits : i <= j
      <3> HIDE DEF hits
      <3> QED BY Zenon, <1>2, <2>2, LeastElement
    <2>4. IndexOf(f, id) = CHOOSE i \in hits : \A j \in hits : i <= j
      BY Zenon, <1>2 DEF IndexOf
    <2>5. IndexOf(f, id) \in hits
      <3> HIDE DEF hits
      <3> QED BY Zenon, <2>3, <2>4
    <2> QED BY Zenon, <2>1, <2>5
  <1> QED BY <1>1, <1>2

\* The ids of the window, by index.
LEMMA TrackedIdsByIndex ==
    ASSUME NEW f, f.frames \in Seq(Entry)
    PROVE  TrackedIds(f) = {f.frames[i].id : i \in 1..Len(f.frames)}
  BY LenProperties DEF TrackedIds

\* frame_flow_ack: the window shrinks by the acknowledged frame and no other.
LEMMA AckKeepsFlow ==
    ASSUME NEW f, FlowSound(f), NEW id, NEW g, g = frame_flow_ack(f, id)
    PROVE  /\ FlowSound(g) /\ ~g.suspended
           /\ Len(g.frames) <= Len(f.frames) /\ g.inflight_bytes <= f.inflight_bytes
           /\ f.frames = <<>> => g.frames = <<>>
           /\ TrackedIds(g) \subseteq TrackedIds(f)
           /\ TrackedIds(f) \ {id} \subseteq TrackedIds(g)
  <1> DEFINE h == [f EXCEPT !.suspended = FALSE, !.acked = TRUE, !.stale = FALSE]
             i == IndexOf(h, id)
  <1>1. f \in FlowType /\ f.frames \in Seq(Entry) /\ WindowSound(f.frames, f.inflight_bytes)
        /\ f.inflight_bytes \in Nat /\ Len(f.frames) \in Nat
    BY LenProperties DEF FlowSound, FlowType
  <1>2. /\ h \in FlowType /\ h.frames = f.frames /\ h.inflight_bytes = f.inflight_bytes
        /\ h.suspended = FALSE
    BY Zenon, <1>1 DEF FlowType
  <1>3. g = IF i = 0 THEN h ELSE Release(h, i)
    BY DEF frame_flow_ack
  <1>4. FlowSound(h)
    BY Zenon, <1>2, SameWindow
  <1> HIDE DEF h
  <1>5. i = 0 \/ (i \in 1..Len(f.frames) /\ f.frames[i].id = id)
    BY <1>1, <1>2, IndexOfFinds
  <1> HIDE DEF i
  <1>6. TrackedIds(f) = {f.frames[j].id : j \in 1..Len(f.frames)}
    BY <1>1, TrackedIdsByIndex
  <1>7. CASE i = 0
    <2>1. g = h
      BY <1>3, <1>7
    <2>2. TrackedIds(g) = TrackedIds(f)
      BY Zenon, <1>2, <2>1 DEF TrackedIds
    <2> QED BY <1>1, <1>2, <1>4, <2>1, <2>2
  <1>8. CASE i # 0
    <2> DEFINE fr == f.frames
               c == CloseUp(fr, i)
               b == (f.inflight_bytes - fr[i].bytes) % Uint32
    <2>1. i \in 1..Len(fr) /\ fr[i].id = id /\ fr # <<>>
      <3>1. i \in 1..Len(fr) /\ fr[i].id = id
        BY <1>5, <1>8
      <3> QED BY <1>1, <3>1, EmptySeq
    <2>2. /\ WindowSound(c, b) /\ b <= f.inflight_bytes /\ b \in Nat /\ Len(c) < Len(fr)
      BY <1>1, <2>1, ReleaseKeepsWindow
    <2>3. /\ c \in Seq(Entry) /\ Len(c) = Len(fr) - 1
          /\ \A j \in 1..(Len(fr) - 1) : c[j] = IF j < i THEN fr[j] ELSE fr[j + 1]
      BY Zenon, <1>1, <2>1, CloseUpProperties
    <2>4. g = [h EXCEPT !.frames = c, !.inflight_bytes = b]
      BY <1>2, <1>3, <1>8 DEF Release
    <2> HIDE DEF c, b
    <2>5. g \in FlowType /\ g.frames = c /\ g.inflight_bytes = b /\ g.suspended = FALSE
      BY Zenon, <1>2, <2>2, <2>3, <2>4 DEF FlowType
    <2>6. FlowSound(g)
      BY <2>2, <2>5 DEF FlowSound
    <2>7. TrackedIds(g) = {c[j].id : j \in 1..(Len(fr) - 1)}
      BY <2>3, <2>5, TrackedIdsByIndex
    <2> DEFINE n == Len(fr)
    <2>8. n \in Nat /\ \A j \in 1..(n - 1) : j \in 1..n /\ j + 1 \in 1..n
      BY <1>1
    <2>9. TrackedIds(g) \subseteq TrackedIds(f)
      BY Zenon, <1>6, <2>3, <2>7, <2>8
    <2>10. ASSUME NEW x \in TrackedIds(f), x # id PROVE x \in TrackedIds(g)
      <3>1. PICK j \in 1..n : x = fr[j].id
        BY Zenon, <1>6
      <3>2. j # i
        BY Zenon, <2>1, <2>10, <3>1
      <3> HIDE DEF n
      <3>3. CASE j < i
        <4>1. j \in 1..(n - 1) /\ c[j] = fr[j]
          BY <2>1, <2>3, <2>8, <3>3 DEF n
        <4> QED BY Zenon, <2>7, <3>1, <4>1 DEF n
      <3>4. CASE j > i
        <4>1. j - 1 \in 1..(n - 1) /\ ~(j - 1 < i) /\ (j - 1) + 1 = j
          BY <2>1, <2>8, <3>4 DEF n
        <4>2. c[j - 1] = fr[(j - 1) + 1]
          BY Zenon, <2>3, <4>1 DEF n
        <4>3. c[j - 1] = fr[j]
          BY <4>1, <4>2
        <4> QED BY Zenon, <2>7, <3>1, <4>1, <4>3 DEF n
      <3>5. j < i \/ j > i
        BY <2>1, <2>8, <3>2 DEF n
      <3> QED BY <3>3, <3>4, <3>5
    <2>11. TrackedIds(f) \ {id} \subseteq TrackedIds(g)
      BY Zenon, <2>10
    <2>12. Len(g.frames) <= Len(fr)
      BY <2>2, <2>3, <2>5, <2>8
    <2> QED BY Zenon, <2>1, <2>2, <2>5, <2>6, <2>9, <2>11, <2>12
  <1> QED BY <1>7, <1>8

\* frame_flow_sent: a frame that fits is tracked, unless the client has suspended
\* its acknowledgements.
LEMMA SentKeepsFlow ==
    ASSUME NEW f, FlowSound(f), NEW u \in Units, Fits(f, u), NEW id \in Nat,
           NEW g, g = frame_flow_sent(f, id, u.bytes, u.nal = "idr")
    PROVE  /\ FlowSound(g) /\ g.suspended = f.suspended
           /\ ~f.suspended => TrackedIds(g) = TrackedIds(f) \cup {id}
           /\ f.suspended => TrackedIds(g) = TrackedIds(f)
  <1> DEFINE idr == u.nal = "idr"
             e == [id |-> id, bytes |-> u.bytes, idr |-> idr]
             fr == f.frames
  <1>1. /\ f \in FlowType /\ fr \in Seq(Entry) /\ WindowSound(fr, f.inflight_bytes)
        /\ f.inflight_bytes \in Nat /\ Len(fr) \in Nat /\ f.suspended \in BOOLEAN
    BY LenProperties DEF FlowSound, FlowType
  <1>2. u.bytes \in Sizes /\ idr \in BOOLEAN
    <2>1. u.bytes \in Sizes
      BY DEF Units
    <2>2. idr \in BOOLEAN
      BY Zenon
    <2> QED BY Zenon, <2>1, <2>2
  <1>3. u.bytes \in Nat
    BY Zenon, <1>2, SizesAreNumbers
  <1> HIDE DEF idr
  <1>4. e \in Entry /\ e.bytes = u.bytes /\ e.idr = idr /\ e.id = id
    <2>1. PICK k \in BOOLEAN : k = idr
      BY Zenon, <1>2
    <2>2. e = [id |-> id, bytes |-> u.bytes, idr |-> k]
      BY Zenon, <2>1
    <2> HIDE DEF e
    <2>3. e \in Entry /\ e.bytes = u.bytes /\ e.idr = k /\ e.id = id
      BY <1>2, <2>2 DEF Entry
    <2> QED BY Zenon, <2>1, <2>3
  <1> HIDE DEF e
  <1>5. CASE f.suspended
    <2>1. g = f
      BY <1>5 DEF frame_flow_sent
    <2> QED BY Zenon, <1>5, <2>1
  <1>6. CASE ~f.suspended
    <2>1. /\ Len(fr) < FRAME_FLOW_LIMIT
          /\ idr \/ fr = <<>> \/ f.inflight_bytes + u.bytes <= FRAME_FLOW_MAX_INFLIGHT_BYTES
      BY <1>6 DEF Fits, idr
    <2>2. ~frame_flow_blocked(f)
      BY <1>1, <2>1, FlowAssumption DEF frame_flow_blocked
    <2>3. ~(~idr /\ fr # <<>> /\ OverBudget(f, u.bytes))
      BY <1>1, <1>3, <2>1, FlowAssumption DEF OverBudget
    <2>4. g = Track(f, id, u.bytes, idr)
      BY Zenon, <1>6, <2>2, <2>3 DEF frame_flow_sent, idr
    <2> DEFINE c == Append(fr, e)
               b == (f.inflight_bytes + u.bytes) % Uint32
    <2>5. g = [f EXCEPT !.frames = c, !.inflight_bytes = b]
      BY <2>4 DEF Track, e
    <2>6. WindowSound(c, b)
      BY <1>1, <1>4, <2>1, TrackKeepsWindow
    <2>7. /\ c \in Seq(Entry) /\ Len(c) = Len(fr) + 1
          /\ (\A i \in 1..Len(fr) : c[i] = fr[i]) /\ c[Len(fr) + 1] = e
      BY <1>1, <1>4, AppendProperties
    <2>8. b \in Nat
      BY <1>1, <1>3, FlowAssumption
    <2> HIDE DEF c, b
    <2>9. g \in FlowType /\ g.frames = c /\ g.inflight_bytes = b /\ g.suspended = f.suspended
      <3>1. /\ f = [suspended |-> f.suspended, frames |-> fr, acked |-> f.acked,
                    inflight_bytes |-> f.inflight_bytes, stale |-> f.stale]
            /\ f.acked \in BOOLEAN /\ f.stale \in BOOLEAN
        BY <1>1 DEF FlowType
      <3>2. g \in FlowType
        BY Zenon, <1>1, <2>5, <2>7, <2>8 DEF FlowType
      <3>3. g.frames = c /\ g.inflight_bytes = b
        BY Zenon, <1>1, <2>5 DEF FlowType
      <3>4. g.suspended = f.suspended
        BY Zenon, <2>5, <3>1
      <3> QED BY <3>2, <3>3, <3>4
    <2>10. FlowSound(g)
      BY Zenon, <1>6, <2>6, <2>9 DEF FlowSound
    <2>11. /\ TrackedIds(f) = {fr[i].id : i \in 1..Len(fr)}
           /\ TrackedIds(g) = {c[i].id : i \in 1..(Len(fr) + 1)}
      <3>1. TrackedIds(f) = {f.frames[i].id : i \in 1..Len(f.frames)}
        BY <1>1, TrackedIdsByIndex
      <3>2. g.frames \in Seq(Entry)
        BY Zenon, <2>7, <2>9
      <3>3. TrackedIds(g) = {g.frames[i].id : i \in 1..Len(g.frames)}
        BY <3>2, TrackedIdsByIndex
      <3> QED BY Zenon, <2>7, <2>9, <3>1, <3>3
    <2>12. TrackedIds(g) = TrackedIds(f) \cup {id}
      <3> DEFINE n == Len(fr)
      <3>1. /\ n + 1 \in 1..(n + 1) /\ (\A i \in 1..n : i \in 1..(n + 1))
            /\ \A i \in 1..(n + 1) : i \in 1..n \/ i = n + 1
        BY <1>1
      <3> HIDE DEF n
      <3>2. /\ (\A i \in 1..n : c[i].id = fr[i].id) /\ c[n + 1].id = id
        BY Zenon, <1>4, <2>7 DEF n
      <3>3. /\ TrackedIds(f) = {fr[i].id : i \in 1..n}
            /\ TrackedIds(g) = {c[i].id : i \in 1..(n + 1)}
        BY Zenon, <2>11 DEF n
      <3> QED BY <3>1, <3>2, <3>3
    <2> QED BY Zenon, <1>6, <2>9, <2>10, <2>12
  <1> QED BY <1>1, <1>5, <1>6

(***************************************************************************)
(* The inductive invariant                                                 *)
(***************************************************************************)
FlagsTyped == /\ need_idr \in BOOLEAN /\ stopping \in BOOLEAN /\ ack_event \in BOOLEAN
              /\ decodable \in BOOLEAN /\ suspended_once \in BOOLEAN

\* Every number stands for an access unit that was read, and the thread's unit has
\* none before it is submitted.
ThreadPlace ==
    /\ pc \in {"read", "admit", "wait", "submit", "register", "exit"}
    /\ wait \in {"no", "waiting", "elapsed"}
    /\ units \in 0..MaxUnits /\ next_frame_id \in Nat /\ next_frame_id <= units
    /\ pc \in {"admit", "wait", "submit"} => next_frame_id < units
    /\ pc = "register" => next_frame_id >= 1
    /\ pc \in {"admit", "wait", "submit", "register"} => unit \in Units

Numbers(f) == /\ TrackedIds(f) \subseteq 0..(next_frame_id - 1)
              /\ received \subseteq 0..(next_frame_id - 1)

\* From its admission to its registration there is room for the unit: meanwhile
\* the peer thread only takes entries out of the window.
Admitted == pc \in {"submit", "register"} => Fits(flow, unit)

Unregistered == IF pc = "register" THEN {next_frame_id - 1} ELSE {}

ReceivedTracked ==
    ~suspended_once => ~flow.suspended /\ received \subseteq TrackedIds(flow) \cup Unregistered

AvcInv == /\ FlagsTyped /\ ThreadPlace /\ FlowSound(flow) /\ Numbers(flow)
          /\ Admitted /\ ReceivedTracked

\* The flags are Booleans.
LEMMA FlagsStayTyped ==
    ASSUME FlagsTyped, [Next]_vars
    PROVE  FlagsTyped'
  <1>1. CASE read_unit
    BY Zenon, <1>1 DEF read_unit, NeedIdrAfter, FlagsTyped, Units, frame_flow_avc_should_send
  <1>2. CASE read_fails
    BY Zenon, <1>2 DEF read_fails, FlagsTyped, clientVars
  <1>3. CASE client_accept_avc_frame
    BY Zenon, <1>3 DEF client_accept_avc_frame, FlagsTyped
  <1>4. CASE wait_ends
    BY Zenon, <1>4 DEF wait_ends, FlagsTyped, clientVars
  <1>5. CASE submit
    BY Zenon, <1>5 DEF submit, FlagsTyped
  <1>6. CASE submit_fails
    BY Zenon, <1>6 DEF submit_fails, FlagsTyped
  <1>7. CASE register
    BY Zenon, <1>7 DEF register, FlagsTyped, clientVars
  <1>8. CASE thread_exits
    BY Zenon, <1>8 DEF thread_exits, FlagsTyped, clientVars
  <1>9. CASE on_gfx_frame_ack
    BY Zenon, <1>9 DEF on_gfx_frame_ack, FlagsTyped
  <1>10. CASE on_gfx_ack_suspended
    BY Zenon, <1>10 DEF on_gfx_ack_suspended, FlagsTyped
  <1>11. CASE client_stop
    BY Zenon, <1>11 DEF client_stop, FlagsTyped, clientVars
  <1>12. CASE ack_goes_stale
    BY Zenon, <1>12 DEF ack_goes_stale, FlagsTyped, clientVars
  <1>13. CASE UNCHANGED vars
    BY Zenon, <1>13 DEF vars, FlagsTyped, clientVars
  <1> QED
    BY Zenon, <1>1, <1>2, <1>3, <1>4, <1>5, <1>6, <1>7, <1>8, <1>9, <1>10, <1>11, <1>12, <1>13
       DEF Next, VideoThread

\* The parts of the invariant that a step of the video thread needs.
LEMMA AvcFacts ==
    ASSUME AvcInv
    PROVE  /\ ThreadPlace /\ FlowSound(flow) /\ Numbers(flow) /\ Admitted /\ ReceivedTracked
           /\ units \in Nat /\ next_frame_id \in Nat /\ next_frame_id <= units
           /\ MaxUnits \in Nat /\ units <= MaxUnits
           /\ flow.frames \in Seq(Entry) /\ Len(flow.frames) \in Nat
           /\ Len(flow.frames) <= FRAME_FLOW_LIMIT /\ flow.inflight_bytes \in Nat
           /\ FRAME_FLOW_LIMIT \in Nat \ {0} /\ FRAME_FLOW_MAX_INFLIGHT_BYTES \in Nat
  <1>1. ThreadPlace /\ FlowSound(flow) /\ Numbers(flow) /\ Admitted /\ ReceivedTracked
    BY Zenon DEF AvcInv
  <1>2. /\ flow \in FlowType /\ Len(flow.frames) <= FRAME_FLOW_LIMIT
        /\ flow.frames \in Seq(Entry)
    BY Zenon, <1>1 DEF FlowSound, WindowSound
  <1>3. flow.inflight_bytes \in Nat
    BY <1>2 DEF FlowType
  <1> QED
    BY <1>1, <1>2, <1>3, LenProperties, FlowAssumption, UnitsAssumption DEF ThreadPlace

\* A step of the video thread that neither submits nor registers.
LEMMA ThreadMovesKeeps ==
    ASSUME AvcInv, FlagsTyped', UNCHANGED <<flow, next_frame_id, received, suspended_once>>,
           ThreadPlace', pc # "register", pc' # "register",
           pc' = "submit" => Fits(flow, unit')
    PROVE  AvcInv'
  <1>1. FlowSound(flow)' /\ Numbers(flow)'
    BY Zenon, AvcFacts DEF FlowSound, Numbers
  <1>2. Admitted'
    BY Zenon DEF Admitted, Fits
  <1>3. ReceivedTracked'
    <2>1. Unregistered = {} /\ Unregistered' = {}
      BY Zenon DEF Unregistered
    <2> QED BY Zenon, <2>1, AvcFacts DEF ReceivedTracked, TrackedIds
  <1> QED
    BY Zenon, <1>1, <1>2, <1>3 DEF AvcInv

\* Reading, waiting and ending.
LEMMA QuietStepsKeep ==
    ASSUME AvcInv, FlagsTyped', read_unit \/ read_fails \/ wait_ends \/ thread_exits
    PROVE  AvcInv'
  <1>1. UNCHANGED <<flow, next_frame_id, received, suspended_once>>
    BY Zenon DEF read_unit, read_fails, wait_ends, thread_exits, clientVars
  <1>2. CASE read_unit
    <2>1. /\ pc = "read" /\ units < MaxUnits /\ units' = units + 1 /\ unit' \in Units
          /\ pc' \in {"read", "admit"} /\ wait' = "no"
      BY <1>2 DEF read_unit
    <2>2. ThreadPlace'
      BY <1>1, <2>1, AvcFacts DEF ThreadPlace
    <2> QED BY <1>1, <2>1, <2>2, ThreadMovesKeeps
  <1>3. CASE read_fails \/ thread_exits
    <2>1. pc = "read" /\ pc' = "exit" /\ UNCHANGED <<unit, wait, units>>
      BY Zenon, <1>3 DEF read_fails, thread_exits
    <2>2. ThreadPlace'
      BY <1>1, <2>1, AvcFacts DEF ThreadPlace
    <2> QED BY <1>1, <2>1, <2>2, ThreadMovesKeeps
  <1>4. CASE wait_ends
    <2>1. pc = "wait" /\ pc' = "admit" /\ UNCHANGED <<unit, units>> /\ wait' \in {wait, "elapsed"}
      BY <1>4 DEF wait_ends
    <2>2. ThreadPlace'
      BY <1>1, <2>1, AvcFacts DEF ThreadPlace
    <2> QED BY <1>1, <2>1, <2>2, ThreadMovesKeeps
  <1> QED BY <1>2, <1>3, <1>4

\* client_accept_avc_frame: what it lets through fits.
LEMMA AcceptKeeps ==
    ASSUME AvcInv, FlagsTyped', client_accept_avc_frame
    PROVE  AvcInv'
  <1> DEFINE admission == frame_flow_avc_admit(flow, unit.bytes, Idr, wait = "elapsed")
  <1>1. /\ pc = "admit" /\ pc' \in {"read", "submit", "wait"} /\ wait' \in {"waiting", wait}
        /\ pc' = "submit" => admission = "send"
        /\ UNCHANGED <<flow, next_frame_id, received, suspended_once, unit, units>>
    BY DEF client_accept_avc_frame
  <1>2. ThreadPlace'
    BY <1>1, AvcFacts DEF ThreadPlace
  <1>3. admission = "send" => Fits(flow, unit)
    <2> SUFFICES ASSUME admission = "send" PROVE Fits(flow, unit)
      OBVIOUS
    <2>1. IF Idr THEN frame_flow_ready_keyframe(flow) ELSE frame_flow_ready(flow, unit.bytes)
      BY DEF frame_flow_avc_admit
    <2>2. CASE flow.suspended
      BY <2>2 DEF Fits
    <2>3. CASE ~flow.suspended /\ flow.frames = <<>>
      BY <2>3, AvcFacts, EmptySeq DEF Fits
    <2>4. CASE ~flow.suspended /\ flow.frames # <<>>
      <3>1. NotStalled(flow) /\ (~Idr => ~OverBudget(flow, unit.bytes))
        BY <2>1, <2>4 DEF frame_flow_ready_keyframe, frame_flow_ready
      <3>2. Len(flow.frames) < FRAME_FLOW_LIMIT
        <4>1. Len(flow.frames) # FRAME_FLOW_LIMIT
          BY <2>4, <3>1 DEF NotStalled, frame_flow_blocked
        <4> QED BY <4>1, AvcFacts
      <3>3. unit.bytes \in Nat
        <4>1. unit \in Units
          BY <1>1, AvcFacts DEF ThreadPlace
        <4>2. unit.bytes \in Sizes
          BY <4>1 DEF Units
        <4> QED BY Zenon, <4>2, SizesAreNumbers
      <3>4. ~Idr => flow.inflight_bytes + unit.bytes <= FRAME_FLOW_MAX_INFLIGHT_BYTES
        BY <3>1, <3>3, AvcFacts DEF OverBudget
      <3> QED BY Zenon, <3>2, <3>4 DEF Fits, Idr
    <2> QED BY <2>2, <2>3, <2>4
  <1> HIDE DEF admission
  <1>4. pc' = "submit" => Fits(flow, unit')
    BY Zenon, <1>1, <1>3
  <1> QED BY <1>1, <1>2, <1>4, ThreadMovesKeeps

\* Submission gives the unit its number.
LEMMA SubmitKeeps ==
    ASSUME AvcInv, FlagsTyped', submit \/ submit_fails
    PROVE  AvcInv'
  <1>1. pc = "submit" /\ UNCHANGED <<flow, unit, wait, units, suspended_once>>
    BY DEF submit, submit_fails
  <1>2. CASE next_frame_id' = next_frame_id
    <2>1. submit /\ stopping
      BY <1>2, AvcFacts DEF submit, submit_fails
    <2>2. pc' = "read" /\ received' = received
      BY <2>1 DEF submit
    <2>3. ThreadPlace'
      BY <1>1, <1>2, <2>2, AvcFacts DEF ThreadPlace
    <2> QED BY <1>1, <1>2, <2>2, <2>3, ThreadMovesKeeps
  <1>3. CASE next_frame_id' # next_frame_id
    <2>1. /\ next_frame_id' = next_frame_id + 1
          /\ \/ pc' = "register" /\ received' = received \cup {next_frame_id}
             \/ pc' = "read" /\ received' = received
      BY <1>3 DEF submit, submit_fails
    <2>2. ThreadPlace'
      BY <1>1, <2>1, AvcFacts DEF ThreadPlace
    <2>3. FlowSound(flow)'
      BY Zenon, <1>1, AvcFacts DEF FlowSound
    <2>4. Numbers(flow)'
      <3>1. /\ 0..(next_frame_id - 1) \subseteq 0..(next_frame_id' - 1)
            /\ next_frame_id \in 0..(next_frame_id' - 1)
        BY <2>1, AvcFacts
      <3>2. TrackedIds(flow)' = TrackedIds(flow)
        BY Zenon, <1>1 DEF TrackedIds
      <3>3. received' \subseteq received \cup {next_frame_id}
        BY Zenon, <2>1
      <3> QED BY Zenon, <3>1, <3>2, <3>3, AvcFacts DEF Numbers
    <2>5. Admitted'
      <3>1. Fits(flow, unit)
        BY Zenon, <1>1, AvcFacts DEF Admitted
      <3> QED BY Zenon, <1>1, <3>1 DEF Admitted, Fits
    <2>6. ReceivedTracked'
      <3>1. Unregistered = {} /\ TrackedIds(flow)' = TrackedIds(flow)
        BY Zenon, <1>1 DEF Unregistered, TrackedIds
      <3>2. next_frame_id' - 1 = next_frame_id
        BY <2>1, AvcFacts
      <3>3. received' \subseteq received \cup Unregistered'
        BY Zenon, <2>1, <3>2 DEF Unregistered
      <3> QED BY Zenon, <1>1, <3>1, <3>3, AvcFacts DEF ReceivedTracked
    <2> QED
      BY Zenon, <2>2, <2>3, <2>4, <2>5, <2>6 DEF AvcInv
  <1> QED BY <1>2, <1>3

\* Registration is never refused while the client acknowledges.
LEMMA RegisterKeeps ==
    ASSUME AvcInv, FlagsTyped', register
    PROVE  AvcInv'
  <1> DEFINE id == next_frame_id - 1
  <1>1. /\ pc = "register" /\ pc' = "read"
        /\ UNCHANGED <<next_frame_id, unit, wait, units, received, suspended_once>>
    BY DEF register, clientVars
  <1>2. flow' = frame_flow_sent(flow, id, unit.bytes, unit.nal = "idr")
    BY Zenon DEF register, Idr
  <1>3. unit \in Units /\ id \in Nat /\ Fits(flow, unit) /\ id \in 0..(next_frame_id - 1)
    <2>1. unit \in Units /\ next_frame_id >= 1 /\ Fits(flow, unit)
      BY <1>1, AvcFacts DEF ThreadPlace, Admitted
    <2> QED BY <2>1, AvcFacts
  <1> HIDE DEF id
  <1>4. /\ FlowSound(flow)' /\ flow'.suspended = flow.suspended
        /\ ~flow.suspended => TrackedIds(flow)' = TrackedIds(flow) \cup {id}
        /\ flow.suspended => TrackedIds(flow)' = TrackedIds(flow)
    <2>1. PICK g : g = frame_flow_sent(flow, id, unit.bytes, unit.nal = "idr")
      BY Zenon
    <2>2. /\ FlowSound(g) /\ g.suspended = flow.suspended
          /\ ~flow.suspended => TrackedIds(g) = TrackedIds(flow) \cup {id}
          /\ flow.suspended => TrackedIds(g) = TrackedIds(flow)
      BY <1>3, <2>1, AvcFacts, SentKeepsFlow
    <2>3. flow' = g
      BY Zenon, <1>2, <2>1
    <2> QED BY Zenon, <2>2, <2>3 DEF FlowSound, TrackedIds
  <1>5. ThreadPlace'
    BY <1>1, AvcFacts DEF ThreadPlace
  <1>6. Numbers(flow)'
    <2>1. flow.suspended \/ ~flow.suspended
      OBVIOUS
    <2> QED BY Zenon, <1>1, <1>3, <1>4, <2>1, AvcFacts DEF Numbers
  <1>7. Admitted'
    BY <1>1 DEF Admitted
  <1>8. ReceivedTracked'
    <2>1. Unregistered = {id}
      BY Zenon, <1>1 DEF Unregistered, id
    <2> QED BY Zenon, <1>1, <1>4, <2>1, AvcFacts DEF ReceivedTracked
  <1> QED
    BY Zenon, <1>4, <1>5, <1>6, <1>7, <1>8 DEF AvcInv

\* An acknowledgement only makes room.
LEMMA AckKeeps ==
    ASSUME AvcInv, FlagsTyped', on_gfx_frame_ack
    PROVE  AvcInv'
  <1>1. PICK id \in 0..(next_frame_id - 1) :
            flow' = frame_flow_ack(flow, id) /\ received' = received \ {id}
    BY Zenon DEF on_gfx_frame_ack
  <1>2. UNCHANGED <<next_frame_id, pc, unit, wait, units, suspended_once>>
    BY DEF on_gfx_frame_ack, threadVars
  <1>3. PICK g : g = frame_flow_ack(flow, id)
    BY Zenon
  <1>4. flow' = g
    BY Zenon, <1>1, <1>3
  <1>5. /\ FlowSound(g) /\ ~g.suspended
        /\ Len(g.frames) <= Len(flow.frames) /\ g.inflight_bytes <= flow.inflight_bytes
        /\ flow.frames = <<>> => g.frames = <<>>
        /\ TrackedIds(g) \subseteq TrackedIds(flow)
        /\ TrackedIds(flow) \ {id} \subseteq TrackedIds(g)
    BY Zenon, <1>3, AvcFacts, AckKeepsFlow
  <1>6. ThreadPlace'
    BY <1>2, AvcFacts DEF ThreadPlace
  <1>7. FlowSound(flow)'
    BY Zenon, <1>4, <1>5 DEF FlowSound
  <1>8. Numbers(flow)'
    BY Zenon, <1>1, <1>2, <1>4, <1>5, AvcFacts DEF Numbers, TrackedIds
  <1>9. Admitted'
    <2> SUFFICES ASSUME pc \in {"submit", "register"} PROVE Fits(g, unit)
      BY Zenon, <1>2, <1>4 DEF Admitted, Fits
    <2>1. Fits(flow, unit) /\ unit \in Units
      BY AvcFacts DEF Admitted, ThreadPlace
    <2>2. unit.bytes \in Nat
      <3>1. unit.bytes \in Sizes
        BY <2>1 DEF Units
      <3> QED BY Zenon, <3>1, SizesAreNumbers
    <2>3. Len(g.frames) \in Nat /\ g.inflight_bytes \in Nat
      BY <1>5, LenProperties DEF FlowSound, FlowType
    <2>4. CASE flow.suspended
      <3>1. g.frames = <<>>
        BY Zenon, <1>5, <2>4, AvcFacts DEF FlowSound
      <3>2. Len(g.frames) < FRAME_FLOW_LIMIT
        BY <3>1, EmptySeq, FlowAssumption
      <3> QED BY Zenon, <3>1, <3>2 DEF Fits
    <2>5. CASE ~flow.suspended
      <3>1. /\ Len(flow.frames) < FRAME_FLOW_LIMIT
            /\ \/ unit.nal = "idr" \/ flow.frames = <<>>
               \/ flow.inflight_bytes + unit.bytes <= FRAME_FLOW_MAX_INFLIGHT_BYTES
        BY Zenon, <2>1, <2>5 DEF Fits
      <3>2. Len(g.frames) < FRAME_FLOW_LIMIT
        BY <1>5, <2>3, <3>1, AvcFacts
      <3>3. flow.inflight_bytes + unit.bytes <= FRAME_FLOW_MAX_INFLIGHT_BYTES
              => g.inflight_bytes + unit.bytes <= FRAME_FLOW_MAX_INFLIGHT_BYTES
        BY <1>5, <2>2, <2>3, AvcFacts
      <3> QED BY Zenon, <1>5, <3>1, <3>2, <3>3 DEF Fits
    <2> QED BY <2>4, <2>5
  <1>10. ReceivedTracked'
    <2>1. Unregistered' = Unregistered
      BY Zenon, <1>2 DEF Unregistered
    <2>2. TrackedIds(flow)' = TrackedIds(g)
      BY Zenon, <1>4 DEF TrackedIds
    <2>3. ~suspended_once => received \ {id} \subseteq TrackedIds(g) \cup Unregistered
      <3>1. ~suspended_once => received \subseteq TrackedIds(flow) \cup Unregistered
        BY Zenon, AvcFacts DEF ReceivedTracked
      <3> QED BY <1>5, <3>1
    <2> QED
      BY Zenon, <1>1, <1>2, <1>4, <1>5, <2>1, <2>2, <2>3 DEF ReceivedTracked
  <1> QED
    BY Zenon, <1>6, <1>7, <1>8, <1>9, <1>10 DEF AvcInv

\* The client suspends its acknowledgements, is told to stop, or is late.
LEMMA PeerStepsKeep ==
    ASSUME AvcInv, FlagsTyped',
           on_gfx_ack_suspended \/ client_stop \/ ack_goes_stale \/ UNCHANGED vars
    PROVE  AvcInv'
  <1>1. UNCHANGED <<next_frame_id, pc, unit, wait, units, received>>
    BY DEF on_gfx_ack_suspended, client_stop, ack_goes_stale, vars, threadVars, clientVars
  <1>2. ThreadPlace' /\ Unregistered' = Unregistered
    BY <1>1, AvcFacts DEF ThreadPlace, Unregistered
  <1>3. CASE on_gfx_ack_suspended
    <2>1. PICK g : g = frame_flow_suspend(flow)
      BY Zenon
    <2>2. flow' = g /\ suspended_once'
      BY Zenon, <1>3, <2>1 DEF on_gfx_ack_suspended
    <2>3. FlowSound(g)
      BY Zenon, <2>1, SuspendKeepsFlow
    <2>4. g.frames = <<>> /\ g.suspended
      BY <2>1 DEF frame_flow_suspend, EmptyFlow
    <2>5. TrackedIds(g) = {}
      BY <2>4 DEF TrackedIds
    <2>6. FlowSound(flow)' /\ Admitted' /\ ReceivedTracked'
      BY Zenon, <2>2, <2>3, <2>4 DEF FlowSound, Admitted, Fits, ReceivedTracked
    <2>7. Numbers(flow)'
      BY Zenon, <1>1, <2>2, <2>5, AvcFacts DEF Numbers, TrackedIds
    <2> QED
      BY Zenon, <1>2, <2>6, <2>7 DEF AvcInv
  <1>4. CASE client_stop \/ ack_goes_stale \/ UNCHANGED vars
    <2>1. suspended_once' = suspended_once /\ (flow' = flow \/ flow' = GoStale(flow))
      BY Zenon, <1>4 DEF client_stop, ack_goes_stale, vars, clientVars
    <2>2. PICK g : g = flow'
      BY Zenon
    <2>3. /\ FlowSound(g) /\ g.frames = flow.frames /\ g.inflight_bytes = flow.inflight_bytes
          /\ g.suspended = flow.suspended
      <3>1. CASE g = flow
        BY Zenon, <3>1, AvcFacts
      <3>2. CASE g = GoStale(flow)
        <4>1. flow \in FlowType
          BY AvcFacts DEF FlowSound
        <4>2. g \in FlowType /\ g.frames = flow.frames /\ g.inflight_bytes = flow.inflight_bytes
          BY Zenon, <3>2, <4>1 DEF FlowType, GoStale
        <4>3. g.suspended = flow.suspended
          <5>1. "suspended" \in DOMAIN flow
            BY <4>1 DEF FlowType
          <5> QED BY Zenon, <3>2, <5>1 DEF GoStale
        <4> QED BY Zenon, <4>2, <4>3, AvcFacts, SameWindow
      <3> QED BY Zenon, <2>1, <2>2, <3>1, <3>2
    <2>4. TrackedIds(g) = TrackedIds(flow)
      BY Zenon, <2>3 DEF TrackedIds
    <2>5. FlowSound(flow)'
      BY Zenon, <2>2, <2>3 DEF FlowSound
    <2>6. Numbers(flow)'
      BY Zenon, <1>1, <2>2, <2>4, AvcFacts DEF Numbers, TrackedIds
    <2>7. Admitted'
      <3>1. pc \in {"submit", "register"} => Fits(g, unit)
        BY Zenon, <2>3, AvcFacts DEF Admitted, Fits
      <3> QED BY Zenon, <1>1, <2>2, <3>1 DEF Admitted, Fits
    <2>8. ReceivedTracked'
      BY Zenon, <1>1, <1>2, <2>1, <2>2, <2>3, <2>4, AvcFacts DEF ReceivedTracked, TrackedIds
    <2> QED
      BY Zenon, <1>2, <2>5, <2>6, <2>7, <2>8 DEF AvcInv
  <1> QED BY <1>3, <1>4

\* The invariant holds throughout.
LEMMA AvcInvariant == Spec => []AvcInv
  <1>1. Init => AvcInv
    <2> SUFFICES ASSUME Init PROVE AvcInv
      OBVIOUS
    <2>1. FlagsTyped
      BY Zenon DEF Init, FlagsTyped
    <2>2. ThreadPlace
      BY UnitsAssumption DEF Init, ThreadPlace
    <2>3. FlowSound(flow) /\ flow = EmptyFlow
      BY Zenon, SuspendKeepsFlow DEF Init
    <2>4. TrackedIds(flow) = {} /\ ~flow.suspended
      BY <2>3 DEF EmptyFlow, TrackedIds
    <2>5. Numbers(flow) /\ Admitted /\ ReceivedTracked
      BY <2>4 DEF Init, Numbers, Admitted, ReceivedTracked
    <2> QED
      BY Zenon, <2>1, <2>2, <2>3, <2>5 DEF AvcInv
  <1>2. AvcInv /\ [Next]_vars => AvcInv'
    <2> SUFFICES ASSUME AvcInv, [Next]_vars PROVE AvcInv'
      OBVIOUS
    <2>1. FlagsTyped'
      BY Zenon, FlagsStayTyped DEF AvcInv
    <2> QED
      BY Zenon, <2>1, QuietStepsKeep, AcceptKeeps, SubmitKeeps, RegisterKeeps, AckKeeps,
         PeerStepsKeep DEF Next, VideoThread
  <1> QED
    BY <1>1, <1>2, PTL DEF Spec

(***************************************************************************)
(* The results                                                             *)
(***************************************************************************)
\* Every variable keeps its type for every limit, budget and size the arrays and
\* the counters can hold: the window never outgrows frame_flow's arrays, and
\* inflight_bytes stays a uint32_t.
THEOREM AvcTypeCorrect == Spec => []AvcTypeOK
  <1> SUFFICES ASSUME AvcInv PROVE AvcTypeOK
    BY AvcInvariant, PTL
  <1> DEFINE fr == flow.frames
             E == [id : 0..MaxUnits, bytes : Sizes, idr : BOOLEAN]
  <1>1. 0..(next_frame_id - 1) \subseteq 0..MaxUnits
    BY AvcFacts
  <1>2. fr \in Seq(E)
    <2>1. \A i \in 1..Len(fr) : fr[i] \in Entry /\ fr[i].id \in 0..MaxUnits
      <3>1. TrackedIds(flow) = {fr[i].id : i \in 1..Len(fr)}
        BY AvcFacts, TrackedIdsByIndex
      <3>2. TrackedIds(flow) \subseteq 0..MaxUnits
        BY Zenon, <1>1, AvcFacts DEF Numbers
      <3>3. \A i \in 1..Len(fr) : fr[i] \in Entry
        BY AvcFacts, ElementOfSeq
      <3> QED BY Zenon, <3>1, <3>2, <3>3
    <2>2. \A i \in 1..Len(fr) : fr[i] \in E
      BY <2>1 DEF Entry
    <2>3. Len(fr) \in Nat /\ fr \in [1..Len(fr) -> Entry]
      BY AvcFacts, LenProperties
    <2> HIDE DEF E, fr
    <2>4. fr \in [1..Len(fr) -> E]
      BY <2>2, <2>3
    <2> QED BY <2>3, <2>4, SeqDef
  <1>3. flow.inflight_bytes \in 0..(Uint32 - 1)
    <2>1. flow.inflight_bytes = Total(Bytes(fr), Len(fr))
      BY Zenon, AvcFacts DEF FlowSound, WindowSound
    <2>2. Len(fr) <= FRAME_FLOW_LIMIT + 1
      BY AvcFacts
    <2> DEFINE b == Total(Bytes(fr), Len(fr))
    <2>3. b \in Nat /\ b < Uint32
      BY Zenon, <2>2, AvcFacts, WindowBytes
    <2> HIDE DEF b
    <2>4. b \in 0..(Uint32 - 1)
      BY <2>3, FlowAssumption
    <2> QED BY Zenon, <2>1, <2>4 DEF b
  <1>4. {need_idr, stopping, ack_event, decodable, suspended_once,
         flow.suspended, flow.acked, flow.stale} \subseteq BOOLEAN
    <2>1. flow.suspended \in BOOLEAN /\ flow.acked \in BOOLEAN /\ flow.stale \in BOOLEAN
      BY AvcFacts DEF FlowSound, FlowType
    <2>2. FlagsTyped
      BY Zenon DEF AvcInv
    <2> QED BY Zenon, <2>1, <2>2 DEF FlagsTyped
  <1>5. received \subseteq 0..MaxUnits
    BY Zenon, <1>1, AvcFacts DEF Numbers
  <1>6. /\ pc \in {"read", "admit", "wait", "submit", "register", "exit"}
        /\ wait \in {"no", "waiting", "elapsed"} /\ units \in 0..MaxUnits
    BY Zenon, AvcFacts DEF ThreadPlace
  <1>7. next_frame_id \in 0..MaxUnits /\ Len(fr) <= FRAME_FLOW_LIMIT
    BY AvcFacts
  <1> QED
    BY Zenon, <1>2, <1>3, <1>4, <1>5, <1>6, <1>7 DEF AvcTypeOK

\* As many ids as entries, at most.
LEMMA FewIds ==
    ASSUME NEW f, f.frames \in Seq(Entry)
    PROVE  /\ IsFiniteSet(TrackedIds(f)) /\ Cardinality(TrackedIds(f)) \in Nat
           /\ Cardinality(TrackedIds(f)) <= Len(f.frames)
  <1> DEFINE n == Len(f.frames)
             T == TrackedIds(f)
             g == [i \in 1..n |-> f.frames[i].id]
  <1>1. n \in Nat /\ T = {f.frames[i].id : i \in 1..n}
    BY LenProperties, TrackedIdsByIndex
  <1>2. g \in Surjection(1..n, T)
    BY Zenon, <1>1 DEF Surjection
  <1> HIDE DEF g, T
  <1>3. IsFiniteSet(1..n) /\ Cardinality(1..n) = n
    <2> HIDE DEF n
    <2>1. 1 \in Int /\ n \in Int
      BY <1>1
    <2>2. IsFiniteSet(1..n) /\ Cardinality(1..n) = IF 1 > n THEN 0 ELSE n - 1 + 1
      BY Zenon, <2>1, FS_Interval
    <2> QED BY <1>1, <2>2
  <1>4. IsFiniteSet(T) /\ Cardinality(T) <= Cardinality(1..n)
    BY Zenon, <1>2, <1>3, FS_Surjection
  <1>5. Cardinality(T) \in Nat
    BY Zenon, <1>4, FS_CardinalityType
  <1> QED BY <1>3, <1>4, <1>5 DEF T

\* A frame the client has and has not acknowledged is in the window, or is the one
\* being registered, and there are never more of them than the limit: admission
\* leaves room that nobody but the same thread can use up.
THEOREM UnacknowledgedAlwaysTracked == Spec => []UnacknowledgedFramesTracked
  <1> SUFFICES ASSUME AvcInv, ~suspended_once PROVE UnacknowledgedFramesTracked
    BY AvcInvariant, PTL DEF UnacknowledgedFramesTracked
  <1> DEFINE T == TrackedIds(flow)
             n == Len(flow.frames)
             L == FRAME_FLOW_LIMIT
  <1>1. ~flow.suspended /\ received \subseteq T \cup Unregistered
    BY Zenon, AvcFacts DEF ReceivedTracked
  <1>2. /\ IsFiniteSet(T) /\ Cardinality(T) \in Nat /\ Cardinality(T) <= n
        /\ n \in Nat /\ L \in Nat /\ n <= L
    BY FewIds, AvcFacts
  <1> HIDE DEF T
  <1>3. Cardinality(received) <= L
    <2>1. CASE pc # "register"
      <3>1. received \in SUBSET T
        BY Zenon, <1>1, <2>1 DEF Unregistered
      <3>2. IsFiniteSet(received) /\ Cardinality(received) <= Cardinality(T)
        BY Zenon, <1>2, <3>1, FS_Subset
      <3>3. Cardinality(received) \in Nat
        BY Zenon, <3>2, FS_CardinalityType
      <3> QED BY <1>2, <3>2, <3>3
    <2>2. CASE pc = "register"
      <3> DEFINE x == next_frame_id - 1
                 U == T \cup {x}
      <3>1. n < L
        BY Zenon, <1>1, <2>2, AvcFacts DEF Admitted, Fits
      <3>2. received \in SUBSET U
        BY Zenon, <1>1, <2>2 DEF Unregistered
      <3> HIDE DEF x
      <3>3. /\ IsFiniteSet(U)
            /\ Cardinality(U) = IF x \in T THEN Cardinality(T) ELSE Cardinality(T) + 1
        BY <1>2, FS_AddElement
      <3> HIDE DEF U
      <3>4. IsFiniteSet(received) /\ Cardinality(received) <= Cardinality(U)
        BY Zenon, <3>2, <3>3, FS_Subset
      <3>5. Cardinality(received) \in Nat
        BY Zenon, <3>4, FS_CardinalityType
      <3> QED BY <1>2, <3>1, <3>3, <3>4, <3>5
    <2> QED BY <2>1, <2>2
  <1> QED
    BY Zenon, <1>1, <1>3 DEF UnacknowledgedFramesTracked, Unregistered, T

\* frame_flow's inflight_bytes is the sum over its window, in uint32_t arithmetic
\* and whatever the order of the acknowledgements.
THEOREM InflightBytesAlwaysExact == Spec => []InflightBytesExact
  <1> SUFFICES ASSUME AvcInv PROVE InflightBytesExact
    BY AvcInvariant, PTL
  <1>1. flow.inflight_bytes = Total(Bytes(flow.frames), Len(flow.frames))
    BY Zenon, AvcFacts DEF FlowSound, WindowSound
  <1> QED
    BY Zenon, <1>1, AvcFacts, TrackedBytesIsTotal DEF InflightBytesExact

\* Past the byte budget the window holds an IDR frame, or began with a frame that
\* is larger than the budget by itself.
THEOREM BudgetHolds == Spec => []BudgetExceededOnlyByIdr
  <1> SUFFICES ASSUME AvcInv, flow.inflight_bytes > FRAME_FLOW_MAX_INFLIGHT_BYTES,
                      ~ \E i \in DOMAIN flow.frames : flow.frames[i].idr
               PROVE  flow.frames[1].bytes > FRAME_FLOW_MAX_INFLIGHT_BYTES
    <2>1. AvcInv => BudgetExceededOnlyByIdr
      BY Zenon DEF BudgetExceededOnlyByIdr
    <2> QED BY <2>1, AvcInvariant, PTL
  <1> DEFINE fr == flow.frames
             n == Len(fr)
  <1>1. fr \in Seq(Entry) /\ n \in Nat /\ DOMAIN fr = 1..n
    BY AvcFacts, LenProperties
  <1>2. flow.inflight_bytes = Total(Bytes(fr), n) /\ BudgetKept(fr)
    BY Zenon, AvcFacts DEF FlowSound, WindowSound
  <1>3. Ordinary(fr) = Bytes(fr)
    BY <1>1 DEF Ordinary, Bytes
  <1>4. ~(Total(Ordinary(fr), n) <= FRAME_FLOW_MAX_INFLIGHT_BYTES)
    <2>1. flow.inflight_bytes = Total(Ordinary(fr), n)
      BY Zenon, <1>2, <1>3
    <2> HIDE DEF fr, n
    <2> QED BY <2>1, AvcFacts
  <1> QED
    BY Zenon, <1>2, <1>4 DEF BudgetKept
=============================================================================
