------------------------- MODULE BitmapOutputProofs -------------------------
(***************************************************************************)
(* Proofs about the readers of the device session (VideoReaders) and the   *)
(* output of decoded frames (BitmapOutput), for every number of attempts,  *)
(* every modulus of the generations and any number of clients, frames and  *)
(* failures.                                                               *)
(*                                                                         *)
(* The inductive invariant says at which of its places a reader holds a    *)
(* lease, that no two readers (the HTTP reader, the client's and one that  *)
(* outlived its client) hold one together, how many attempts               *)
(* the HTTP reader can have cost the bitmap reader by the time it has      *)
(* reached each of its own places, and in which order the frames lie in    *)
(* the output.                                                             *)
(***************************************************************************)
EXTENDS BitmapOutput, FiniteSetTheorems, TLAPS

(***************************************************************************)
(* The inductive invariant                                                 *)
(***************************************************************************)
GenerationRange == 0..(Generations - 1)

ReaderTypes ==
    /\ session \in [leased : BOOLEAN, generation : GenerationRange]
    /\ http \in [pc : {"top", "acquire", "start", "check", "read", "release", "done"},
                 lease : GenerationRange]
    /\ rdp \in [pc : {"signal", "try", "start", "reset", "read", "out", "exit"},
                attempt : Nat, lease : GenerationRange]
    /\ left \in [lease : GenerationRange, output : BOOLEAN]
    /\ failures \in Nat

FlagTypes ==
    /\ yield \in BOOLEAN /\ stopping \in BOOLEAN /\ rested \in BOOLEAN
    /\ client \in Modes \cup {"none"}
    /\ frame_id \in 0..MaxPublished

\* Who holds a lease, at which place.
LeasesHeld ==
    /\ http.lease # 0 <=> http.pc \in {"start", "check", "read", "release"}
    /\ rdp.pc \in {"signal", "try", "exit"} => rdp.lease = 0
    /\ rdp.pc \in {"start", "read"} => rdp.lease # 0
    /\ session.leased <=> http.lease # 0 \/ rdp.lease # 0 \/ left.lease # 0
    /\ http.lease = 0 \/ rdp.lease = 0
    /\ left.lease # 0 => http.lease = 0 /\ rdp.lease = 0
    /\ http.lease # 0 => http.lease = session.generation
    /\ rdp.lease # 0 => rdp.lease = session.generation
    /\ left.lease # 0 => left.lease = session.generation

\* The attempts an RDP reader has made.
AttemptsMade ==
    /\ rdp.attempt <= Attempts[Reader]
    /\ rdp.pc = "start" => rdp.attempt < Attempts[Reader]
    /\ client = "none" => rdp = NoReader

\* How many attempts the HTTP reader can have cost by the time it is where it is:
\* one at each place where it holds the lease, once it has moved there.
Moved == IF rested THEN 1 ELSE 0

Cost == CASE http.pc = "acquire" -> 0
          [] http.pc \in {"start", "read"} -> 1 - Moved
          [] http.pc = "check" -> 2 - Moved
          [] http.pc = "release" -> 3 - Moved
          [] OTHER -> 3

AttemptsBounded ==
    /\ rdp.pc \in {"try", "start", "reset"} => yield
    /\ Reader = "bitmap" /\ rdp.pc \in {"try", "start"} /\ rdp.attempt # 0 =>
         rdp.attempt <= failures + Cost
    /\ Reader = "bitmap" /\ rdp.pc = "reset" /\ rdp.lease = 0 =>
         stopping \/ Attempts["bitmap"] <= failures + 3

\* gateway_stop has joined the threads it has gone past.
StopOrder ==
    /\ gateway \in {"peer", "destroyed"} => http.pc = "done" /\ request = NoRequest
    /\ gateway = "destroyed" => client = "none"

ReadersInv == ReaderTypes /\ FlagTypes /\ LeasesHeld /\ AttemptsMade /\ StopOrder

\* Where the frames are.
FramesInOrder ==
    /\ decoded \in Nat /\ {pending, taken, shown} \subseteq 0..decoded
    /\ output \in {"none", "look", "flush", "send", "wait", "exit"}
    /\ paced \in BOOLEAN /\ blocked \in BOOLEAN
    /\ taken # 0 <=> output = "send"
    /\ output = "flush" => pending # 0
    /\ pending # 0 => pending = decoded /\ pending > taken /\ pending > shown
    /\ taken # 0 => taken > shown

BitmapInv == /\ ReadersInv /\ AttemptsBounded /\ SnapshotMatchesId /\ FramesInOrder

(***************************************************************************)
(* The HTTP reader                                                         *)
(***************************************************************************)
\* Zero is never handed out as a generation.
LEMMA GenerationNotZero ==
    ASSUME ReaderTypes
    PROVE  NextGeneration \in GenerationRange /\ NextGeneration # 0
  <1>1. /\ session.generation \in 0..(Generations - 1)
        /\ Generations \in Nat /\ Generations > 1
    BY ReadersAssumption DEF ReaderTypes, GenerationRange
  <1>2. (session.generation + 1) % Generations \in 0..(Generations - 1)
    BY <1>1
  <1> QED BY <1>1, <1>2 DEF NextGeneration, GenerationRange

\* What a step of the HTTP reader has in common with the others: where it goes
\* and what it holds there.
HttpGoes(p, l) ==
    /\ http' = [pc |-> p, lease |-> l]
    /\ rested' = (rdp.pc = "try")
    /\ UNCHANGED <<yield, rdp, clientVars, jpeg, request>>

\* The lease and the order of gateway_stop, for any step of the HTTP reader.
LEMMA HttpGoesKeeps ==
    ASSUME ReadersInv, SnapshotMatchesId,
           NEW p \in {"top", "acquire", "start", "check", "read", "release", "done"},
           NEW l \in GenerationRange, HttpGoes(p, l), http.pc # "done",
           l # 0 <=> p \in {"start", "check", "read", "release"},
           session' \in [leased : BOOLEAN, generation : GenerationRange],
           session'.leased <=> l # 0 \/ rdp.lease # 0 \/ left.lease # 0,
           l # 0 => l = session'.generation /\ rdp.lease = 0 /\ left.lease = 0,
           rdp.lease # 0 => rdp.lease = session'.generation,
           left.lease # 0 => left.lease = session'.generation,
           failures' \in Nat, frame_id' \in 0..MaxPublished
    PROVE  ReadersInv' /\ SnapshotMatchesId'
  <1>1. /\ http'.pc = p /\ http'.lease = l /\ rdp' = rdp /\ client' = client
        /\ gateway' = gateway /\ stopping' = stopping /\ yield' = yield /\ left' = left
        /\ jpeg' = jpeg /\ request' = request
        /\ http' \in [pc : {"top", "acquire", "start", "check", "read", "release", "done"},
                      lease : GenerationRange]
    BY DEF HttpGoes, clientVars
  <1>2. ReaderTypes'
    BY <1>1 DEF ReadersInv, ReaderTypes, GenerationRange
  <1>3. FlagTypes'
    <2>1. rested' \in BOOLEAN
      BY DEF HttpGoes
    <2> QED BY <1>1, <2>1 DEF ReadersInv, FlagTypes
  <1>4. LeasesHeld'
    BY <1>1 DEF ReadersInv, LeasesHeld
  <1>5. AttemptsMade'
    BY <1>1 DEF ReadersInv, AttemptsMade, Reader, NoReader
  <1>6. StopOrder'
    BY <1>1 DEF ReadersInv, StopOrder, NoRequest, Snapshot
  <1>7. SnapshotMatchesId'
    BY <1>1 DEF SnapshotMatchesId
  <1> QED
    BY <1>2, <1>3, <1>4, <1>5, <1>6, <1>7 DEF ReadersInv

\* What it may cost the bitmap reader: its cost grows by no more than its moves.
LEMMA HttpGoesBounded ==
    ASSUME ReadersInv, AttemptsBounded,
           NEW p \in {"top", "acquire", "start", "check", "read", "release", "done"},
           NEW l, HttpGoes(p, l), failures' \in Nat, failures' >= failures,
           yield => \/ http.pc = "top" /\ p = "done"
                    \/ http.pc = "acquire" /\ p \in {"start", "top"}
                    \/ http.pc = "start" /\ p \in {"check", "release"}
                    \/ http.pc = "check" /\ p = "release"
                    \/ http.pc = "read" /\ p \in {"check", "release"}
                    \/ http.pc = "release" /\ p = "top",
           rdp.pc = "start" => p \in {"top", "done"}
    PROVE  AttemptsBounded'
  <1>1. /\ http'.pc = p /\ rdp' = rdp /\ client' = client /\ stopping' = stopping
        /\ yield' = yield /\ Reader' = Reader
    BY DEF HttpGoes, clientVars, Reader
  <1>2. rdp.pc = "try" => rested' = TRUE
    BY Zenon DEF HttpGoes
  <1>3. rdp.attempt \in Nat /\ failures \in Nat
    BY DEF ReadersInv, ReaderTypes
  <1>4. rdp.pc \in {"try", "start"} => Cost <= Cost'
    <2> SUFFICES ASSUME rdp.pc \in {"try", "start"} PROVE Cost <= Cost'
      OBVIOUS
    <2>1. yield
      BY DEF AttemptsBounded
    <2>2. CASE p \in {"top", "done"}
      BY <1>1, <2>2 DEF Cost, Moved
    <2>3. CASE p \notin {"top", "done"}
      BY <1>1, <1>2, <2>1, <2>3 DEF Cost, Moved
    <2> QED BY <2>2, <2>3
  <1>5. Cost \in Nat /\ Cost' \in Nat
    BY DEF Cost, Moved
  <1>6. Attempts["bitmap"] \in Nat
    BY ReadersAssumption
  <1>7. (rdp.pc \in {"try", "start", "reset"} => yield)'
    BY <1>1 DEF AttemptsBounded
  <1>8. (Reader = "bitmap" /\ rdp.pc \in {"try", "start"} /\ rdp.attempt # 0 =>
           rdp.attempt <= failures + Cost)'
    BY <1>1, <1>3, <1>4, <1>5 DEF AttemptsBounded
  <1>9. (Reader = "bitmap" /\ rdp.pc = "reset" /\ rdp.lease = 0 =>
           stopping \/ Attempts["bitmap"] <= failures + 3)'
    BY <1>1, <1>3, <1>6 DEF AttemptsBounded
  <1> QED BY <1>7, <1>8, <1>9 DEF AttemptsBounded

\* Every step of the HTTP reader.
LEMMA HttpReaderKeeps ==
    ASSUME BitmapInv, HttpReader
    PROVE  ReadersInv' /\ AttemptsBounded' /\ SnapshotMatchesId'
  <1>1. ReadersInv /\ AttemptsBounded /\ SnapshotMatchesId
    BY DEF BitmapInv
  <1>2. /\ ReaderTypes /\ FlagTypes /\ LeasesHeld
    BY <1>1 DEF ReadersInv
  <1>3. /\ session \in [leased : BOOLEAN, generation : GenerationRange]
        /\ failures \in Nat /\ frame_id \in 0..MaxPublished
        /\ http.lease \in GenerationRange /\ 0 \in GenerationRange
    BY <1>2, ReadersAssumption DEF ReaderTypes, FlagTypes, GenerationRange
  <1>4. rdp.pc = "start" => http.pc \notin {"start", "check", "read", "release"}
    BY <1>2 DEF LeasesHeld
  <1>5. CASE http_begins
    <2> DEFINE p == IF stop_requested THEN "done" ELSE "acquire"
    <2>1. /\ http.pc = "top" /\ HttpGoes(p, 0) /\ p \in {"done", "acquire"}
          /\ yield => p = "done"
          /\ session' = session /\ failures' = failures /\ frame_id' = frame_id
      BY <1>5 DEF http_begins, Http, HttpGoes, snapshotVars
    <2> HIDE DEF p
    <2>2. rdp.pc = "start" => yield
      BY <1>1 DEF AttemptsBounded
    <2>3. ReadersInv' /\ SnapshotMatchesId'
      BY <1>1, <1>2, <1>3, <2>1, HttpGoesKeeps DEF LeasesHeld
    <2>4. AttemptsBounded'
      BY <1>1, <1>3, <2>1, <2>2, HttpGoesBounded
    <2> QED BY <2>3, <2>4
  <1>6. CASE http_acquires
    <2> DEFINE g == NextGeneration
    <2>1. g \in GenerationRange /\ g # 0
      BY <1>2, GenerationNotZero
    <2>2. /\ http.pc = "acquire" /\ session.leased = FALSE
          /\ session' = [leased |-> TRUE, generation |-> g]
          /\ HttpGoes("start", session'.generation)
          /\ failures' = failures /\ frame_id' = frame_id
      BY <1>3, <1>6
         DEF http_acquires, free_to_lease, device_session_acquire, Http, HttpGoes, snapshotVars
    <2> HIDE DEF g
    <2>3. /\ session' \in [leased : BOOLEAN, generation : GenerationRange]
          /\ session'.leased = TRUE /\ session'.generation = g
      BY <2>1, <2>2
    <2>4. rdp.lease = 0 /\ left.lease = 0 /\ rdp.pc # "start"
      BY <1>2, <2>2 DEF LeasesHeld
    <2>5. HttpGoes("start", g)
      BY <2>2, <2>3
    <2>6. ReadersInv' /\ SnapshotMatchesId'
      BY <1>1, <1>3, <2>1, <2>2, <2>3, <2>4, <2>5, HttpGoesKeeps
    <2>7. AttemptsBounded'
      BY <1>1, <1>3, <2>2, <2>4, <2>5, HttpGoesBounded
    <2> QED BY <2>6, <2>7
  <1>7. CASE http_gets_no_lease
    <2>1. /\ http.pc = "acquire" /\ HttpGoes("top", 0)
          /\ failures' \in {failures, failures + 1}
          /\ session' = session /\ frame_id' = frame_id
      BY <1>7 DEF http_gets_no_lease, Http, HttpGoes, Fails, snapshotVars
    <2>2. ReadersInv' /\ SnapshotMatchesId'
      BY <1>1, <1>2, <1>3, <2>1, HttpGoesKeeps DEF LeasesHeld
    <2>3. AttemptsBounded'
      BY <1>1, <1>3, <2>1, HttpGoesBounded
    <2> QED BY <2>2, <2>3
  <1>8. CASE http_starts_decoder \/ http_reads
    <2>1. PICK p \in {"check", "release"} :
            /\ http.pc \in {"start", "read"} /\ HttpGoes(p, http.lease)
            /\ failures' \in {failures, failures + 1}
            /\ frame_id' = frame_id \/ (frame_id < MaxPublished /\ frame_id' = frame_id + 1)
            /\ session' = session
      BY <1>8
         DEF http_starts_decoder, http_reads, http_api_publish_frame, Http, HttpGoes, Fails,
             snapshotVars
    <2>2. frame_id' \in 0..MaxPublished
      BY <1>3, <2>1, ReadersAssumption
    <2>3. ReadersInv' /\ SnapshotMatchesId'
      BY <1>1, <1>2, <1>3, <2>1, <2>2, HttpGoesKeeps DEF LeasesHeld
    <2>4. AttemptsBounded'
      BY <1>1, <1>3, <1>4, <2>1, HttpGoesBounded
    <2> QED BY <2>3, <2>4
  <1>9. CASE http_checks
    <2> DEFINE p == IF GivesWay THEN "release" ELSE "read"
    <2>1. /\ http.pc = "check" /\ HttpGoes(p, http.lease) /\ p \in {"release", "read"}
          /\ yield => p = "release"
          /\ session' = session /\ failures' = failures /\ frame_id' = frame_id
      BY <1>9 DEF http_checks, GivesWay, Http, HttpGoes, snapshotVars
    <2> HIDE DEF p
    <2>2. ReadersInv' /\ SnapshotMatchesId'
      BY <1>1, <1>2, <1>3, <2>1, HttpGoesKeeps DEF LeasesHeld
    <2>3. AttemptsBounded'
      BY <1>1, <1>3, <1>4, <2>1, HttpGoesBounded
    <2> QED BY <2>2, <2>3
  <1>10. CASE http_releases
    <2>1. /\ http.pc = "release" /\ HttpGoes("top", 0)
          /\ session' = [session EXCEPT !.leased = @ /\ session.generation # http.lease]
          /\ failures' = failures /\ frame_id' = frame_id
      BY <1>10 DEF http_releases, device_session_release, Http, HttpGoes, snapshotVars
    <2>2. /\ http.lease = session.generation /\ rdp.lease = 0 /\ left.lease = 0
      BY <1>2, <2>1 DEF LeasesHeld
    <2>3. /\ session' \in [leased : BOOLEAN, generation : GenerationRange]
          /\ ~session'.leased /\ session'.generation = session.generation
      BY Zenon, <1>3, <2>1, <2>2
    <2>4. ReadersInv' /\ SnapshotMatchesId'
      BY <1>1, <1>3, <2>1, <2>2, <2>3, HttpGoesKeeps
    <2>5. AttemptsBounded'
      BY <1>1, <1>3, <2>1, HttpGoesBounded
    <2> QED BY <2>4, <2>5
  <1> QED
    BY <1>5, <1>6, <1>7, <1>8, <1>9, <1>10 DEF HttpReader

(***************************************************************************)
(* The RDP reader                                                          *)
(***************************************************************************)
\* What a step of the RDP reader leaves alone.
RdpGoes(p, a, l) ==
    /\ rdp' = [pc |-> p, attempt |-> a, lease |-> l]
    /\ UNCHANGED <<http, client, left, gateway, clients, snapshotVars>>

\* The lease and the attempts, for any step of the RDP reader.
LEMMA RdpGoesKeeps ==
    ASSUME ReadersInv, SnapshotMatchesId,
           NEW p \in {"signal", "try", "start", "reset", "read", "out", "exit"},
           NEW a \in Nat, NEW l \in GenerationRange, RdpGoes(p, a, l), client # "none",
           p \in {"signal", "try", "exit"} => l = 0,
           p \in {"start", "read"} => l # 0,
           a <= Attempts[Reader], p = "start" => a < Attempts[Reader],
           session' \in [leased : BOOLEAN, generation : GenerationRange],
           session'.leased <=> http.lease # 0 \/ l # 0 \/ left.lease # 0,
           l # 0 => l = session'.generation /\ http.lease = 0 /\ left.lease = 0,
           http.lease # 0 => http.lease = session'.generation,
           left.lease # 0 => left.lease = session'.generation,
           failures' \in Nat, yield' \in BOOLEAN, stopping' \in BOOLEAN, rested' \in BOOLEAN
    PROVE  ReadersInv' /\ SnapshotMatchesId'
  <1>1. /\ rdp'.pc = p /\ rdp'.attempt = a /\ rdp'.lease = l /\ http' = http
        /\ client' = client /\ left' = left /\ gateway' = gateway /\ frame_id' = frame_id
        /\ jpeg' = jpeg /\ request' = request /\ Reader' = Reader
        /\ rdp' \in [pc : {"signal", "try", "start", "reset", "read", "out", "exit"},
                     attempt : Nat, lease : GenerationRange]
    BY DEF RdpGoes, snapshotVars, Reader
  <1>2. ReaderTypes'
    BY <1>1 DEF ReadersInv, ReaderTypes, GenerationRange
  <1>3. FlagTypes'
    BY <1>1 DEF ReadersInv, FlagTypes
  <1>4. LeasesHeld'
    BY <1>1 DEF ReadersInv, LeasesHeld
  <1>5. AttemptsMade'
    BY <1>1 DEF AttemptsMade
  <1>6. StopOrder'
    BY <1>1 DEF ReadersInv, StopOrder, NoRequest, Snapshot
  <1>7. SnapshotMatchesId'
    BY <1>1 DEF SnapshotMatchesId
  <1> QED
    BY <1>2, <1>3, <1>4, <1>5, <1>6, <1>7 DEF ReadersInv

\* A client is there as long as its reader is.
LEMMA ReaderHasClient ==
    ASSUME ReadersInv, rdp.pc # "exit"
    PROVE  client # "none"
  BY DEF ReadersInv, AttemptsMade, NoReader

\* The facts about the readers that each of the following steps uses.
LEMMA ReaderFacts ==
    ASSUME BitmapInv
    PROVE  /\ ReadersInv /\ AttemptsBounded /\ SnapshotMatchesId
           /\ ReaderTypes /\ FlagTypes /\ LeasesHeld /\ AttemptsMade
           /\ session \in [leased : BOOLEAN, generation : GenerationRange]
           /\ failures \in Nat /\ rdp.attempt \in Nat
           /\ rdp.lease \in GenerationRange /\ 0 \in GenerationRange
           /\ yield \in BOOLEAN /\ stopping \in BOOLEAN /\ rested \in BOOLEAN
           /\ Attempts[Reader] \in Nat \ {0} /\ Attempts["bitmap"] \in Nat
           /\ Cost \in Nat /\ Cost <= 3
  <1>1. /\ ReadersInv /\ AttemptsBounded /\ SnapshotMatchesId
        /\ ReaderTypes /\ FlagTypes /\ LeasesHeld /\ AttemptsMade
    BY DEF BitmapInv, ReadersInv
  <1>2. /\ session \in [leased : BOOLEAN, generation : GenerationRange]
        /\ failures \in Nat /\ rdp.attempt \in Nat
        /\ rdp.lease \in GenerationRange /\ 0 \in GenerationRange
    BY <1>1, ReadersAssumption DEF ReaderTypes, GenerationRange
  <1>3. yield \in BOOLEAN /\ stopping \in BOOLEAN /\ rested \in BOOLEAN
    BY <1>1 DEF FlagTypes
  <1>4. Attempts[Reader] \in Nat \ {0} /\ Attempts["bitmap"] \in Nat
    BY ReadersAssumption DEF Reader
  <1>5. Cost \in Nat /\ Cost <= 3
    BY DEF Cost, Moved
  <1> QED BY <1>1, <1>2, <1>3, <1>4, <1>5

\* The reader asks the HTTP reader to give way.
LEMMA RdpSignalsKeeps ==
    ASSUME BitmapInv, rdp_signals
    PROVE  ReadersInv' /\ AttemptsBounded' /\ SnapshotMatchesId'
  <1>1. /\ rdp.pc = "signal" /\ RdpGoes("try", 0, 0) /\ yield' = TRUE
        /\ UNCHANGED <<session, rested, stopping, failures>>
    BY DEF rdp_signals, Rdp, RdpGoes, clientVars
  <1>2. rdp.lease = 0 /\ client # "none"
    BY <1>1, ReaderFacts, ReaderHasClient DEF LeasesHeld
  <1>3. ReadersInv' /\ SnapshotMatchesId'
    BY <1>1, <1>2, ReaderFacts, RdpGoesKeeps DEF LeasesHeld
  <1>4. rdp'.pc = "try" /\ rdp'.attempt = 0
    BY <1>1 DEF RdpGoes
  <1>5. AttemptsBounded'
    BY <1>1, <1>4 DEF AttemptsBounded
  <1> QED BY <1>3, <1>5

\* The reader gets the lease.
LEMMA RdpAcquiresKeeps ==
    ASSUME BitmapInv, rdp_acquires
    PROVE  ReadersInv' /\ AttemptsBounded' /\ SnapshotMatchesId'
  <1> DEFINE p == IF Reader = "avc" THEN "reset" ELSE "start"
             g == NextGeneration
  <1>1. g \in GenerationRange /\ g # 0
    BY ReaderFacts, GenerationNotZero
  <1>2. /\ rdp.pc = "try" /\ rdp.attempt < Attempts[Reader] /\ session.leased = FALSE
        /\ session' = [leased |-> TRUE, generation |-> g]
        /\ RdpGoes(p, rdp.attempt, session'.generation) /\ rested' = FALSE
        /\ UNCHANGED <<yield, stopping, failures>>
    BY ReaderFacts
       DEF rdp_acquires, Trying, free_to_lease, device_session_acquire, Rdp, RdpGoes,
           clientVars
  <1>3. p \in {"reset", "start"} /\ (p = "reset" <=> Reader = "avc")
    OBVIOUS
  <1> HIDE DEF p, g
  <1>4. /\ session' \in [leased : BOOLEAN, generation : GenerationRange]
        /\ session'.leased = TRUE /\ session'.generation = g
    BY <1>1, <1>2
  <1>5. RdpGoes(p, rdp.attempt, g)
    BY <1>2, <1>4
  <1>6. http.lease = 0 /\ left.lease = 0 /\ client # "none" /\ yield
    BY <1>2, ReaderFacts, ReaderHasClient DEF LeasesHeld, AttemptsBounded
  <1>7. ReadersInv' /\ SnapshotMatchesId'
    <2>1. /\ ReadersInv /\ SnapshotMatchesId /\ rdp.attempt \in Nat
          /\ rdp.attempt <= Attempts[Reader] /\ failures' \in Nat
          /\ p \in {"signal", "try", "start", "reset", "read", "out", "exit"}
      BY <1>2, <1>3, ReaderFacts
    <2>2. yield' \in BOOLEAN /\ stopping' \in BOOLEAN /\ rested' \in BOOLEAN
      BY Zenon, <1>2, ReaderFacts
    <2> QED
      BY <1>1, <1>2, <1>3, <1>4, <1>5, <1>6, <2>1, <2>2, RdpGoesKeeps
  <1>8. /\ rdp'.pc = p /\ rdp'.attempt = rdp.attempt /\ rdp'.lease = g
        /\ http' = http /\ Reader' = Reader
    BY <1>5 DEF RdpGoes, Reader
  <1>9. Cost <= Cost'
    BY <1>2, <1>8 DEF Cost, Moved
  <1>10. AttemptsBounded'
    <2>1. Cost' \in Nat
      BY DEF Cost, Moved
    <2> QED
      BY <1>1, <1>2, <1>3, <1>6, <1>8, <1>9, <2>1, ReaderFacts DEF AttemptsBounded
  <1> QED BY <1>7, <1>10

\* An attempt fails: the HTTP reader has the lease and has moved since the last
\* attempt, or it is counted as a failure.
LEMMA RdpGetsNoLeaseKeeps ==
    ASSUME BitmapInv, rdp_gets_no_lease
    PROVE  ReadersInv' /\ AttemptsBounded' /\ SnapshotMatchesId'
  <1>1. /\ rdp.pc = "try" /\ rdp.attempt < Attempts[Reader]
        /\ RdpGoes("try", rdp.attempt + 1, 0) /\ rested' = FALSE
        /\ \/ Slept /\ session.leased /\ left.lease = 0 /\ failures' = failures
           \/ failures' = failures + 1
        /\ UNCHANGED <<session, yield, stopping>>
    BY DEF rdp_gets_no_lease, Trying, Fails, Rdp, RdpGoes, clientVars
  <1>2. rdp.lease = 0 /\ client # "none" /\ yield
    BY <1>1, ReaderFacts, ReaderHasClient DEF LeasesHeld, AttemptsBounded
  <1>3. ReadersInv' /\ SnapshotMatchesId'
    <2>1. /\ ReadersInv /\ SnapshotMatchesId /\ rdp.attempt + 1 \in Nat
          /\ rdp.attempt + 1 <= Attempts[Reader] /\ failures' \in Nat /\ 0 \in GenerationRange
      BY <1>1, ReaderFacts
    <2>2. yield' \in BOOLEAN /\ stopping' \in BOOLEAN /\ rested' \in BOOLEAN
      BY Zenon, <1>1, ReaderFacts
    <2>3. /\ session' \in [leased : BOOLEAN, generation : GenerationRange]
          /\ session'.leased <=> http.lease # 0 \/ left.lease # 0
          /\ http.lease # 0 => http.lease = session'.generation
          /\ left.lease # 0 => left.lease = session'.generation
      BY <1>1, <1>2, ReaderFacts DEF LeasesHeld
    <2> QED BY <1>1, <1>2, <2>1, <2>2, <2>3, RdpGoesKeeps
  <1>4. /\ rdp'.pc = "try" /\ rdp'.attempt = rdp.attempt + 1 /\ http' = http
        /\ Reader' = Reader
    BY <1>1 DEF RdpGoes, Reader
  <1>5. Reader = "bitmap" => rdp.attempt + 1 <= failures' + Cost'
    <2> SUFFICES ASSUME Reader = "bitmap" PROVE rdp.attempt + 1 <= failures' + Cost'
      OBVIOUS
    <2>1. Cost \in Nat /\ Cost' \in Nat /\ Cost <= Cost' /\ rested \in BOOLEAN
      BY <1>1, <1>4, ReaderFacts DEF Cost, Moved
    <2>2. rdp.attempt <= failures + Cost
      BY <1>1, <2>1, ReaderFacts DEF AttemptsBounded
    <2>3. CASE failures' = failures + 1
      BY <2>1, <2>2, <2>3, ReaderFacts
    <2>4. CASE Slept /\ session.leased /\ left.lease = 0 /\ failures' = failures
      <3>1. http.pc \in {"start", "check", "read", "release"}
        BY <1>2, <2>4, ReaderFacts DEF LeasesHeld
      <3>2. Cost' >= 1 /\ (rested => Cost + 1 <= Cost')
        BY <1>1, <1>4, <3>1 DEF Cost, Moved
      <3>3. rdp.attempt = 0 \/ rested
        BY <1>1, <2>4, <3>1 DEF Slept, HttpWaits
      <3> QED BY <1>1, <2>1, <2>2, <2>4, <3>2, <3>3, ReaderFacts
    <2> QED BY <1>1, <2>3, <2>4
  <1>6. AttemptsBounded'
    BY <1>1, <1>2, <1>4, <1>5 DEF AttemptsBounded
  <1> QED BY <1>3, <1>6

\* A decoder that does not start costs an attempt and gives the lease back.
LEMMA RdpStartsDecoderKeeps ==
    ASSUME BitmapInv, rdp_starts_decoder
    PROVE  ReadersInv' /\ AttemptsBounded' /\ SnapshotMatchesId'
  <1>1. /\ rdp.pc = "start" /\ UNCHANGED <<yield, http, rested, client, stopping>>
        /\ rdp.lease # 0 /\ client # "none" /\ rdp.attempt < Attempts[Reader] /\ yield
        /\ http.lease = 0 /\ left.lease = 0 /\ rdp.lease = session.generation
        /\ session.leased
    BY ReaderFacts, ReaderHasClient
       DEF rdp_starts_decoder, clientVars, LeasesHeld, AttemptsBounded, AttemptsMade
  <1>2. yield' \in BOOLEAN /\ stopping' \in BOOLEAN /\ rested' \in BOOLEAN
    BY <1>1, ReaderFacts
  <1>3. /\ ReadersInv /\ SnapshotMatchesId /\ rdp.attempt \in Nat /\ 0 \in GenerationRange
        /\ failures \in Nat /\ Attempts[Reader] \in Nat /\ rdp.lease \in GenerationRange
        /\ session \in [leased : BOOLEAN, generation : GenerationRange]
    BY ReaderFacts
  <1>4. CASE Rdp("reset", rdp.attempt, rdp.lease) /\ UNCHANGED <<session, failures>>
    <2>1. RdpGoes("reset", rdp.attempt, rdp.lease)
      BY <1>4 DEF rdp_starts_decoder, RdpGoes, Rdp, clientVars
    <2>2. ReadersInv' /\ SnapshotMatchesId'
      BY <1>1, <1>2, <1>3, <1>4, <2>1, RdpGoesKeeps
    <2>3. rdp'.pc = "reset" /\ rdp'.lease # 0
      BY <1>1, <2>1 DEF RdpGoes
    <2>4. AttemptsBounded'
      BY <1>1, <2>3 DEF AttemptsBounded
    <2> QED BY <2>2, <2>4
  <1>5. CASE /\ device_session_release(rdp.lease) /\ Rdp("try", rdp.attempt + 1, 0) /\ Fails
    <2>1. RdpGoes("try", rdp.attempt + 1, 0) /\ failures' = failures + 1
      BY <1>5 DEF rdp_starts_decoder, RdpGoes, Rdp, clientVars, Fails
    <2>2. session' = [session EXCEPT !.leased = @ /\ session.generation # rdp.lease]
      BY <1>5 DEF device_session_release
    <2>3. /\ session' \in [leased : BOOLEAN, generation : GenerationRange]
          /\ ~session'.leased
      BY Zenon, <1>1, <1>3, <2>2
    <2>4. rdp.attempt + 1 \in Nat /\ rdp.attempt + 1 <= Attempts[Reader] /\ failures' \in Nat
      BY <1>1, <1>3, <2>1
    <2>5. ReadersInv' /\ SnapshotMatchesId'
      BY <1>1, <1>2, <1>3, <2>1, <2>3, <2>4, RdpGoesKeeps
    <2>6. rdp'.pc = "try" /\ rdp'.attempt = rdp.attempt + 1 /\ http' = http /\ Reader' = Reader
      BY <1>1, <2>1 DEF RdpGoes, Reader
    <2>7. Cost' = Cost /\ Cost \in Nat
      BY <1>1, <2>6 DEF Cost, Moved
    <2>8. Reader = "bitmap" => rdp.attempt <= failures + Cost
      BY <1>1, <1>3, <2>7, ReaderFacts DEF AttemptsBounded
    <2>9. AttemptsBounded'
      BY <1>1, <1>3, <2>1, <2>6, <2>7, <2>8 DEF AttemptsBounded
    <2> QED BY <2>5, <2>9
  <1> QED
    BY <1>4, <1>5 DEF rdp_starts_decoder

\* The attempts end without a lease: the client stops, or they are used up.
LEMMA RdpEndsAttemptsKeeps ==
    ASSUME BitmapInv, rdp_ends_attempts
    PROVE  ReadersInv' /\ AttemptsBounded' /\ SnapshotMatchesId'
  <1>1. /\ rdp.pc = "try" /\ RdpGoes("reset", rdp.attempt, 0)
        /\ stopping \/ rdp.attempt = Attempts[Reader]
        /\ UNCHANGED <<session, yield, rested, stopping, failures, client, http>>
    BY DEF rdp_ends_attempts, Rdp, RdpGoes, clientVars
  <1>2. rdp.lease = 0 /\ client # "none" /\ yield
    BY <1>1, ReaderFacts, ReaderHasClient DEF LeasesHeld, AttemptsBounded
  <1>3. ReadersInv' /\ SnapshotMatchesId'
    <2>1. /\ ReadersInv /\ SnapshotMatchesId /\ rdp.attempt \in Nat
          /\ rdp.attempt <= Attempts[Reader] /\ failures' \in Nat /\ 0 \in GenerationRange
      BY <1>1, ReaderFacts DEF AttemptsMade
    <2>2. yield' \in BOOLEAN /\ stopping' \in BOOLEAN /\ rested' \in BOOLEAN
      BY <1>1, ReaderFacts
    <2>3. /\ session' \in [leased : BOOLEAN, generation : GenerationRange]
          /\ session'.leased <=> http.lease # 0 \/ left.lease # 0
          /\ http.lease # 0 => http.lease = session'.generation
          /\ left.lease # 0 => left.lease = session'.generation
      BY <1>1, <1>2, ReaderFacts DEF LeasesHeld
    <2> QED BY <1>1, <1>2, <2>1, <2>2, <2>3, RdpGoesKeeps
  <1>4. rdp'.pc = "reset" /\ Reader' = Reader
    BY <1>1 DEF RdpGoes, Reader
  <1>5. Reader = "bitmap" => stopping \/ Attempts["bitmap"] <= failures + 3
    <2> SUFFICES ASSUME Reader = "bitmap", ~stopping PROVE Attempts["bitmap"] <= failures + 3
      OBVIOUS
    <2>1. rdp.attempt = Attempts["bitmap"] /\ rdp.attempt # 0
      BY <1>1, ReaderFacts
    <2>2. rdp.attempt <= failures + Cost
      BY <1>1, <2>1, ReaderFacts DEF AttemptsBounded
    <2> QED BY <2>1, <2>2, ReaderFacts
  <1>6. AttemptsBounded'
    BY <1>1, <1>2, <1>4, <1>5 DEF AttemptsBounded
  <1> QED BY <1>3, <1>6

\* The reader resets the event; without a lease it stops the client.
LEMMA RdpResetsKeeps ==
    ASSUME BitmapInv, rdp_resets
    PROVE  ReadersInv' /\ AttemptsBounded' /\ SnapshotMatchesId'
  <1> DEFINE p == IF rdp.lease = 0 THEN "out" ELSE "read"
             s == stopping \/ rdp.lease = 0
  <1>1. /\ rdp.pc = "reset" /\ RdpGoes(p, 0, rdp.lease)
        /\ yield' = FALSE /\ stopping' = s
        /\ UNCHANGED <<session, rested, failures>>
    BY DEF rdp_resets, YieldAfterAttempts, Rdp, RdpGoes, clientVars
  <1>2. p \in {"out", "read"} /\ (p = "read" => rdp.lease # 0)
    OBVIOUS
  <1>3. s \in BOOLEAN
    BY ReaderFacts
  <1> HIDE DEF p, s
  <1>4. ReadersInv' /\ SnapshotMatchesId'
    <2>1. /\ ReadersInv /\ SnapshotMatchesId /\ 0 \in Nat
          /\ 0 <= Attempts[Reader] /\ failures' \in Nat
          /\ rdp.lease \in GenerationRange /\ client # "none"
      BY <1>1, ReaderFacts, ReaderHasClient DEF AttemptsMade
    <2>2. yield' \in BOOLEAN /\ stopping' \in BOOLEAN /\ rested' \in BOOLEAN
      BY Zenon, <1>1, <1>3, ReaderFacts
    <2>3. /\ session' \in [leased : BOOLEAN, generation : GenerationRange]
          /\ session'.leased <=> http.lease # 0 \/ rdp.lease # 0 \/ left.lease # 0
          /\ http.lease # 0 => http.lease = session'.generation
          /\ left.lease # 0 => left.lease = session'.generation
          /\ rdp.lease # 0 =>
               rdp.lease = session'.generation /\ http.lease = 0 /\ left.lease = 0
      BY <1>1, ReaderFacts DEF LeasesHeld
    <2> QED BY <1>1, <1>2, <2>1, <2>2, <2>3, RdpGoesKeeps
  <1>5. rdp'.pc \in {"out", "read"}
    BY <1>1, <1>2 DEF RdpGoes
  <1>6. AttemptsBounded'
    BY <1>5 DEF AttemptsBounded
  <1> QED BY <1>4, <1>6

\* The reader leaves its loop, because a read fails or because the client stops.
LEMMA RdpLeavesLoopKeeps ==
    ASSUME BitmapInv, rdp_read_fails \/ rdp_stops_reading
    PROVE  ReadersInv' /\ AttemptsBounded' /\ SnapshotMatchesId'
  <1>1. /\ rdp.pc = "read" /\ RdpGoes("out", 0, rdp.lease)
        /\ UNCHANGED <<session, yield, rested>>
        /\ failures' \in {failures, failures + 1}
    BY DEF rdp_read_fails, rdp_stops_reading, Fails, Rdp, RdpGoes, clientVars
  <1>2. stopping' \in {TRUE, stopping}
    BY Zenon DEF rdp_read_fails, rdp_stops_reading, clientVars
  <1>3. ReadersInv' /\ SnapshotMatchesId'
    <2>1. /\ ReadersInv /\ SnapshotMatchesId /\ 0 \in Nat
          /\ 0 <= Attempts[Reader] /\ failures' \in Nat
          /\ rdp.lease \in GenerationRange /\ client # "none"
      BY <1>1, ReaderFacts, ReaderHasClient DEF AttemptsMade
    <2>2. yield' \in BOOLEAN /\ stopping' \in BOOLEAN /\ rested' \in BOOLEAN
      BY Zenon, <1>1, <1>2, ReaderFacts
    <2>3. /\ session' \in [leased : BOOLEAN, generation : GenerationRange]
          /\ session'.leased <=> http.lease # 0 \/ rdp.lease # 0 \/ left.lease # 0
          /\ http.lease # 0 => http.lease = session'.generation
          /\ left.lease # 0 => left.lease = session'.generation
          /\ rdp.lease # 0 =>
               rdp.lease = session'.generation /\ http.lease = 0 /\ left.lease = 0
      BY <1>1, ReaderFacts DEF LeasesHeld
    <2> QED BY <1>1, <2>1, <2>2, <2>3, RdpGoesKeeps
  <1>4. rdp'.pc = "out"
    BY <1>1 DEF RdpGoes
  <1>5. AttemptsBounded'
    BY <1>4 DEF AttemptsBounded
  <1> QED BY <1>3, <1>5

\* The reader ends; it gives back the lease it has, and no other.
LEMMA RdpReleasesKeeps ==
    ASSUME BitmapInv, rdp_releases
    PROVE  ReadersInv' /\ AttemptsBounded' /\ SnapshotMatchesId'
  <1>1. /\ rdp.pc = "out" /\ RdpGoes("exit", 0, 0)
        /\ session' = [session EXCEPT !.leased = @ /\ session.generation # rdp.lease]
        /\ UNCHANGED <<yield, rested, failures, stopping>>
    BY DEF rdp_releases, device_session_release, NoReader, RdpGoes, clientVars
  <1>2. ReadersInv' /\ SnapshotMatchesId'
    <2>1. /\ ReadersInv /\ SnapshotMatchesId /\ 0 \in Nat
          /\ 0 <= Attempts[Reader] /\ failures' \in Nat
          /\ 0 \in GenerationRange /\ client # "none"
      BY <1>1, ReaderFacts, ReaderHasClient DEF AttemptsMade
    <2>2. yield' \in BOOLEAN /\ stopping' \in BOOLEAN /\ rested' \in BOOLEAN
      BY <1>1, ReaderFacts
    <2>3. /\ session' \in [leased : BOOLEAN, generation : GenerationRange]
          /\ session'.generation = session.generation
          /\ session'.leased <=> session.leased /\ session.generation # rdp.lease
      BY Zenon, <1>1, ReaderFacts
    <2>4. /\ http.lease # 0 => http.lease = session.generation
          /\ left.lease # 0 => left.lease = session.generation
      BY ReaderFacts DEF LeasesHeld
    <2>5. session'.leased <=> http.lease # 0 \/ left.lease # 0
      BY <2>3, ReaderFacts DEF LeasesHeld
    <2> QED BY <1>1, <2>1, <2>2, <2>3, <2>4, <2>5, RdpGoesKeeps
  <1>3. rdp'.pc = "exit"
    BY <1>1 DEF RdpGoes
  <1>4. AttemptsBounded'
    BY <1>3 DEF AttemptsBounded
  <1> QED BY <1>2, <1>4

\* Every step of the RDP reader.
LEMMA RdpReaderKeeps ==
    ASSUME BitmapInv, RdpReader
    PROVE  ReadersInv' /\ AttemptsBounded' /\ SnapshotMatchesId'
  BY RdpSignalsKeeps, RdpAcquiresKeeps, RdpGetsNoLeaseKeeps, RdpStartsDecoderKeeps,
     RdpEndsAttemptsKeeps, RdpResetsKeeps, RdpLeavesLoopKeeps, RdpReleasesKeeps
     DEF RdpReader

(***************************************************************************)
(* Snapshots, the client and gateway_stop                                  *)
(***************************************************************************)
\* A snapshot keeps the number its frame had when it was cloned.
LEMMA SnapshotsKeep ==
    ASSUME BitmapInv, Snapshots
    PROVE  ReadersInv' /\ AttemptsBounded' /\ SnapshotMatchesId'
  <1>1. /\ UNCHANGED <<session, yield, http, rdp, rested, client, stopping, left, gateway,
                       frame_id>>
        /\ failures' \in {failures, failures + 1}
        /\ gateway = "running" \/ request # NoRequest
        /\ jpeg' \in {jpeg, request} /\ request' \in {NoRequest, Snapshot(frame_id, frame_id)}
    BY DEF Snapshots, get_snapshot, snapshot_encoded, snapshot_fails, Cached, clientVars, Fails
  <1>2. SnapshotMatchesId'
    BY <1>1, ReaderFacts DEF SnapshotMatchesId, NoRequest, Snapshot
  <1>3. ReaderTypes' /\ LeasesHeld' /\ AttemptsMade'
    BY <1>1, ReaderFacts DEF ReaderTypes, LeasesHeld, AttemptsMade, Reader
  <1>4. FlagTypes'
    BY <1>1, ReaderFacts DEF FlagTypes
  <1>5. StopOrder'
    BY <1>1, ReaderFacts DEF ReadersInv, StopOrder
  <1>6. AttemptsBounded'
    <2>1. Cost' = Cost /\ Cost \in Nat /\ Reader' = Reader
      BY <1>1 DEF Cost, Moved, Reader
    <2> QED BY <1>1, <2>1, ReaderFacts DEF AttemptsBounded
  <1> QED
    BY <1>2, <1>3, <1>4, <1>5, <1>6 DEF ReadersInv

\* gateway_stop goes on when the threads it waits for have ended.
LEMMA GatewayStopKeeps ==
    ASSUME BitmapInv, gateway_stop
    PROVE  ReadersInv' /\ AttemptsBounded' /\ SnapshotMatchesId'
  <1>1. /\ UNCHANGED <<session, yield, http, rdp, rested, client, stopping, left, frame_id, jpeg,
                       request, failures>>
        /\ \/ gateway' \in {"http", "leaked"}
           \/ gateway' = "peer" /\ HttpJoined
           \/ gateway' = "destroyed" /\ client = "none" /\ gateway = "peer"
    BY DEF gateway_stop, snapshotVars
  <1>2. SnapshotMatchesId'
    BY <1>1, ReaderFacts DEF SnapshotMatchesId
  <1>3. ReaderTypes' /\ LeasesHeld' /\ AttemptsMade'
    BY <1>1, ReaderFacts DEF ReaderTypes, LeasesHeld, AttemptsMade, Reader
  <1>4. FlagTypes'
    BY <1>1, ReaderFacts DEF FlagTypes
  <1>5. StopOrder'
    BY <1>1, ReaderFacts DEF ReadersInv, StopOrder, HttpJoined
  <1>6. AttemptsBounded'
    <2>1. Cost' = Cost /\ Reader' = Reader
      BY <1>1 DEF Cost, Moved, Reader
    <2> QED BY <1>1, <2>1, ReaderFacts DEF AttemptsBounded
  <1> QED
    BY <1>2, <1>3, <1>4, <1>5, <1>6 DEF ReadersInv

\* A step that changes at most the stop flag of the client, and the failures.
LEMMA StoppingKeeps ==
    ASSUME BitmapInv, stopping' \in {TRUE, stopping}, failures' \in {failures, failures + 1},
           UNCHANGED <<session, yield, http, rdp, rested, client, left, gateway, snapshotVars>>
    PROVE  ReadersInv' /\ AttemptsBounded' /\ SnapshotMatchesId'
  <1>1. UNCHANGED <<frame_id, jpeg, request>>
    BY DEF snapshotVars
  <1>2. SnapshotMatchesId'
    BY <1>1, ReaderFacts DEF SnapshotMatchesId
  <1>3. ReaderTypes' /\ LeasesHeld' /\ AttemptsMade'
    BY ReaderFacts DEF ReaderTypes, LeasesHeld, AttemptsMade, Reader
  <1>4. FlagTypes'
    BY Zenon, <1>1, ReaderFacts DEF FlagTypes
  <1>5. StopOrder'
    BY <1>1, ReaderFacts DEF ReadersInv, StopOrder
  <1>6. AttemptsBounded'
    <2>1. Cost' = Cost /\ Cost \in Nat /\ Reader' = Reader
      BY DEF Cost, Moved, Reader
    <2>2. failures' \in Nat /\ failures <= failures'
      BY ReaderFacts
    <2>3. (Reader = "bitmap" /\ rdp.pc = "reset" /\ rdp.lease = 0 =>
             stopping \/ Attempts["bitmap"] <= failures + 3)'
      <3>1. stopping => stopping'
        BY Zenon, ReaderFacts
      <3>2. Reader = "bitmap" /\ rdp.pc = "reset" /\ rdp.lease = 0 =>
              stopping \/ Attempts["bitmap"] <= failures + 3
        BY ReaderFacts DEF AttemptsBounded
      <3>3. failures \in Nat /\ Attempts["bitmap"] \in Nat
        BY ReaderFacts
      <3> QED BY <2>1, <2>2, <3>1, <3>2, <3>3
    <2>4. (Reader = "bitmap" /\ rdp.pc \in {"try", "start"} /\ rdp.attempt # 0 =>
             rdp.attempt <= failures + Cost)'
      BY <2>1, <2>2, ReaderFacts DEF AttemptsBounded
    <2>5. (rdp.pc \in {"try", "start", "reset"} => yield)'
      BY ReaderFacts DEF AttemptsBounded
    <2> QED BY <2>3, <2>4, <2>5 DEF AttemptsBounded
  <1> QED
    BY <1>2, <1>3, <1>4, <1>5, <1>6 DEF ReadersInv

\* A client starts when the reader of the one before has ended.
LEMMA ClientStartsKeeps ==
    ASSUME BitmapInv, NEW mode \in Modes, client_starts(mode)
    PROVE  ReadersInv' /\ AttemptsBounded' /\ SnapshotMatchesId'
  <1>1. /\ client = "none" /\ client' = mode /\ stopping' = FALSE /\ gateway = "running"
        /\ rdp' = [pc |-> "signal", attempt |-> 0, lease |-> 0]
        /\ UNCHANGED <<session, yield, http, rested, left, gateway, frame_id, jpeg, request,
                       failures>>
    BY DEF client_starts, Rdp, snapshotVars
  <1>2. rdp.lease = 0 /\ Attempts[Reader'] \in Nat \ {0}
    BY <1>1, ReaderFacts, ReadersAssumption DEF AttemptsMade, NoReader, Reader
  <1>3. SnapshotMatchesId'
    BY <1>1, ReaderFacts DEF SnapshotMatchesId
  <1>4. ReaderTypes'
    BY <1>1, ReaderFacts DEF ReaderTypes
  <1>5. LeasesHeld'
    BY <1>1, <1>2, ReaderFacts DEF LeasesHeld
  <1>6. AttemptsMade'
    <2>1. rdp'.attempt = 0 /\ rdp'.pc = "signal" /\ mode # "none"
      BY <1>1, ReadersAssumption
    <2> QED BY <1>1, <1>2, <2>1 DEF AttemptsMade
  <1>7. FlagTypes'
    BY Zenon, <1>1, ReaderFacts DEF FlagTypes
  <1>8. StopOrder'
    BY <1>1, ReaderFacts DEF ReadersInv, StopOrder
  <1>9. AttemptsBounded'
    BY <1>1 DEF AttemptsBounded
  <1> QED
    BY <1>3, <1>4, <1>5, <1>6, <1>7, <1>8, <1>9 DEF ReadersInv

\* A client is freed when its reader has ended, or the lease of the reader is now
\* that of a thread that was left running.
LEMMA ClientFreeKeeps ==
    ASSUME BitmapInv, NEW runs \in BOOLEAN, client_context_free(runs)
    PROVE  ReadersInv' /\ AttemptsBounded' /\ SnapshotMatchesId'
  <1> DEFINE l == IF rdp.lease = 0 THEN left.lease ELSE rdp.lease
             o == left.output \/ runs
  <1>1. /\ client' = "none" /\ stopping' = FALSE /\ left' = [lease |-> l, output |-> o]
        /\ rdp' = [pc |-> "exit", attempt |-> 0, lease |-> 0]
        /\ failures' \in {failures, failures + 1}
        /\ UNCHANGED <<session, yield, http, rested, gateway, frame_id, jpeg, request>>
    BY DEF client_context_free, StillRunning, NoReader, Fails, snapshotVars
  <1>2. o \in BOOLEAN
    BY Zenon
  <1>3. /\ l \in GenerationRange
        /\ l # 0 <=> rdp.lease # 0 \/ left.lease # 0
        /\ l # 0 => l = session.generation /\ http.lease = 0
    BY ReaderFacts DEF ReaderTypes, LeasesHeld
  <1> HIDE DEF l, o
  <1>4. /\ rdp'.attempt = 0 /\ rdp'.pc = "exit" /\ rdp'.lease = 0 /\ left'.lease = l
        /\ left' \in [lease : GenerationRange, output : BOOLEAN]
        /\ Attempts[Reader'] \in Nat \ {0}
    BY <1>1, <1>2, <1>3, ReadersAssumption DEF Reader
  <1>5. SnapshotMatchesId'
    BY <1>1, ReaderFacts DEF SnapshotMatchesId
  <1>6. ReaderTypes'
    BY <1>1, <1>4, ReaderFacts DEF ReaderTypes
  <1>7. LeasesHeld'
    BY <1>1, <1>3, <1>4, ReaderFacts DEF LeasesHeld
  <1>8. AttemptsMade'
    BY <1>1, <1>4 DEF AttemptsMade, NoReader
  <1>9. FlagTypes'
    BY Zenon, <1>1, ReaderFacts DEF FlagTypes
  <1>10. StopOrder'
    BY <1>1, ReaderFacts DEF ReadersInv, StopOrder
  <1>11. AttemptsBounded'
    BY <1>4 DEF AttemptsBounded
  <1> QED
    BY <1>5, <1>6, <1>7, <1>8, <1>9, <1>10, <1>11 DEF ReadersInv

\* A thread that was left running ends and gives back the lease it has, or the
\* process ends.
LEMMA LeftThreadKeeps ==
    ASSUME BitmapInv, left_thread_returns
    PROVE  ReadersInv' /\ AttemptsBounded' /\ SnapshotMatchesId'
  <1>1. /\ UNCHANGED <<yield, http, rdp, rested, client, stopping, frame_id, jpeg, request,
                       failures>>
        /\ gateway' \in {gateway, "crashed"}
    BY DEF left_thread_returns, snapshotVars
  <1>2. left \in [lease : GenerationRange, output : BOOLEAN]
    BY ReaderFacts DEF ReaderTypes
  <1>3. /\ left' \in [lease : GenerationRange, output : BOOLEAN]
        /\ session' \in [leased : BOOLEAN, generation : GenerationRange]
        /\ session'.generation = session.generation
        /\ \/ left'.lease = left.lease /\ session'.leased = session.leased
           \/ left.lease # 0 /\ left'.lease = 0 /\ ~session'.leased
    <2>1. CASE /\ left.lease # 0
               /\ device_session_release(left.lease)
               /\ left' = [left EXCEPT !.lease = 0]
      <3>1. left.lease = session.generation
        BY <2>1, ReaderFacts DEF LeasesHeld
      <3>2. /\ session' \in [leased : BOOLEAN, generation : GenerationRange]
            /\ session'.generation = session.generation /\ ~session'.leased
        BY Zenon, <2>1, <3>1, ReaderFacts DEF device_session_release
      <3>3. left' \in [lease : GenerationRange, output : BOOLEAN] /\ left'.lease = 0
        BY <1>2, <2>1, ReaderFacts
      <3> QED BY <2>1, <3>2, <3>3
    <2>2. CASE left' = [left EXCEPT !.output = FALSE] /\ session' = session
      <3>1. left' \in [lease : GenerationRange, output : BOOLEAN] /\ left'.lease = left.lease
        BY Zenon, <1>2, <2>2
      <3> QED BY <2>2, <3>1, ReaderFacts
    <2>3. CASE left' = left /\ session' = session
      BY <1>2, <2>3, ReaderFacts
    <2> QED BY <2>1, <2>2, <2>3 DEF left_thread_returns
  <1>4. SnapshotMatchesId'
    BY <1>1, ReaderFacts DEF SnapshotMatchesId
  <1>5. ReaderTypes'
    BY <1>1, <1>3, ReaderFacts DEF ReaderTypes
  <1>6. LeasesHeld'
    BY <1>1, <1>3, ReaderFacts DEF LeasesHeld
  <1>7. AttemptsMade'
    BY <1>1, ReaderFacts DEF AttemptsMade, Reader, NoReader
  <1>8. FlagTypes'
    BY <1>1, ReaderFacts DEF FlagTypes
  <1>9. StopOrder'
    BY <1>1, ReaderFacts DEF ReadersInv, StopOrder, NoRequest, Snapshot
  <1>10. AttemptsBounded'
    <2>1. Cost' = Cost /\ Reader' = Reader
      BY <1>1 DEF Cost, Moved, Reader
    <2> QED BY <1>1, <2>1, ReaderFacts DEF AttemptsBounded
  <1> QED
    BY <1>4, <1>5, <1>6, <1>7, <1>8, <1>9, <1>10 DEF ReadersInv

(***************************************************************************)
(* The output of decoded frames                                            *)
(***************************************************************************)
\* A client starts and ends with no frame anywhere.
LEMMA NoFrames ==
    ASSUME decoded' = 0, pending' = 0, taken' = 0, shown' = 0, paced' = TRUE,
           blocked' = FALSE, output' \in {"none", "look"}
    PROVE  FramesInOrder'
  <1>1. /\ decoded' \in Nat /\ {pending, taken, shown}' \subseteq 0..decoded'
        /\ output' \in {"none", "look", "flush", "send", "wait", "exit"}
        /\ output' \notin {"send", "flush"} /\ taken' = 0 /\ pending' = 0
    OBVIOUS
  <1>2. paced' \in BOOLEAN /\ blocked' \in BOOLEAN
    BY Zenon
  <1> QED BY <1>1, <1>2 DEF FramesInOrder

\* A decoded frame is newer than any the client has been sent or is being sent.
LEMMA DecodedKeepsOrder ==
    ASSUME FramesInOrder, on_decoded_frame
    PROVE  FramesInOrder'
  <1>1. /\ decoded' = decoded + 1 /\ pending' = decoded + 1
        /\ UNCHANGED <<output, taken, paced, blocked, shown>>
    BY DEF on_decoded_frame
  <1>2. /\ decoded \in Nat /\ taken \in 0..decoded /\ shown \in 0..decoded
    BY DEF FramesInOrder
  <1>3. decoded' \in Nat /\ {pending, taken, shown}' \subseteq 0..decoded'
    BY <1>1, <1>2
  <1>4. (pending # 0 => pending = decoded /\ pending > taken /\ pending > shown)'
    BY <1>1, <1>2
  <1>5. (taken # 0 => taken > shown)'
    BY <1>1 DEF FramesInOrder
  <1> QED
    BY <1>1, <1>3, <1>4, <1>5 DEF FramesInOrder

\* The output thread takes a frame when it sends it, and sends it once.
LEMMA OutputKeepsOrder ==
    ASSUME FramesInOrder, OutputThread
    PROVE  FramesInOrder'
  <1>1. /\ decoded \in Nat /\ pending \in 0..decoded /\ taken \in 0..decoded
        /\ shown \in 0..decoded
        /\ taken # 0 <=> output = "send"
        /\ output = "flush" => pending # 0
        /\ pending # 0 => pending = decoded /\ pending > taken /\ pending > shown
        /\ taken # 0 => taken > shown
    BY DEF FramesInOrder
  <1>2. paced \in BOOLEAN /\ blocked \in BOOLEAN
    BY DEF FramesInOrder
  <1>3. SUFFICES /\ decoded' = decoded /\ paced' \in BOOLEAN /\ blocked' = blocked
                 /\ {pending, taken, shown}' \subseteq 0..decoded
                 /\ output' \in {"look", "flush", "send", "wait", "exit"}
                 /\ taken' # 0 <=> output' = "send"
                 /\ output' = "flush" => pending' # 0
                 /\ pending' # 0 => pending' = decoded /\ pending' > taken' /\ pending' > shown'
                 /\ taken' # 0 => taken' > shown'
    BY <1>1, <1>2 DEF FramesInOrder
  <1>4. CASE output_looks
    <2>1. /\ output = "look" /\ output' \in {"exit", "flush", "wait"}
          /\ output' = "flush" => pending # 0
          /\ UNCHANGED <<decoded, pending, taken, paced, blocked, shown>>
      BY <1>4 DEF output_looks, Due
    <2> QED BY <1>1, <1>2, <2>1
  <1>5. CASE client_flush_pending_bitmap
    <2>1. /\ output = "flush" /\ UNCHANGED <<decoded, blocked, shown>>
          /\ \/ pending' = 0 /\ taken' = pending /\ output' = "send"
             \/ pending' = pending /\ taken' = taken /\ output' = "wait"
      BY <1>5 DEF client_flush_pending_bitmap, Taken
    <2>2. paced' \in BOOLEAN
      BY <1>5 DEF client_flush_pending_bitmap
    <2> QED BY <1>1, <2>1, <2>2
  <1>6. CASE send_bitmap_frame
    <2>1. /\ output = "send" /\ shown' \in {taken, shown}
          /\ taken' = 0 /\ output' = "look"
          /\ UNCHANGED <<decoded, pending, paced, blocked>>
      BY <1>6 DEF send_bitmap_frame
    <2> QED BY <1>1, <1>2, <2>1
  <1>7. CASE send_fails
    <2>1. /\ output = "send" /\ taken' = 0 /\ output' = "exit"
          /\ UNCHANGED <<decoded, pending, paced, blocked, shown>>
      BY <1>7 DEF send_fails
    <2> QED BY <1>1, <1>2, <2>1
  <1>8. CASE output_wait_ends
    <2>1. /\ output = "wait" /\ output' = "look"
          /\ UNCHANGED <<decoded, pending, taken, paced, blocked, shown>>
      BY <1>8 DEF output_wait_ends
    <2> QED BY <1>1, <1>2, <2>1
  <1> QED
    BY <1>4, <1>5, <1>6, <1>7, <1>8 DEF OutputThread

\* Frames that do not move stay in order.
LEMMA FramesStay ==
    ASSUME FramesInOrder, UNCHANGED <<decoded, pending, output, taken, shown>>,
           paced' \in BOOLEAN, blocked' \in BOOLEAN
    PROVE  FramesInOrder'
  BY DEF FramesInOrder

\* The output thread changes nothing of the readers' but the stop flag.
LEMMA OutputLeavesReaders ==
    ASSUME BitmapInv, OutputThread
    PROVE  ReadersInv' /\ AttemptsBounded' /\ SnapshotMatchesId'
  <1>1. /\ UNCHANGED <<session, yield, http, rdp, rested, client, left, gateway, snapshotVars>>
        /\ failures' \in {failures, failures + 1}
    BY DEF OutputThread, output_looks, client_flush_pending_bitmap, send_bitmap_frame,
           send_fails, output_wait_ends, Fails, readersVars, clientVars, snapshotVars
  <1>2. stopping' \in {TRUE, stopping}
    BY Zenon DEF OutputThread, output_looks, client_flush_pending_bitmap, send_bitmap_frame,
           send_fails, output_wait_ends, readersVars, clientVars
  <1> QED BY Zenon, <1>1, <1>2, StoppingKeeps

(***************************************************************************)
(* The invariant                                                           *)
(***************************************************************************)
\* Nothing is leased, tried or decoded before the first client.
LEMMA BitmapInitInvariant ==
    ASSUME Init
    PROVE  BitmapInv
  <1>1. /\ session = [leased |-> FALSE, generation |-> 0]
        /\ yield = FALSE /\ rested = FALSE /\ stopping = FALSE
        /\ http = [pc |-> "top", lease |-> 0] /\ rdp = [pc |-> "exit", attempt |-> 0, lease |-> 0]
        /\ client = "none" /\ gateway = "running" /\ frame_id = 0 /\ failures = 0
        /\ jpeg = [id |-> 0, frame |-> 0] /\ request = [id |-> 0, frame |-> 0]
        /\ left = [lease |-> 0, output |-> FALSE]
    BY DEF Init, ReadersInit, NoReader, NoRequest, NothingLeft, Snapshot
  <1>2. ReaderTypes
    <2>1. 0 \in GenerationRange
      BY ReadersAssumption DEF GenerationRange
    <2> QED BY <1>1, <2>1 DEF ReaderTypes
  <1>3. FlagTypes
    <2>1. yield \in BOOLEAN /\ stopping \in BOOLEAN /\ rested \in BOOLEAN
      BY Zenon, <1>1
    <2>2. client \in Modes \cup {"none"} /\ frame_id \in 0..MaxPublished
      BY <1>1, ReadersAssumption
    <2> QED BY <2>1, <2>2 DEF FlagTypes
  <1>4. LeasesHeld
    BY <1>1 DEF LeasesHeld
  <1>5. AttemptsMade
    <2>1. Attempts[Reader] \in Nat
      BY ReadersAssumption DEF Reader
    <2> QED BY <1>1, <2>1 DEF AttemptsMade, NoReader
  <1>6. StopOrder /\ AttemptsBounded /\ SnapshotMatchesId
    BY <1>1 DEF StopOrder, AttemptsBounded, SnapshotMatchesId
  <1>7. FramesInOrder
    <2>1. /\ decoded = 0 /\ pending = 0 /\ output = "none" /\ taken = 0 /\ shown = 0
      BY DEF Init
    <2>2. paced \in BOOLEAN /\ blocked \in BOOLEAN
      BY Zenon DEF Init
    <2>3. {pending, taken, shown} \subseteq 0..decoded
      BY <2>1
    <2> QED BY <2>1, <2>2, <2>3 DEF FramesInOrder
  <1> QED
    BY <1>2, <1>3, <1>4, <1>5, <1>6, <1>7 DEF BitmapInv, ReadersInv

\* A step that leaves the output alone leaves its frames in order.
LEMMA OutputUnchanged ==
    ASSUME BitmapInv, UNCHANGED outputVars
    PROVE  FramesInOrder'
  <1>1. /\ UNCHANGED <<decoded, pending, output, taken, shown>>
        /\ FramesInOrder
    BY DEF outputVars, BitmapInv
  <1>2. paced' \in BOOLEAN /\ blocked' \in BOOLEAN
    BY <1>1 DEF outputVars, FramesInOrder
  <1> QED BY <1>1, <1>2, FramesStay

\* Every step keeps the invariant.
LEMMA BitmapStepInvariant ==
    ASSUME BitmapInv, [Next]_vars
    PROVE  BitmapInv'
  <1>1. FramesInOrder /\ paced \in BOOLEAN /\ blocked \in BOOLEAN
    BY DEF BitmapInv, FramesInOrder
  <1>2. CASE HttpReads
    BY <1>2, HttpReaderKeeps, OutputUnchanged DEF HttpReads, BitmapInv
  <1>3. CASE RdpReads
    BY <1>3, RdpReaderKeeps, OutputUnchanged DEF RdpReads, BitmapInv
  <1>4. CASE Serves
    BY <1>4, SnapshotsKeep, OutputUnchanged DEF Serves, BitmapInv
  <1>5. CASE Stops
    BY <1>5, GatewayStopKeeps, OutputUnchanged DEF Stops, BitmapInv
  <1>6. CASE Decodes
    <2>1. on_decoded_frame /\ UNCHANGED readersVars
      BY <1>6 DEF Decodes, on_decoded_frame, rdp_reads
    <2>2. FramesInOrder'
      BY <1>1, <2>1, DecodedKeepsOrder
    <2>3. stopping' \in {TRUE, stopping} /\ failures' \in {failures, failures + 1}
      BY <2>1 DEF readersVars, clientVars
    <2>4. UNCHANGED <<session, yield, http, rdp, rested, client, left, gateway, snapshotVars>>
      BY <2>1 DEF readersVars, clientVars
    <2> QED BY Zenon, <2>2, <2>3, <2>4, StoppingKeeps DEF BitmapInv
  <1>7. CASE Outputs
    BY <1>1, <1>7, OutputLeavesReaders, OutputKeepsOrder DEF Outputs, BitmapInv
  <1>8. CASE client_connects
    <2>1. PICK mode \in Modes : /\ client_starts(mode)
                                /\ output' = IF mode = "bitmap" THEN "look" ELSE "none"
      BY <1>8 DEF client_connects
    <2>2. FramesInOrder'
      BY Zenon, <1>8, <2>1, NoFrames DEF client_connects, Unblocked
    <2> QED BY <2>1, <2>2, ClientStartsKeeps DEF BitmapInv
  <1>9. CASE client_stops
    <2>1. /\ stopping' \in {TRUE, stopping} /\ failures' \in {failures, failures + 1}
          /\ UNCHANGED <<session, yield, http, rdp, rested, client, left, gateway, snapshotVars>>
      BY <1>9 DEF client_stops, client_stop
    <2> QED BY Zenon, <1>9, <2>1, StoppingKeeps, OutputUnchanged DEF client_stops, BitmapInv
  <1>10. CASE ClientFreed
    <2>1. FramesInOrder'
      BY Zenon, <1>10, NoFrames DEF ClientFreed, client_freed, Unblocked
    <2>2. client_context_free(output = "send") /\ (output = "send") \in BOOLEAN
      BY Zenon, <1>10 DEF ClientFreed, client_freed
    <2> QED BY <2>1, <2>2, ClientFreeKeeps DEF BitmapInv
  <1>11. CASE connection_blocks \/ Drains \/ TimePasses
    <2>1. /\ UNCHANGED readersVars
          /\ UNCHANGED <<decoded, pending, output, taken, shown>>
      BY <1>11
         DEF connection_blocks, Drains, connection_drains, TimePasses, interval_passes
    <2>2. paced' \in BOOLEAN /\ blocked' \in BOOLEAN
      BY Zenon, <1>1, <1>11
         DEF connection_blocks, Drains, connection_drains, TimePasses, interval_passes
    <2>3. FramesInOrder'
      BY <1>1, <2>1, <2>2, FramesStay
    <2>4. stopping' \in {TRUE, stopping} /\ failures' \in {failures, failures + 1}
      BY <2>1 DEF readersVars, clientVars
    <2>5. UNCHANGED <<session, yield, http, rdp, rested, client, left, gateway, snapshotVars>>
      BY <2>1 DEF readersVars, clientVars
    <2> QED BY Zenon, <2>3, <2>4, <2>5, StoppingKeeps DEF BitmapInv
  <1>12. CASE UNCHANGED vars
    <2>1. UNCHANGED readersVars /\ UNCHANGED outputVars
      BY <1>12 DEF vars
    <2>2. stopping' \in {TRUE, stopping} /\ failures' \in {failures, failures + 1}
      BY <2>1 DEF readersVars, clientVars
    <2>3. UNCHANGED <<session, yield, http, rdp, rested, client, left, gateway, snapshotVars>>
      BY <2>1 DEF readersVars, clientVars
    <2> QED BY Zenon, <2>1, <2>2, <2>3, StoppingKeeps, OutputUnchanged DEF BitmapInv
  <1>13. CASE LeftReturns
    BY <1>13, LeftThreadKeeps, OutputUnchanged DEF LeftReturns, BitmapInv
  <1> QED
    BY <1>2, <1>3, <1>4, <1>5, <1>6, <1>7, <1>8, <1>9, <1>10, <1>11, <1>12, <1>13
       DEF Next, ClientMoves, ProcessGone

\* BitmapInv holds in every state the readers and the output reach.
LEMMA BitmapInvariant == BitmapSpec => []BitmapInv
  <1>1. Init => BitmapInv
    BY BitmapInitInvariant
  <1>2. BitmapInv /\ [Next]_vars => BitmapInv'
    BY BitmapStepInvariant
  <1> QED
    BY <1>1, <1>2, PTL DEF BitmapSpec

\* The bound on failures is kept by every operation that fails.
LEMMA FailuresStayBounded == BitmapSpec => [](failures \in 0..MaxFailures)
  <1>1. Init => failures \in 0..MaxFailures
    BY ReadersAssumption DEF Init, ReadersInit
  <1>2. failures \in 0..MaxFailures /\ [Next]_vars => (failures \in 0..MaxFailures)'
    <2> SUFFICES ASSUME failures \in 0..MaxFailures, [Next]_vars
                 PROVE  failures' \in 0..MaxFailures
      OBVIOUS
    <2>1. Fails => failures' \in 0..MaxFailures
      BY ReadersAssumption DEF Fails
    <2>2. HttpReads => failures' = failures \/ Fails
      BY DEF HttpReads, HttpReader, http_begins, http_acquires, http_gets_no_lease,
             http_starts_decoder, http_checks, http_reads, http_releases
    <2>3. RdpReads => failures' = failures \/ Fails
      BY DEF RdpReads, RdpReader, rdp_signals, rdp_acquires, rdp_gets_no_lease,
             rdp_starts_decoder, rdp_ends_attempts, rdp_resets, rdp_read_fails,
             rdp_stops_reading, rdp_releases
    <2>4. Serves \/ Stops => failures' = failures \/ Fails
      BY DEF Serves, Snapshots, get_snapshot, snapshot_encoded, snapshot_fails, Stops,
             gateway_stop
    <2>5. Decodes \/ Outputs => failures' = failures \/ Fails
      BY DEF Decodes, on_decoded_frame, rdp_reads, Outputs, OutputThread, output_looks,
             client_flush_pending_bitmap, send_bitmap_frame, send_fails, output_wait_ends,
             readersVars
    <2>6. ClientMoves \/ ClientFreed => failures' = failures \/ Fails
      BY DEF ClientMoves, client_connects, client_starts, client_stops, client_stop,
             connection_blocks, ClientFreed, client_freed, client_context_free, readersVars
    <2>7. Drains \/ TimePasses \/ ProcessGone \/ UNCHANGED vars => failures' = failures
      BY DEF Drains, connection_drains, TimePasses, interval_passes, ProcessGone, vars,
             readersVars
    <2>8. LeftReturns => failures' = failures
      BY DEF LeftReturns, left_thread_returns
    <2> QED
      BY <2>1, <2>2, <2>3, <2>4, <2>5, <2>6, <2>7, <2>8 DEF Next
  <1> QED
    BY <1>1, <1>2, PTL DEF BitmapSpec

(***************************************************************************)
(* Theorems                                                                *)
(***************************************************************************)
\* Type correctness of the readers and of the output, and the order of the
\* frames on their way from on_decoded_frame to the client.
THEOREM OutputTypeCorrect == BitmapSpec => []OutputTypeOK
  <1>1. BitmapInv => OutputTypeOK
    <2> SUFFICES ASSUME BitmapInv PROVE OutputTypeOK
      OBVIOUS
    <2>1. /\ ReaderTypes /\ FlagTypes /\ AttemptsMade /\ FramesInOrder
          /\ rdp.attempt \in Nat /\ Attempts[Reader] \in Nat
      BY ReaderFacts DEF BitmapInv
    <2>2. ReadersTypeOK
      BY <2>1 DEF ReadersTypeOK, ReaderTypes, FlagTypes, AttemptsMade, GenerationRange
    <2>3. {paced, blocked} \subseteq BOOLEAN
      BY <2>1 DEF FramesInOrder
    <2> QED BY <2>1, <2>2, <2>3 DEF OutputTypeOK, FramesInOrder
  <1> QED
    BY <1>1, BitmapInvariant, PTL

\* device_session.c: at any time at most one reader has the RTP socket, whatever
\* the order of acquires and releases, however often the generation wraps around,
\* and although a reader may outlive its client.
THEOREM OneReaderAtATime == BitmapSpec => []OneReader
  <1>1. BitmapInv => OneReader
    <2> SUFFICES ASSUME BitmapInv PROVE OneReader
      OBVIOUS
    <2> DEFINE holders == {t \in Threads : Lease(t) # 0}
    <2>1. LeasesHeld /\ session.leased \in BOOLEAN
      BY ReaderFacts
    <2>2. \A t \in holders : Lease(t) = session.generation
      BY <2>1 DEF LeasesHeld, Lease
    <2>3. CASE ~session.leased
      <3>1. holders = {}
        BY <2>1, <2>3 DEF LeasesHeld, Lease
      <3> QED BY <2>2, <2>3, <3>1, FS_EmptySet DEF OneReader
    <2>4. CASE session.leased
      <3>1. PICK t \in {"http", "rdp", "left"} : holders = {t}
        <4>1. CASE http.lease # 0
          <5>1. holders = {"http"}
            BY <2>1, <4>1 DEF LeasesHeld, Lease, Threads
          <5> QED BY <5>1
        <4>2. CASE rdp.lease # 0
          <5>1. holders = {"rdp"}
            BY <2>1, <4>2 DEF LeasesHeld, Lease, Threads
          <5> QED BY <5>1
        <4>3. CASE left.lease # 0
          <5>1. holders = {"left"}
            BY <2>1, <4>3 DEF LeasesHeld, Lease, Threads
          <5> QED BY <5>1
        <4> QED BY <2>1, <2>4, <4>1, <4>2, <4>3 DEF LeasesHeld
      <3> QED BY <2>2, <2>4, <3>1, FS_Singleton DEF OneReader
    <2> QED BY <2>3, <2>4
  <1> QED
    BY <1>1, BitmapInvariant, PTL

\* get_snapshot: a snapshot shows the frame its X-Frame-Id names, however many
\* frames are published while it is encoded.
THEOREM SnapshotsMatch == BitmapSpec => []SnapshotMatchesId
  <1>1. BitmapInv => SnapshotMatchesId
    BY DEF BitmapInv
  <1> QED
    BY <1>1, BitmapInvariant, PTL

\* gateway_stop destroys the device session when the HTTP threads have ended and no
\* lease is out but that of a reader whose client was freed under it: every other
\* reader has given its lease back by the time its client is gone.
THEOREM DestroyedOnlyUnlessLeft == BitmapSpec => []DestroyedUnlessLeft
  <1>1. BitmapInv => DestroyedUnlessLeft
    <2> SUFFICES ASSUME BitmapInv, gateway = "destroyed" PROVE DestroyedUnlessLeft
      BY DEF DestroyedUnlessLeft
    <2>1. http.pc = "done" /\ request = NoRequest /\ client = "none"
      BY DEF BitmapInv, ReadersInv, StopOrder
    <2>2. http.lease = 0 /\ rdp.lease = 0
      BY <2>1, ReaderFacts DEF AttemptsMade, LeasesHeld, NoReader
    <2>3. session.leased => left.lease = session.generation
      BY <2>2, ReaderFacts DEF LeasesHeld
    <2> QED BY <2>1, <2>3 DEF DestroyedUnlessLeft
  <1> QED
    BY <1>1, BitmapInvariant, PTL

\* http_video_thread yields: the HTTP reader costs the bitmap reader of a client
\* at most three of its attempts, so a reader that is left without a lease has
\* lost all its other attempts to failures: opens and decoder starts that fail,
\* seconds in which a read of the HTTP reader does not return, and a reader that
\* outlived its client.
THEOREM LeaseLostOnlyToFailures ==
    BitmapSpec => [](rdp.pc = "reset" /\ rdp.lease = 0 /\ Reader = "bitmap" =>
                       stopping \/ Attempts["bitmap"] <= failures + 3)
  <1>1. BitmapInv => (rdp.pc = "reset" /\ rdp.lease = 0 /\ Reader = "bitmap" =>
                        stopping \/ Attempts["bitmap"] <= failures + 3)
    BY DEF BitmapInv, AttemptsBounded
  <1> QED
    BY <1>1, BitmapInvariant, PTL

\* With more attempts than failures and the three the HTTP reader can cost, the
\* bitmap reader never stops its client for want of a lease.
THEOREM BitmapReaderIsServed ==
    ASSUME Attempts["bitmap"] > MaxFailures + 3
    PROVE  BitmapSpec => []BitmapReaderGetsLease
  <1>1. BitmapInv /\ failures \in 0..MaxFailures => BitmapReaderGetsLease
    BY ReadersAssumption DEF BitmapInv, AttemptsBounded, BitmapReaderGetsLease
  <1> QED
    BY <1>1, BitmapInvariant, FailuresStayBounded, PTL
=============================================================================
