--------------------------- MODULE Drivers_proofs ---------------------------
(***************************************************************************)
(* Theorems about the two drivers, for any sizes, streams and numbers of   *)
(* connections: the numbering of transport stream packets and their time   *)
(* stamps (LPCMMux), the parser of the back channel, its devices and its   *)
(* finger (UIBCInput), and the types of both (MCDrivers).                  *)
(***************************************************************************)
EXTENDS MCDrivers, SequenceTheorems, NaturalsInduction, WellFoundedInduction, TLAPS

-----------------------------------------------------------------------------
(* Remainders.                                                             *)

\* A quotient and a remainder in its range are the ones there are.
LEMMA Remainder ==
  ASSUME NEW m \in Nat \ {0}, NEW q \in Int, NEW r \in 0..(m - 1)
  PROVE  (m * q + r) % m = r
OBVIOUS

\* Every number has a quotient and a remainder.
LEMMA Divided ==
  ASSUME NEW m \in Nat \ {0}, NEW a \in Int
  PROVE  /\ a % m \in 0..(m - 1) /\ a \div m \in Int
         /\ a = m * (a \div m) + (a % m)
OBVIOUS

\* Numbers that lie a multiple apart have the same remainder.
LEMMA Congruent ==
  ASSUME NEW m \in Nat \ {0}, NEW a \in Int, NEW k \in Int
  PROVE  (a + m * k) % m = a % m
<1> DEFINE q == a \div m  r == a % m
<1>1. q \in Int /\ r \in 0..(m - 1) /\ a = m * q + r
  BY Divided
<1> HIDE DEF q, r
<1>2. a + m * k = m * (q + k) + r
  <2>1. m * (q + k) = m * q + m * k /\ m * q \in Int /\ m * k \in Int
    BY <1>1
  <2> QED  BY <1>1, <2>1
<1>3. (m * (q + k) + r) % m = r
  BY <1>1, Remainder
<1> QED  BY <1>2, <1>3 DEF r

\* The remainder may be taken before or after another number is added.
LEMMA RemainderOfSum ==
  ASSUME NEW m \in Nat \ {0}, NEW a \in Int, NEW b \in Int
  PROVE  ((a % m) + b) % m = (a + b) % m
<1> DEFINE q == a \div m  r == a % m
<1>1. q \in Int /\ r \in 0..(m - 1) /\ a = m * q + r
  BY Divided
<1> HIDE DEF q, r
<1>2. a + b = (r + b) + m * q
  <2>1. m * q \in Int
    BY <1>1
  <2> QED  BY <1>1, <2>1
<1>3. ((r + b) + m * q) % m = (r + b) % m
  <2>1. r + b \in Int
    BY <1>1
  <2> QED  BY <1>1, <2>1, Congruent
<1> QED  BY <1>2, <1>3 DEF r
LEMMA RemainderOfDifference ==
  ASSUME NEW m \in Nat \ {0}, NEW a \in Int, NEW b \in Int
  PROVE  (a - (b % m)) % m = (a - b) % m
<1> DEFINE q == b \div m  r == b % m
<1>1. q \in Int /\ r \in 0..(m - 1) /\ b = m * q + r
  BY Divided
<1> HIDE DEF q, r
<1>2. a - r = (a - b) + m * q
  <2>1. m * q \in Int
    BY <1>1
  <2> QED  BY <1>1, <2>1
<1>3. ((a - b) + m * q) % m = (a - b) % m
  <2>1. a - b \in Int
    BY <1>1
  <2> HIDE DEF r
  <2> QED BY <1>1, <2>1, Congruent
<1> QED  BY <1>2, <1>3 DEF r

\* A bounded set of numbers has a greatest.
LEMMA Greatest ==
  ASSUME NEW n \in Nat, NEW T \in SUBSET (1..n), T # {}
  PROVE  Max(T) \in T /\ \A y \in T : y <= Max(T)
<1> DEFINE R == {ss \in Nat \X Nat : ss[1] < ss[2]}
           D == {n - x : x \in T}
<1>1. IsWellFoundedOn(R, Nat)
  BY NatLessThanWellFounded, Zenon DEF OpToRel
<1>2. D \subseteq Nat /\ D # {}
  <2>1. ASSUME NEW x \in T PROVE n - x \in Nat
    OBVIOUS
  <2> QED  BY <2>1
<1> HIDE DEF R
<1>3. PICK z \in D : \A y \in D : <<y, z>> \notin R
  BY <1>1, <1>2, WFMin, Zenon
<1>4. PICK x \in T : z = n - x
  BY <1>3
<1>5. ASSUME NEW y \in T PROVE x >= y
  <2>1. n - y \in D /\ n - y \in Nat /\ z \in Nat /\ <<n - y, z>> \notin R
    BY <1>2, <1>3
  <2>2. ~(n - y < z)
    BY <2>1 DEF R
  <2> QED  BY <1>4, <2>2
<1>6. \E m \in T : \A y \in T : m >= y
  BY <1>5
<1> DEFINE G(m) == \A y \in T : m >= y
<1>7. Max(T) \in T /\ \A y \in T : Max(T) >= y
  BY <1>6, Zenon DEF Max
<1> QED  BY <1>7

-----------------------------------------------------------------------------
(* The packets of a batch.                                                 *)

Numbers == 0..(CCMod - 1)
Batches == Seq([pid : PIDs, cc : Numbers])

\* The counter before that place of a batch, and a batch numbered on from what was sent
\* up to the counters.
Prior(b, w, p, place) ==
  LET its == {k \in DOMAIN b : k < place /\ b[k].pid = p}
  IN IF its = {} THEN w[p] ELSE b[Max(its)].cc
Chained(b, w, c) ==
  /\ \A k \in DOMAIN b : b[k].cc = Following(Prior(b, w, b[k].pid, k))
  /\ \A p \in PIDs : c[p] = Following(Prior(b, w, p, Len(b) + 1))

LEMMA BatchTyped ==
  ASSUME NEW b \in Batches
  PROVE  /\ DOMAIN b = 1..Len(b) /\ Len(b) \in Nat
         /\ \A k \in DOMAIN b : b[k].pid \in PIDs /\ b[k].cc \in Numbers
<1>1. DOMAIN b = 1..Len(b) /\ Len(b) \in Nat
  BY DEF Batches
<1>2. ASSUME NEW k \in DOMAIN b PROVE b[k] \in [pid : PIDs, cc : Numbers]
  BY <1>1, ElementOfSeq DEF Batches
<1> QED  BY <1>1, <1>2

\* Two batches, one after the other.
LEMMA BatchAfter ==
  ASSUME NEW b \in Batches, NEW x \in Batches
  PROVE  /\ b \o x \in Batches /\ Len(b \o x) = Len(b) + Len(x)
         /\ Len(b) \in Nat /\ Len(x) \in Nat
         /\ \A k \in 1..(Len(b) + Len(x)) :
              (b \o x)[k] = IF k <= Len(b) THEN b[k] ELSE x[k - Len(b)]
BY ConcatProperties DEF Batches

\* What is appended changes nothing before it.
LEMMA PriorKept ==
  ASSUME NEW b \in Batches, NEW x \in Batches, NEW w, NEW p,
         NEW place \in 1..(Len(b) + 1)
  PROVE  Prior(b \o x, w, p, place) = Prior(b, w, p, place)
<1> DEFINE its == {k \in DOMAIN b : k < place /\ b[k].pid = p}
<1>1. /\ Len(b) \in Nat /\ Len(x) \in Nat /\ DOMAIN b = 1..Len(b)
      /\ DOMAIN (b \o x) = 1..(Len(b) + Len(x))
      /\ \A k \in 1..Len(b) : (b \o x)[k] = b[k]
  BY DEF Batches
<1>2. {k \in DOMAIN (b \o x) : k < place /\ (b \o x)[k].pid = p} = its
  BY <1>1
<1>3. its # {} => Max(its) \in its
  <2>1. its \in SUBSET (1..Len(b))
    BY <1>1
  <2> HIDE DEF its
  <2> QED  BY <1>1, <2>1, Greatest
<1> QED  BY <1>1, <1>2, <1>3 DEF Prior

\* The packet before a place, if it has that PID.
LEMMA PriorLast ==
  ASSUME NEW b \in Batches, NEW w, NEW p, NEW place \in 2..(Len(b) + 1),
         b[place - 1].pid = p
  PROVE  Prior(b, w, p, place) = b[place - 1].cc
<1> DEFINE its == {k \in DOMAIN b : k < place /\ b[k].pid = p}
<1>1. Len(b) \in Nat /\ place - 1 \in its /\ its \in SUBSET (1..Len(b))
  BY DEF Batches
<1>2. Max(its) \in its /\ place - 1 <= Max(its)
  <2> HIDE DEF its
  <2> QED  BY <1>1, Greatest
<1>3. Max(its) = place - 1
  BY <1>1, <1>2
<1> QED  BY <1>1, <1>3 DEF Prior

\* Packets of another PID before a place make no difference.
LEMMA PriorOther ==
  ASSUME NEW b \in Batches, NEW x \in Batches, NEW w, NEW p,
         \A k \in 1..Len(x) : x[k].pid # p
  PROVE  Prior(b \o x, w, p, Len(b \o x) + 1) = Prior(b, w, p, Len(b) + 1)
<1> DEFINE its == {k \in DOMAIN b : k < Len(b) + 1 /\ b[k].pid = p}
<1>1. /\ DOMAIN b = 1..Len(b) /\ DOMAIN (b \o x) = 1..(Len(b) + Len(x))
      /\ Len(b) \in Nat /\ Len(x) \in Nat /\ Len(b \o x) = Len(b) + Len(x)
      /\ \A k \in 1..Len(b) : (b \o x)[k] = b[k]
      /\ \A k \in (Len(b) + 1)..(Len(b) + Len(x)) : (b \o x)[k] = x[k - Len(b)]
  BY DEF Batches
<1>2. \A k \in (Len(b) + 1)..(Len(b) + Len(x)) : (b \o x)[k].pid # p
  <2>1. ASSUME NEW k \in (Len(b) + 1)..(Len(b) + Len(x)) PROVE k - Len(b) \in 1..Len(x)
    BY <1>1
  <2> QED  BY <1>1, <2>1
<1>3. {k \in DOMAIN (b \o x) : k < Len(b \o x) + 1 /\ (b \o x)[k].pid = p} = its
  <2>1. ASSUME NEW k \in DOMAIN (b \o x), (b \o x)[k].pid = p PROVE k \in its
    BY <1>1, <1>2, <2>1
  <2>2. ASSUME NEW k \in its
        PROVE  k \in DOMAIN (b \o x) /\ k < Len(b \o x) + 1 /\ (b \o x)[k].pid = p
    BY <1>1
  <2> QED  BY <2>1, <2>2
<1>4. its # {} => Max(its) \in its
  <2>1. its \in SUBSET (1..Len(b))
    BY <1>1
  <2> HIDE DEF its
  <2> QED  BY <1>1, <2>1, Greatest
<1>5. its # {} => (b \o x)[Max(its)] = b[Max(its)]
  BY <1>1, <1>4
<1> QED  BY <1>3, <1>5 DEF Prior

\* The n packets of one PES, numbered on.
PacketsFrom(c, p, n) == [k \in 1..n |-> [pid |-> p, cc |-> (c[p] + k - 1) % CCMod]]
LEMMA PacketsTyped ==
  ASSUME NEW c \in [PIDs -> Numbers], NEW p \in PIDs, NEW n \in Nat
  PROVE  /\ PacketsFrom(c, p, n) \in Batches /\ Len(PacketsFrom(c, p, n)) = n
         /\ \A k \in 1..n : PacketsFrom(c, p, n)[k] =
                              [pid |-> p, cc |-> (c[p] + k - 1) % CCMod]
         /\ \A k \in 1..n : PacketsFrom(c, p, n)[k].pid = p
         /\ Advance(c, p, n) \in [PIDs -> Numbers]
<1>1. CCMod \in Nat \ {0} /\ \A q \in PIDs : c[q] \in Numbers /\ c[q] \in Int
  BY MuxAssumption DEF MuxAssumption, Numbers
<1>2. ASSUME NEW a \in Int PROVE a % CCMod \in Numbers
  BY <1>1, <1>2 DEF Numbers
<1>3. ASSUME NEW k \in 1..n PROVE [pid |-> p, cc |-> (c[p] + k - 1) % CCMod] \in [pid : PIDs, cc : Numbers]
  <2>1. c[p] + k - 1 \in Int
    BY <1>1
  <2> QED  BY <1>2, <2>1
<1>4. c[p] + n \in Int
  BY <1>1
<1>5. Advance(c, p, n) \in [PIDs -> Numbers]
  BY <1>2, <1>4 DEF Advance
<1> QED  BY <1>3, <1>5 DEF PacketsFrom, Batches

\* A batch stays numbered on when the packets of another PES are appended.
LEMMA ChainAppend ==
  ASSUME NEW b \in Batches, NEW w \in [PIDs -> None..(CCMod - 1)],
         NEW c \in [PIDs -> Numbers], NEW p \in PIDs, NEW n \in Nat, Chained(b, w, c)
  PROVE  Chained(b \o PacketsFrom(c, p, n), w, Advance(c, p, n))
<1> DEFINE x == PacketsFrom(c, p, n)
           both == b \o x
<1>1. /\ x \in Batches /\ Len(x) = n /\ Len(b) \in Nat
      /\ \A k \in 1..n : x[k].pid = p /\ x[k].cc = (c[p] + k - 1) % CCMod
  <2>1. x \in Batches /\ Len(x) = n
    BY PacketsTyped
  <2>0. Len(b) \in Nat
    BY DEF Batches
  <2>2. \A k \in 1..n : x[k] = [pid |-> p, cc |-> (c[p] + k - 1) % CCMod]
    BY DEF PacketsFrom
  <2> HIDE DEF x
  <2> QED  BY <2>0, <2>1, <2>2
<1> HIDE DEF x
<1>2. /\ both \in Batches /\ Len(both) = Len(b) + n
      /\ \A k \in 1..Len(b) : both[k] = b[k]
      /\ \A j \in 1..n : both[Len(b) + j] = x[j]
      /\ DOMAIN both = 1..(Len(b) + n) /\ DOMAIN b = 1..Len(b)
  <2>1. both \in Batches /\ Len(both) = Len(b) + n
    BY <1>1, ConcatProperties DEF Batches
  <2>2. DOMAIN both = 1..(Len(b) + n) /\ DOMAIN b = 1..Len(b)
    <3> HIDE DEF both
    <3> QED  BY <2>1 DEF Batches
  <2>3. \A k \in 1..Len(b) : both[k] = b[k]
    BY <1>1 DEF Batches
  <2>4. ASSUME NEW j \in 1..n PROVE both[Len(b) + j] = x[j]
    <3>1. Len(b) + j \in (Len(b) + 1)..(Len(b) + n) /\ Len(b) + j - Len(b) = j
      BY <1>1
    <3> QED  BY <1>1, <3>1 DEF Batches
  <2> QED  BY <2>1, <2>2, <2>3, <2>4
<1>3. /\ CCMod \in Nat \ {0} /\ c[p] \in 0..(CCMod - 1)
      /\ c[p] % CCMod = c[p]
  BY MuxAssumption DEF MuxAssumption, Numbers
<1>4. ASSUME NEW j \in 1..n PROVE Following(x[j].cc) = (c[p] + j) % CCMod
  <2>1. c[p] + j - 1 \in Int /\ x[j].cc = (c[p] + j - 1) % CCMod
    <3>1. c[p] \in Int /\ j \in Int
      BY <1>3
    <3> QED  BY <1>1, <3>1
  <2>2. x[j].cc # None
    BY <1>3, <2>1 DEF None
  <2>3. (((c[p] + j - 1) % CCMod) + 1) % CCMod = ((c[p] + j - 1) + 1) % CCMod
    BY <1>3, <2>1, RemainderOfSum
  <2>4. (c[p] + j - 1) + 1 = c[p] + j
    BY <1>3
  <2> QED  BY <2>1, <2>2, <2>3, <2>4 DEF Following
<1>5. ASSUME NEW k \in 1..Len(b)
      PROVE  both[k].cc = Following(Prior(both, w, both[k].pid, k))
  <2>1. Prior(both, w, b[k].pid, k) = Prior(b, w, b[k].pid, k)
    BY <1>1, PriorKept
  <2> QED  BY <1>2, <2>1 DEF Chained
<1> HIDE DEF both
<1>6. ASSUME NEW j \in 2..(n + 1)
      PROVE  Following(Prior(both, w, p, Len(b) + j)) = (c[p] + (j - 1)) % CCMod
  <2>1. /\ Len(b) + j \in 2..(Len(both) + 1) /\ j - 1 \in 1..n
        /\ Len(b) + j - 1 = Len(b) + (j - 1)
    BY <1>1, <1>2
  <2>2. both[Len(b) + j - 1].pid = p /\ both[Len(b) + j - 1].cc = x[j - 1].cc
    BY <1>1, <1>2, <2>1
  <2>3. Prior(both, w, p, Len(b) + j) = x[j - 1].cc
    <3> DEFINE place == Len(b) + j
    <3>1. place \in 2..(Len(both) + 1) /\ both[place - 1].pid = p
      BY <2>1, <2>2
    <3> HIDE DEF place
    <3>2. Prior(both, w, p, place) = both[place - 1].cc
      BY <1>2, <3>1, PriorLast
    <3> QED  BY <2>2, <3>2 DEF place
  <2> QED  BY <1>4, <2>1, <2>3
<1>7. ASSUME NEW j \in 1..n
      PROVE  both[Len(b) + j].cc = Following(Prior(both, w, both[Len(b) + j].pid, Len(b) + j))
  <2>1. both[Len(b) + j].pid = p /\ both[Len(b) + j].cc = (c[p] + j - 1) % CCMod
    BY <1>1, <1>2
  <2>2. CASE j = 1
    <3>1. Prior(both, w, p, Len(b) + 1) = Prior(b, w, p, Len(b) + 1)
      BY <1>1, PriorKept DEF both
    <3>2. c[p] + 1 - 1 = c[p]
      BY <1>3
    <3> QED  BY <1>3, <2>1, <2>2, <3>1, <3>2 DEF Chained
  <2>3. CASE j # 1
    <3>1. j \in 2..(n + 1) /\ c[p] + (j - 1) = c[p] + j - 1
      BY <1>3, <2>3
    <3> QED  BY <1>6, <2>1, <3>1
  <2> QED  BY <2>2, <2>3
<1>8. ASSUME NEW q \in PIDs
      PROVE  Advance(c, p, n)[q] = Following(Prior(both, w, q, Len(both) + 1))
  <2>1. CASE q # p
    <3>1. Prior(both, w, q, Len(both) + 1) = Prior(b, w, q, Len(b) + 1)
      BY <1>1, <2>1, PriorOther DEF both
    <3> QED  BY <2>1, <3>1 DEF Chained, Advance
  <2>2. CASE q = p /\ n > 0
    <3>1. /\ n + 1 \in 2..(n + 1) /\ Len(both) + 1 = Len(b) + (n + 1)
          /\ c[p] + ((n + 1) - 1) = c[p] + n
      <4>1. c[p] \in Int /\ Len(b) \in Int
        BY <1>1, <1>3
      <4> QED  BY <1>2, <2>2, <4>1
    <3>2. Following(Prior(both, w, p, Len(both) + 1)) = (c[p] + n) % CCMod
      BY <1>6, <3>1
    <3> QED  BY <2>2, <3>2 DEF Advance
  <2>3. CASE q = p /\ n = 0
    <3>1. Len(both) + 1 = Len(b) + 1
      BY <1>1, <1>2, <2>3
    <3>2. Prior(both, w, p, Len(b) + 1) = Prior(b, w, p, Len(b) + 1)
      BY <1>1, PriorKept DEF both
    <3>3. Advance(c, p, n)[p] = c[p]
      BY <1>3, <2>3 DEF Advance
    <3> QED  BY <2>3, <3>1, <3>2, <3>3 DEF Chained
  <2> QED  BY <2>1, <2>2, <2>3
<1>9. ASSUME NEW k \in DOMAIN both
      PROVE  both[k].cc = Following(Prior(both, w, both[k].pid, k))
  <2>1. CASE k \in 1..Len(b)
    BY <1>5, <2>1 DEF both
  <2>2. CASE k > Len(b)
    <3>1. k - Len(b) \in 1..n /\ Len(b) + (k - Len(b)) = k
      BY <1>1, <1>2, <2>2
    <3> QED  BY <1>7, <3>1
  <2> QED  BY <1>1, <1>2, <2>1, <2>2
<1> QED  BY <1>8, <1>9 DEF Chained, both, x

\* A PES fills at least one packet.
LEMMA PacketCounted ==
  ASSUME NEW pid, NEW size \in Nat
  PROVE  PacketCount(pid, size) \in Nat \ {0}
<1> DEFINE first == IF pid = "video" THEN FirstRoom ELSE Room
<1>1. first \in Nat /\ Room \in Nat \ {0}
  BY MuxAssumption DEF MuxAssumption
<1> HIDE DEF first
<1>2. CASE size <= first
  BY <1>2 DEF PacketCount, first
<1>3. CASE ~(size <= first)
  <2>1. size - first + Room - 1 \in Nat
    BY <1>1, <1>3
  <2>2. (size - first + Room - 1) \div Room \in Nat
    BY <1>1, <2>1
  <2> QED  BY <1>3, <2>2 DEF PacketCount, first
<1> QED  BY <1>2, <1>3

-----------------------------------------------------------------------------
(* The muxer.                                                              *)

Frames == Seq([gst : Nat, missing : BOOLEAN])

\* Queues, counts and where everybody is.
MuxTypes ==
  /\ owner \in {"idle", "play", "probe", "streaming", "quiet", "join", "stopped", "failed"}
  /\ muxing \in BOOLEAN /\ playing \in BOOLEAN /\ closed \in BOOLEAN /\ collector \in BOOLEAN
  /\ thread \in {"none", "check", "get", "drain", "done"}
  /\ now \in Instants \cup {0}
  /\ videoQ \in Frames /\ Len(videoQ) <= VideoSize
  /\ audioQ \in Seq(Nat) /\ Len(audioQ) <= AudioSize
  /\ arrived \in [v : 0..MaxVideo, a : 0..MaxAudio, gst : Nat]
  /\ dropped \in Nat /\ mapped \in Nat /\ framesSent \in Nat /\ audioSent \in Nat
  /\ counter \in Nat /\ (thread = "drain" => counter > 0)
  /\ owner = "stopped" => closed

\* What is numbered; only the drained batch waits to be sent.
ChainInv ==
  /\ cc \in [PIDs -> Numbers] /\ wire \in [PIDs -> None..(CCMod - 1)] /\ batch \in Batches
  /\ thread # "drain" => batch = <<>>
  /\ ~closed => Chained(batch, wire, cc)

\* A batch holds a frame, and the first one ever began with the tables.
LeadInv ==
  /\ thread = "drain" => \E k \in DOMAIN batch : batch[k].pid = "video"
  /\ ~closed /\ wire["video"] = None =>
       counter = 0 \/ (batch # <<>> /\ batch[1].pid = "pat")

MuxInv == MuxTypes /\ Accounted /\ ChainInv /\ LeadInv

LEMMA MuxTypesStep == MuxTypes /\ [MuxNext]_muxVars => MuxTypes'
<1> SUFFICES ASSUME MuxTypes, [MuxNext]_muxVars PROVE MuxTypes'
  OBVIOUS
<1>0. /\ VideoSize \in Nat /\ AudioSize \in Nat /\ MaxVideo \in Nat /\ MaxAudio \in Nat
      /\ Instants \subseteq Nat /\ now \in Nat
  BY MuxAssumption DEF MuxAssumption, MuxTypes
<1> USE <1>0 DEF MuxTypes, Owner, Goes, ownerVars, queueVars, loopVars, Frames
<1>1. CASE StartRaises \/ StartThread \/ Play \/ Probe \/ StopMuxing \/ Quiet \/ Join
  BY <1>1 DEF StartRaises, StartThread, Play, Probe, StopMuxing, Quiet, Join
<1>2. ASSUME NEW gst \in arrived.gst..now, NEW missing \in BOOLEAN, VideoSample(gst, missing)
      PROVE  MuxTypes'
  <2> DEFINE frame == [gst |-> IF missing THEN 0 ELSE gst, missing |-> missing]
  <2>1. gst \in Nat /\ frame \in [gst : Nat, missing : BOOLEAN]
    OBVIOUS
  <2>2. arrived' \in [v : 0..MaxVideo, a : 0..MaxAudio, gst : Nat]
    <3>1. arrived.v + 1 \in 0..MaxVideo /\ arrived' = [arrived EXCEPT !.v = arrived.v + 1, !.gst = gst]
      BY <1>2 DEF VideoSample
    <3> QED  BY <2>1, <3>1
  <2>3. \/ Len(videoQ) < VideoSize /\ videoQ' = Append(videoQ, frame) /\ dropped' = dropped
        \/ videoQ' = videoQ /\ dropped' = dropped + 1
    BY <1>2 DEF VideoSample
  <2> HIDE DEF frame
  <2>4. /\ videoQ' \in Seq([gst : Nat, missing : BOOLEAN]) /\ Len(videoQ') <= VideoSize
        /\ dropped' \in Nat
    <3>1. CASE Len(videoQ) < VideoSize /\ videoQ' = Append(videoQ, frame) /\ dropped' = dropped
      <4>1. Len(videoQ') = Len(videoQ) + 1 /\ videoQ' \in Seq([gst : Nat, missing : BOOLEAN])
        BY <2>1, <3>1
      <4> QED  BY <3>1, <4>1
    <3>2. CASE videoQ' = videoQ /\ dropped' = dropped + 1
      BY <3>2
    <3> QED  BY <2>3, <3>1, <3>2
  <2> QED  BY <1>2, <2>2, <2>4 DEF VideoSample
<1>3. CASE AudioSample
  <2>1. arrived' \in [v : 0..MaxVideo, a : 0..MaxAudio, gst : Nat]
    <3>1. arrived.a + 1 \in 0..MaxAudio /\ arrived' = [arrived EXCEPT !.a = arrived.a + 1]
      BY <1>3 DEF AudioSample
    <3> QED  BY <3>1
  <2>2. audioQ' \in Seq(Nat) /\ Len(audioQ') <= AudioSize /\ mapped' \in Nat
    <3>1. \/ Len(audioQ) < AudioSize /\ audioQ' = Append(audioQ, now) /\ mapped' = mapped
          \/ audioQ' = audioQ /\ mapped' = mapped + 1
      BY <1>3 DEF AudioSample
    <3>2. CASE Len(audioQ) < AudioSize /\ audioQ' = Append(audioQ, now) /\ mapped' = mapped
      <4>1. Len(audioQ') = Len(audioQ) + 1 /\ audioQ' \in Seq(Nat)
        BY <3>2
      <4> QED  BY <3>2, <4>1
    <3>3. CASE audioQ' = audioQ /\ mapped' = mapped + 1
      BY <3>3
    <3> QED  BY <3>1, <3>2, <3>3
  <2> QED  BY <1>3, <2>1, <2>2 DEF AudioSample
<1>4. CASE Tick
  BY <1>4 DEF Tick
<1>5. CASE Check \/ GetTimesOut \/ Send
  BY <1>5 DEF Check, GetTimesOut, Send
<1>6. CASE Frame
  <2>1. videoQ # <<>> /\ videoQ' = Tail(videoQ) /\ counter' = counter + 1 /\ framesSent' = framesSent + 1
    BY <1>6 DEF Frame
  <2>2. videoQ' \in Frames /\ Len(videoQ') <= VideoSize
    BY <2>1
  <2> QED  BY <1>6, <2>1, <2>2 DEF Frame
<1>7. CASE Drain
  <2>1. audioQ # <<>> /\ audioQ' = Tail(audioQ) /\ audioSent' = audioSent + 1
    BY <1>7 DEF Drain
  <2>2. audioQ' \in Seq(Nat) /\ Len(audioQ') <= AudioSize
    BY <2>1
  <2> QED  BY <1>7, <2>1, <2>2 DEF Drain
<1>8. CASE UNCHANGED muxVars
  BY <1>8 DEF muxVars
<1> QED  BY <1>1, <1>2, <1>3, <1>4, <1>5, <1>6, <1>7, <1>8 DEF MuxNext, Loop

\* Nothing is taken from or put into a queue that is not counted.
LEMMA AccountedStep == MuxTypes /\ Accounted /\ [MuxNext]_muxVars => Accounted'
<1> SUFFICES ASSUME MuxTypes, Accounted, [MuxNext]_muxVars PROVE Accounted'
  OBVIOUS
<1>0. /\ arrived.v \in Nat /\ arrived.a \in Nat /\ arrived \in [v : Nat, a : Nat, gst : Nat]
      /\ dropped \in Nat /\ mapped \in Nat /\ framesSent \in Nat /\ audioSent \in Nat
      /\ videoQ \in Frames /\ audioQ \in Seq(Nat) /\ Len(videoQ) \in Nat /\ Len(audioQ) \in Nat
      /\ now \in Nat
  BY MuxAssumption DEF MuxAssumption, MuxTypes, Frames
<1> USE <1>0 DEF Accounted, Owner, Goes, ownerVars, queueVars, loopVars
<1>1. CASE StartRaises \/ StartThread \/ Play \/ Probe \/ StopMuxing \/ Quiet \/ Join
  BY <1>1 DEF StartRaises, StartThread, Play, Probe, StopMuxing, Quiet, Join
<1>2. ASSUME NEW gst \in arrived.gst..now, NEW missing \in BOOLEAN, VideoSample(gst, missing)
      PROVE  Accounted'
  <2>1. /\ arrived'.v = arrived.v + 1 /\ arrived'.a = arrived.a
        /\ UNCHANGED <<framesSent, audioSent, mapped, audioQ>>
    BY <1>2 DEF VideoSample
  <2> DEFINE frame == [gst |-> IF missing THEN 0 ELSE gst, missing |-> missing]
  <2>2. frame \in [gst : Nat, missing : BOOLEAN]
    OBVIOUS
  <2>3. \/ videoQ' = Append(videoQ, frame) /\ dropped' = dropped
        \/ videoQ' = videoQ /\ dropped' = dropped + 1
    BY <1>2 DEF VideoSample
  <2> HIDE DEF frame
  <2>4. \/ Len(videoQ') = Len(videoQ) + 1 /\ dropped' = dropped
        \/ Len(videoQ') = Len(videoQ) /\ dropped' = dropped + 1
    BY <2>2, <2>3 DEF Frames
  <2> QED  BY <2>1, <2>4
<1>3. CASE AudioSample
  <2>1. /\ arrived'.a = arrived.a + 1 /\ arrived'.v = arrived.v
        /\ UNCHANGED <<framesSent, audioSent, dropped, videoQ>>
    BY <1>3 DEF AudioSample
  <2>2. \/ audioQ' = Append(audioQ, now) /\ mapped' = mapped
        \/ audioQ' = audioQ /\ mapped' = mapped + 1
    BY <1>3 DEF AudioSample
  <2>4. \/ Len(audioQ') = Len(audioQ) + 1 /\ mapped' = mapped
        \/ Len(audioQ') = Len(audioQ) /\ mapped' = mapped + 1
    BY <2>2
  <2>5. /\ arrived'.v = framesSent' + dropped' + Len(videoQ')
        /\ arrived.a = audioSent + mapped + Len(audioQ)
    BY <2>1
  <2>6. arrived'.a = audioSent' + mapped' + Len(audioQ')
    <3>1. CASE Len(audioQ') = Len(audioQ) + 1 /\ mapped' = mapped
      BY <2>1, <2>5, <3>1
    <3>2. CASE Len(audioQ') = Len(audioQ) /\ mapped' = mapped + 1
      BY <2>1, <2>5, <3>2
    <3> QED  BY <2>4, <3>1, <3>2
  <2> QED  BY <2>5, <2>6
<1>4. CASE Tick
  BY <1>4 DEF Tick
<1>5. CASE Check \/ GetTimesOut \/ Send
  BY <1>5 DEF Check, GetTimesOut, Send
<1>6. CASE Frame
  <2>1. videoQ # <<>> /\ videoQ' = Tail(videoQ) /\ framesSent' = framesSent + 1
        /\ UNCHANGED <<arrived, dropped, mapped, audioQ, audioSent>>
    BY <1>6 DEF Frame
  <2>2. Len(videoQ') = Len(videoQ) - 1
    BY <2>1 DEF Frames
  <2> QED  BY <2>1, <2>2
<1>7. CASE Drain
  <2>1. audioQ # <<>> /\ audioQ' = Tail(audioQ) /\ audioSent' = audioSent + 1
        /\ UNCHANGED <<arrived, dropped, mapped, videoQ, framesSent>>
    BY <1>7 DEF Drain
  <2>2. Len(audioQ') = Len(audioQ) - 1
    BY <2>1
  <2> QED  BY <2>1, <2>2
<1>8. CASE UNCHANGED muxVars
  BY <1>8 DEF muxVars
<1> QED  BY <1>1, <1>2, <1>3, <1>4, <1>5, <1>6, <1>7, <1>8 DEF MuxNext, Loop

\* What the frame's batch is, with the counters in the order they are used.
LEMMA FrameShape ==
  ASSUME ChainInv, Frame
  PROVE  \E n \in Nat \ {0} :
           LET c1 == Advance(cc, "pat", 1)
               c2 == Advance(c1, "pmt", 1)
           IN \/ /\ Tables /\ cc' = Advance(c2, "video", n)
                 /\ batch' = (PacketsFrom(cc, "pat", 1) \o PacketsFrom(c1, "pmt", 1))
                             \o PacketsFrom(c2, "video", n)
              \/ /\ ~Tables /\ cc' = Advance(cc, "video", n)
                 /\ batch' = <<>> \o PacketsFrom(cc, "video", n)
<1> DEFINE c1 == Advance(cc, "pat", 1)
           c2 == Advance(c1, "pmt", 1)
<1>1. PICK size \in FrameBytes :
        LET n == PacketCount("video", size)
        IN /\ batch' = (IF Tables THEN TablePair ELSE <<>>) \o Packets("video", n)
           /\ cc' = Advance(IF Tables THEN c2 ELSE cc, "video", n)
  BY DEF Frame
<1> DEFINE n == PacketCount("video", size)
<1>2. n \in Nat \ {0}
  BY PacketCounted, MuxAssumption DEF MuxAssumption
<1>3. c1["pmt"] = cc["pmt"] /\ c2["video"] = cc["video"]
  BY DEF Advance, ChainInv, PIDs
<1> HIDE DEF n, c1, c2
<1>4. /\ Packets("pat", 1) = PacketsFrom(cc, "pat", 1)
      /\ Packets("pmt", 1) = PacketsFrom(c1, "pmt", 1)
      /\ Packets("video", n) = PacketsFrom(c2, "video", n)
      /\ Packets("video", n) = PacketsFrom(cc, "video", n)
  BY <1>3 DEF Packets, PacketsFrom
<1>5. CASE Tables
  <2>1. batch' = TablePair \o Packets("video", n) /\ cc' = Advance(c2, "video", n)
    BY <1>1, <1>5 DEF n
  <2> QED  BY <1>2, <1>4, <1>5, <2>1 DEF TablePair, c1, c2
<1>6. CASE ~Tables
  <2>1. batch' = <<>> \o Packets("video", n) /\ cc' = Advance(cc, "video", n)
    BY <1>1, <1>6 DEF n
  <2> QED  BY <1>2, <1>4, <1>6, <2>1
<1> QED  BY <1>5, <1>6

\* A frame's batch is numbered on, ends with a packet of the frame, and begins with the
\* tables when their turn has come.
LEMMA FrameBatch ==
  ASSUME ChainInv, Frame
  PROVE  /\ batch' \in Batches /\ cc' \in [PIDs -> Numbers] /\ batch' # <<>>
         /\ \E k \in DOMAIN batch' : batch'[k].pid = "video"
         /\ Tables => batch'[1].pid = "pat"
         /\ ~closed => Chained(batch', wire, cc')
<1> DEFINE c1 == Advance(cc, "pat", 1)
           c2 == Advance(c1, "pmt", 1)
           tables == PacketsFrom(cc, "pat", 1) \o PacketsFrom(c1, "pmt", 1)
<1>1. PICK n \in Nat \ {0} :
           \/ /\ Tables /\ cc' = Advance(c2, "video", n)
              /\ batch' = tables \o PacketsFrom(c2, "video", n)
           \/ /\ ~Tables /\ cc' = Advance(cc, "video", n)
              /\ batch' = <<>> \o PacketsFrom(cc, "video", n)
  BY FrameShape
<1>2. /\ batch = <<>> /\ <<>> \in Batches /\ {"pat", "pmt", "video"} \subseteq PIDs
      /\ cc \in [PIDs -> Numbers] /\ wire \in [PIDs -> None..(CCMod - 1)]
      /\ ~closed => Chained(<<>>, wire, cc)
  BY DEF ChainInv, Frame, Goes, PIDs, Batches
<1>3. /\ c1 \in [PIDs -> Numbers] /\ PacketsFrom(cc, "pat", 1) \in Batches
      /\ Len(PacketsFrom(cc, "pat", 1)) = 1 /\ PacketsFrom(cc, "pat", 1)[1].pid = "pat"
  <2>1. "pat" \in PIDs /\ 1 \in Nat /\ 1 \in 1..1
    BY <1>2
  <2>2. ASSUME NEW m \in Nat
        PROVE  /\ Advance(cc, "pat", m) \in [PIDs -> Numbers]
               /\ PacketsFrom(cc, "pat", m) \in Batches /\ Len(PacketsFrom(cc, "pat", m)) = m
    BY <1>2, <2>1, PacketsTyped
  <2>3. \A k \in 1..1 : PacketsFrom(cc, "pat", 1)[k].pid = "pat"
    BY <1>2, <2>1, PacketsTyped
  <2> QED  BY <2>1, <2>2, <2>3
<1> HIDE DEF c1
<1>4. c2 \in [PIDs -> Numbers] /\ PacketsFrom(c1, "pmt", 1) \in Batches
      /\ Len(PacketsFrom(c1, "pmt", 1)) = 1
  BY <1>2, <1>3, PacketsTyped
<1> HIDE DEF c2
<1>5. tables \in Batches /\ Len(tables) = 2 /\ tables[1].pid = "pat"
  BY <1>3, <1>4, ConcatProperties DEF Batches
<1>6. ~closed => Chained(tables, wire, c2)
  <2> SUFFICES ASSUME ~closed PROVE Chained(tables, wire, c2)
    OBVIOUS
  <2>1. Chained(<<>> \o PacketsFrom(cc, "pat", 1), wire, c1)
    BY <1>2, ChainAppend DEF c1
  <2>2. <<>> \o PacketsFrom(cc, "pat", 1) = PacketsFrom(cc, "pat", 1)
    BY <1>3, ConcatEmptySeq DEF Batches
  <2>3. Chained(PacketsFrom(cc, "pat", 1), wire, c1)
    BY <2>1, <2>2
  <2> QED  BY <1>2, <1>3, <2>3, ChainAppend DEF c2
<1> HIDE DEF tables
<1>7. ASSUME NEW c \in [PIDs -> Numbers]
      PROVE  /\ PacketsFrom(c, "video", n) \in Batches /\ Len(PacketsFrom(c, "video", n)) = n
             /\ \A k \in 1..n : PacketsFrom(c, "video", n)[k].pid = "video"
             /\ Advance(c, "video", n) \in [PIDs -> Numbers]
  <2>1. "video" \in PIDs /\ n \in Nat
    BY <1>1, <1>2
  <2> QED  BY <1>7, <2>1, PacketsTyped
<1>8. ASSUME NEW b \in Batches, NEW c \in [PIDs -> Numbers],
             batch' = b \o PacketsFrom(c, "video", n)
      PROVE  /\ batch' \in Batches /\ Len(batch') = Len(b) + n /\ Len(b) \in Nat
             /\ \E k \in DOMAIN batch' : batch'[k].pid = "video"
             /\ \A k \in 1..Len(b) : batch'[k] = b[k]
  <2> DEFINE x == PacketsFrom(c, "video", n)
  <2>1. x \in Batches /\ Len(x) = n /\ \A k \in 1..n : x[k].pid = "video"
    BY <1>7
  <2> HIDE DEF x
  <2>2. batch' = b \o x
    BY <1>8 DEF x
  <2>3. /\ batch' \in Batches /\ Len(batch') = Len(b) + n /\ Len(b) \in Nat
        /\ \A k \in 1..(Len(b) + n) : batch'[k] = IF k <= Len(b) THEN b[k] ELSE x[k - Len(b)]
    BY <2>1, <2>2, BatchAfter
  <2>4. Len(b) + n \in DOMAIN batch' /\ Len(b) + n - Len(b) = n /\ n \in 1..n
    BY <2>3 DEF Batches
  <2>5. batch'[Len(b) + n].pid = "video"
    BY <2>1, <2>3, <2>4
  <2>6. \A k \in 1..Len(b) : batch'[k] = b[k]
    BY <2>3
  <2> QED  BY <2>3, <2>4, <2>5, <2>6
<1>9. CASE Tables
  <2>1. batch' = tables \o PacketsFrom(c2, "video", n) /\ cc' = Advance(c2, "video", n)
    BY <1>1, <1>9
  <2>2. ~closed => Chained(batch', wire, cc')
    BY <1>1, <1>2, <1>4, <1>5, <1>6, <2>1, ChainAppend
  <2>3. 1 \in 1..Len(tables)
    BY <1>5
  <2>4. Len(batch') # 0
    BY <1>4, <1>5, <1>8, <2>1
  <2> QED  BY <1>4, <1>5, <1>7, <1>8, <2>1, <2>2, <2>3, <2>4
<1>10. CASE ~Tables
  <2>1. batch' = <<>> \o PacketsFrom(cc, "video", n) /\ cc' = Advance(cc, "video", n)
    BY <1>1, <1>10
  <2>2. ~closed => Chained(batch', wire, cc')
    BY <1>1, <1>2, <2>1, ChainAppend
  <2>4. Len(batch') # 0
    <3>1. Len(batch') = Len(<<>>) + n /\ Len(<<>>) = 0
      BY <1>2, <1>8, <2>1
    <3> QED  BY <3>1
  <2> QED  BY <1>2, <1>7, <1>8, <1>10, <2>1, <2>2, <2>4
<1> QED  BY <1>9, <1>10

\* The counter before a place is one that was used, or none.
LEMMA PriorTyped ==
  ASSUME NEW b \in Batches, NEW w \in [PIDs -> None..(CCMod - 1)], NEW p \in PIDs
  PROVE  Prior(b, w, p, Len(b) + 1) \in None..(CCMod - 1)
<1> DEFINE its == {k \in DOMAIN b : k < Len(b) + 1 /\ b[k].pid = p}
<1>1. DOMAIN b = 1..Len(b) /\ Len(b) \in Nat /\ \A k \in DOMAIN b : b[k].cc \in Numbers
  BY BatchTyped
<1>2. its # {} => Max(its) \in DOMAIN b
  <2>1. its \in SUBSET (1..Len(b)) /\ its \subseteq DOMAIN b
    BY <1>1
  <2> HIDE DEF its
  <2> QED  BY <1>1, <2>1, Greatest
<1>3. its # {} => b[Max(its)].cc \in Numbers
  BY <1>1, <1>2
<1> HIDE DEF its
<1>4. Prior(b, w, p, Len(b) + 1) = IF its = {} THEN w[p] ELSE b[Max(its)].cc
  BY DEF Prior, its
<1>5. CCMod \in Nat \ {0} /\ w[p] \in None..(CCMod - 1)
  BY MuxAssumption DEF MuxAssumption
<1> QED  BY <1>3, <1>4, <1>5 DEF Numbers, None

\* What is sent is what the next batch is numbered on from, and a PID that is in it
\* has been sent.
LEMMA SendShape ==
  ASSUME ChainInv, Send
  PROVE  /\ wire' \in [PIDs -> None..(CCMod - 1)]
         /\ ~closed => Chained(<<>>, wire', cc)
         /\ ~closed => \A k \in DOMAIN batch : wire'[batch[k].pid] # None
<1> DEFINE end == [p \in PIDs |-> Prior(batch, wire, p, Len(batch) + 1)]
<1>1. end \in [PIDs -> None..(CCMod - 1)]
  BY PriorTyped DEF ChainInv
<1>2. wire' = IF closed THEN wire ELSE end
  BY DEF Send, Before, Prior
<1>3. Chained(batch, wire, cc) => Chained(<<>>, end, cc)
  <2>1. \A p \in PIDs : Prior(<<>>, end, p, Len(<<>>) + 1) = end[p]
    BY DEF Prior
  <2> QED  BY <2>1 DEF Chained
<1>4. ASSUME NEW k \in DOMAIN batch PROVE end[batch[k].pid] # None
  <2> DEFINE p == batch[k].pid
             its == {i \in DOMAIN batch : i < Len(batch) + 1 /\ batch[i].pid = p}
  <2>1. /\ DOMAIN batch = 1..Len(batch) /\ Len(batch) \in Nat /\ p \in PIDs
        /\ \A i \in DOMAIN batch : batch[i].cc \in Numbers
    BY BatchTyped DEF ChainInv
  <2>2. its \in SUBSET (1..Len(batch)) /\ its # {}
    BY <2>1
  <2>3. Max(its) \in its
    <3> HIDE DEF its
    <3> QED  BY <2>1, <2>2, Greatest
  <2>4. batch[Max(its)].cc \in Numbers
    BY <2>1, <2>3
  <2>5. end[p] = batch[Max(its)].cc
    BY <2>1, <2>2 DEF Prior
  <2>6. CCMod \in Nat /\ None \notin Numbers
    BY MuxAssumption DEF MuxAssumption, Numbers, None
  <2> QED  BY <2>4, <2>5, <2>6
<1> HIDE DEF end
<1> QED  BY <1>1, <1>2, <1>3, <1>4 DEF ChainInv

\* Audio is numbered on behind the frame.
LEMMA DrainShape ==
  ASSUME ChainInv, Drain
  PROVE  /\ cc' \in [PIDs -> Numbers] /\ batch' \in Batches
         /\ ~closed => Chained(batch', wire, cc')
         /\ \A k \in DOMAIN batch : k \in DOMAIN batch' /\ batch'[k] = batch[k]
<1>1. CASE UNCHANGED <<batch, cc>>
  BY <1>1 DEF ChainInv
<1>2. ASSUME NEW size \in SampleBytes,
             batch' = batch \o Packets("audio", PacketCount("audio", size)),
             cc' = Advance(cc, "audio", PacketCount("audio", size))
      PROVE  /\ cc' \in [PIDs -> Numbers] /\ batch' \in Batches
             /\ ~closed => Chained(batch', wire, cc')
             /\ \A k \in DOMAIN batch : k \in DOMAIN batch' /\ batch'[k] = batch[k]
  <2> DEFINE n == PacketCount("audio", size)
             x == PacketsFrom(cc, "audio", n)
  <2>1. n \in Nat /\ "audio" \in PIDs
    BY PacketCounted, MuxAssumption DEF MuxAssumption, PIDs
  <2>2. batch' = batch \o x /\ cc' = Advance(cc, "audio", n)
    BY <1>2 DEF Packets, PacketsFrom
  <2> HIDE DEF n
  <2>3. /\ cc \in [PIDs -> Numbers] /\ batch \in Batches
        /\ wire \in [PIDs -> None..(CCMod - 1)] /\ (~closed => Chained(batch, wire, cc))
    BY DEF ChainInv
  <2>4. x \in Batches /\ cc' \in [PIDs -> Numbers]
    BY <2>1, <2>2, <2>3, PacketsTyped
  <2>5. ~closed => Chained(batch', wire, cc')
    BY <2>1, <2>2, <2>3, ChainAppend
  <2> HIDE DEF x
  <2>6. /\ batch' \in Batches /\ Len(batch') = Len(batch) + Len(x) /\ Len(x) \in Nat
        /\ Len(batch) \in Nat
        /\ \A k \in 1..(Len(batch) + Len(x)) :
             batch'[k] = IF k <= Len(batch) THEN batch[k] ELSE x[k - Len(batch)]
    BY <2>2, <2>3, <2>4, BatchAfter
  <2>7. DOMAIN batch = 1..Len(batch) /\ DOMAIN batch' = 1..Len(batch')
    BY <2>3, <2>6 DEF Batches
  <2>8. \A k \in DOMAIN batch : k \in DOMAIN batch' /\ batch'[k] = batch[k]
    BY <2>6, <2>7
  <2> QED  BY <2>4, <2>5, <2>6, <2>8
<1> QED  BY <1>1, <1>2 DEF Drain

LEMMA ChainStep == ChainInv /\ [MuxNext]_muxVars => ChainInv'
<1> SUFFICES ASSUME ChainInv, [MuxNext]_muxVars PROVE ChainInv'
  OBVIOUS
<1> USE DEF Owner, Goes, ownerVars, queueVars, loopVars
<1>1. CASE StartRaises \/ StartThread \/ Play \/ Probe \/ StopMuxing \/ Quiet \/ Join
  BY <1>1 DEF StartRaises, StartThread, Play, Probe, StopMuxing, Quiet, Join, ChainInv
<1>2. ASSUME NEW gst \in arrived.gst..now, NEW missing \in BOOLEAN, VideoSample(gst, missing)
      PROVE  ChainInv'
  BY <1>2 DEF VideoSample, ChainInv
<1>3. CASE AudioSample \/ Tick
  BY <1>3 DEF AudioSample, Tick, ChainInv
<1>4. CASE Check \/ GetTimesOut
  BY <1>4 DEF Check, GetTimesOut, ChainInv
<1>5. CASE Frame
  <2>1. UNCHANGED <<wire, closed>> /\ thread' = "drain"
    BY <1>5 DEF Frame
  <2> QED  BY <1>5, <2>1, FrameBatch DEF ChainInv
<1>6. CASE Drain
  <2>1. UNCHANGED <<wire, closed, thread>> /\ thread = "drain"
    BY <1>6 DEF Drain
  <2> QED  BY <1>6, <2>1, DrainShape DEF ChainInv
<1>7. CASE Send
  <2>1. UNCHANGED <<cc, closed>> /\ batch' = <<>> /\ <<>> \in Batches
    BY <1>7 DEF Send, Batches
  <2> QED  BY <1>7, <2>1, SendShape DEF ChainInv
<1>8. CASE UNCHANGED muxVars
  BY <1>8 DEF muxVars, ChainInv
<1> QED  BY <1>1, <1>2, <1>3, <1>4, <1>5, <1>6, <1>7, <1>8 DEF MuxNext, Loop

LEMMA LeadStep == MuxTypes /\ ChainInv /\ LeadInv /\ [MuxNext]_muxVars => LeadInv'
<1> SUFFICES ASSUME MuxTypes, ChainInv, LeadInv, [MuxNext]_muxVars PROVE LeadInv'
  OBVIOUS
<1> USE DEF Owner, Goes, ownerVars, queueVars, loopVars
<1>1. CASE StartRaises \/ StartThread \/ Play \/ Probe \/ StopMuxing \/ Quiet \/ Join
  BY <1>1 DEF StartRaises, StartThread, Play, Probe, StopMuxing, Quiet, Join, LeadInv
<1>2. ASSUME NEW gst \in arrived.gst..now, NEW missing \in BOOLEAN, VideoSample(gst, missing)
      PROVE  LeadInv'
  BY <1>2 DEF VideoSample, LeadInv
<1>3. CASE AudioSample \/ Tick
  BY <1>3 DEF AudioSample, Tick, LeadInv
<1>4. CASE Check \/ GetTimesOut
  BY <1>4 DEF Check, GetTimesOut, LeadInv
<1>5. CASE Frame
  <2>1. UNCHANGED <<wire, closed>> /\ batch = <<>> /\ thread' = "drain"
    BY <1>5 DEF Frame, ChainInv
  <2>2. counter = 0 => Tables
    BY MuxAssumption DEF MuxAssumption, Tables
  <2> QED  BY <1>5, <2>1, <2>2, FrameBatch DEF LeadInv
<1>6. CASE Drain
  <2>1. UNCHANGED <<wire, closed, thread, counter>> /\ thread = "drain"
    BY <1>6 DEF Drain
  <2>2. batch # <<>> => 1 \in DOMAIN batch
    BY DEF ChainInv, Batches
  <2>3. batch # <<>> => batch' # <<>> /\ batch'[1] = batch[1]
    <3>1. batch # <<>> => 1 \in DOMAIN batch' /\ batch'[1] = batch[1]
      BY <1>6, <2>2, DrainShape
    <3> QED  BY <3>1
  <2> QED  BY <1>6, <2>1, <2>3, DrainShape DEF LeadInv
<1>7. CASE Send
  <2>1. closed' = closed /\ thread = "drain" /\ thread' = "check"
    BY <1>7 DEF Send
  <2>2. ~closed => wire'["video"] # None
    BY <1>7, <2>1, SendShape DEF LeadInv
  <2> QED  BY <2>1, <2>2 DEF LeadInv
<1>8. CASE UNCHANGED muxVars
  BY <1>8 DEF muxVars, LeadInv
<1> QED  BY <1>1, <1>2, <1>3, <1>4, <1>5, <1>6, <1>7, <1>8 DEF MuxNext, Loop

-----------------------------------------------------------------------------
LEMMA InitMux == MuxInit => MuxInv
<1> SUFFICES ASSUME MuxInit PROVE MuxInv
  OBVIOUS
<1> USE DEF MuxInit, Fresh
<1>0. /\ CCMod \in Nat \ {0} /\ VideoSize \in Nat /\ AudioSize \in Nat /\ MaxVideo \in Nat
      /\ MaxAudio \in Nat
  BY MuxAssumption DEF MuxAssumption
<1>1. MuxTypes
  <2>1. videoQ \in Frames /\ Len(videoQ) = 0 /\ audioQ \in Seq(Nat) /\ Len(audioQ) = 0
    BY DEF Frames
  <2>2. arrived \in [v : 0..MaxVideo, a : 0..MaxAudio, gst : Nat]
    BY <1>0
  <2>3. /\ owner = "idle" /\ thread = "none" /\ now = 0 /\ dropped = 0 /\ mapped = 0
        /\ framesSent = 0 /\ audioSent = 0 /\ counter = 0
    OBVIOUS
  <2>4. muxing \in BOOLEAN /\ playing \in BOOLEAN /\ closed \in BOOLEAN /\ collector \in BOOLEAN
    OBVIOUS
  <2> HIDE DEF MuxInit, Fresh
  <2> QED  BY <1>0, <2>1, <2>2, <2>3, <2>4 DEF MuxTypes
<1>2. Accounted
  BY DEF Accounted
<1>3. ChainInv
  <2>1. 0 \in Numbers /\ None \in None..(CCMod - 1)
    BY <1>0 DEF Numbers, None
  <2>2. Chained(batch, wire, cc)
    BY DEF Chained, Prior, Following
  <2> QED  BY <2>1, <2>2 DEF ChainInv, Batches
<1>4. LeadInv
  BY DEF LeadInv
<1> QED  BY <1>1, <1>2, <1>3, <1>4 DEF MuxInv

LEMMA MuxAlways == MuxSpec => []MuxInv
<1>1. MuxInv /\ [MuxNext]_muxVars => MuxInv'
  BY MuxTypesStep, AccountedStep, ChainStep, LeadStep DEF MuxInv
<1> QED  BY <1>1, InitMux, PTL DEF MuxSpec

\* The muxer's variables have their types: the counters of the packets stay below CCMod,
\* the queues within their sizes, and no more was refused than came.
LEMMA MuxTyped == MuxInv => MuxTypeOK
<1> SUFFICES ASSUME MuxInv PROVE MuxTypeOK
  OBVIOUS
<1>1. MuxTypes /\ Accounted /\ ChainInv
  BY DEF MuxInv
<1>2. Len(videoQ) \in 0..VideoSize /\ Len(audioQ) \in 0..AudioSize
  BY <1>1, MuxAssumption DEF MuxAssumption, MuxTypes, Frames
<1>3. mapped \in 0..MaxAudio /\ dropped \in 0..MaxVideo
  <2>1. /\ arrived.v \in 0..MaxVideo /\ arrived.a \in 0..MaxAudio /\ MaxVideo \in Nat
        /\ MaxAudio \in Nat /\ framesSent \in Nat /\ audioSent \in Nat /\ dropped \in Nat
        /\ mapped \in Nat /\ Len(videoQ) \in Nat /\ Len(audioQ) \in Nat
    BY <1>1, MuxAssumption DEF MuxAssumption, MuxTypes, Frames
  <2> QED  BY <1>1, <2>1 DEF Accounted
<1> QED  BY <1>1, <1>2, <1>3 DEF MuxTypeOK, MuxTypes, ChainInv, Numbers

\* No frame and no audio buffer is lost unnoticed, no packet is missing between what was
\* sent and what is built next, and the first thing sent are the tables.
THEOREM StreamWholeHolds == MuxSpec => []StreamWhole
<1>1. MuxInv => StreamWhole
  <2> SUFFICES ASSUME MuxInv PROVE StreamWhole
    OBVIOUS
  <2>1. Continuous
    <3>1. ASSUME NEW k PROVE Before(batch[k].pid, k) = Prior(batch, wire, batch[k].pid, k)
      BY DEF Before, Prior
    <3>2. ASSUME NEW p PROVE Before(p, Len(batch) + 1) = Prior(batch, wire, p, Len(batch) + 1)
      BY DEF Before, Prior
    <3> QED  BY <3>1, <3>2 DEF MuxInv, ChainInv, Chained, Continuous
  <2>2. TablesLead
    <3>1. batch # <<>> => counter # 0
      BY DEF MuxInv, MuxTypes, ChainInv
    <3> QED  BY <3>1 DEF MuxInv, LeadInv, TablesLead
  <2> QED  BY <2>1, <2>2 DEF MuxInv, StreamWhole
<1> QED  BY <1>1, MuxAlways, PTL

\* Once stop() has returned nothing leaves, whether the mux thread has ended or not.
THEOREM NothingAfterStopHolds == MuxSpec => NothingAfterStop
<1>1. MuxInv /\ [MuxNext]_muxVars => [owner = "stopped" => wire' = wire]_muxVars
  <2> SUFFICES ASSUME MuxInv, MuxNext, owner = "stopped" PROVE wire' = wire
    OBVIOUS
  <2>1. closed
    BY DEF MuxInv, MuxTypes
  <2> QED  BY <2>1 DEF MuxNext, Loop, StartRaises, StartThread, Play, Probe, StopMuxing, Quiet,
        Join, VideoSample, AudioSample, Tick, Check, GetTimesOut, Frame, Drain, Send, loopVars
<1> QED  BY <1>1, MuxAlways, PTL DEF MuxSpec, NothingAfterStop

-----------------------------------------------------------------------------
(* Time stamps.                                                            *)

\* The stamp of a buffer against the first one, on the wrapping clock.
LEMMA OwnStamp ==
  ASSUME NEW m \in Nat \ {0}, NEW a \in Int, NEW b \in Int
  PROVE  ((a % m) - (b % m)) % m = (a - b) % m
<1>1. (a % m) \in Int /\ -(b % m) \in Int /\ -b \in Int /\ b % m \in Int
  BY Divided
<1>2. ((a % m) + (-(b % m))) % m = (a + (-(b % m))) % m
  BY <1>1, RemainderOfSum
<1>3. (a - (b % m)) % m = (a - b) % m
  BY RemainderOfDifference
<1>4. (a % m) + (-(b % m)) = (a % m) - (b % m) /\ a + (-(b % m)) = a - (b % m)
  BY <1>1
<1> QED  BY <1>2, <1>3, <1>4

\* A number below the modulus is its own remainder.
LEMMA Small ==
  ASSUME NEW m \in Nat \ {0}, NEW a \in 0..(m - 1)
  PROVE  a % m = a
<1>1. (m * 0 + a) % m = a
  BY Remainder
<1>2. m * 0 + a = a
  OBVIOUS
<1> QED  BY <1>1, <1>2

Half == Wrap \div 2

\* While the clock does not wrap, a frame's stamp and the clock compare as their times do;
\* a frame on time by its own stamp, and one pushed ahead of the clock, are ahead of it.
LEMMA OwnAhead ==
  ASSUME NEW d \in Nat, NEW c \in Nat, d <= c + MaxLag, c <= d + MaxLag, ~Wraps(c),
         MaxLag < Half, Lead < Half
  PROVE  /\ c % Wrap \in Nat /\ d % Wrap \in Nat
         /\ d % Wrap < c % Wrap <=> d < c
         /\ d >= c => Ahead(d % Wrap, c % Wrap)
         /\ Ahead(((c % Wrap) + Lead) % Wrap, c % Wrap)
<1> DEFINE q == c \div Wrap
           r == c % Wrap
           z == Wrap * q
           s == d - z
<1>1. /\ Wrap \in Nat \ {0} /\ MaxLag \in Nat /\ Lead \in Nat /\ Half \in Nat /\ Half <= Wrap
  BY MuxAssumption DEF MuxAssumption, Half
<1>2. r \in 0..(Wrap - 1) /\ q \in Int /\ c = z + r /\ z \in Int
  <2>1. r \in 0..(Wrap - 1) /\ q \in Int /\ c = Wrap * q + r
    BY <1>1, Divided
  <2> HIDE DEF q, r
  <2> QED  BY <1>1, <2>1
<1>3. r + MaxLag < Wrap /\ (c >= Wrap => r >= MaxLag)
  <2>1. ~(r + MaxLag >= Wrap) /\ ~(c >= Wrap /\ r < MaxLag)
    BY DEF Wraps
  <2> HIDE DEF r
  <2> QED  BY <1>1, <1>2, <2>1
<1>4. c < Wrap => r = c
  BY <1>1, Small
<1> HIDE DEF q, r
<1>5. s \in 0..(Wrap - 1) /\ s - r = d - c
  <2> HIDE DEF z
  <2>1. s \in Int /\ s - r = d - c
    BY <1>1, <1>2
  <2>2. s <= r + MaxLag
    BY <1>1, <1>2, <2>1
  <2>3. s >= 0
    <3>1. CASE c < Wrap
      BY <1>1, <1>2, <1>4, <2>1, <3>1
    <3>2. CASE c >= Wrap
      BY <1>1, <1>2, <1>3, <2>1, <3>2
    <3> QED  BY <1>1, <3>1, <3>2
  <2> HIDE DEF s
  <2> QED  BY <1>1, <1>2, <1>3, <2>1, <2>2, <2>3
<1>6. d % Wrap = s
  <2>1. (Wrap * q + s) % Wrap = s
    <3> HIDE DEF s
    <3> QED  BY <1>1, <1>2, <1>5, Remainder
  <2>2. Wrap * q + s = d
    <3>1. z \in Int /\ s = d - z
      BY <1>2
    <3>2. z + s = d
      <4> HIDE DEF z, s
      <4> QED  BY <3>1
    <3> QED  BY <3>2
  <2> HIDE DEF s
  <2> QED  BY <2>1, <2>2
<1> HIDE DEF z, s
<1>7. s < r <=> d < c
  BY <1>1, <1>2, <1>5
<1>8. ASSUME d >= c PROVE Ahead(s, r)
  <2>1. s - r \in 0..(Wrap - 1) /\ s - r < Half
    BY <1>1, <1>2, <1>5, <1>8
  <2>2. (s - r) % Wrap = s - r
    BY <1>1, <2>1, Small
  <2> QED  BY <2>1, <2>2 DEF Ahead, Half
<1>9. Ahead((r + Lead) % Wrap, r)
  <2>1. (((r + Lead) % Wrap) - r) % Wrap = ((r + Lead) - r) % Wrap
    <3>1. r + Lead \in Int /\ -r \in Int /\ (r + Lead) % Wrap \in Int
      BY <1>1, <1>2, Divided
    <3>2. (((r + Lead) % Wrap) + (-r)) % Wrap = ((r + Lead) + (-r)) % Wrap
      BY <1>1, <3>1, RemainderOfSum
    <3>3. ((r + Lead) % Wrap) + (-r) = ((r + Lead) % Wrap) - r /\ (r + Lead) + (-r) = (r + Lead) - r
      BY <1>2, <3>1
    <3> QED  BY <3>2, <3>3
  <2>2. (r + Lead) - r = Lead /\ Lead \in 0..(Wrap - 1)
    BY <1>1, <1>2
  <2>3. Lead % Wrap = Lead
    BY <1>1, <2>2, Small
  <2> QED  BY <2>1, <2>2, <2>3 DEF Ahead, Half
<1>10. r \in Nat /\ s \in Nat
  BY <1>1, <1>2, <1>5
<1> QED  BY <1>6, <1>7, <1>8, <1>9, <1>10 DEF r

\* Of two frames the later is ahead by its own stamp, and pushed ahead of the clock it is
\* as well.
LEMMA LaterAhead ==
  ASSUME NEW d \in Nat, NEW e \in Nat, NEW c \in Nat, d <= e, e - d + Lead + MaxLag < Half
  PROVE  /\ Ahead(e % Wrap, d % Wrap)
         /\ e <= c /\ c <= e + MaxLag => Ahead((c + Lead) % Wrap, d % Wrap)
<1>1. /\ Wrap \in Nat \ {0} /\ MaxLag \in Nat /\ Lead \in Nat /\ Half \in Nat /\ Half <= Wrap
  BY MuxAssumption DEF MuxAssumption, Half
<1>2. ASSUME NEW a \in Nat, a - d >= 0, a - d < Half PROVE Ahead(a % Wrap, d % Wrap)
  <2>1. ((a % Wrap) - (d % Wrap)) % Wrap = (a - d) % Wrap
    <3>1. a \in Int /\ d \in Int
      OBVIOUS
    <3> QED  BY <1>1, <3>1, OwnStamp
  <2>2. a - d \in 0..(Wrap - 1)
    BY <1>1, <1>2
  <2>3. (a - d) % Wrap = a - d
    BY <1>1, <2>2, Small
  <2> QED  BY <1>2, <2>1, <2>3 DEF Ahead, Half
<1>3. Ahead(e % Wrap, d % Wrap)
  <2>1. e - d >= 0 /\ e - d < Half
    BY <1>1
  <2> QED  BY <1>2, <2>1
<1>4. ASSUME e <= c, c <= e + MaxLag PROVE Ahead((c + Lead) % Wrap, d % Wrap)
  <2>1. c + Lead \in Nat /\ c + Lead - d >= 0 /\ c + Lead - d < Half
    BY <1>1, <1>4
  <2> DEFINE a == c + Lead
  <2>2. a \in Nat /\ a - d >= 0 /\ a - d < Half
    BY <1>1, <2>1
  <2> HIDE DEF a
  <2>3. Ahead(a % Wrap, d % Wrap)
    BY <1>2, <2>2
  <2> QED  BY <2>3 DEF a
<1> QED  BY <1>3, <1>4

\* Frames wait in the order of their stamps, none longer than MaxLag and none older than
\* the last one sent; a frame without a stamp counts for nothing here.
ClockInv ==
  /\ arrived.gst <= now
  /\ \A k \in DOMAIN videoQ : ~videoQ[k].missing =>
       now <= videoQ[k].gst + MaxLag /\ videoQ[k].gst <= arrived.gst
  /\ \A k \in DOMAIN videoQ : \A i \in DOMAIN videoQ :
       i < k /\ ~videoQ[i].missing /\ ~videoQ[k].missing => videoQ[i].gst <= videoQ[k].gst
  /\ last # NothingSent /\ ~last.missing =>
       last.gst <= arrived.gst /\
       \A k \in DOMAIN videoQ : ~videoQ[k].missing => last.gst <= videoQ[k].gst

\* The first frame's stamp: what the offset is taken from, at most MaxLag before the
\* clock's start and not after any other's.
Origin(g) ==
  /\ offset = g % Wrap /\ g <= wallStart /\ wallStart <= g + MaxLag /\ g <= arrived.gst
  /\ ~last.missing => g <= last.gst
  /\ \A k \in DOMAIN videoQ : ~videoQ[k].missing => g <= videoQ[k].gst
OriginInv ==
  /\ wallStart = None => last = NothingSent
  /\ wallStart # None =>
       /\ wallStart \in Nat /\ wallStart <= now /\ offset \in Int /\ last # NothingSent
       /\ ~last.unbased => \E g \in Nat : Origin(g)

\* What is known of the last frame's stamps.
LastInv ==
  last # NothingSent =>
    /\ last.gst \in Nat /\ last.missing \in BOOLEAN /\ last.unbased \in BOOLEAN /\ last.late \in BOOLEAN
    /\ ~last.late => last.pts = ((last.gst % Wrap) - offset) % Wrap
    /\ PTSAheadOfClock

StampInv == ClockInv /\ OriginInv /\ LastInv

\* The frame taken is no older than the first, is stamped within MaxLag of the clock,
\* and so are those behind it.
LEMMA FrameOrigin ==
  ASSUME MuxTypes, ClockInv, OriginInv, Frame
  PROVE  /\ last' = Stamp(videoQ[1], wallStart', offset') /\ last' # NothingSent
         /\ last'.gst = videoQ[1].gst /\ last'.missing = videoQ[1].missing
         /\ last'.gst \in Nat /\ last'.missing \in BOOLEAN
         /\ ClockInv' /\ OriginInv'
         /\ last # NothingSent => wallStart' = wallStart /\ offset' = offset /\ last'.unbased = last.unbased
<1> DEFINE frame == videoQ[1]
<1>1. /\ videoQ # <<>> /\ videoQ' = Tail(videoQ) /\ UNCHANGED <<now, arrived>>
      /\ wallStart' = IF wallStart = None THEN now ELSE wallStart
      /\ offset' = IF wallStart = None THEN frame.gst % Wrap ELSE offset
      /\ last' = Stamp(frame, wallStart', offset')
  BY DEF Frame
<1>2. /\ videoQ \in Frames /\ Len(videoQ) \in Nat /\ DOMAIN videoQ = 1..Len(videoQ)
      /\ now \in Nat /\ arrived.gst \in Nat /\ Wrap \in Nat \ {0} /\ MaxLag \in Nat
  BY MuxAssumption DEF MuxAssumption, MuxTypes, Frames
<1>3. 1 \in DOMAIN videoQ /\ \A k \in DOMAIN videoQ : videoQ[k] \in [gst : Nat, missing : BOOLEAN]
  <2>1. Len(videoQ) # 0
    BY <1>1, <1>2 DEF Frames
  <2>2. ASSUME NEW k \in DOMAIN videoQ PROVE videoQ[k] \in [gst : Nat, missing : BOOLEAN]
    BY <1>2, ElementOfSeq DEF Frames
  <2> QED  BY <1>2, <2>1, <2>2
<1>4. /\ frame.gst \in Nat /\ frame.missing \in BOOLEAN /\ frame.gst \in Int
      /\ \A k \in DOMAIN videoQ : videoQ[k].gst \in Nat
  BY <1>3
<1>5. /\ \A k \in DOMAIN videoQ' : k + 1 \in DOMAIN videoQ /\ videoQ'[k] = videoQ[k + 1] /\ 1 < k + 1
      /\ DOMAIN videoQ' \subseteq Nat
  BY <1>1, <1>2 DEF Frames
<1> HIDE DEF frame
<1>6. /\ last'.gst = frame.gst /\ last'.missing = frame.missing /\ last'.pts # None
      /\ last'.unbased = (IF last = NothingSent THEN frame.missing ELSE last.unbased)
  <2>1. last'.gst = frame.gst /\ last'.missing = frame.missing
        /\ last'.unbased = (IF last = NothingSent THEN frame.missing ELSE last.unbased)
    BY <1>1 DEF Stamp
  <2>2. \E a \in Int : last'.pts = a % Wrap
    <3>1. wallStart' \in Nat /\ offset' \in Int
      <4>1. wallStart # None => wallStart \in Nat /\ offset \in Int
        BY DEF OriginInv
      <4>2. frame.gst % Wrap \in Int
        <5>1. frame.gst % Wrap \in 0..(Wrap - 1)
          BY <1>2, <1>4, Divided
        <5> QED  BY <1>2, <5>1
      <4> QED  BY <1>1, <1>2, <4>1, <4>2
    <3> DEFINE pcr == (now - wallStart') % Wrap
               own == (frame.gst % Wrap) - offset'
    <3>2. pcr \in Int /\ own \in Int
      <4>1. now - wallStart' \in Int
        BY <1>2, <3>1
      <4>2. pcr \in 0..(Wrap - 1) /\ frame.gst % Wrap \in 0..(Wrap - 1)
        BY <1>2, <1>4, <4>1, Divided
      <4> QED  BY <1>2, <3>1, <4>2
    <3>3. last'.pts = IF own % Wrap < pcr THEN (pcr + Lead) % Wrap ELSE own % Wrap
      BY <1>1 DEF Stamp
    <3> HIDE DEF pcr, own
    <3>4. pcr + Lead \in Int
      BY <3>2, MuxAssumption DEF MuxAssumption
    <3> QED  BY <3>2, <3>3, <3>4
  <2>3. \A a \in Int : a % Wrap # None
    BY <1>2, Divided DEF None
  <2> QED  BY <2>1, <2>2, <2>3
<1>7. last' # NothingSent
  <2>1. NothingSent.pts = None
    BY DEF NothingSent
  <2> QED  BY <1>6, <2>1
<1>8. ClockInv'
  <2>1. \A k \in DOMAIN videoQ' : ~videoQ'[k].missing =>
          now' <= videoQ'[k].gst + MaxLag /\ videoQ'[k].gst <= arrived'.gst
    BY <1>1, <1>5 DEF ClockInv
  <2>2. \A k \in DOMAIN videoQ' : \A i \in DOMAIN videoQ' :
          i < k /\ ~videoQ'[i].missing /\ ~videoQ'[k].missing => videoQ'[i].gst <= videoQ'[k].gst
    <3> SUFFICES ASSUME NEW k \in DOMAIN videoQ', NEW i \in DOMAIN videoQ', i < k,
                        ~videoQ'[i].missing, ~videoQ'[k].missing
                 PROVE  videoQ'[i].gst <= videoQ'[k].gst
      OBVIOUS
    <3>1. /\ i + 1 \in DOMAIN videoQ /\ k + 1 \in DOMAIN videoQ /\ i + 1 < k + 1
          /\ videoQ'[i] = videoQ[i + 1] /\ videoQ'[k] = videoQ[k + 1]
      BY <1>5
    <3> QED  BY <3>1 DEF ClockInv
  <2>3. ~last'.missing =>
          last'.gst <= arrived'.gst /\
          \A k \in DOMAIN videoQ' : ~videoQ'[k].missing => last'.gst <= videoQ'[k].gst
    <3> SUFFICES ASSUME ~frame.missing
                 PROVE  frame.gst <= arrived.gst /\
                        \A k \in DOMAIN videoQ' : ~videoQ'[k].missing => frame.gst <= videoQ'[k].gst
      BY <1>1, <1>6
    <3>1. frame.gst <= arrived.gst
      BY <1>3 DEF ClockInv, frame
    <3>2. ASSUME NEW k \in DOMAIN videoQ', ~videoQ'[k].missing PROVE frame.gst <= videoQ'[k].gst
      BY <1>3, <1>5, <3>2 DEF ClockInv, frame
    <3> QED  BY <3>1, <3>2
  <2>4. arrived'.gst <= now'
    BY <1>1 DEF ClockInv
  <2> QED  BY <2>1, <2>2, <2>3, <2>4 DEF ClockInv
<1>9. wallStart' \in Nat /\ wallStart' <= now' /\ wallStart' # None /\ offset' \in Int
  <2>1. frame.gst % Wrap \in 0..(Wrap - 1)
    BY <1>2, <1>4, Divided
  <2> QED  BY <1>1, <1>2, <2>1 DEF OriginInv, None
<1>10. ASSUME ~last'.unbased PROVE \E g \in Nat : Origin(g)'
  <2>1. CASE wallStart = None
    <3>1. last = NothingSent /\ ~frame.missing
      BY <1>6, <1>10, <2>1 DEF OriginInv
    <3>2. wallStart' = now /\ offset' = frame.gst % Wrap
      BY <1>1, <2>1
    <3>3. frame.gst <= arrived.gst /\ arrived.gst <= now /\ now <= frame.gst + MaxLag
      BY <1>3, <3>1 DEF ClockInv, frame
    <3>4. \A k \in DOMAIN videoQ' : ~videoQ'[k].missing => frame.gst <= videoQ'[k].gst
      BY <1>6, <1>7, <1>8, <3>1 DEF ClockInv
    <3>5. PICK g \in Nat : g = frame.gst
      BY <1>4
    <3>6. Origin(g)'
      BY <1>1, <1>2, <1>4, <1>6, <3>2, <3>3, <3>4, <3>5 DEF Origin
    <3> QED  BY <3>6
  <2>2. CASE wallStart # None
    <3>1. last # NothingSent /\ ~last.unbased /\ wallStart' = wallStart /\ offset' = offset
      BY <1>1, <1>6, <1>10, <2>2 DEF OriginInv
    <3>2. PICK g \in Nat : Origin(g)
      BY <2>2, <3>1 DEF OriginInv
    <3>3. ~frame.missing => g <= frame.gst
      BY <1>3, <3>2 DEF Origin, frame
    <3>4. \A k \in DOMAIN videoQ' : ~videoQ'[k].missing => g <= videoQ'[k].gst
      BY <1>5, <3>2 DEF Origin
    <3>5. Origin(g)'
      BY <1>1, <1>6, <3>1, <3>2, <3>3, <3>4 DEF Origin
    <3> QED  BY <3>5
  <2> QED  BY <2>1, <2>2
<1>11. OriginInv'
  BY <1>7, <1>9, <1>10 DEF OriginInv
<1>12. last # NothingSent => wallStart' = wallStart /\ offset' = offset /\ last'.unbased = last.unbased
  BY <1>1, <1>6 DEF OriginInv
<1> QED  BY <1>1, <1>4, <1>6, <1>7, <1>8, <1>11, <1>12 DEF frame

\* A frame's stamps by the first one's: d is its distance on its own clock, c on the wall's.
LEMMA FrameStamps ==
  ASSUME MuxTypes, ClockInv, OriginInv, Frame, ~last'.missing,
         NEW g \in Nat, offset' = g % Wrap, g <= wallStart', wallStart' <= g + MaxLag, g <= last'.gst
  PROVE  LET d == last'.gst - g
             c == now - wallStart'
         IN /\ d \in Nat /\ c \in Nat /\ d <= c + MaxLag /\ c <= d + MaxLag
            /\ last'.pcr = c % Wrap /\ last'.late = (d % Wrap < c % Wrap)
            /\ last'.pts = IF d % Wrap < c % Wrap THEN ((c % Wrap) + Lead) % Wrap ELSE d % Wrap
            /\ last'.wrapped = Wraps(c)
<1> DEFINE frame == videoQ[1]
           f == last'.gst
           s == wallStart'
           c == now - s
<1>1. /\ last' = Stamp(frame, s, offset') /\ f = frame.gst /\ f \in Nat /\ ~frame.missing
  BY FrameOrigin
<1>2. s \in Nat /\ s <= now
  <2>1. OriginInv' /\ now' = now /\ last' # NothingSent
    BY FrameOrigin DEF Frame
  <2> QED  BY <2>1 DEF OriginInv
<1>3. /\ now \in Nat /\ Wrap \in Nat \ {0} /\ MaxLag \in Nat /\ 1 \in DOMAIN videoQ
  <2>1. videoQ # <<>> /\ videoQ \in Seq([gst : Nat, missing : BOOLEAN])
    BY DEF Frame, MuxTypes, Frames
  <2>2. 1 \in DOMAIN videoQ
    BY <2>1
  <2> QED  BY <2>2, MuxAssumption DEF MuxAssumption, MuxTypes
<1>4. now <= f + MaxLag /\ f <= arrived.gst /\ arrived.gst <= now /\ arrived.gst \in Nat
  BY <1>1, <1>3 DEF ClockInv, MuxTypes
<1>5. ((f % Wrap) - offset') % Wrap = (f - g) % Wrap
  <2>1. f \in Int /\ g \in Int
    BY <1>1
  <2> QED  BY <1>3, <2>1, OwnStamp
<1>6. /\ last'.pcr = c % Wrap
      /\ last'.late = ((((f % Wrap) - offset') % Wrap) < c % Wrap)
      /\ last'.pts = IF (((f % Wrap) - offset') % Wrap) < c % Wrap THEN ((c % Wrap) + Lead) % Wrap
                    ELSE ((f % Wrap) - offset') % Wrap
      /\ last'.wrapped = Wraps(now - s)
  <2> DEFINE pcr == (now - s) % Wrap
             own == ((frame.gst % Wrap) - offset') % Wrap
  <2>1. /\ last'.pcr = pcr /\ last'.late = (own < pcr)
        /\ last'.pts = IF own < pcr THEN (pcr + Lead) % Wrap ELSE own
        /\ last'.wrapped = Wraps(now - s)
    <3> HIDE DEF s, f, frame
    <3> QED  BY <1>1 DEF Stamp
  <2>2. frame.gst = f
    BY <1>1
  <2> HIDE DEF f, s, frame
  <2> QED  BY <2>1, <2>2
<1> HIDE DEF f, s, frame
<1>7. /\ f - g \in Nat /\ c \in Nat /\ f - g <= c + MaxLag /\ c <= (f - g) + MaxLag
  <2>1. g <= s /\ s <= g + MaxLag /\ g <= f
    BY DEF s, f
  <2> QED  BY <1>1, <1>2, <1>3, <1>4, <2>1
<1> QED  BY <1>5, <1>6, <1>7 DEF f, s

\* The new stamps are in order, to the clock and to the last frame's.
LEMMA FrameInOrder ==
  ASSUME Lead < Half, MaxLag < Half, MuxTypes, ClockInv, OriginInv, LastInv, Frame
  PROVE  /\ LastInv'
         /\ last # NothingSent /\ last'.gst - last.gst + Lead + MaxLag < Half =>
              \/ Ahead(last'.pts, last.pts) \/ last.late \/ last.missing
              \/ last'.unbased \/ last'.missing \/ last'.wrapped
<1>1. /\ last' = Stamp(videoQ[1], wallStart', offset') /\ last' # NothingSent
      /\ last'.gst = videoQ[1].gst /\ last'.gst \in Nat /\ last'.missing \in BOOLEAN /\ OriginInv'
      /\ last # NothingSent => wallStart' = wallStart /\ offset' = offset /\ last'.unbased = last.unbased
  BY FrameOrigin
<1>2. Wrap \in Nat \ {0} /\ MaxLag \in Nat /\ Lead \in Nat
  BY MuxAssumption DEF MuxAssumption
<1>3. last'.unbased \in BOOLEAN /\ last'.late \in BOOLEAN
  <2>1. last'.late = ((((videoQ[1].gst % Wrap) - offset') % Wrap) < ((now - wallStart') % Wrap))
    BY <1>1 DEF Stamp
  <2>2. last'.unbased = IF last = NothingSent THEN videoQ[1].missing ELSE last.unbased
    BY <1>1 DEF Stamp
  <2>3. last'.missing = videoQ[1].missing
    BY <1>1 DEF Stamp
  <2> QED  BY <1>1, <2>1, <2>2, <2>3 DEF LastInv
<1>4. ~last'.late => last'.pts = ((last'.gst % Wrap) - offset') % Wrap
  BY <1>1 DEF Stamp
<1>5. ASSUME NEW g \in Nat, offset' = g % Wrap, g <= wallStart', wallStart' <= g + MaxLag, g <= last'.gst,
             ~last'.missing, ~last'.wrapped
      PROVE  /\ Ahead(last'.pts, last'.pcr)
             /\ /\ last.gst \in Nat /\ g <= last.gst /\ last.gst <= last'.gst
                /\ last.pts = ((last.gst % Wrap) - (g % Wrap)) % Wrap
                /\ last'.gst - last.gst + Lead + MaxLag < Half
                => Ahead(last'.pts, last.pts)
  <2> DEFINE d == last'.gst - g
             c == now - wallStart'
  <2>1. /\ d \in Nat /\ c \in Nat /\ d <= c + MaxLag /\ c <= d + MaxLag
        /\ last'.pcr = c % Wrap
        /\ last'.pts = IF d % Wrap < c % Wrap THEN ((c % Wrap) + Lead) % Wrap ELSE d % Wrap
        /\ last'.wrapped = Wraps(c)
    BY <1>5, FrameStamps
  <2>2. d = last'.gst - g
    OBVIOUS
  <2> HIDE DEF d, c
  <2>3. ~Wraps(c)
    BY <1>5, <2>1, Zenon
  <2>4. /\ d % Wrap < c % Wrap <=> d < c
        /\ d >= c => Ahead(d % Wrap, c % Wrap)
        /\ Ahead(((c % Wrap) + Lead) % Wrap, c % Wrap)
    BY <2>1, <2>3, OwnAhead
  <2>5. Ahead(last'.pts, last'.pcr)
    BY <2>1, <2>4
  <2>6. ASSUME last.gst \in Nat, g <= last.gst, last.gst <= last'.gst,
               last.pts = ((last.gst % Wrap) - (g % Wrap)) % Wrap,
               last'.gst - last.gst + Lead + MaxLag < Half
        PROVE  Ahead(last'.pts, last.pts)
    <3> DEFINE e == last.gst - g
    <3>1. last.pts = e % Wrap
      <4>1. last.gst \in Int /\ g \in Int
        BY <2>6
      <4> QED  BY <1>2, <2>6, <4>1, OwnStamp
    <3>2. e \in Nat /\ e <= d /\ d - e + Lead + MaxLag < Half
      BY <1>1, <1>2, <2>2, <2>6
    <3> HIDE DEF e
    <3>3. Ahead(d % Wrap, e % Wrap) /\ (d <= c /\ c <= d + MaxLag => Ahead((c + Lead) % Wrap, e % Wrap))
      BY <2>1, <3>2, LaterAhead
    <3>4. ((c % Wrap) + Lead) % Wrap = (c + Lead) % Wrap
      <4>1. c \in Int /\ Lead \in Int
        BY <1>2, <2>1
      <4> QED  BY <1>2, <4>1, RemainderOfSum
    <3>5. CASE d < c
      BY <2>1, <2>4, <3>1, <3>3, <3>4, <3>5
    <3>6. CASE ~(d < c)
      BY <2>1, <2>4, <3>1, <3>3, <3>6
    <3> QED  BY <3>5, <3>6
  <2> QED  BY <2>5, <2>6
<1>6. PTSAheadOfClock'
  <2> SUFFICES ASSUME ~last'.missing, ~last'.unbased, ~last'.wrapped
               PROVE  Ahead(last'.pts, last'.pcr)
    BY DEF PTSAheadOfClock, Ahead
  <2>1. PICK g \in Nat : Origin(g)'
    BY <1>1 DEF OriginInv
  <2> QED  BY <1>5, <2>1 DEF Origin
<1>7. ASSUME last # NothingSent, last'.gst - last.gst + Lead + MaxLag < Half, ~last.late, ~last.missing,
             ~last'.unbased, ~last'.missing, ~last'.wrapped
      PROVE  Ahead(last'.pts, last.pts)
  <2>1. wallStart # None /\ ~last.unbased /\ wallStart' = wallStart /\ offset' = offset
    BY <1>1, <1>7 DEF OriginInv
  <2>2. PICK g \in Nat : Origin(g)
    BY <2>1 DEF OriginInv
  <2>3. 1 \in DOMAIN videoQ /\ ~videoQ[1].missing
    <3>1. videoQ # <<>> /\ videoQ \in Seq([gst : Nat, missing : BOOLEAN])
      BY DEF Frame, MuxTypes, Frames
    <3>2. last'.missing = videoQ[1].missing
      BY <1>1 DEF Stamp
    <3> QED  BY <1>7, <3>1, <3>2
  <2>4. g <= last'.gst /\ g <= last.gst /\ last.gst <= last'.gst /\ last.gst \in Nat
    BY <1>1, <1>7, <2>2, <2>3 DEF Origin, ClockInv, LastInv
  <2>5. last.pts = ((last.gst % Wrap) - (g % Wrap)) % Wrap
    BY <1>7, <2>2 DEF LastInv, Origin
  <2>6. offset' = g % Wrap /\ g <= wallStart' /\ wallStart' <= g + MaxLag
    BY <2>1, <2>2 DEF Origin
  <2> QED  BY <1>5, <1>7, <2>4, <2>5, <2>6
<1> QED  BY <1>1, <1>3, <1>4, <1>6, <1>7 DEF LastInv

\* A sample goes behind the others and is no older than they are.
LEMMA SampleStamped ==
  ASSUME MuxTypes, ClockInv, OriginInv, LastInv,
         NEW gst \in arrived.gst..now, NEW missing \in BOOLEAN, VideoSample(gst, missing)
  PROVE  ClockInv' /\ OriginInv'
<1>1. /\ arrived' = [arrived EXCEPT !.v = @ + 1, !.gst = gst] /\ gst + MaxLag >= now
      /\ UNCHANGED <<now, last, wallStart, offset>>
  BY DEF VideoSample, loopVars
<1>2. /\ videoQ \in Frames /\ Len(videoQ) \in Nat /\ DOMAIN videoQ = 1..Len(videoQ)
      /\ now \in Nat /\ arrived.gst \in Nat /\ MaxLag \in Nat
  BY MuxAssumption DEF MuxAssumption, MuxTypes, Frames
<1>3. arrived'.gst = gst /\ arrived.gst <= gst /\ gst <= now /\ gst \in Nat
  BY <1>1, <1>2 DEF MuxTypes
<1>4. PICK n \in Nat : n = Len(videoQ)
  BY <1>2
<1>5. \A k \in DOMAIN videoQ' :
        \/ k \in DOMAIN videoQ /\ videoQ'[k] = videoQ[k] /\ k <= n
        \/ k = n + 1 /\ (videoQ'[k].missing \/ videoQ'[k].gst = gst)
  <2>1. CASE UNCHANGED videoQ
    BY <1>2, <1>4, <2>1
  <2>2. CASE videoQ' = Append(videoQ, [gst |-> IF missing THEN 0 ELSE gst, missing |-> missing])
    <3> DEFINE frame == [gst |-> IF missing THEN 0 ELSE gst, missing |-> missing]
    <3>1. frame.missing \/ frame.gst = gst
      OBVIOUS
    <3> HIDE DEF frame
    <3>2. videoQ' = Append(videoQ, frame)
      BY <2>2 DEF frame
    <3>3. /\ DOMAIN videoQ' = 1..(n + 1) /\ videoQ'[n + 1] = frame
          /\ \A k \in 1..n : videoQ'[k] = videoQ[k]
      BY <1>2, <1>4, <3>2 DEF Frames
    <3>4. ASSUME NEW k \in DOMAIN videoQ'
          PROVE  k \in 1..n \/ k = n + 1
      BY <3>3
    <3> QED  BY <1>2, <1>4, <3>1, <3>3, <3>4
  <2> QED  BY <2>1, <2>2 DEF VideoSample
<1>6. \A k \in DOMAIN videoQ : videoQ[k].gst \in Nat /\ k \in Nat
  <2>1. ASSUME NEW k \in DOMAIN videoQ PROVE videoQ[k] \in [gst : Nat, missing : BOOLEAN]
    BY <1>2, ElementOfSeq DEF Frames
  <2> QED  BY <1>2, <2>1
<1>7. \A k \in DOMAIN videoQ' : ~videoQ'[k].missing =>
        now' <= videoQ'[k].gst + MaxLag /\ videoQ'[k].gst <= arrived'.gst
  <2> SUFFICES ASSUME NEW k \in DOMAIN videoQ', ~videoQ'[k].missing
               PROVE  now' <= videoQ'[k].gst + MaxLag /\ videoQ'[k].gst <= arrived'.gst
    OBVIOUS
  <2>1. CASE k \in DOMAIN videoQ /\ videoQ'[k] = videoQ[k]
    <3>1. now <= videoQ[k].gst + MaxLag /\ videoQ[k].gst <= arrived.gst
      BY <2>1 DEF ClockInv
    <3> QED  BY <1>1, <1>2, <1>3, <1>6, <2>1, <3>1
  <2>2. CASE videoQ'[k].gst = gst
    BY <1>1, <1>2, <1>3, <2>2
  <2> QED  BY <1>5, <2>1, <2>2
<1>8. \A k \in DOMAIN videoQ' : \A i \in DOMAIN videoQ' :
        i < k /\ ~videoQ'[i].missing /\ ~videoQ'[k].missing => videoQ'[i].gst <= videoQ'[k].gst
  <2> SUFFICES ASSUME NEW k \in DOMAIN videoQ', NEW i \in DOMAIN videoQ', i < k,
                      ~videoQ'[i].missing, ~videoQ'[k].missing
               PROVE  videoQ'[i].gst <= videoQ'[k].gst
    OBVIOUS
  <2>0. i \in DOMAIN videoQ /\ videoQ'[i] = videoQ[i]
    BY <1>2, <1>4, <1>5
  <2>1. CASE k \in DOMAIN videoQ /\ videoQ'[k] = videoQ[k]
    BY <2>0, <2>1 DEF ClockInv
  <2>2. CASE videoQ'[k].gst = gst
    <3>1. videoQ[i].gst <= arrived.gst
      BY <2>0 DEF ClockInv
    <3> QED  BY <1>2, <1>3, <1>6, <2>0, <2>2, <3>1
  <2> QED  BY <1>5, <2>1, <2>2
<1>9. ASSUME NEW g \in Nat, g <= arrived.gst, \A k \in DOMAIN videoQ : ~videoQ[k].missing => g <= videoQ[k].gst
      PROVE  g <= arrived'.gst /\ \A k \in DOMAIN videoQ' : ~videoQ'[k].missing => g <= videoQ'[k].gst
  <2>1. g <= gst
    BY <1>2, <1>3, <1>9
  <2> QED  BY <1>3, <1>5, <1>9, <2>1
<1>10. last # NothingSent /\ ~last.missing =>
        last.gst <= arrived'.gst /\
        \A k \in DOMAIN videoQ' : ~videoQ'[k].missing => last.gst <= videoQ'[k].gst
  <2> SUFFICES ASSUME last # NothingSent, ~last.missing
               PROVE  last.gst <= arrived'.gst /\
                      \A k \in DOMAIN videoQ' : ~videoQ'[k].missing => last.gst <= videoQ'[k].gst
    OBVIOUS
  <2>1. last.gst <= arrived.gst /\ \A k \in DOMAIN videoQ : ~videoQ[k].missing => last.gst <= videoQ[k].gst
    BY DEF ClockInv
  <2>2. last.gst \in Nat
    BY DEF LastInv
  <2> QED  BY <1>9, <2>1, <2>2
<1>11. ClockInv'
  <2>1. arrived'.gst <= now'
    BY <1>1, <1>3
  <2> QED  BY <1>1, <1>7, <1>8, <1>10, <2>1 DEF ClockInv
<1>12. ASSUME NEW g \in Nat, Origin(g) PROVE Origin(g)'
  BY <1>1, <1>9, <1>12 DEF Origin
<1>13. OriginInv'
  BY <1>1, <1>12 DEF OriginInv
<1> QED  BY <1>11, <1>13

\* While the clock goes on no frame waits longer than MaxLag.
LEMMA TickStamped ==
  ASSUME MuxTypes, ClockInv, OriginInv, Tick
  PROVE  ClockInv' /\ OriginInv'
<1>1. now' > now /\ now' \in Nat /\ now \in Nat /\ UNCHANGED <<arrived, videoQ, last, wallStart, offset>>
  BY MuxAssumption DEF MuxAssumption, MuxTypes, Tick, queueVars, loopVars
<1>2. /\ videoQ \in Frames /\ DOMAIN videoQ = 1..Len(videoQ) /\ MaxLag \in Nat /\ arrived.gst \in Nat
      /\ \A k \in DOMAIN videoQ : videoQ[k].gst \in Nat
  <2>1. videoQ \in Frames /\ DOMAIN videoQ = 1..Len(videoQ) /\ MaxLag \in Nat /\ arrived.gst \in Nat
    BY MuxAssumption DEF MuxAssumption, MuxTypes, Frames
  <2>2. ASSUME NEW k \in DOMAIN videoQ PROVE videoQ[k] \in [gst : Nat, missing : BOOLEAN]
    BY <2>1, ElementOfSeq DEF Frames
  <2> QED  BY <2>1, <2>2
<1>3. ASSUME NEW k \in DOMAIN videoQ, ~videoQ[k].missing PROVE now' <= videoQ[k].gst + MaxLag
  <2>1. now' - videoQ[k].gst <= MaxLag
    BY <1>3 DEF Tick
  <2> QED  BY <1>1, <1>2, <2>1
<1>4. arrived.gst <= now'
  BY <1>1, <1>2 DEF ClockInv
<1>5. ClockInv'
  BY <1>1, <1>3, <1>4 DEF ClockInv
<1>6. wallStart # None => wallStart <= now'
  BY <1>1 DEF OriginInv
<1>7. ASSUME NEW g \in Nat, Origin(g) PROVE Origin(g)'
  BY <1>1, <1>7 DEF Origin
<1>8. OriginInv'
  BY <1>1, <1>6, <1>7 DEF OriginInv
<1> QED  BY <1>5, <1>8

\* What the other actions leave alone.
LEMMA StampsUnchanged ==
  ASSUME ClockInv, OriginInv, arrived'.gst = arrived.gst,
         UNCHANGED <<now, videoQ, last, wallStart, offset>>
  PROVE  ClockInv' /\ OriginInv'
<1>1. ASSUME NEW g \in Nat, Origin(g) PROVE Origin(g)'
  BY <1>1 DEF Origin
<1>2. OriginInv'
  BY <1>1 DEF OriginInv
<1> QED  BY <1>2 DEF ClockInv

LEMMA StampStep ==
  ASSUME Lead < Half, MaxLag < Half, MuxTypes, StampInv, [MuxNext]_muxVars
  PROVE  /\ StampInv'
         /\ last' # last /\ last # NothingSent /\ last'.gst - last.gst + Lead + MaxLag < Half =>
              \/ Ahead(last'.pts, last.pts) \/ last.late \/ last.missing
              \/ last'.unbased \/ last'.missing \/ last'.wrapped
<1>1. CASE Frame
  BY <1>1, FrameOrigin, FrameInOrder DEF StampInv
<1>2. ASSUME UNCHANGED <<last, offset>> PROVE LastInv'
  BY <1>2 DEF StampInv, LastInv, PTSAheadOfClock, Ahead
<1>3. ASSUME NEW gst \in arrived.gst..now, NEW missing \in BOOLEAN, VideoSample(gst, missing)
      PROVE  StampInv' /\ last' = last
  BY <1>2, <1>3, SampleStamped DEF StampInv, VideoSample, loopVars
<1>4. CASE Tick
  BY <1>2, <1>4, TickStamped DEF StampInv, Tick, loopVars
<1>5. ASSUME arrived'.gst = arrived.gst, UNCHANGED <<now, videoQ, last, wallStart, offset>>
      PROVE  StampInv' /\ last' = last
  BY <1>2, <1>5, StampsUnchanged DEF StampInv
<1>6. CASE AudioSample
  <2>1. arrived'.gst = arrived.gst /\ UNCHANGED <<now, videoQ, last, wallStart, offset>>
    BY <1>6 DEF AudioSample, loopVars, MuxTypes
  <2> QED  BY <1>5, <2>1
<1>7. CASE StartRaises \/ StartThread \/ Play \/ Probe \/ StopMuxing \/ Quiet \/ Join
           \/ Check \/ GetTimesOut \/ Drain \/ Send \/ UNCHANGED muxVars
  <2>1. UNCHANGED <<arrived, now, videoQ, last, wallStart, offset>>
    BY <1>7 DEF StartRaises, StartThread, Play, Probe, StopMuxing, Quiet, Join, Check, GetTimesOut,
                Drain, Send, muxVars, loopVars, queueVars
  <2> QED  BY <1>5, <2>1
<1> QED  BY <1>1, <1>3, <1>4, <1>6, <1>7 DEF MuxNext, Loop

LEMMA InitStamp == MuxInit => StampInv
BY DEF MuxInit, Fresh, StampInv, ClockInv, OriginInv, LastInv, None

\* The time stamps, for every capacity, period, lead and lag that are less than half a
\* period of the clock (9000 ticks and the queue's time against 2^32 in the code): a
\* video frame is not presented before its clock reference nor before the one decoded
\* before it, but for the cases the property names.
THEOREM StampsInOrderHolds ==
  ASSUME Lead < Wrap \div 2, MaxLag < Wrap \div 2
  PROVE  MuxSpec => StampsInOrder
<1> USE DEF Half
<1>1. MuxInit => StampInv
  BY InitStamp
<1>2. MuxTypes /\ StampInv /\ [MuxNext]_muxVars => StampInv'
  BY StampStep
<1>3. MuxInv => MuxTypes
  BY DEF MuxInv
<1>4. StampInv => PTSAheadOfClock
  BY DEF StampInv, LastInv, PTSAheadOfClock
<1>5. MuxTypes /\ StampInv /\ [MuxNext]_muxVars =>
        [last' # last /\ last # NothingSent
         /\ last'.gst - last.gst + Lead + MaxLag < Wrap \div 2 =>
           Ahead(last'.pts, last.pts) \/ last.late \/ last.missing \/ last'.unbased \/ last'.missing \/ last'.wrapped]_muxVars
  BY StampStep
<1> QED
  BY <1>1, <1>2, <1>3, <1>4, <1>5, MuxAlways, PTL DEF MuxSpec, StampsInOrder, PTSBackwardsOnlyAfterLate

-----------------------------------------------------------------------------
(* The back channel.                                                       *)

\* Before the server listens nothing has happened, and stop() is not called.
SetupInv ==
  setup # "up" => /\ server = "none" /\ stopping = "no" /\ todo = <<>> /\ bound = "no"
                  /\ ~pressed /\ contact = 0 /\ lastTouch = UP

\* Only stop() makes the accept loop end.
LoopInv ==
  /\ setup = "up" /\ stopping = "no" => running /\ listening
  /\ server = "done" => stopping # "no"

\* A device has its descriptor as long as it is there; stop() has passed the devices
\* in order, and a write to one whose number is someone else's is the last.
DevicesInv ==
  /\ attr \in [Devices -> BOOLEAN]
  /\ kernel \in [Devices -> {"none", "device", "gone", "closed", "foreign"}]
  /\ \A d \in Devices : kernel[d] = "device" => attr[d]
  /\ stopping \in {"no", "flag", "touch", "keys", "done"}
  /\ stopping \in {"keys", "done"} => kernel["touch"] # "device" /\ ~attr["touch"]
  /\ stopping = "done" => kernel["keys"] # "device" /\ ~attr["keys"]

StrayInv ==
  /\ bound \in {"no", "tested", "bound"}
  /\ strayLate \in {0, 1}
  /\ strayLate = 1 => stopping = "done" /\ bound # "bound"

\* A write that neither puts a finger down nor lifts it.
Plain(op) == op[1] \notin {"id", "up"}

Starts(with) == todo # <<>> /\ todo[1][1] = with

\* The writes of one event: only the first puts a finger down or lifts it, and then
\* press() and release() have found it as that requires.
WritesInv ==
  /\ \E S : todo \in Seq(S)
  /\ \A k \in 2..Len(todo) : Plain(todo[k])
  /\ bound # "no" => todo # <<>>
  /\ tracking \in Nat /\ pressed \in BOOLEAN
  /\ Starts("id") => ~pressed /\ todo[1][2] \in Nat \ {0}
  /\ Starts("up") => pressed

\* While the pointer is there, the kernel, press() and the sink agree, up to the
\* write that is due.
FingerInv ==
  kernel["touch"] = "device" =>
    /\ pressed <=> contact # 0
    /\ Starts("id") => lastTouch = DOWN
    /\ Starts("up") => lastTouch = UP
    /\ ~Starts("id") /\ ~Starts("up") => (pressed <=> lastTouch = DOWN)

IInv == SetupInv /\ LoopInv /\ DevicesInv /\ StrayInv /\ WritesInv /\ FingerInv

-----------------------------------------------------------------------------
(* What one event is turned into.                                           *)

\* One write or none before others that neither put a finger down nor lift it.
LEMMA Joined ==
  ASSUME NEW S, NEW s \in Seq(S), NEW t \in Seq(S),
         Len(s) \in {0, 1}, Len(t) \in Nat \ {0}, \A k \in 1..Len(t) : Plain(t[k])
  PROVE  /\ s \o t \in Seq(S) /\ s \o t # <<>>
         /\ \A k \in 2..Len(s \o t) : Plain((s \o t)[k])
         /\ Len(s) = 1 => (s \o t)[1] = s[1]
         /\ Len(s) = 0 => Plain((s \o t)[1])
<1> DEFINE w == s \o t
<1>1. w \in Seq(S) /\ Len(w) = Len(s) + Len(t)
  BY ConcatProperties
<1>2. \A i \in 1..Len(w) : w[i] = IF i <= Len(s) THEN s[i] ELSE t[i - Len(s)]
  BY ConcatProperties
<1> HIDE DEF w
<1>3. ASSUME NEW k \in 1..Len(w), k > Len(s) PROVE Plain(w[k])
  <2>1. w[k] = t[k - Len(s)] /\ k - Len(s) \in 1..Len(t)
    BY <1>1, <1>2, <1>3
  <2> QED  BY <2>1
<1>4. Len(s) = 1 => w[1] = s[1]
  BY <1>1, <1>2
<1>5. w # <<>>
  BY <1>1
<1> QED  BY <1>1, <1>3, <1>4, <1>5 DEF w

\* press() starts with a new id, which is not 0, when no finger is down, release()
\* with the lift when one is; nothing that follows does either.
LEMMA WritesShape ==
  ASSUME MaxId \in Nat \ {0}, tracking \in Nat, pressed \in BOOLEAN, NEW ev
  PROVE  /\ \E S : Writes(ev) \in Seq(S)
         /\ Writes(ev) # <<>>
         /\ \A k \in 2..Len(Writes(ev)) : Plain(Writes(ev)[k])
         /\ Writes(ev)[1][1] = "id" <=> ev.kind = DOWN /\ ~pressed
         /\ Writes(ev)[1][1] = "id" => Writes(ev)[1][2] \in Nat \ {0}
         /\ Writes(ev)[1][1] = "up" <=> ev.kind = UP /\ pressed
<1>1. NextId \in Nat \ {0}
  BY DEF NextId
<1> DEFINE id == <<"id", NextId>>
           pos == <<"pos", to_screen(ev.at)>>
           syn == <<"syn", 0>>
           up == <<"up", 0>>
           key == <<"key", ev.at>>
           keysyn == <<"keysyn", 0>>
           S == {id, pos, syn, up, key, keysyn}
           s == CASE ev.kind = DOWN /\ ~pressed -> <<id>>
                  [] ev.kind = UP /\ pressed    -> <<up>>
                  [] OTHER                      -> <<>>
           t == CASE ev.kind \in {DOWN, MOVE} -> <<pos, syn>>
                  [] ev.kind = UP             -> <<syn>>
                  [] OTHER                    -> <<key, keysyn>>
<1>2. /\ id[1] = "id" /\ id[2] = NextId /\ up[1] = "up"
      /\ Plain(pos) /\ Plain(syn) /\ Plain(key) /\ Plain(keysyn)
  BY DEF Plain
<1>3. DOWN # MOVE /\ UP # MOVE /\ DOWN # UP
  BY DEF DOWN, UP, MOVE
<1> HIDE DEF id, pos, syn, up, key, keysyn
<1>4. /\ s \in Seq(S) /\ Len(s) \in {0, 1}
      /\ t \in Seq(S) /\ Len(t) \in Nat \ {0} /\ \A k \in 1..Len(t) : Plain(t[k])
  <2>1. /\ <<id>> \in Seq(S) /\ <<up>> \in Seq(S) /\ <<>> \in Seq(S)
        /\ <<pos, syn>> \in Seq(S) /\ <<syn>> \in Seq(S) /\ <<key, keysyn>> \in Seq(S)
    OBVIOUS
  <2>2. s \in Seq(S) /\ Len(s) \in {0, 1}
    <3>1. s \in {<<id>>, <<up>>, <<>>}
      BY <1>3
    <3> HIDE DEF s, S
    <3> QED  BY <2>1, <3>1
  <2>3. t \in Seq(S) /\ Len(t) \in Nat \ {0} /\ \A k \in 1..Len(t) : Plain(t[k])
    <3>1. t = <<pos, syn>> \/ t = <<syn>> \/ t = <<key, keysyn>>
      BY <1>3
    <3> HIDE DEF t, S
    <3>2. t \in Seq(S)
      BY <2>1, <3>1
    <3>4. Len(t) \in Nat \ {0}
      BY <3>1
    <3>3. \A k \in 1..Len(t) : Plain(t[k])
      BY <1>2, <3>1
    <3> QED  BY <3>2, <3>3, <3>4
  <2> QED  BY <2>2, <2>3
<1>5. /\ Len(s) = 1 <=> (ev.kind = DOWN /\ ~pressed) \/ (ev.kind = UP /\ pressed)
      /\ ev.kind = DOWN /\ ~pressed => s[1] = id
      /\ ev.kind = UP /\ pressed => s[1] = up
  BY <1>3
<1>6. Writes(ev) = s \o t
  <2>1. CASE ev.kind = DOWN
    <3>1. Writes(ev) = (IF pressed THEN <<>> ELSE <<id>>) \o <<pos, syn>>
      BY <2>1, <1>3 DEF Writes, id, pos, syn
    <3> QED  BY <3>1, <2>1, <1>3
  <2>2. CASE ev.kind = UP
    <3>1. Writes(ev) = (IF pressed THEN <<up>> ELSE <<>>) \o <<syn>>
      BY <2>2, <1>3 DEF Writes, up, syn
    <3> QED  BY <3>1, <2>2, <1>3
  <2>3. CASE ev.kind = MOVE
    <3>1. Writes(ev) = <<pos, syn>>
      BY <2>3, <1>3 DEF Writes, pos, syn
    <3>2. s = <<>> /\ t = <<pos, syn>>
      BY <2>3, <1>3
    <3> QED  BY <3>1, <3>2, <1>4, ConcatEmptySeq
  <2>4. CASE ev.kind \notin {DOWN, UP, MOVE}
    <3>1. Writes(ev) = <<key, keysyn>>
      BY <2>4, <1>3 DEF Writes, key, keysyn
    <3>2. s = <<>> /\ t = <<key, keysyn>>
      BY <2>4, <1>3
    <3> QED  BY <3>1, <3>2, <1>4, ConcatEmptySeq
  <2> QED  BY <2>1, <2>2, <2>3, <2>4
<1> HIDE DEF s, t, S
<1> DEFINE w == s \o t
<1>7. /\ w \in Seq(S) /\ w # <<>>
      /\ \A k \in 2..Len(w) : Plain(w[k])
      /\ Len(s) = 1 => w[1] = s[1]
      /\ Len(s) = 0 => Plain(w[1])
  BY <1>4, Joined
<1> HIDE DEF w
<1>8. w = Writes(ev)
  BY <1>6 DEF w
<1>9. w[1][1] = "id" <=> ev.kind = DOWN /\ ~pressed
  BY <1>2, <1>3, <1>4, <1>5, <1>7 DEF Plain
<1>10. w[1][1] = "up" <=> ev.kind = UP /\ pressed
  BY <1>2, <1>3, <1>4, <1>5, <1>7 DEF Plain
<1>11. w[1][1] = "id" => w[1][2] \in Nat \ {0}
  BY <1>1, <1>2, <1>3, <1>4, <1>5, <1>7, <1>9 DEF Plain
<1> QED  BY <1>7, <1>8, <1>9, <1>10, <1>11

\* What is left of an event once its first write is done.
LEMMA Rest ==
  ASSUME WritesInv, todo # <<>>
  PROVE  /\ Head(todo) = todo[1]
         /\ \E S : Tail(todo) \in Seq(S)
         /\ \A k \in 2..Len(Tail(todo)) : Plain(Tail(todo)[k])
         /\ Tail(todo) # <<>> => Plain(Tail(todo)[1])
<1>1. PICK S : todo \in Seq(S)
  BY DEF WritesInv
<1>2. /\ Head(todo) = todo[1] /\ Tail(todo) \in Seq(S)
      /\ Len(Tail(todo)) = Len(todo) - 1
      /\ \A k \in 1..Len(Tail(todo)) : Tail(todo)[k] = todo[k + 1]
  BY <1>1
<1>3. ASSUME NEW k \in 1..Len(Tail(todo)) PROVE Plain(Tail(todo)[k])
  <2>1. k + 1 \in 2..Len(todo)
    BY <1>1, <1>2
  <2> QED  BY <1>2, <2>1 DEF WritesInv
<1>4. /\ Tail(todo) # <<>> => 1 \in 1..Len(Tail(todo))
      /\ \A k \in 2..Len(Tail(todo)) : k \in 1..Len(Tail(todo))
  BY <1>2
<1> QED  BY <1>2, <1>3, <1>4

-----------------------------------------------------------------------------
(* The steps preserve the invariant.                                        *)

\* Nothing but the server's steps undoes what holds before it listens.
LEMMA SetupStep == IInv /\ [Next]_vars => SetupInv'
<1> SUFFICES ASSUME IInv, [Next]_vars PROVE SetupInv'
  OBVIOUS
<1> USE DEF IInv, SetupInv, LoopInv, serverVars, connVars, deviceVars, touchVars, Setup,
        Stop, Server, Devices
<1>1. ASSUME NEW d \in Devices,
             Open(d) \/ Destroy(d) \/ CloseDescriptor(d) \/ Clear(d) \/
             NothingToClose(d) \/ Reuse(d)
      PROVE  SetupInv'
  BY <1>1 DEF Open, Destroy, CloseDescriptor, Clear, NothingToClose, Reuse
<1>2. CASE Listen \/ BindFails
  BY <1>2 DEF Listen, BindFails
<1>3. CASE Accept \/ AcceptEnds \/ Receive \/ ConnectionEnds \/ NextRead \/ Dispatch
  BY <1>3 DEF Accept, AcceptEnds, Receive, ConnectionEnds, NextRead, Dispatch
<1>4. CASE EmitTests \/ EmitReads \/ EmitRaises \/ EmitWrites
  BY <1>4 DEF EmitTests, EmitReads, EmitRaises, EmitWrites
<1>5. CASE StopBegins \/ StopListening
  BY <1>5 DEF StopBegins, StopListening
<1>6. CASE UNCHANGED vars
  BY <1>6 DEF vars
<1> QED  BY <1>1, <1>2, <1>3, <1>4, <1>5, <1>6 DEF Next, Thread, Emit, Stopper

\* The flag and the socket are there until stop(), and only AcceptEnds ends the thread.
LEMMA LoopStep == IInv /\ [Next]_vars => LoopInv'
<1> SUFFICES ASSUME IInv, [Next]_vars PROVE LoopInv'
  OBVIOUS
<1> USE DEF IInv, SetupInv, LoopInv, AcceptAgain, After, serverVars, connVars, deviceVars,
        touchVars, Setup, Stop, Server, Devices
<1>1. ASSUME NEW d \in Devices,
             Open(d) \/ Destroy(d) \/ CloseDescriptor(d) \/ Clear(d) \/
             NothingToClose(d) \/ Reuse(d)
      PROVE  LoopInv'
  BY <1>1 DEF Open, Destroy, CloseDescriptor, Clear, NothingToClose, Reuse
<1>2. CASE Listen \/ BindFails
  BY <1>2 DEF Listen, BindFails
<1>3. CASE Accept \/ AcceptEnds \/ Receive \/ ConnectionEnds \/ NextRead \/ Dispatch
  BY <1>3 DEF Accept, AcceptEnds, Receive, ConnectionEnds, NextRead, Dispatch
<1>4. CASE EmitTests \/ EmitReads \/ EmitRaises \/ EmitWrites
  BY <1>4 DEF EmitTests, EmitReads, EmitRaises, EmitWrites
<1>5. CASE StopBegins \/ StopListening
  BY <1>5 DEF StopBegins, StopListening
<1>6. CASE UNCHANGED vars
  BY <1>6 DEF vars
<1> QED  BY <1>1, <1>2, <1>3, <1>4, <1>5, <1>6 DEF Next, Thread, Emit, Stopper

\* stop() passes the devices in their order and leaves none of them behind.
LEMMA DevicesStep == IInv /\ [Next]_vars => DevicesInv'
<1> SUFFICES ASSUME IInv, [Next]_vars PROVE DevicesInv'
  OBVIOUS
<1> USE DEF IInv, SetupInv, DevicesInv, After, serverVars, connVars, deviceVars,
        touchVars, Setup, Stop, Server, Devices
<1>1. ASSUME NEW d \in Devices, Open(d) PROVE DevicesInv'
  BY <1>1 DEF Open
<1>2. ASSUME NEW d \in Devices, Destroy(d) PROVE DevicesInv'
  BY <1>2 DEF Destroy
<1>3. ASSUME NEW d \in Devices, CloseDescriptor(d) PROVE DevicesInv'
  BY <1>3 DEF CloseDescriptor
<1>4. ASSUME NEW d \in Devices, Clear(d) PROVE DevicesInv'
  BY <1>4 DEF Clear
<1>5. ASSUME NEW d \in Devices, NothingToClose(d) PROVE DevicesInv'
  BY <1>5 DEF NothingToClose
<1>6. ASSUME NEW d \in Devices, Reuse(d) PROVE DevicesInv'
  BY <1>6 DEF Reuse
<1>7. CASE Listen \/ BindFails
  BY <1>7 DEF Listen, BindFails
<1>8. CASE Accept \/ AcceptEnds \/ Receive \/ ConnectionEnds \/ NextRead \/ Dispatch
  BY <1>8 DEF Accept, AcceptEnds, Receive, ConnectionEnds, NextRead, Dispatch
<1>9. CASE EmitTests \/ EmitReads \/ EmitRaises \/ EmitWrites
  BY <1>9 DEF EmitTests, EmitReads, EmitRaises, EmitWrites
<1>10. CASE StopBegins \/ StopListening
  BY <1>10 DEF StopBegins, StopListening
<1>11. CASE UNCHANGED vars
  BY <1>11 DEF vars
<1> QED  BY <1>1, <1>2, <1>3, <1>4, <1>5, <1>6, <1>7, <1>8, <1>9, <1>10, <1>11 DEF Next,
        Thread, Emit, Stopper

\* After stop() no descriptor is there to be tested, so one write at most goes astray.
LEMMA StrayStep == IInv /\ [Next]_vars => StrayInv'
<1> SUFFICES ASSUME IInv, [Next]_vars PROVE StrayInv'
  OBVIOUS
<1> USE DEF IInv, SetupInv, DevicesInv, StrayInv, After, Target, serverVars, connVars,
        deviceVars, touchVars, Setup, Stop, Server, Devices
<1>1. ASSUME NEW d \in Devices,
             Open(d) \/ Destroy(d) \/ CloseDescriptor(d) \/ Clear(d) \/
             NothingToClose(d) \/ Reuse(d)
      PROVE  StrayInv'
  BY <1>1 DEF Open, Destroy, CloseDescriptor, Clear, NothingToClose, Reuse
<1>2. CASE Listen \/ BindFails
  BY <1>2 DEF Listen, BindFails
<1>3. CASE Accept \/ AcceptEnds \/ Receive \/ ConnectionEnds \/ NextRead \/ Dispatch
  BY <1>3 DEF Accept, AcceptEnds, Receive, ConnectionEnds, NextRead, Dispatch
<1>4. CASE EmitTests
  BY <1>4 DEF EmitTests
<1>5. CASE EmitReads
  BY <1>5 DEF EmitReads
<1>6. CASE EmitRaises
  BY <1>6 DEF EmitRaises
<1>7. CASE EmitWrites
  BY <1>7 DEF EmitWrites
<1>8. CASE StopBegins \/ StopListening
  BY <1>8 DEF StopBegins, StopListening
<1>9. CASE UNCHANGED vars
  BY <1>9 DEF vars
<1> QED  BY <1>1, <1>2, <1>3, <1>4, <1>5, <1>6, <1>7, <1>8, <1>9 DEF Next, Thread, Emit,
        Stopper

\* press() and release() note what they found only after the write they asked for.
LEMMA WritesStep ==
  ASSUME MaxId \in Nat \ {0}, IInv, [Next]_vars
  PROVE  WritesInv'
<1> USE DEF IInv, WritesInv, Starts, Note, serverVars, connVars, deviceVars, touchVars,
        Setup, Stop, Server, Devices
<1>1. ASSUME NEW d \in Devices, Open(d) PROVE WritesInv'
  BY <1>1 DEF Open
<1>2. ASSUME NEW d \in Devices,
             Destroy(d) \/ CloseDescriptor(d) \/ Clear(d) \/ NothingToClose(d) \/
             Reuse(d)
      PROVE  WritesInv'
  BY <1>2 DEF Destroy, CloseDescriptor, Clear, NothingToClose, Reuse
<1>3. CASE Listen \/ BindFails
  BY <1>3 DEF Listen, BindFails
<1>4. CASE Accept \/ AcceptEnds \/ Receive \/ ConnectionEnds \/ NextRead
  BY <1>4 DEF Accept, AcceptEnds, Receive, ConnectionEnds, NextRead
<1>5. CASE Dispatch
  <2> DEFINE ev == Head(queue)
  <2>1. todo' = Writes(ev) \/ todo' = <<>>
    BY <1>5 DEF Dispatch
  <2>2. UNCHANGED <<pressed, tracking, bound>> /\ todo = <<>>
    BY <1>5 DEF Dispatch
  <2>3. CASE todo' = Writes(ev)
    <3> HIDE DEF ev
    <3>1. /\ \E S : Writes(ev) \in Seq(S)
          /\ Writes(ev) # <<>>
          /\ \A k \in 2..Len(Writes(ev)) : Plain(Writes(ev)[k])
          /\ Writes(ev)[1][1] = "id" <=> ev.kind = DOWN /\ ~pressed
          /\ Writes(ev)[1][1] = "id" => Writes(ev)[1][2] \in Nat \ {0}
          /\ Writes(ev)[1][1] = "up" <=> ev.kind = UP /\ pressed
      BY WritesShape
    <3> QED  BY <2>2, <2>3, <3>1
  <2>4. CASE todo' = <<>>
    <3>1. <<>> \in Seq({})
      OBVIOUS
    <3> QED  BY <2>2, <2>4, <3>1
  <2> QED  BY <2>1, <2>3, <2>4
<1>6. CASE EmitTests
  <2>1. CASE UNCHANGED <<todo, pressed, tracking>>
    BY <1>6, <2>1 DEF EmitTests
  <2>2. CASE todo' = Tail(todo) /\ Note(Head(todo)) /\ UNCHANGED bound
    <3>1. todo # <<>> /\ bound = "no"
      BY <1>6 DEF EmitTests
    <3>2. pressed' \in BOOLEAN /\ tracking' \in Nat
      BY <2>2, <3>1, Rest
    <3> QED  BY <2>2, <3>1, <3>2, Rest DEF Plain
  <2> QED  BY <1>6, <2>1, <2>2 DEF EmitTests
<1>7. CASE EmitReads
  BY <1>7 DEF EmitReads
<1>8. CASE EmitRaises
  BY <1>8 DEF EmitRaises
<1>9. CASE EmitWrites
  BY <1>9, Rest DEF EmitWrites, Plain
<1>10. CASE StopBegins \/ StopListening
  BY <1>10 DEF StopBegins, StopListening
<1>11. CASE UNCHANGED vars
  BY <1>11 DEF vars
<1> QED  BY <1>1, <1>2, <1>3, <1>4, <1>5, <1>6, <1>7, <1>8, <1>9, <1>10, <1>11 DEF Next,
        Thread, Emit, Stopper

\* Every write of a finger changes what the kernel has and what press() noted alike.
LEMMA FingerStep ==
  ASSUME MaxId \in Nat \ {0}, IInv, [Next]_vars
  PROVE  FingerInv'
<1> USE DEF IInv, SetupInv, DevicesInv, WritesInv, FingerInv, Starts, Note, serverVars,
        connVars, deviceVars, touchVars, Setup, Stop, Server, Devices
<1>1. ASSUME NEW d \in Devices, Open(d) PROVE FingerInv'
  BY <1>1 DEF Open, UP, DOWN
<1>2. ASSUME NEW d \in Devices,
             Destroy(d) \/ CloseDescriptor(d) \/ Clear(d) \/ NothingToClose(d) \/
             Reuse(d)
      PROVE  FingerInv'
  BY <1>2 DEF Destroy, CloseDescriptor, Clear, NothingToClose, Reuse
<1>3. CASE Listen \/ BindFails
  BY <1>3 DEF Listen, BindFails
<1>4. CASE Accept \/ AcceptEnds \/ Receive \/ ConnectionEnds \/ NextRead
  BY <1>4 DEF Accept, AcceptEnds, Receive, ConnectionEnds, NextRead
<1>5. CASE Dispatch
  BY <1>5, WritesShape DEF Dispatch, UP, DOWN, Plain
<1>6. CASE EmitTests
  BY <1>6, Rest DEF EmitTests, Plain, Target
<1>7. CASE EmitReads
  BY <1>7 DEF EmitReads
<1>8. CASE EmitRaises
  BY <1>8, Rest DEF EmitRaises, Plain, Target
<1>9. CASE EmitWrites
  BY <1>9, Rest DEF EmitWrites, Plain, Target, UP, DOWN
<1>10. CASE StopBegins \/ StopListening
  BY <1>10 DEF StopBegins, StopListening
<1>11. CASE UNCHANGED vars
  BY <1>11 DEF vars
<1> QED  BY <1>1, <1>2, <1>3, <1>4, <1>5, <1>6, <1>7, <1>8, <1>9, <1>10, <1>11 DEF Next,
        Thread, Emit, Stopper

-----------------------------------------------------------------------------
\* Nothing is pressed and nobody listens.
LEMMA InitInv == Init => IInv
<1> SUFFICES ASSUME Init PROVE IInv
  OBVIOUS
<1> USE DEF Init
<1>1. SetupInv /\ LoopInv /\ StrayInv
  BY DEF SetupInv, LoopInv, StrayInv
<1>2. DevicesInv
  BY DEF DevicesInv, Devices
<1>3. WritesInv
  <2>1. <<>> \in Seq({})
    OBVIOUS
  <2>2. todo = <<>> /\ Len(todo) = 0 /\ \E S : todo \in Seq(S)
    BY <2>1
  <2>3. \A k \in 2..0 : FALSE
    OBVIOUS
  <2>4. bound = "no" /\ tracking = 0 /\ pressed = FALSE
    OBVIOUS
  <2>5. \A k \in 2..Len(todo) : Plain(todo[k])
    BY <2>2, <2>3
  <2>6. ~Starts("id") /\ ~Starts("up")
    BY <2>2 DEF Starts
  <2> HIDE DEF Init
  <2> QED  BY <2>2, <2>4, <2>5, <2>6 DEF WritesInv
<1>4. FingerInv
  BY DEF FingerInv, Starts, Devices
<1> QED  BY <1>1, <1>2, <1>3, <1>4 DEF IInv

\* The invariant is inductive.
LEMMA StepInv ==
  ASSUME MaxId \in Nat \ {0}
  PROVE  IInv /\ [Next]_vars => IInv'
<1> SUFFICES ASSUME IInv, [Next]_vars PROVE IInv'
  OBVIOUS
<1>1. SetupInv' /\ LoopInv' /\ DevicesInv' /\ StrayInv'
  BY SetupStep, LoopStep, DevicesStep, StrayStep
<1>2. WritesInv'
  BY WritesStep
<1>3. FingerInv'
  BY FingerStep
<1> QED  BY <1>1, <1>2, <1>3 DEF IInv

\* The invariant holds in every state.
LEMMA IInvAlways == Spec => []IInv
<1>1. Init => IInv
  BY InitInv
<1>2. IInv /\ [Next]_vars => IInv'
  BY StepInv, UIBCAssumption DEF UIBCAssumption
<1> QED  BY <1>1, <1>2, PTL DEF Spec

-----------------------------------------------------------------------------
\* While the pointer is there and no event is being written, the kernel's finger,
\* what press() and release() remember and the sink's last DOWN or UP agree.
THEOREM FingerAsToldHolds == Spec => []FingerAsTold
<1>1. IInv => FingerAsTold
  BY DEF IInv, SetupInv, WritesInv, FingerInv, FingerAsTold, Starts
<1> QED  BY <1>1, IInvAlways, PTL

\* A finger is lifted before the kernel is told of another: no contact's id is
\* replaced by the next without an end in between.
THEOREM OneFingerHolds == Spec => OneFinger
<1>1. IInv /\ [Next]_vars => [contact' # contact => (contact = 0 \/ contact' = 0)]_vars
  <2> SUFFICES ASSUME IInv, Next, contact' # contact
               PROVE  contact = 0 \/ contact' = 0
    OBVIOUS
  <2>1. EmitWrites
    BY DEF Next, Thread, Emit, Stopper, Open, Reuse, Listen, BindFails, Accept, AcceptEnds,
           Receive, ConnectionEnds, NextRead, Dispatch, EmitTests, EmitReads, EmitRaises,
           StopBegins, StopListening, Destroy, CloseDescriptor, Clear, NothingToClose,
        touchVars
  <2>2. todo # <<>> /\ Head(todo) = todo[1]
    BY <2>1, Rest DEF EmitWrites, IInv, WritesInv
  <2>3. kernel[Target(todo[1])] = "device" /\ todo[1][1] \in {"id", "up"}
    BY <2>1, <2>2 DEF EmitWrites
  <2>4. kernel["touch"] = "device"
    BY <2>3 DEF Target
  <2>5. CASE todo[1][1] = "id"
    BY <2>2, <2>4, <2>5 DEF IInv, WritesInv, FingerInv, Starts
  <2>6. CASE todo[1][1] = "up"
    BY <2>1, <2>2, <2>3, <2>6 DEF EmitWrites
  <2> QED  BY <2>3, <2>5, <2>6
<1> QED  BY <1>1, IInvAlways, PTL DEF Spec, OneFinger

\* The input thread ends only when stop() was called: no packet, error or descriptor
\* that went away ends it.
THEOREM InputSurvivesHolds == Spec => []InputSurvives
<1>1. IInv => InputSurvives
  BY DEF IInv, LoopInv, InputSurvives
<1> QED  BY <1>1, IInvAlways, PTL

\* No uinput device is left in the kernel when stop() has returned.
THEOREM StopDestroysHolds == Spec => []StopDestroys
<1>1. IInv => StopDestroys
  BY DEF IInv, DevicesInv, StopDestroys, Devices
<1> QED  BY <1>1, IInvAlways, PTL

\* Whoever gets the number of a descriptor that stop() closed loses at most the one
\* write the input thread had already begun.
THEOREM OneStrayAtMostHolds == Spec => []OneStrayAtMost
<1>1. IInv => OneStrayAtMost
  BY DEF IInv, StrayInv, OneStrayAtMost
<1> QED  BY <1>1, IInvAlways, PTL

-----------------------------------------------------------------------------
(* The parser: its recursive definition has a solution, which places      *)
(* of the buffer determine from the end on.                                *)

\* A set of numbers that holds 0 and goes on from each number to the next is all of them.
LEMMA Induction ==
  ASSUME NEW T, 0 \in T, \A k \in Nat : k \in T => k + 1 \in T
  PROVE  Nat \subseteq T
<1> DEFINE R == {ss \in Nat \X Nat : ss[1] < ss[2]}
           D == Nat \ T
<1>1. IsWellFoundedOn(R, Nat)
  BY NatLessThanWellFounded, Zenon DEF OpToRel
<1>2. SUFFICES ASSUME D # {} PROVE FALSE
  OBVIOUS
<1> HIDE DEF R
<1>3. PICK z \in D : \A y \in D : <<y, z>> \notin R
  BY <1>1, <1>2, WFMin, Zenon
<1>4. z \in Nat /\ z - 1 \in Nat /\ z - 1 + 1 = z /\ z - 1 < z
  BY <1>3
<1>5. z - 1 \notin D
  <2>1. <<z - 1, z>> \in R
    BY <1>4 DEF R
  <2> QED  BY <1>3, <2>1
<1> QED  BY <1>3, <1>4, <1>5

\* What the parser does at a place, given what it does behind it.
ParseAt(b, f, o) ==
  IF Len(b) - o < HeaderLength THEN [events |-> <<>>, consumed |-> o]
  ELSE LET length == b[o + 2] IN
       IF ~Sane(length) THEN f[o + 1]
       ELSE IF Len(b) - o < length THEN [events |-> <<>>, consumed |-> o]
       ELSE [events |-> Events(SubSeq(b, o + 1, o + length)) \o f[o + length].events,
             consumed |-> f[o + length].consumed]

\* ParseAt looks only behind the place.
LEMMA ParseBehind ==
  ASSUME NEW b \in Seq(Nat), NEW f, NEW g, NEW o \in 0..Len(b),
         \A i \in (o + 1)..Len(b) : f[i] = g[i]
  PROVE  ParseAt(b, f, o) = ParseAt(b, g, o)
<1> DEFINE length == b[o + 2]
<1>1. CASE Len(b) - o < HeaderLength
  BY <1>1 DEF ParseAt
<1>2. CASE ~(Len(b) - o < HeaderLength)
  <2>1. o + 2 \in 1..Len(b) /\ length \in Nat /\ o + 1 \in (o + 1)..Len(b)
    BY <1>2 DEF HeaderLength
  <2> HIDE DEF length
  <2>2. f[o + 1] = g[o + 1]
    BY <2>1
  <2>3. Sane(length) /\ ~(Len(b) - o < length) => f[o + length] = g[o + length]
    <3>1. Sane(length) /\ ~(Len(b) - o < length) => o + length \in (o + 1)..Len(b)
      BY <2>1 DEF Sane, HeaderLength
    <3> QED  BY <3>1
  <2> QED  BY <2>2, <2>3 DEF ParseAt, length
<1> QED  BY <1>1, <1>2

\* The recursive definition has a solution.
LEMMA ParserExists ==
  ASSUME NEW b \in Seq(Nat)
  PROVE  \E f : f = [o \in 0..Len(b) |-> ParseAt(b, f, o)]
<1> DEFINE n == Len(b)
           Solves(f, k) == \A o \in (n - k)..n : f[o] = ParseAt(b, f, o)
           T == {k \in Nat : k <= n => \E f : Solves(f, k)}
<1>1. n \in Nat
  OBVIOUS
<1>2. 0 \in T
  <2> DEFINE f == [o \in n..n |-> [events |-> <<>>, consumed |-> o]]
  <2>1. ASSUME NEW o \in n..n PROVE f[o] = ParseAt(b, f, o)
    BY <1>1 DEF ParseAt, HeaderLength
  <2>2. n - 0 = n
    BY <1>1
  <2>3. Solves(f, 0)
    <3> HIDE DEF f
    <3> QED  BY <2>1, <2>2
  <2> QED  BY <2>3
<1> HIDE DEF n
<1>3. ASSUME NEW k \in Nat, k \in T PROVE k + 1 \in T
  <2> SUFFICES ASSUME k + 1 <= n PROVE \E f : Solves(f, k + 1)
    OBVIOUS
  <2>1. PICK g : Solves(g, k)
    BY <1>1, <1>3
  <2> DEFINE z == n - (k + 1)
             f == [o \in z..n |-> IF o = z THEN ParseAt(b, g, z) ELSE g[o]]
  <2>2. z \in Nat /\ z < n /\ z \in 0..n /\ \A o \in z..n : o = z \/ o \in (n - k)..n
    BY <1>1
  <2>3. \A o \in (z + 1)..n : o \in z..n /\ o # z /\ f[o] = g[o]
    BY <1>1, <2>2
  <2>4. f[z] = ParseAt(b, g, z)
    BY <1>1, <2>2
  <2> HIDE DEF f
  <2>5. ASSUME NEW o \in z..n PROVE f[o] = ParseAt(b, f, o)
    <3>1. o \in 0..n /\ \A i \in (o + 1)..n : f[i] = g[i]
      BY <1>1, <2>2, <2>3
    <3>2. ParseAt(b, f, o) = ParseAt(b, g, o)
      BY <3>1, ParseBehind DEF n
    <3>3. CASE o = z
      BY <2>4, <3>2, <3>3
    <3>4. CASE o # z
      <4>1. o \in (z + 1)..n /\ o \in (n - k)..n
        BY <1>1, <2>2, <3>4
      <4> QED  BY <2>1, <2>3, <3>2, <4>1
    <3> QED  BY <3>3, <3>4
  <2>6. Solves(f, k + 1)
    BY <2>5
  <2> QED  BY <2>6
<1> HIDE DEF T
<1>4. Nat \subseteq T
  BY <1>2, <1>3, Induction
<1>5. PICK g : Solves(g, n)
  BY <1>1, <1>4 DEF T
<1>6. \A o \in 0..n : g[o] = ParseAt(b, g, o)
  <2>1. n - n = 0
    BY <1>1
  <2> QED  BY <1>5, <2>1
<1> DEFINE f == [o \in 0..n |-> g[o]]
<1>7. ASSUME NEW o \in 0..n PROVE f[o] = ParseAt(b, f, o)
  <2>1. \A i \in (o + 1)..n : f[i] = g[i]
    BY <1>1
  <2>2. f[o] = g[o]
    OBVIOUS
  <2> HIDE DEF f
  <2>3. ParseAt(b, f, o) = ParseAt(b, g, o)
    BY <2>1, ParseBehind DEF n
  <2> QED  BY <1>6, <2>2, <2>3
<1>8. f = [o \in 0..n |-> ParseAt(b, f, o)]
  <2>1. f = [o \in 0..n |-> f[o]]
    OBVIOUS
  <2> HIDE DEF f
  <2> QED  BY <1>7, <2>1
<1> QED  BY <1>8 DEF n

\* The parser's equation, at every place of a buffer.
LEMMA Parsing ==
  ASSUME NEW b \in Seq(Nat)
  PROVE  \A o \in 0..Len(b) : Parser(b)[o] = ParseAt(b, Parser(b), o)
<1> DEFINE F == CHOOSE f : f = [o \in 0..Len(b) |-> ParseAt(b, f, o)]
<1>1. F = [o \in 0..Len(b) |-> ParseAt(b, F, o)]
  BY ParserExists, Zenon
<1>2. Parser(b) = F
  BY Zenon DEF Parser, ParseAt
<1> HIDE DEF F
<1> QED  BY <1>1, <1>2

\* A property of places that goes from all those behind a place to the place holds at all.
LEMMA Backwards ==
  ASSUME NEW n \in Nat, NEW T,
         \A o \in 0..n : (\A i \in (o + 1)..n : i \in T) => o \in T
  PROVE  0..n \subseteq T
<1> DEFINE S == {k \in Nat : k <= n => \A o \in (n - k)..n : o \in T}
<1>1. 0 \in S
  <2>1. n \in 0..n /\ (n + 1)..n = {} /\ n - 0 = n /\ n..n = {n}
    OBVIOUS
  <2>2. n \in T
    BY <2>1
  <2> QED  BY <2>1, <2>2
<1>2. ASSUME NEW k \in Nat, k \in S PROVE k + 1 \in S
  <2> SUFFICES ASSUME k + 1 <= n PROVE \A o \in (n - (k + 1))..n : o \in T
    OBVIOUS
  <2>1. k <= n /\ n - (k + 1) \in 0..n /\ n - (k + 1) + 1 = n - k
    OBVIOUS
  <2>2. \A o \in (n - k)..n : o \in T
    BY <1>2, <2>1
  <2>3. n - (k + 1) \in T
    BY <2>1, <2>2
  <2> QED  BY <2>2, <2>3
<1> HIDE DEF S
<1>3. Nat \subseteq S
  BY <1>1, <1>2, Induction
<1>4. n \in S /\ n - n = 0
  BY <1>3
<1> QED  BY <1>4 DEF S

\* A part of a sequence.
LEMMA Part ==
  ASSUME NEW S, NEW s \in Seq(S), NEW i \in 1..(Len(s) + 1), NEW j \in 0..Len(s)
  PROVE  /\ SubSeq(s, i, j) \in Seq(S)
         /\ Len(SubSeq(s, i, j)) = IF i <= j THEN j - i + 1 ELSE 0
         /\ \A k \in 1..(j - i + 1) : SubSeq(s, i, j)[k] = s[i + k - 1]
<1>1. /\ i \in Int /\ j \in Int /\ i..j \subseteq 1..Len(s)
      /\ \A k \in 1..Len(s) : s[k] \in S
  OBVIOUS
<1> QED  BY <1>1, SubSeqProperties

\* An event is a pointer or a key, at a coordinate or with a code.
Happenings == [kind : {DOWN, UP, MOVE, KEYDOWN, KEYUP}, at : Nat]

LEMMA EventsTyped ==
  ASSUME NEW packet \in Seq(Nat), Len(packet) >= HeaderLength
  PROVE  Events(packet) \in Seq(Happenings)
<1> DEFINE type == packet[1]
           body == SubSeq(packet, HeaderLength + 1, Len(packet))
<1>1. body \in Seq(Nat) /\ Len(body) \in Nat /\ \A k \in 1..Len(body) : body[k] \in Nat
  BY SubSeqProperties DEF HeaderLength
<1>5. Events(packet) =
        CASE type \in {DOWN, UP, MOVE} /\ body # <<>> ->
            [k \in 1..(IF body[1] < Len(body) - 1 THEN body[1] ELSE Len(body) - 1) |->
               [kind |-> type, at |-> body[k + 1]]]
       [] type \in {KEYDOWN, KEYUP} /\ body # <<>> -> <<[kind |-> type, at |-> body[1]]>>
       [] OTHER -> <<>>
  BY Zenon DEF Events
<1> HIDE DEF body, type
<1>2. CASE type \in {DOWN, UP, MOVE} /\ body # <<>>
  <2> DEFINE m == IF body[1] < Len(body) - 1 THEN body[1] ELSE Len(body) - 1
             e == [k \in 1..m |-> [kind |-> type, at |-> body[k + 1]]]
  <2>1. Len(body) >= 1 /\ body[1] \in Nat
    BY <1>1, <1>2
  <2>2. m \in Nat /\ m <= Len(body) - 1
    BY <1>1, <2>1
  <2>3. Events(packet) = e
    <3>1. type \notin {KEYDOWN, KEYUP}
      BY <1>2 DEF DOWN, UP, MOVE, KEYDOWN, KEYUP
    <3> QED  BY <1>2, <1>5, <3>1
  <2> HIDE DEF m
  <2>4. ASSUME NEW k \in 1..m PROVE [kind |-> type, at |-> body[k + 1]] \in Happenings
    <3>1. k + 1 \in 1..Len(body)
      BY <1>1, <2>2
    <3> QED  BY <1>1, <1>2, <3>1 DEF Happenings
  <2>5. e \in Seq(Happenings)
    BY <2>2, <2>4
  <2> QED  BY <2>3, <2>5
<1>3. CASE type \in {KEYDOWN, KEYUP} /\ body # <<>>
  <2>1. [kind |-> type, at |-> body[1]] \in Happenings
    <3>1. 1 \in 1..Len(body)
      BY <1>1, <1>3
    <3> QED  BY <1>1, <1>3, <3>1 DEF Happenings
  <2>2. Events(packet) = <<[kind |-> type, at |-> body[1]]>>
    <3>1. type \notin {DOWN, UP, MOVE}
      BY <1>3 DEF DOWN, UP, MOVE, KEYDOWN, KEYUP
    <3> QED  BY <1>3, <1>5, <3>1
  <2> QED  BY <2>1, <2>2
<1>4. CASE body = <<>> \/ type \notin {DOWN, UP, MOVE, KEYDOWN, KEYUP}
  <2>1. Events(packet) = <<>>
    BY <1>4 DEF Events, type, body
  <2> QED  BY <2>1
<1> QED  BY <1>2, <1>3, <1>4

\* The parse from a place on, typed: it goes forward, not past the end.
ParseTyped(b, o) ==
  /\ Parser(b)[o].events \in Seq(Happenings)
  /\ Parser(b)[o].consumed \in o..Len(b)
  /\ Parser(b)[o] = [events |-> Parser(b)[o].events, consumed |-> Parser(b)[o].consumed]

\* The cases of a place.
LEMMA ParseCases ==
  ASSUME NEW b \in Seq(Nat), NEW o \in 0..Len(b)
  PROVE  LET length == b[o + 2] IN
         \/ /\ Len(b) - o < HeaderLength \/ (Sane(length) /\ Len(b) - o < length)
            /\ Parser(b)[o] = [events |-> <<>>, consumed |-> o]
         \/ /\ o + 1 \in 0..Len(b) /\ Len(b) - o >= HeaderLength /\ length \in Nat /\ ~Sane(length)
            /\ Parser(b)[o] = Parser(b)[o + 1]
         \/ /\ Len(b) - o >= HeaderLength /\ length \in Nat /\ Sane(length) /\ length >= HeaderLength
            /\ o + length \in (o + 1)..Len(b)
            /\ SubSeq(b, o + 1, o + length) \in Seq(Nat)
            /\ Events(SubSeq(b, o + 1, o + length)) \in Seq(Happenings)
            /\ Parser(b)[o] = [events |-> Events(SubSeq(b, o + 1, o + length)) \o Parser(b)[o + length].events,
                               consumed |-> Parser(b)[o + length].consumed]
<1> DEFINE length == b[o + 2]
<1>1. Parser(b)[o] = ParseAt(b, Parser(b), o)
  BY Parsing
<1>2. CASE Len(b) - o < HeaderLength
  BY <1>1, <1>2 DEF ParseAt
<1>3. CASE ~(Len(b) - o < HeaderLength)
  <2>1. o + 2 \in 1..Len(b) /\ length \in Nat /\ o + 1 \in 0..Len(b) /\ Len(b) - o >= HeaderLength
    BY <1>3 DEF HeaderLength
  <2>2. CASE ~Sane(length)
    BY <1>1, <1>3, <2>1, <2>2 DEF ParseAt
  <2>3. CASE Sane(length) /\ Len(b) - o < length
    BY <1>1, <1>3, <2>1, <2>3 DEF ParseAt
  <2>4. CASE Sane(length) /\ ~(Len(b) - o < length)
    <3>1. length >= HeaderLength /\ o + length \in (o + 1)..Len(b) /\ o + 1 \in 1..Len(b)
      BY <2>1, <2>4 DEF Sane, HeaderLength
    <3>2. SubSeq(b, o + 1, o + length) \in Seq(Nat) /\ Len(SubSeq(b, o + 1, o + length)) = length
      <4>1. /\ o + 1 \in 1..(Len(b) + 1) /\ o + length \in 0..Len(b) /\ o + 1 <= o + length
            /\ o + length - (o + 1) + 1 = length
        BY <2>1, <3>1
      <4>2. PICK i \in 1..(Len(b) + 1), j \in 0..Len(b) : i = o + 1 /\ j = o + length
        BY <4>1
      <4>3. SubSeq(b, i, j) \in Seq(Nat) /\ Len(SubSeq(b, i, j)) = IF i <= j THEN j - i + 1 ELSE 0
        BY Part
      <4>4. i <= j /\ j - i + 1 = length
        <5>1. length \in Nat /\ o \in Nat
          BY <2>1
        <5> HIDE DEF length
        <5> QED  BY <4>1, <4>2, <5>1
      <4>5. SubSeq(b, i, j) \in Seq(Nat) /\ Len(SubSeq(b, i, j)) = length
        BY <4>3, <4>4
      <4> HIDE DEF length
      <4> QED  BY <4>2, <4>5
    <3>3. Events(SubSeq(b, o + 1, o + length)) \in Seq(Happenings)
      BY <3>1, <3>2, EventsTyped
    <3>4. Parser(b)[o] = [events |-> Events(SubSeq(b, o + 1, o + length)) \o Parser(b)[o + length].events,
                          consumed |-> Parser(b)[o + length].consumed]
      BY <1>1, <1>3, <2>4 DEF ParseAt
    <3> QED  BY <2>1, <2>4, <3>1, <3>2, <3>3, <3>4
  <2> QED  BY <2>2, <2>3, <2>4
<1> QED  BY <1>2, <1>3

LEMMA ParsedTyped ==
  ASSUME NEW b \in Seq(Nat)
  PROVE  \A o \in 0..Len(b) : ParseTyped(b, o)
<1> DEFINE T == {o \in 0..Len(b) : ParseTyped(b, o)}
<1>1. ASSUME NEW o \in 0..Len(b), \A i \in (o + 1)..Len(b) : i \in T PROVE ParseTyped(b, o)
  <2> DEFINE length == b[o + 2]
  <2>1. CASE Parser(b)[o] = [events |-> <<>>, consumed |-> o]
    <3>1. <<>> \in Seq(Happenings)
      OBVIOUS
    <3> QED  BY <2>1, <3>1 DEF ParseTyped
  <2>2. CASE o + 1 \in 0..Len(b) /\ Parser(b)[o] = Parser(b)[o + 1]
    <3>1. o + 1 \in T
      BY <1>1, <2>2
    <3> QED  BY <2>2, <3>1 DEF ParseTyped
  <2>3. CASE /\ o + length \in (o + 1)..Len(b)
             /\ Events(SubSeq(b, o + 1, o + length)) \in Seq(Happenings)
             /\ Parser(b)[o] = [events |-> Events(SubSeq(b, o + 1, o + length)) \o Parser(b)[o + length].events,
                                consumed |-> Parser(b)[o + length].consumed]
    <3>1. PICK p \in (o + 1)..Len(b) : p = o + length
      BY <2>3
    <3>2. ParseTyped(b, p)
      BY <1>1
    <3> DEFINE e == Events(SubSeq(b, o + 1, o + length))
    <3>3. Parser(b)[o] = [events |-> e \o Parser(b)[p].events, consumed |-> Parser(b)[p].consumed]
      BY <2>3, <3>1
    <3>4. e \in Seq(Happenings)
      BY <2>3
    <3> HIDE DEF e
    <3>5. e \o Parser(b)[p].events \in Seq(Happenings)
      BY <3>2, <3>4, ConcatProperties DEF ParseTyped
    <3> QED  BY <3>2, <3>3, <3>5 DEF ParseTyped
  <2> QED  BY <2>1, <2>2, <2>3, ParseCases
<1> HIDE DEF T
<1>2. 0..Len(b) \subseteq T
  <2>1. Len(b) \in Nat
    OBVIOUS
  <2>2. \A o \in 0..Len(b) : (\A i \in (o + 1)..Len(b) : i \in T) => o \in T
    BY <1>1 DEF T
  <2> QED  BY <2>1, <2>2, Backwards
<1> QED  BY <1>2 DEF T

\* Bytes that come after change nothing of what was parsed: the parse goes on where it stopped.
GoesOn(b, c, o) ==
  /\ Parser(c)[o].events = Parser(b)[o].events \o Parser(c)[Parser(b)[o].consumed].events
  /\ Parser(c)[o].consumed = Parser(c)[Parser(b)[o].consumed].consumed
LEMMA ParseMore ==
  ASSUME NEW b \in Seq(Nat), NEW x \in Seq(Nat)
  PROVE  \A o \in 0..Len(b) : GoesOn(b, b \o x, o)
<1> DEFINE c == b \o x
           T == {o \in 0..Len(b) : GoesOn(b, c, o)}
<1>1. /\ c \in Seq(Nat) /\ Len(b) \in Nat /\ Len(c) \in Nat /\ Len(b) <= Len(c)
      /\ \A k \in 1..Len(b) : c[k] = b[k]
  OBVIOUS
<1>2. ASSUME NEW i \in 1..(Len(b) + 1), NEW j \in 0..Len(b) PROVE SubSeq(c, i, j) = SubSeq(b, i, j)
  <2>1. i \in 1..(Len(c) + 1) /\ j \in 0..Len(c)
    BY <1>1
  <2>2. /\ SubSeq(c, i, j) \in Seq(Nat) /\ SubSeq(b, i, j) \in Seq(Nat)
        /\ Len(SubSeq(c, i, j)) = IF i <= j THEN j - i + 1 ELSE 0
        /\ Len(SubSeq(b, i, j)) = IF i <= j THEN j - i + 1 ELSE 0
        /\ \A k \in 1..(j - i + 1) : SubSeq(c, i, j)[k] = c[i + k - 1]
        /\ \A k \in 1..(j - i + 1) : SubSeq(b, i, j)[k] = b[i + k - 1]
    BY <1>1, <2>1, Part
  <2>3. \A k \in 1..(j - i + 1) : i + k - 1 \in 1..Len(b)
    BY <1>1
  <2>4. Len(SubSeq(c, i, j)) = Len(SubSeq(b, i, j))
    BY <2>2
  <2>5. ASSUME NEW k \in 1..Len(SubSeq(b, i, j)) PROVE SubSeq(c, i, j)[k] = SubSeq(b, i, j)[k]
    <3>1. k \in 1..(j - i + 1)
      BY <2>2
    <3> QED  BY <1>1, <2>2, <2>3, <3>1
  <2> QED  BY <2>2, <2>4, <2>5, SeqEqual
<1> HIDE DEF c
<1>3. ASSUME NEW o \in 0..Len(b), \A i \in (o + 1)..Len(b) : i \in T PROVE GoesOn(b, c, o)
  <2> DEFINE length == b[o + 2]
             p == o + length
  <2>0. o \in 0..Len(c) /\ ParseTyped(c, o) /\ o \in Nat
    BY <1>1, ParsedTyped
  <2>1. CASE Parser(b)[o] = [events |-> <<>>, consumed |-> o]
    <3>1. <<>> \o Parser(c)[o].events = Parser(c)[o].events
      BY <2>0, ConcatEmptySeq DEF ParseTyped
    <3>2. Parser(b)[o].events = <<>> /\ Parser(b)[o].consumed = o
      BY <2>1
    <3> QED  BY <3>1, <3>2 DEF GoesOn
  <2>2. CASE /\ o + 1 \in 0..Len(b) /\ Len(b) - o >= HeaderLength /\ length \in Nat /\ ~Sane(length)
             /\ Parser(b)[o] = Parser(b)[o + 1]
    <3>1. o + 1 \in T
      BY <1>3, <2>2
    <3>2. c[o + 2] = length
      <4>1. o + 2 \in 1..Len(b)
        BY <1>1, <2>0, <2>2 DEF HeaderLength
      <4> QED  BY <1>1, <4>1
    <3>3. Len(c) - o >= HeaderLength /\ ~(Len(c) - o < HeaderLength)
      BY <1>1, <2>0, <2>2 DEF HeaderLength
    <3>4. Parser(c)[o] = ParseAt(c, Parser(c), o)
      BY <1>1, <2>0, Parsing
    <3>5. Parser(c)[o] = Parser(c)[o + 1]
      <4> HIDE DEF length
      <4> QED  BY <2>2, <3>2, <3>3, <3>4 DEF ParseAt
    <3>6. GoesOn(b, c, o + 1)
      BY <3>1
    <3> QED  BY <2>2, <3>5, <3>6 DEF GoesOn
  <2>3. CASE /\ Len(b) - o >= HeaderLength /\ length \in Nat /\ Sane(length) /\ length >= HeaderLength
             /\ p \in (o + 1)..Len(b)
             /\ Events(SubSeq(b, o + 1, p)) \in Seq(Happenings)
             /\ Parser(b)[o] = [events |-> Events(SubSeq(b, o + 1, p)) \o Parser(b)[p].events,
                                consumed |-> Parser(b)[p].consumed]
    <3> DEFINE e == Events(SubSeq(b, o + 1, p))
               q == Parser(b)[p].consumed
    <3>0. /\ Len(b) - o >= HeaderLength /\ length \in Nat /\ Sane(length) /\ length >= HeaderLength
          /\ p \in (o + 1)..Len(b)
      <4> HIDE DEF p, length
      <4> QED  BY <2>3
    <3>1. p \in T /\ p \in 0..Len(b) /\ p \in 0..Len(c)
      <4> HIDE DEF p, length, T
      <4> QED  BY <1>1, <1>3, <2>0, <3>0
    <3>2. c[o + 2] = length
      <4>1. o + 2 \in 1..Len(b)
        <5>1. Len(b) - o >= 2
          BY <3>0 DEF HeaderLength
        <5>2. Len(b) \in Nat
          BY <1>1
        <5> HIDE DEF length, p
        <5> QED  BY <2>0, <5>1, <5>2
      <4> QED  BY <1>1, <4>1
    <3>3. ~(Len(c) - o < HeaderLength) /\ ~(Len(c) - o < length)
      <4> HIDE DEF length
      <4>1. p = o + length
        BY DEF p
      <4> HIDE DEF p
      <4>2. Len(b) \in Nat /\ Len(c) \in Nat /\ Len(b) <= Len(c) /\ length \in Nat /\ o \in Nat
        BY <1>1, <2>0, <3>0
      <4>3. Len(b) - o >= 2 /\ p <= Len(b)
        BY <3>0, <3>1 DEF HeaderLength
      <4> QED  BY <4>1, <4>2, <4>3 DEF HeaderLength
    <3>4. Parser(c)[o] = ParseAt(c, Parser(c), o)
      BY <1>1, <2>0, Parsing
    <3>5. SubSeq(c, o + 1, p) = SubSeq(b, o + 1, p)
      <4>1. o + 1 \in 1..(Len(b) + 1)
        BY <1>1
      <4> HIDE DEF p
      <4> QED  BY <1>2, <3>1, <4>1
    <3>6. Parser(c)[o] = [events |-> e \o Parser(c)[p].events, consumed |-> Parser(c)[p].consumed]
      <4>1. Parser(c)[o] = [events |-> Events(SubSeq(c, o + 1, o + length)) \o Parser(c)[o + length].events,
                            consumed |-> Parser(c)[o + length].consumed]
        <5> HIDE DEF length
        <5> QED  BY <2>3, <3>2, <3>3, <3>4 DEF ParseAt
      <4> QED  BY <3>5, <4>1
    <3>7. GoesOn(b, c, p) /\ ParseTyped(b, p)
      BY <3>1, ParsedTyped
    <3>8. q \in 0..Len(b) /\ q \in 0..Len(c)
      <4>1. q \in p..Len(b)
        BY <3>7 DEF ParseTyped
      <4> HIDE DEF q, p
      <4> QED  BY <1>1, <3>1, <4>1
    <3>9. /\ e \in Seq(Happenings) /\ Parser(b)[p].events \in Seq(Happenings)
          /\ Parser(c)[q].events \in Seq(Happenings)
      <4>1. ParseTyped(c, q)
        BY <1>1, <3>8, ParsedTyped
      <4> QED  BY <2>3, <3>7, <4>1 DEF ParseTyped
    <3>10. Parser(b)[o] = [events |-> e \o Parser(b)[p].events, consumed |-> q]
      BY <2>3
    <3>11. /\ Parser(c)[p].events = Parser(b)[p].events \o Parser(c)[q].events
           /\ Parser(c)[p].consumed = Parser(c)[q].consumed
      BY <3>7 DEF GoesOn
    <3> HIDE DEF e, q, p
    <3> DEFINE f == Parser(b)[p].events
               g == Parser(c)[q].events
    <3>12. e \o (f \o g) = (e \o f) \o g
      <4>1. f \in Seq(Happenings) /\ g \in Seq(Happenings)
        BY <3>9
      <4> HIDE DEF f, g
      <4>2. e \in Seq(Happenings)
        BY <3>9
      <4>3. \A u \in Seq(Happenings), v \in Seq(Happenings), w \in Seq(Happenings) :
              u \o (v \o w) = (u \o v) \o w
        BY ConcatAssociative
      <4> QED  BY <4>1, <4>2, <4>3
    <3>13. Parser(b)[o].events = e \o f /\ Parser(b)[o].consumed = q
      BY <3>10
    <3>14. Parser(c)[o].events = e \o (f \o g) /\ Parser(c)[o].consumed = Parser(c)[q].consumed
      <4>1. Parser(c)[o].events = e \o Parser(c)[p].events /\ Parser(c)[o].consumed = Parser(c)[p].consumed
        BY <3>6
      <4>2. Parser(c)[p].events = f \o g
        BY <3>11
      <4> HIDE DEF f, g
      <4> QED  BY <3>11, <4>1, <4>2
    <3> HIDE DEF f
    <3> QED  BY <3>12, <3>13, <3>14 DEF GoesOn
  <2> QED  BY <2>1, <2>2, <2>3, ParseCases
<1> HIDE DEF T
<1>4. 0..Len(b) \subseteq T
  <2>1. \A o \in 0..Len(b) : (\A i \in (o + 1)..Len(b) : i \in T) => o \in T
    BY <1>3 DEF T
  <2> QED  BY <1>1, <2>1, Backwards
<1> QED  BY <1>4 DEF T, c

\* Parsing from a place is parsing what is left from there.
Shifted(c, d, k, o) ==
  /\ Parser(c)[k + o].events = Parser(d)[o].events
  /\ Parser(c)[k + o].consumed = k + Parser(d)[o].consumed
LEMMA ParseShift ==
  ASSUME NEW c \in Seq(Nat), NEW k \in 0..Len(c), NEW d \in Seq(Nat), Len(d) = Len(c) - k,
         \A i \in 1..Len(d) : d[i] = c[k + i]
  PROVE  \A o \in 0..Len(d) : Shifted(c, d, k, o)
<1> DEFINE T == {o \in 0..Len(d) : Shifted(c, d, k, o)}
<1>1. Len(c) \in Nat /\ Len(d) \in Nat /\ k \in Nat
  OBVIOUS
<1>2. ASSUME NEW i \in 1..(Len(d) + 1), NEW j \in 0..Len(d)
      PROVE  SubSeq(c, k + i, k + j) = SubSeq(d, i, j)
  <2> DEFINE m == k + i  n == k + j
  <2>1. m \in 1..(Len(c) + 1) /\ n \in 0..Len(c) /\ n - m = j - i /\ (m <= n <=> i <= j)
    BY <1>1
  <2>2. /\ SubSeq(d, i, j) \in Seq(Nat)
        /\ Len(SubSeq(d, i, j)) = IF i <= j THEN j - i + 1 ELSE 0
        /\ \A a \in 1..(j - i + 1) : SubSeq(d, i, j)[a] = d[i + a - 1]
    BY Part
  <2>5. \A a \in 1..(j - i + 1) : i + a - 1 \in 1..Len(d) /\ m + a - 1 = k + (i + a - 1)
    BY <1>1
  <2> HIDE DEF m, n
  <2>3. /\ SubSeq(c, m, n) \in Seq(Nat)
        /\ Len(SubSeq(c, m, n)) = IF m <= n THEN n - m + 1 ELSE 0
        /\ \A a \in 1..(n - m + 1) : SubSeq(c, m, n)[a] = c[m + a - 1]
    BY <2>1, Part
  <2>4. Len(SubSeq(c, m, n)) = Len(SubSeq(d, i, j))
    BY <2>1, <2>2, <2>3
  <2>6. ASSUME NEW a \in 1..Len(SubSeq(d, i, j)) PROVE SubSeq(c, m, n)[a] = SubSeq(d, i, j)[a]
    <3>1. a \in 1..(j - i + 1) /\ a \in 1..(n - m + 1)
      BY <2>1, <2>2
    <3> QED  BY <2>2, <2>3, <2>5, <3>1
  <2>7. SubSeq(c, m, n) = SubSeq(d, i, j)
    BY <2>2, <2>3, <2>4, <2>6, SeqEqual
  <2> QED  BY <2>7 DEF m, n
<1>3. ASSUME NEW o \in 0..Len(d), \A i \in (o + 1)..Len(d) : i \in T PROVE Shifted(c, d, k, o)
  <2> DEFINE length == d[o + 2]
             p == o + length
             z == k + o
  <2>0. z \in 0..Len(c) /\ o \in Nat /\ Len(c) - z = Len(d) - o /\ z \in Nat
    BY <1>1
  <2>4. Parser(c)[z] = ParseAt(c, Parser(c), z) /\ Parser(d)[o] = ParseAt(d, Parser(d), o)
    <3> HIDE DEF z
    <3> QED  BY <2>0, Parsing
  <2>1. CASE Len(d) - o < HeaderLength
    <3>1. Parser(c)[z] = [events |-> <<>>, consumed |-> z] /\ Parser(d)[o] = [events |-> <<>>, consumed |-> o]
      <4> HIDE DEF z
      <4> QED  BY <2>0, <2>1, <2>4 DEF ParseAt
    <3> QED  BY <3>1 DEF Shifted
  <2>2. CASE ~(Len(d) - o < HeaderLength)
    <3>1. /\ o + 2 \in 1..Len(d) /\ length \in Nat /\ k + (o + 2) = z + 2 /\ o + 1 \in 0..Len(d)
          /\ z + 1 = k + (o + 1)
      <4>1. o + 2 \in 1..Len(d) /\ o + 1 \in 0..Len(d)
        BY <1>1, <2>0, <2>2 DEF HeaderLength
      <4>2. length \in Nat
        BY <4>1
      <4>3. k + (o + 2) = z + 2 /\ z + 1 = k + (o + 1)
        BY <1>1, <2>0
      <4> QED  BY <4>1, <4>2, <4>3
    <3>2. c[z + 2] = length
      BY <3>1
    <3> HIDE DEF length
    <3>3. CASE ~Sane(length)
      <4>1. Parser(c)[z] = Parser(c)[z + 1] /\ Parser(d)[o] = Parser(d)[o + 1]
        <5> HIDE DEF z
        <5> QED  BY <2>0, <2>2, <2>4, <3>2, <3>3 DEF ParseAt, length
      <4>2. Shifted(c, d, k, o + 1)
        BY <1>3, <3>1
      <4> QED  BY <3>1, <4>1, <4>2 DEF Shifted
    <3>4. CASE Sane(length) /\ Len(d) - o < length
      <4>1. Parser(c)[z] = [events |-> <<>>, consumed |-> z] /\ Parser(d)[o] = [events |-> <<>>, consumed |-> o]
        <5> HIDE DEF z
        <5> QED  BY <2>0, <2>2, <2>4, <3>2, <3>4 DEF ParseAt, length
      <4> QED  BY <4>1 DEF Shifted
    <3>5. CASE Sane(length) /\ ~(Len(d) - o < length)
      <4>1. p \in (o + 1)..Len(d) /\ o + 1 \in 1..(Len(d) + 1) /\ p \in 0..Len(d) /\ z + length = k + p /\ length >= 2
        BY <1>1, <2>0, <3>1, <3>5 DEF Sane, HeaderLength
      <4>2. SubSeq(c, z + 1, z + length) = SubSeq(d, o + 1, p)
        <5> HIDE DEF p, z
        <5>1. SubSeq(c, k + (o + 1), k + p) = SubSeq(d, o + 1, p)
          BY <1>2, <4>1
        <5> QED  BY <3>1, <4>1, <5>1
      <4>3. Shifted(c, d, k, p)
        <5> HIDE DEF p
        <5> QED  BY <1>3, <4>1
      <4>4. Parser(d)[o] = [events |-> Events(SubSeq(d, o + 1, o + length)) \o Parser(d)[o + length].events,
                            consumed |-> Parser(d)[o + length].consumed]
        BY <2>0, <2>2, <2>4, <3>2, <3>5 DEF ParseAt, length
      <4>5. Parser(c)[z] = [events |-> Events(SubSeq(c, z + 1, z + length)) \o Parser(c)[z + length].events,
                            consumed |-> Parser(c)[z + length].consumed]
        <5> HIDE DEF z
        <5> QED  BY <2>0, <2>2, <2>4, <3>2, <3>5 DEF ParseAt, length
      <4> DEFINE e == Events(SubSeq(d, o + 1, p))
                 f == Parser(d)[p].events
                 g == Parser(c)[k + p].events
      <4>6. Parser(d)[o].events = e \o f /\ Parser(d)[o].consumed = Parser(d)[p].consumed
        <5>1. Parser(d)[o] = [events |-> e \o f, consumed |-> Parser(d)[p].consumed]
          BY <4>4
        <5> HIDE DEF e, f, p
        <5> QED  BY <5>1
      <4>7. Parser(c)[z].events = e \o g /\ Parser(c)[z].consumed = Parser(c)[k + p].consumed
        <5>1. z + length = k + p
          BY <4>1
        <5> HIDE DEF z, p
        <5>2. Parser(c)[z] = [events |-> e \o g, consumed |-> Parser(c)[k + p].consumed]
          BY <4>2, <4>5, <5>1
        <5> HIDE DEF e, g
        <5> QED  BY <5>2
      <4>8. f = g /\ Parser(c)[k + p].consumed = k + Parser(d)[p].consumed
        BY <4>3 DEF Shifted
      <4> HIDE DEF e, f, g, p
      <4> QED  BY <4>6, <4>7, <4>8 DEF Shifted
    <3> QED  BY <3>3, <3>4, <3>5
  <2> QED  BY <2>1, <2>2
<1> HIDE DEF T
<1>4. 0..Len(d) \subseteq T
  <2>1. \A o \in 0..Len(d) : (\A i \in (o + 1)..Len(d) : i \in T) => o \in T
    BY <1>3 DEF T
  <2> QED  BY <1>1, <2>1, Backwards
<1> QED  BY <1>4 DEF T

-----------------------------------------------------------------------------
(* Types, and the events of a connection.                                  *)

\* The writes a device may be asked for: ids and coordinates within their ranges.
Ops == ({"id"} \X (1..MaxId)) \cup ({"pos"} \X (0..(MonitorWidth - 1)))
       \cup ({"up", "syn", "keysyn"} \X {0}) \cup ({"key"} \X Nat)

TypesInv ==
  /\ setup \in {"idle", "touch", "keys", "up", "failed"}
  /\ running \in BOOLEAN /\ listening \in BOOLEAN
  /\ server \in {"none", "accept", "recv", "events", "done"}
  /\ tracking \in 0..MaxId /\ contact \in 0..MaxId
  /\ todo \in Seq(Ops)

\* A coordinate is kept on the monitor.
LEMMA OnTheMonitor ==
  ASSUME NEW x \in Nat
  PROVE  to_screen(x) \in 0..(MonitorWidth - 1)
<1>1. MonitorWidth \in Nat \ {0} /\ SinkWidth \in Nat \ {0}
  BY UIBCAssumption DEF UIBCAssumption
<1>2. PICK a \in Nat : a = x * MonitorWidth
  <2>1. x * MonitorWidth \in Nat
    BY <1>1
  <2> QED  BY <2>1
<1>3. a \div SinkWidth \in Nat
  BY <1>1
<1>4. Rounded(a, SinkWidth) \in Nat
  BY <1>3 DEF Rounded
<1> QED  BY <1>1, <1>2, <1>4 DEF to_screen

LEMMA WritesTyped ==
  ASSUME tracking \in 0..MaxId, NEW ev \in Happenings
  PROVE  Writes(ev) \in Seq(Ops)
<1>1. ev.at \in Nat /\ MaxId \in Nat \ {0}
  BY UIBCAssumption DEF UIBCAssumption, Happenings
<1>2. NextId \in 1..MaxId
  BY <1>1 DEF NextId
<1> DEFINE id == <<"id", NextId>>
           pos == <<"pos", to_screen(ev.at)>>
           syn == <<"syn", 0>>
           up == <<"up", 0>>
           key == <<"key", ev.at>>
           keysyn == <<"keysyn", 0>>
<1>3. id \in Ops /\ syn \in Ops /\ up \in Ops /\ keysyn \in Ops
  BY <1>2 DEF Ops
<1>4. pos \in Ops /\ key \in Ops
  BY <1>1, OnTheMonitor DEF Ops
<1>5. Writes(ev) = CASE ev.kind = DOWN -> (IF pressed THEN <<>> ELSE <<id>>) \o <<pos, syn>>
                     [] ev.kind = MOVE -> <<pos, syn>>
                     [] ev.kind = UP -> (IF pressed THEN <<up>> ELSE <<>>) \o <<syn>>
                     [] OTHER -> <<key, keysyn>>
  BY Zenon DEF Writes
<1>6. DOWN # MOVE /\ UP # MOVE /\ DOWN # UP
  BY DEF DOWN, UP, MOVE
<1> HIDE DEF id, pos, syn, up, key, keysyn
<1>7. /\ <<pos, syn>> \in Seq(Ops) /\ <<syn>> \in Seq(Ops) /\ <<key, keysyn>> \in Seq(Ops)
      /\ (IF pressed THEN <<>> ELSE <<id>>) \in Seq(Ops) /\ (IF pressed THEN <<up>> ELSE <<>>) \in Seq(Ops)
  BY <1>3, <1>4
<1>8. \A s \in Seq(Ops), t \in Seq(Ops) : s \o t \in Seq(Ops)
  BY ConcatProperties
<1>9. CASE ev.kind = DOWN
  BY <1>5, <1>6, <1>7, <1>8, <1>9
<1>10. CASE ev.kind = MOVE
  BY <1>5, <1>6, <1>7, <1>10
<1>11. CASE ev.kind = UP
  BY <1>5, <1>6, <1>7, <1>8, <1>11
<1>12. CASE ev.kind \notin {DOWN, MOVE, UP}
  BY <1>5, <1>7, <1>12
<1> QED  BY <1>9, <1>10, <1>11, <1>12

\* What a write notes stays within the ids.
LEMMA Noted ==
  ASSUME todo \in Seq(Ops), todo # <<>>
  PROVE  /\ Tail(todo) \in Seq(Ops)
         /\ Head(todo)[1] = "id" => Head(todo)[2] \in 0..MaxId
<1>1. Head(todo) \in Ops /\ Tail(todo) \in Seq(Ops)
  OBVIOUS
<1>2. Head(todo)[1] = "id" => Head(todo)[2] \in 1..MaxId
  BY <1>1 DEF Ops
<1> QED  BY <1>1, <1>2, UIBCAssumption DEF UIBCAssumption

LEMMA ReceiveShape ==
  ASSUME NEW buf \in Seq(Nat)
  PROVE  /\ parse_packets(buf).events \in Seq(Happenings)
         /\ parse_packets(buf).consumed \in 0..Len(buf)
<1>1. 0 \in 0..Len(buf)
  OBVIOUS
<1> QED  BY <1>1, ParsedTyped DEF ParseTyped, parse_packets

\* The events of a connection, dispatched and waiting, are those of all its bytes, and
\* the buffer is the bytes that parse has left.
ChunkInv ==
  /\ stream \in Seq(Nat) /\ got \in 0..Len(stream)
  /\ done \in Seq(Happenings) /\ queue \in Seq(Happenings)
  /\ server = "recv" => queue = <<>>
  /\ server \in {"recv", "events"} =>
       LET whole == parse_packets(SubSeq(stream, 1, got))
       IN /\ done \o queue = whole.events
          /\ whole.consumed \in 0..got /\ buffer = SubSeq(stream, whole.consumed + 1, got)

\* A parse of part of the bytes, and of what it left with the bytes that come next.
LEMMA ParseInParts ==
  ASSUME NEW s \in Seq(Nat), NEW g \in 0..Len(s), NEW h \in g..Len(s)
  PROVE  LET whole == parse_packets(SubSeq(s, 1, g))
             rest == parse_packets(SubSeq(s, whole.consumed + 1, h))
             both == parse_packets(SubSeq(s, 1, h))
         IN /\ whole.events \in Seq(Happenings) /\ whole.consumed \in 0..g
            /\ rest.events \in Seq(Happenings) /\ rest.consumed \in 0..(h - whole.consumed)
            /\ both.events = whole.events \o rest.events
            /\ both.consumed = whole.consumed + rest.consumed
<1> DEFINE b == SubSeq(s, 1, g)
           x == SubSeq(s, g + 1, h)
           c == SubSeq(s, 1, h)
           k == Parser(b)[0].consumed
           d == SubSeq(s, k + 1, h)
<1>1. Len(s) \in Nat /\ h \in 0..Len(s) /\ 1 \in 1..(Len(s) + 1) /\ g + 1 \in 1..(Len(s) + 1) /\ g \in Nat /\ h \in Nat /\ g <= h
  OBVIOUS
<1>2. b \in Seq(Nat) /\ Len(b) = g
  <2>1. SubSeq(s, 1, g) \in Seq(Nat) /\ Len(SubSeq(s, 1, g)) = IF 1 <= g THEN g - 1 + 1 ELSE 0
    BY <1>1, Part
  <2> QED  BY <1>1, <2>1
<1>3. c \in Seq(Nat) /\ Len(c) = h /\ \A i \in 1..h : c[i] = s[i]
  <2>1. /\ SubSeq(s, 1, h) \in Seq(Nat) /\ Len(SubSeq(s, 1, h)) = IF 1 <= h THEN h - 1 + 1 ELSE 0
        /\ \A i \in 1..(h - 1 + 1) : SubSeq(s, 1, h)[i] = s[1 + i - 1]
    BY <1>1, Part
  <2> QED  BY <1>1, <2>1
<1>4. x \in Seq(Nat)
  BY <1>1, Part
<1>5. c = b \o x
  <2>1. 1 \in 1..(Len(s) + 1) /\ g \in (1 - 1)..Len(s) /\ h \in g..Len(s)
    BY <1>1
  <2> QED  BY <2>1, ConcatAdjacentSubSeq
<1> HIDE DEF b, x, c
<1>6. 0 \in 0..Len(b) /\ ParseTyped(b, 0) /\ GoesOn(b, c, 0)
  <2>1. 0 \in 0..Len(b)
    BY <1>1, <1>2
  <2> QED  BY <1>2, <1>4, <1>5, <2>1, ParsedTyped, ParseMore
<1>7. k \in 0..g /\ k \in 0..h /\ k \in Nat
  <2>1. k \in 0..Len(b)
    BY <1>6 DEF ParseTyped
  <2> HIDE DEF k
  <2> QED  BY <1>1, <1>2, <2>1
<1> HIDE DEF k
<1>8. d \in Seq(Nat) /\ Len(d) = h - k /\ \A i \in 1..(h - k) : d[i] = c[k + i]
  <2>1. k + 1 \in 1..(Len(s) + 1)
    BY <1>1, <1>7
  <2>2. /\ SubSeq(s, k + 1, h) \in Seq(Nat)
        /\ Len(SubSeq(s, k + 1, h)) = IF k + 1 <= h THEN h - (k + 1) + 1 ELSE 0
        /\ \A i \in 1..(h - (k + 1) + 1) : SubSeq(s, k + 1, h)[i] = s[(k + 1) + i - 1]
    BY <1>1, <2>1, Part
  <2>3. h - (k + 1) + 1 = h - k /\ (k + 1 <= h \/ h - k = 0)
    BY <1>1, <1>7
  <2>4. d \in Seq(Nat) /\ Len(d) = h - k
    BY <2>2, <2>3
  <2>5. ASSUME NEW i \in 1..(h - k) PROVE d[i] = c[k + i]
    <3>1. (k + 1) + i - 1 = k + i /\ k + i \in 1..h
      BY <1>1, <1>7
    <3> QED  BY <1>3, <2>2, <2>3, <3>1
  <2> QED  BY <2>4, <2>5
<1> HIDE DEF d
<1>9. 0 \in 0..Len(d) /\ ParseTyped(d, 0) /\ Shifted(c, d, k, 0)
  <2>1. 0 \in 0..Len(d)
    BY <1>7, <1>8
  <2>2. k \in 0..Len(c) /\ Len(d) = Len(c) - k
    BY <1>3, <1>7, <1>8
  <2> QED  BY <1>3, <1>8, <2>1, <2>2, ParsedTyped, ParseShift
<1>10. k + 0 = k
  BY <1>7
<1>11. /\ Parser(c)[0].events = Parser(b)[0].events \o Parser(d)[0].events
       /\ Parser(c)[0].consumed = k + Parser(d)[0].consumed
  BY <1>6, <1>9, <1>10 DEF GoesOn, Shifted, k
<1>12. /\ Parser(b)[0].events \in Seq(Happenings) /\ Parser(d)[0].events \in Seq(Happenings)
       /\ Parser(d)[0].consumed \in 0..(h - k)
  BY <1>6, <1>8, <1>9 DEF ParseTyped
<1> QED  BY <1>7, <1>11, <1>12 DEF parse_packets, b, c, d, k

LEMMA TypesStep == IInv /\ TypesInv /\ ChunkInv /\ [Next]_vars => TypesInv'
<1> SUFFICES ASSUME IInv, TypesInv, ChunkInv, [Next]_vars PROVE TypesInv'
  OBVIOUS
<1> USE DEF TypesInv, serverVars, connVars, deviceVars, touchVars, Setup, Stop, Server, Devices, AcceptAgain
<1>0. MaxId \in Nat \ {0} /\ <<>> \in Seq(Ops) /\ <<>> \in Seq(Happenings)
  BY UIBCAssumption DEF UIBCAssumption
<1>1. ASSUME NEW d \in Devices,
             Open(d) \/ Destroy(d) \/ CloseDescriptor(d) \/ Clear(d) \/
             NothingToClose(d) \/ Reuse(d)
      PROVE  TypesInv'
  BY <1>1 DEF Open, Destroy, CloseDescriptor, Clear, NothingToClose, Reuse
<1>2. CASE Listen \/ BindFails \/ StopBegins \/ StopListening \/ UNCHANGED vars
  BY <1>2 DEF Listen, BindFails, StopBegins, StopListening, vars
<1>3. CASE Accept \/ AcceptEnds \/ ConnectionEnds \/ NextRead
  BY <1>0, <1>3 DEF Accept, AcceptEnds, ConnectionEnds, NextRead
<1>4. CASE Receive
  BY <1>4 DEF Receive
<1>5. CASE Dispatch
  <2>1. Head(queue) \in Happenings
    BY <1>5 DEF Dispatch, ChunkInv
  <2>2. todo' = Writes(Head(queue)) \/ todo' = <<>>
    BY <1>5 DEF Dispatch
  <2>3. todo' \in Seq(Ops)
    BY <1>0, <2>1, <2>2, WritesTyped
  <2> QED  BY <1>5, <2>1, <2>3 DEF Dispatch
<1>6. CASE EmitTests
  BY <1>6, Noted DEF EmitTests, Note
<1>7. CASE EmitReads \/ EmitRaises
  BY <1>0, <1>7 DEF EmitReads, EmitRaises
<1>8. CASE EmitWrites
  <2>1. todo # <<>>
    BY <1>8 DEF EmitWrites, IInv, WritesInv
  <2>2. Tail(todo) \in Seq(Ops) /\ (Head(todo)[1] = "id" => Head(todo)[2] \in 0..MaxId)
    BY <2>1, Noted
  <2>3. contact' \in 0..MaxId /\ tracking' \in 0..MaxId
    BY <1>0, <1>8, <2>2 DEF EmitWrites, Note
  <2> QED  BY <1>8, <2>2, <2>3 DEF EmitWrites
<1> QED  BY <1>1, <1>2, <1>3, <1>4, <1>5, <1>6, <1>7, <1>8 DEF Next, Thread, Emit, Stopper

LEMMA ChunkStep == ChunkInv /\ [Next]_vars => ChunkInv'
<1> SUFFICES ASSUME ChunkInv, [Next]_vars PROVE ChunkInv'
  OBVIOUS
<1> USE DEF serverVars, connVars, deviceVars, touchVars, Setup, Stop, Server, Devices, AcceptAgain
<1>1. ASSUME NEW d \in Devices,
             Open(d) \/ Destroy(d) \/ CloseDescriptor(d) \/ Clear(d) \/
             NothingToClose(d) \/ Reuse(d)
      PROVE  ChunkInv'
  BY <1>1 DEF Open, Destroy, CloseDescriptor, Clear, NothingToClose, Reuse, ChunkInv
<1>2. CASE BindFails \/ StopBegins \/ StopListening \/ UNCHANGED vars
  BY <1>2 DEF BindFails, StopBegins, StopListening, vars, ChunkInv
<1>3. CASE Listen \/ AcceptEnds \/ ConnectionEnds
  BY <1>3 DEF Listen, AcceptEnds, ConnectionEnds, ChunkInv
<1>4. CASE NextRead
  BY <1>4 DEF NextRead, ChunkInv
<1>5. CASE EmitTests \/ EmitReads \/ EmitRaises \/ EmitWrites
  BY <1>5 DEF EmitTests, EmitReads, EmitRaises, EmitWrites, ChunkInv
<1>6. CASE Accept
  <2>1. stream' \in Seq(Nat) /\ got' = 0 /\ done' = <<>> /\ queue' = <<>> /\ buffer' = <<>>
    BY <1>6, UIBCAssumption DEF Accept, UIBCAssumption
  <2>2. PICK s \in Seq(Nat) : s = stream'
    BY <2>1
  <2>3. SubSeq(s, 1, 0) = <<>>
    BY SubSeqEmpty
  <2>4. parse_packets(<<>>) = [events |-> <<>>, consumed |-> 0]
    <3>1. <<>> \in Seq(Nat) /\ Len(<<>>) = 0 /\ 0 \in 0..Len(<<>>)
      OBVIOUS
    <3>2. Parser(<<>>)[0] = ParseAt(<<>>, Parser(<<>>), 0)
      BY <3>1, Parsing
    <3> QED  BY <3>1, <3>2 DEF parse_packets, ParseAt, HeaderLength
  <2>5. <<>> \o <<>> = <<>> /\ <<>> \in Seq(Happenings) /\ 0 \in 0..Len(s) /\ 0 \in 0..0 /\ 0 + 1 = 1
    BY <2>2
  <2>6. SubSeq(stream', 1, got') = <<>> /\ got' \in 0..Len(stream')
    BY <2>1, <2>2, <2>3, <2>5
  <2> DEFINE whole == parse_packets(<<>>)
  <2>7. done' \o queue' = whole.events /\ whole.consumed = 0 /\ buffer' = SubSeq(stream', 0 + 1, got')
    BY <2>1, <2>4, <2>5, <2>6
  <2> HIDE DEF whole
  <2>8. whole.consumed \in 0..got'
    BY <2>1, <2>7
  <2> QED  BY <2>1, <2>5, <2>6, <2>7, <2>8 DEF ChunkInv, whole
<1>7. CASE Dispatch
  <2>1. /\ queue # <<>> /\ queue \in Seq(Happenings) /\ done \in Seq(Happenings)
        /\ queue' = Tail(queue) /\ done' = Append(done, Head(queue))
        /\ UNCHANGED <<stream, got, buffer, server>> /\ server = "events"
    BY <1>7 DEF Dispatch, ChunkInv
  <2>2. done' \in Seq(Happenings) /\ queue' \in Seq(Happenings) /\ done' \o queue' = done \o queue
    <3>1. Head(queue) \in Happenings /\ Tail(queue) \in Seq(Happenings) /\ queue = <<Head(queue)>> \o Tail(queue)
      BY <2>1
    <3> DEFINE h == <<Head(queue)>>
               t == Tail(queue)
    <3>2. h \in Seq(Happenings) /\ t \in Seq(Happenings) /\ queue = h \o t
      BY <3>1
    <3>3. done' = done \o h
      BY <2>1, <3>1
    <3> HIDE DEF h, t
    <3>4. \A u \in Seq(Happenings), v \in Seq(Happenings), w \in Seq(Happenings) :
              u \o (v \o w) = (u \o v) \o w
      BY ConcatAssociative
    <3>5. done \o (h \o t) = (done \o h) \o t
      BY <2>1, <3>2, <3>4
    <3>6. done \o h \in Seq(Happenings)
      BY <2>1, <3>2, ConcatProperties
    <3>7. queue' = t
      BY <2>1 DEF t
    <3> QED  BY <3>2, <3>3, <3>5, <3>6, <3>7
  <2> QED  BY <2>1, <2>2 DEF ChunkInv
<1>8. CASE Receive
  <2>1. PICK n \in 1..(Len(stream) - got) :
          LET buf == buffer \o SubSeq(stream, got + 1, got + n)
              parsed == parse_packets(buf)
          IN /\ got' = got + n /\ queue' = parsed.events /\ buffer' = Kept(buf, parsed)
    BY <1>8 DEF Receive
  <2>2. server = "recv" /\ server' = "events" /\ UNCHANGED <<stream, done>>
    BY <1>8 DEF Receive
  <2>3. PICK s \in Seq(Nat) : s = stream
    BY DEF ChunkInv
  <2>4. PICK g \in 0..Len(s) : g = got
    BY <2>3 DEF ChunkInv
  <2> DEFINE h == g + n
  <2>5. h \in g..Len(s) /\ g \in Nat /\ h \in Nat /\ h \in 0..Len(s) /\ Len(s) \in Nat
    BY <2>3, <2>4
  <2> DEFINE whole == parse_packets(SubSeq(s, 1, g))
             k == whole.consumed
             buf == SubSeq(s, k + 1, h)
             rest == parse_packets(buf)
             both == parse_packets(SubSeq(s, 1, h))
  <2> HIDE DEF h
  <2>6. /\ whole.events \in Seq(Happenings) /\ k \in 0..g
        /\ rest.events \in Seq(Happenings) /\ rest.consumed \in 0..(h - k)
        /\ both.events = whole.events \o rest.events
        /\ both.consumed = k + rest.consumed
    BY <2>5, ParseInParts
  <2>7. done \o queue = whole.events /\ buffer = SubSeq(s, k + 1, g) /\ queue = <<>> /\ done \in Seq(Happenings)
    BY <2>2, <2>3, <2>4 DEF ChunkInv
  <2>8. done = whole.events
    BY <2>7, ConcatEmptySeq
  <2> HIDE DEF whole, k
  <2>9. buffer \o SubSeq(s, g + 1, h) = buf
    <3>1. k + 1 \in 1..(Len(s) + 1) /\ g \in ((k + 1) - 1)..Len(s)
      BY <2>5, <2>6
    <3> QED  BY <2>5, <2>7, <3>1, ConcatAdjacentSubSeq
  <2>10. buf \in Seq(Nat) /\ Len(buf) = h - k /\ \A i \in 1..(h - k) : buf[i] = s[k + i]
    <3>1. k + 1 \in 1..(Len(s) + 1) /\ h - (k + 1) + 1 = h - k /\ (k + 1 <= h \/ h - k = 0)
      BY <2>5, <2>6
    <3>2. /\ SubSeq(s, k + 1, h) \in Seq(Nat)
          /\ Len(SubSeq(s, k + 1, h)) = IF k + 1 <= h THEN h - (k + 1) + 1 ELSE 0
          /\ \A i \in 1..(h - (k + 1) + 1) : SubSeq(s, k + 1, h)[i] = s[(k + 1) + i - 1]
      BY <2>5, <3>1, Part
    <3>3. \A i \in 1..(h - k) : (k + 1) + i - 1 = k + i
      BY <2>5, <2>6
    <3> QED  BY <3>1, <3>2, <3>3
  <2>11. got' = h /\ queue' = rest.events /\ buffer' = Kept(buf, rest)
    <3>1. SubSeq(stream, got + 1, got + n) = SubSeq(s, g + 1, h)
      BY <2>3, <2>4 DEF h
    <3>2. got + n = h
      BY <2>4 DEF h
    <3> HIDE DEF buf
    <3> QED  BY <2>1, <2>9, <3>1, <3>2
  <2> HIDE DEF buf, rest, both
  <2>12. Kept(buf, rest) = SubSeq(s, both.consumed + 1, h)
    <3> DEFINE r == rest.consumed
    <3>1. r \in 0..(h - k) /\ r \in Nat /\ k \in Nat
      BY <2>5, <2>6
    <3>2. Kept(buf, rest) = SubSeq(buf, r + 1, h - k) /\ both.consumed = k + r
      BY <2>6, <2>10 DEF Kept
    <3> HIDE DEF r
    <3>3. r + 1 \in 1..(Len(buf) + 1) /\ h - k \in 0..Len(buf) /\ (k + r) + 1 \in 1..(Len(s) + 1)
      <4>1. r <= h - k /\ k <= h /\ h <= Len(s) /\ h - k \in Nat
        BY <2>5, <2>6, <3>1
      <4>2. r + 1 \in 1..(Len(buf) + 1) /\ h - k \in 0..Len(buf)
        BY <2>10, <3>1, <4>1
      <4> QED  BY <2>5, <3>1, <4>1, <4>2
    <3> DEFINE left == SubSeq(buf, r + 1, h - k)
               there == SubSeq(s, (k + r) + 1, h)
    <3>4. /\ left \in Seq(Nat)
          /\ Len(left) = IF r + 1 <= h - k THEN (h - k) - (r + 1) + 1 ELSE 0
          /\ \A i \in 1..((h - k) - (r + 1) + 1) : left[i] = buf[(r + 1) + i - 1]
      BY <2>10, <3>3, Part
    <3>5. /\ there \in Seq(Nat)
          /\ Len(there) = IF (k + r) + 1 <= h THEN h - ((k + r) + 1) + 1 ELSE 0
          /\ \A i \in 1..(h - ((k + r) + 1) + 1) : there[i] = s[((k + r) + 1) + i - 1]
      BY <2>5, <3>3, Part
    <3>6. /\ (r + 1 <= h - k) <=> ((k + r) + 1 <= h)
          /\ (h - k) - (r + 1) + 1 = h - ((k + r) + 1) + 1
      BY <2>5, <3>1
    <3> HIDE DEF left, there
    <3>7. Len(left) = Len(there)
      BY <3>4, <3>5, <3>6
    <3>8. ASSUME NEW i \in 1..Len(left) PROVE left[i] = there[i]
      <4>1. i \in 1..((h - k) - (r + 1) + 1) /\ i \in 1..(h - ((k + r) + 1) + 1)
        BY <2>5, <3>1, <3>4, <3>6
      <4>2. (r + 1) + i - 1 \in 1..(h - k) /\ k + ((r + 1) + i - 1) = ((k + r) + 1) + i - 1
        BY <2>5, <3>1, <4>1
      <4> QED  BY <2>10, <3>4, <3>5, <4>1, <4>2
    <3>9. left = there
      BY <3>4, <3>5, <3>7, <3>8, SeqEqual
    <3> QED  BY <3>2, <3>9 DEF left, there
  <2>13. both.consumed \in 0..h
    BY <2>5, <2>6
  <2>14. stream' = s /\ got' = h /\ done' = done /\ buffer' = SubSeq(s, both.consumed + 1, h)
         /\ done \o queue' = both.events
    BY <2>2, <2>3, <2>6, <2>8, <2>11, <2>12
  <2>15. queue' \in Seq(Happenings) /\ server' = "events"
    BY <2>2, <2>6, <2>11
  <2>16. both = parse_packets(SubSeq(stream', 1, got'))
    BY <2>14 DEF both
  <2>17. done' \o queue' = both.events /\ buffer' = SubSeq(stream', both.consumed + 1, got') /\ both.consumed \in 0..got'
    BY <2>13, <2>14
  <2>18. stream' \in Seq(Nat) /\ got' \in 0..Len(stream') /\ done' \in Seq(Happenings)
    BY <2>5, <2>7, <2>14
  <2> QED  BY <2>15, <2>16, <2>17, <2>18 DEF ChunkInv
<1> QED  BY <1>1, <1>2, <1>3, <1>4, <1>5, <1>6, <1>7, <1>8 DEF Next, Thread, Emit, Stopper

LEMMA InitChunk == Init => TypesInv /\ ChunkInv
<1> SUFFICES ASSUME Init PROVE TypesInv /\ ChunkInv
  OBVIOUS
<1>1. MaxId \in Nat /\ <<>> \in Seq(Ops) /\ <<>> \in Seq(Nat) /\ <<>> \in Seq(Happenings) /\ 0 \in 0..Len(<<>>)
  BY UIBCAssumption DEF UIBCAssumption
<1>2. TypesInv
  <2>1. /\ setup = "idle" /\ running = FALSE /\ listening = FALSE /\ server = "none"
        /\ tracking = 0 /\ contact = 0 /\ todo = <<>>
    BY DEF Init
  <2>2. tracking \in 0..MaxId /\ contact \in 0..MaxId /\ todo \in Seq(Ops)
    BY <1>1, <2>1
  <2>3. running \in BOOLEAN /\ listening \in BOOLEAN
    BY <2>1
  <2>4. setup \in {"idle", "touch", "keys", "up", "failed"} /\ server \in {"none", "accept", "recv", "events", "done"}
    BY <2>1
  <2> QED  BY <2>2, <2>3, <2>4 DEF TypesInv
<1>3. /\ stream = <<>> /\ got = 0 /\ done = <<>> /\ queue = <<>> /\ server = "none"
  BY DEF Init
<1>4. ChunkInv
  BY <1>1, <1>3 DEF ChunkInv
<1> QED  BY <1>2, <1>4

LEMMA ChunkAlways == Spec => [](IInv /\ TypesInv /\ ChunkInv)
BY IInvAlways, InitChunk, TypesStep, ChunkStep, PTL DEF Spec

LEMMA UIBCTyped == IInv /\ TypesInv => TypeOK
<1> SUFFICES ASSUME IInv, TypesInv PROVE TypeOK
  OBVIOUS
<1>1. ASSUME NEW k \in DOMAIN todo, todo[k][1] = "pos" PROVE todo[k][2] \in 0..(MonitorWidth - 1)
  <2>1. todo[k] \in Ops
    BY DEF TypesInv
  <2> QED  BY <1>1, <2>1 DEF Ops
<1> QED  BY <1>1 DEF IInv, TypesInv, TypeOK, DevicesInv, StrayInv, WritesInv, Devices

\* The parser does not depend on how the bytes come: whatever the sink sends and however
\* recv() cuts it, what has been dispatched and waits is what one parse of all the bytes
\* yields, and the buffer is what that parse leaves.
THEOREM ChunksDoNotMatterHolds == Spec => []ChunksDoNotMatter
<1>1. ChunkInv => ChunksDoNotMatter
  <2> SUFFICES ASSUME ChunkInv, server \in {"recv", "events"} PROVE ChunksDoNotMatter
    BY DEF ChunksDoNotMatter
  <2> DEFINE whole == parse_packets(SubSeq(stream, 1, got))
             k == whole.consumed
  <2>1. /\ done \o queue = whole.events /\ k \in 0..got /\ buffer = SubSeq(stream, k + 1, got)
        /\ stream \in Seq(Nat) /\ got \in 0..Len(stream)
    BY DEF ChunkInv
  <2>2. Len(buffer) = got - k
    <3> HIDE DEF k
    <3>1. k + 1 \in 1..(Len(stream) + 1) /\ got - (k + 1) + 1 = got - k /\ (k + 1 <= got \/ got - k = 0)
      BY <2>1
    <3>2. Len(SubSeq(stream, k + 1, got)) = IF k + 1 <= got THEN got - (k + 1) + 1 ELSE 0
      BY <2>1, <3>1, Part
    <3> QED  BY <2>1, <3>1, <3>2
  <2> QED  BY <2>1, <2>2 DEF ChunksDoNotMatter
<1> QED  BY <1>1, ChunkAlways, PTL

-----------------------------------------------------------------------------
(* Both.                                                                   *)

\* Whichever driver a behaviour is of, the other one stutters.
LEMMA Drivers == DriversSpec => Spec /\ MuxSpec
<1>1. DriversInit => Init /\ MuxInit
  BY DEF DriversInit
<1>2. [DriversNext]_drivers => [Next]_vars /\ [MuxNext]_muxVars
  BY DEF DriversNext, drivers, MuxStays, UIBCStays
<1> QED  BY <1>1, <1>2, PTL DEF DriversSpec, Spec, MuxSpec

\* The types of both drivers: counters and time stamps, identifiers and descriptors
\* stay within their ranges, and no contact leaves the monitor.
THEOREM DriversTypeOKHolds == DriversSpec => []DriversTypeOK
<1>1. MuxInv /\ IInv /\ TypesInv => DriversTypeOK
  BY MuxTyped, UIBCTyped DEF DriversTypeOK
<1> QED  BY <1>1, Drivers, MuxAlways, ChunkAlways, PTL
=============================================================================
