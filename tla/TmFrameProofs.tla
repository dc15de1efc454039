----------------------------- MODULE TmFrameProofs ------------------------------
(***************************************************************************)
(* For every number of threads, virtual channels and packets, every queue depth  *)
(* and every frame and packet length: what leaves on a virtual channel that has   *)
(* lost nothing is the packets admitted to it, every first header pointer is      *)
(* exact, and locks, queues and counters are sound.                            *)
(***************************************************************************)
EXTENDS TmFrame, SequenceTheorems, TLAPS

-------------------------------------------------------------------------------
(* Sequences *)

\* What a concatenation holds.
LEMMA Cat ==
    ASSUME NEW S, NEW s \in Seq(S), NEW t \in Seq(S)
    PROVE  /\ s \o t \in Seq(S) /\ Len(s \o t) = Len(s) + Len(t)
           /\ \A i \in 1..Len(s) : (s \o t)[i] = s[i]
           /\ \A i \in 1..Len(t) : (s \o t)[Len(s) + i] = t[i]
OBVIOUS

LEMMA CatAssoc ==
    ASSUME NEW S, NEW s \in Seq(S), NEW t \in Seq(S), NEW u \in Seq(S)
    PROVE  (s \o t) \o u = s \o (t \o u)
OBVIOUS

LEMMA CatEmpty ==
    ASSUME NEW S, NEW s \in Seq(S)
    PROVE  s \o << >> = s /\ << >> \o s = s
OBVIOUS

\* A sequence cut in two.
LEMMA Cut ==
    ASSUME NEW S, NEW s \in Seq(S), NEW n \in 0..Len(s)
    PROVE  /\ SubSeq(s, 1, n) \in Seq(S) /\ SubSeq(s, n + 1, Len(s)) \in Seq(S)
           /\ Len(SubSeq(s, 1, n)) = n /\ Len(SubSeq(s, n + 1, Len(s))) = Len(s) - n
           /\ s = SubSeq(s, 1, n) \o SubSeq(s, n + 1, Len(s))
           /\ \A i \in 1..n : SubSeq(s, 1, n)[i] = s[i]
<1> DEFINE a == SubSeq(s, 1, n)
           b == SubSeq(s, n + 1, Len(s))
<1>1. a \in Seq(S) /\ Len(a) = n /\ \A i \in 1..n : a[i] = s[i]
  OBVIOUS
<1>2. b \in Seq(S) /\ Len(b) = Len(s) - n /\ \A i \in 1..(Len(s) - n) : b[i] = s[n + i]
  OBVIOUS
<1>3. s = a \o b
  <2>1. Len(s) \in Nat /\ 1 \in 1..(Len(s) + 1) /\ n \in (1 - 1)..Len(s) /\ Len(s) \in n..Len(s)
    OBVIOUS
  <2>2. a \o b = SubSeq(s, 1, Len(s))
    BY <2>1, ConcatAdjacentSubSeq
  <2> QED
    BY <2>2, SubSeqFull
<1> QED
  BY <1>1, <1>2, <1>3 DEF a, b

LEMMA CatHasPrefix ==
    ASSUME NEW S, NEW s \in Seq(S), NEW t \in Seq(S)
    PROVE  IsPrefix(s, s \o t)
BY DEF IsPrefix

LEMMA PrefixGrows ==
    ASSUME NEW S, NEW s \in Seq(S), NEW t \in Seq(S), NEW u \in Seq(S), IsPrefix(s, u)
    PROVE  IsPrefix(s, u \o t)
BY DEF IsPrefix

LEMMA MinOfTwo ==
    ASSUME NEW a \in Nat, NEW b \in Nat
    PROVE  Min({a, b}) \in {a, b} /\ Min({a, b}) <= a /\ Min({a, b}) <= b
<1>1. \E x \in {a, b} : \A y \in {a, b} : x =< y
  OBVIOUS
<1> QED
  BY <1>1 DEF Min

-------------------------------------------------------------------------------
(* Streams of packets *)

Byte == [p: Nat, i: Nat, len: PacketLens]

\* Every byte has the rest of its packet around it, as far as s goes, and a packet
\* that ends is followed by the start of another. (Said of all the positions of a
\* packet at once, not of neighbours, so that no induction is needed to use it.)
Framed(s) ==
    /\ \A k \in 1..Len(s) :
         /\ s[k].i \in 1..s[k].len /\ s[k].i <= k
         /\ \A j \in 1..Len(s) : k - s[k].i < j /\ j <= k - s[k].i + s[k].len =>
              s[j].p = s[k].p /\ s[j].i = j - (k - s[k].i) /\ s[j].len = s[k].len
    /\ \A k \in 1..(Len(s) - 1) : s[k].i = s[k].len => s[k + 1].i = 1

\* The packets of s are whole.
Complete(s) == \A k \in 1..Len(s) : k - s[k].i + s[k].len <= Len(s)

\* The part of the packet of the last byte of s that is still to come.
Remainder(s) == IF s = << >> THEN 0 ELSE s[Len(s)].len - s[Len(s)].i

LEMMA Constants ==
    /\ MaxVc \in Nat /\ HdrLen \in Nat /\ DataLen \in Nat /\ QueueDepth \in Nat
    /\ HdrLen > 0 /\ DataLen > 0
    /\ \A len \in PacketLens : len \in Nat /\ len > HdrLen /\ len <= QueueDepth
    /\ "free" \notin Writers /\ "gen" \notin Writers
BY TmAssumption DEF TmAssumption

LEMMA BytesAre ==
    ASSUME NEW p \in Nat, NEW len \in PacketLens
    PROVE  /\ Bytes(p, len) \in Seq(Byte) /\ Len(Bytes(p, len)) = len
           /\ \A i \in 1..len : /\ Bytes(p, len)[i].p = p /\ Bytes(p, len)[i].i = i
                                /\ Bytes(p, len)[i].len = len
<1>1. len \in Nat
  BY Constants
<1>2. \A i \in 1..len : [p |-> p, i |-> i, len |-> len] \in Byte
  BY <1>1 DEF Byte
<1> QED
  BY <1>1, <1>2 DEF Bytes

\* a is s, of length n, with m bytes of packet p behind it.
Followed(a, s, n, p, len, m) ==
    /\ Len(s) = n /\ Len(a) = n + m
    /\ \A k \in 1..n : a[k] = s[k]
    /\ \A k \in (n + 1)..(n + m) : a[k].p = p /\ a[k].i = k - n /\ a[k].len = len

\* The first m bytes of a packet after a stream of whole packets: all of it is framed.
LEMMA FollowedIsFramed ==
    ASSUME NEW s \in Seq(Byte), Framed(s), Complete(s), NEW n \in Nat,
           NEW p \in Nat, NEW len \in PacketLens, NEW m \in 0..len, NEW a,
           Followed(a, s, n, p, len, m)
    PROVE  Framed(a) /\ (m = len => Complete(a))
<1> USE DEF Followed
<1>1. len \in Nat /\ len > 0 /\ m \in Nat /\ n \in Nat
  BY Constants
<1>4. ASSUME NEW k \in 1..n PROVE s[k] \in Byte /\ s[k].i \in Nat /\ s[k].len \in Nat
  <2>1. s[k] \in Byte
    BY ElementOfSeq
  <2> QED
    BY <2>1, Constants DEF Byte
<1>5. ASSUME NEW k \in 1..Len(a)
      PROVE  /\ a[k].i \in 1..a[k].len /\ a[k].i <= k
             /\ \A j \in 1..Len(a) : k - a[k].i < j /\ j <= k - a[k].i + a[k].len =>
                   a[j].p = a[k].p /\ a[j].i = j - (k - a[k].i) /\ a[j].len = a[k].len
  <2>1. CASE k \in 1..n
    <3>1. a[k] = s[k] /\ k - s[k].i + s[k].len <= n
      BY <2>1 DEF Complete
    <3>2. s[k].i \in 1..s[k].len /\ s[k].i <= k
      BY <2>1 DEF Framed
    <3>3. ASSUME NEW j \in 1..Len(a), k - s[k].i < j, j <= k - s[k].i + s[k].len
          PROVE  a[j].p = s[k].p /\ a[j].i = j - (k - s[k].i) /\ a[j].len = s[k].len
      <4>1. j \in 1..n
        BY <1>1, <1>4, <2>1, <3>1, <3>3
      <4> QED
        BY <2>1, <3>3, <4>1 DEF Framed
    <3> QED
      BY <3>1, <3>2, <3>3
  <2>2. CASE k \in (n + 1)..(n + m)
    <3>1. a[k].i = k - n /\ a[k].len = len /\ a[k].p = p
      BY <2>2
    <3>2. k - a[k].i = n
      BY <1>1, <2>2, <3>1
    <3>3. ASSUME NEW j \in 1..Len(a), n < j
          PROVE  a[j].p = p /\ a[j].i = j - n /\ a[j].len = len
      BY <1>1, <3>3
    <3> QED
      BY <1>1, <2>2, <3>1, <3>2, <3>3
  <2> QED
    BY <1>1, <2>1, <2>2
<1>6. ASSUME NEW k \in 1..(Len(a) - 1), a[k].i = a[k].len PROVE a[k + 1].i = 1
  <2>1. CASE k \in 1..(n - 1)
    BY <1>1, <1>6, <2>1 DEF Framed
  <2>2. CASE k = n
    <3>1. n + 1 \in (n + 1)..(n + m)
      BY <1>1, <2>2
    <3> QED
      BY <1>1, <2>2, <3>1
  <2>3. CASE k \in (n + 1)..(n + m)
    BY <1>1, <1>6, <2>3
  <2> QED
    BY <1>1, <2>1, <2>2, <2>3
<1>7. ASSUME m = len PROVE Complete(a)
  <2> SUFFICES ASSUME NEW k \in 1..Len(a) PROVE k - a[k].i + a[k].len <= Len(a)
    BY DEF Complete
  <2>1. CASE k \in 1..n
    BY <1>1, <1>4, <2>1 DEF Complete
  <2>2. CASE k \in (n + 1)..(n + m)
    BY <1>1, <1>7, <2>2
  <2> QED
    BY <1>1, <2>1, <2>2
<1> QED
  BY <1>5, <1>6, <1>7 DEF Framed

\* A packet appended, or the first m bytes of it, keeps a stream of whole packets framed.
LEMMA AppendedIsFramed ==
    ASSUME NEW s \in Seq(Byte), Framed(s), Complete(s),
           NEW p \in Nat, NEW len \in PacketLens, NEW m \in 0..len
    PROVE  LET a == s \o SubSeq(Bytes(p, len), 1, m)
           IN  Framed(a) /\ (m = len => Complete(a))
<1> DEFINE t == SubSeq(Bytes(p, len), 1, m)
           a == s \o t
           n == Len(s)
<1>1. len \in Nat /\ m \in Nat /\ n \in Nat
  BY Constants
<1>2. t \in Seq(Byte) /\ Len(t) = m /\ \A i \in 1..m : t[i].p = p /\ t[i].i = i /\ t[i].len = len
  <2> DEFINE b == Bytes(p, len)
  <2>1. b \in Seq(Byte) /\ Len(b) = len /\ \A i \in 1..len : b[i].p = p /\ b[i].i = i /\ b[i].len = len
    BY BytesAre
  <2> HIDE DEF b
  <2>2. SubSeq(b, 1, m) \in Seq(Byte) /\ Len(SubSeq(b, 1, m)) = m /\ \A i \in 1..m : SubSeq(b, 1, m)[i] = b[i]
    BY <1>1, <2>1, Cut
  <2> QED
    BY <1>1, <2>1, <2>2 DEF b
<1> HIDE DEF t
<1>3. Len(a) = n + m /\ \A k \in 1..n : a[k] = s[k]
  BY <1>1, <1>2
<1>4. ASSUME NEW k \in (n + 1)..(n + m) PROVE a[k].p = p /\ a[k].i = k - n /\ a[k].len = len
  <2>1. k - n \in 1..m /\ n + (k - n) = k
    BY <1>1
  <2>2. a[n + (k - n)] = t[k - n]
    BY <1>2, <2>1, Cat
  <2> QED
    BY <1>2, <2>1, <2>2
<1> HIDE DEF a, n
<1> QED
  <2>1. n \in Nat /\ Len(s) = n
    BY <1>1 DEF n
  <2>2. \A k \in (n + 1)..(n + m) : a[k].p = p /\ a[k].i = k - n /\ a[k].len = len
    BY <1>4
  <2>3. Followed(a, s, n, p, len, m)
    BY <1>3, <2>1, <2>2 DEF Followed
  <2>4. Framed(a) /\ (m = len => Complete(a))
    BY <2>1, <2>3, FollowedIsFramed
  <2> QED
    BY <2>4 DEF a, t

\* Positions i and j of one window keep their distance when both move by n.
LEMMA ShiftedWindow ==
    ASSUME NEW n \in Nat, NEW i \in Nat, NEW j \in Nat, NEW x \in Nat, NEW l \in Nat,
           i - x < j, j <= i - x + l
    PROVE  /\ (n + i) - x < n + j /\ n + j <= (n + i) - x + l
           /\ (n + j) - ((n + i) - x) = j - (i - x)
OBVIOUS

\* What Framed says of the bytes q that follow o, by position.
LEMMA FramedAhead ==
    ASSUME NEW o \in Seq(Byte), NEW q \in Seq(Byte), Framed(o \o q)
    PROVE  /\ \A i \in 1..Len(q) : /\ q[i].i \in 1..q[i].len /\ q[i].len \in PacketLens
                                     /\ q[i].i <= Len(o) + i
           /\ \A i, j \in 1..Len(q) :
                 i - q[i].i < j /\ j <= i - q[i].i + q[i].len =>
                    q[j].p = q[i].p /\ q[j].i = j - (i - q[i].i) /\ q[j].len = q[i].len
           /\ \A j \in 1..Len(q) : o # << >> /\ j <= Remainder(o) =>
                    q[j].i = o[Len(o)].i + j /\ q[j].len = o[Len(o)].len
           /\ q # << >> /\ Remainder(o) = 0 => q[1].i = 1
           /\ Remainder(o) \in Nat /\ (o # << >> => o[Len(o)].i \in Nat /\ o[Len(o)].i > 0)
<1> DEFINE s == o \o q
           n == Len(o)
<1>1. n \in Nat /\ Len(q) \in Nat /\ Len(s) = n + Len(q)
  OBVIOUS
<1>2. \A i \in 1..n : s[i] = o[i]
  BY Cat
<1>3. \A i \in 1..Len(q) : s[n + i] = q[i] /\ n + i \in 1..Len(s)
  BY <1>1, Cat
<1>4. \A i \in 1..Len(s) : s[i].i \in Nat /\ s[i].len \in Nat /\ s[i].len \in PacketLens
  <2> SUFFICES ASSUME NEW i \in 1..Len(s) PROVE s[i].i \in Nat /\ s[i].len \in Nat /\ s[i].len \in PacketLens
    OBVIOUS
  <2>1. s \in Seq(Byte)
    BY Cat
  <2> HIDE DEF s
  <2>2. s[i] \in Byte
    BY <2>1, ElementOfSeq
  <2> QED
    BY <2>2, Constants DEF Byte
<1>5. /\ \A k \in 1..Len(s) :
           /\ s[k].i \in 1..s[k].len /\ s[k].i <= k
           /\ \A j \in 1..Len(s) : k - s[k].i < j /\ j <= k - s[k].i + s[k].len =>
                s[j].p = s[k].p /\ s[j].i = j - (k - s[k].i) /\ s[j].len = s[k].len
      /\ \A k \in 1..(Len(s) - 1) : s[k].i = s[k].len => s[k + 1].i = 1
  BY DEF Framed
<1>6. o # << >> => n \in 1..n /\ s[n] = o[n] /\ n \in 1..Len(s)
  BY <1>1, <1>2, EmptySeq
<1> HIDE DEF s, n
<1>7. ASSUME NEW i \in 1..Len(q)
      PROVE  q[i].i \in 1..q[i].len /\ q[i].len \in PacketLens /\ q[i].i <= n + i
  BY <1>1, <1>3, <1>4, <1>5
<1>8. ASSUME NEW i \in 1..Len(q), NEW j \in 1..Len(q),
             i - q[i].i < j, j <= i - q[i].i + q[i].len
      PROVE  q[j].p = q[i].p /\ q[j].i = j - (i - q[i].i) /\ q[j].len = q[i].len
  <2> DEFINE a == n + i
             b == n + j
  <2>0. i \in Nat /\ j \in Nat /\ q[i].i \in Nat /\ q[i].len \in Nat
    BY <1>1, <1>7, Constants
  <2>1. /\ a - q[i].i < b /\ b <= a - q[i].i + q[i].len
        /\ b - (a - q[i].i) = j - (i - q[i].i)
    <3>1. n \in Nat
      BY <1>1
    <3> QED
      BY <1>8, <2>0, <3>1, ShiftedWindow, SMTT(40)
  <2>2. s[a] = q[i] /\ s[b] = q[j] /\ a \in 1..Len(s) /\ b \in 1..Len(s)
    BY <1>3
  <2> HIDE DEF a, b
  <2>3. s[b].p = s[a].p /\ s[b].i = b - (a - s[a].i) /\ s[b].len = s[a].len
    BY <1>5, <2>1, <2>2
  <2> QED
    BY <2>1, <2>2, <2>3
<1>9. ASSUME NEW j \in 1..Len(q), o # << >>, j <= Remainder(o)
      PROVE  q[j].i = o[n].i + j /\ q[j].len = o[n].len
  <2>1. Remainder(o) = o[n].len - o[n].i /\ o[n].i \in Nat /\ o[n].len \in Nat /\ o[n].i > 0
    BY <1>1, <1>4, <1>5, <1>6, <1>9 DEF Remainder, n
  <2> DEFINE b == n + j
  <2>2. n - o[n].i < b /\ b <= n - o[n].i + o[n].len /\ b - (n - o[n].i) = o[n].i + j
    BY <1>1, <1>9, <2>1
  <2>3. s[n] = o[n] /\ s[b] = q[j] /\ n \in 1..Len(s) /\ b \in 1..Len(s)
    BY <1>3, <1>6, <1>9
  <2>4. n - s[n].i < b /\ b <= n - s[n].i + s[n].len /\ b - (n - s[n].i) = o[n].i + j
    BY <2>2, <2>3, Zenon
  <2> HIDE DEF b
  <2>5. s[b].i = b - (n - s[n].i) /\ s[b].len = s[n].len
    BY <1>5, <2>3, <2>4
  <2> QED
    BY <2>3, <2>4, <2>5
<1>10. ASSUME q # << >>, Remainder(o) = 0 PROVE q[1].i = 1
  <2>1. 1 \in 1..Len(q)
    BY <1>10, EmptySeq
  <2>2. CASE o = << >>
    <3>1. n = 0
      BY <2>2 DEF n
    <3> QED
      BY <1>7, <2>1, <3>1
  <2>3. CASE o # << >>
    <3>1. s[n].i = s[n].len
      BY <1>4, <1>6, <1>10, <2>3 DEF Remainder, n
    <3>2. n \in 1..(Len(s) - 1)
      BY <1>1, <1>6, <2>1, <2>3
    <3> QED
      BY <1>3, <1>5, <2>1, <3>1, <3>2
  <2> QED
    BY <2>2, <2>3
<1>11. Remainder(o) \in Nat /\ (o # << >> => o[n].i \in Nat /\ o[n].i > 0)
  BY <1>4, <1>5, <1>6 DEF Remainder, n
<1> QED
  BY <1>7, <1>8, <1>9, <1>10, <1>11 DEF n

\* The last byte of what has been read decides what remains of its packet.
LEMMA RemainderOfCat ==
    ASSUME NEW o \in Seq(Byte), NEW t \in Seq(Byte), t # << >>
    PROVE  Remainder(o \o t) = t[Len(t)].len - t[Len(t)].i
<1>1. Len(t) \in 1..Len(t) /\ Len(t) \in Nat /\ Len(o) \in Nat
  BY EmptySeq
<1>2. Len(o \o t) = Len(o) + Len(t) /\ o \o t # << >>
  BY <1>1
<1>3. (o \o t)[Len(o \o t)] = t[Len(t)]
  BY <1>1, <1>2, Cat
<1> QED
  BY <1>2, <1>3 DEF Remainder

\* GenContinue reads bytes of the packet it is in the middle of: none starts a packet.
LEMMA ReadRest ==
    ASSUME NEW o \in Seq(Byte), NEW q \in Seq(Byte), Framed(o \o q),
           NEW n \in Nat, n > 0, n <= Remainder(o), n <= Len(q)
    PROVE  /\ Remainder(o \o SubSeq(q, 1, n)) = Remainder(o) - n
           /\ \A j \in 1..n : q[j].i # 1
<1>1. o # << >> /\ Remainder(o) \in Nat /\ Len(q) \in Nat
  BY FramedAhead DEF Remainder
<1>2. ASSUME NEW j \in 1..n PROVE q[j].i = o[Len(o)].i + j /\ q[j].len = o[Len(o)].len
  <2>1. j \in 1..Len(q) /\ j <= Remainder(o)
    BY <1>1
  <2> QED
    BY <1>1, <2>1, FramedAhead
<1>3. o[Len(o)].i \in Nat /\ o[Len(o)].i > 0
  BY <1>1, FramedAhead
<1>4. /\ SubSeq(q, 1, n) \in Seq(Byte) /\ Len(SubSeq(q, 1, n)) = n
      /\ SubSeq(q, 1, n)[n] = q[n] /\ SubSeq(q, 1, n) # << >>
  BY <1>1, Cut
<1>5. Remainder(o \o SubSeq(q, 1, n)) = q[n].len - q[n].i
  BY <1>4, RemainderOfCat
<1>6. q[n].i = o[Len(o)].i + n /\ q[n].len = o[Len(o)].len
  BY <1>2
<1>7. o[Len(o)].len \in Nat
  <2>1. n \in 1..Len(q) /\ q[n].len \in PacketLens
    BY <1>1, FramedAhead
  <2> QED
    BY <1>6, <2>1, Constants
<1>8. Remainder(o) = o[Len(o)].len - o[Len(o)].i
  BY <1>1 DEF Remainder
<1>9. ASSUME NEW j \in 1..n PROVE q[j].i # 1
  BY <1>2, <1>3
<1> DEFINE i == o[Len(o)].i
           len == o[Len(o)].len
<1>10. Remainder(o \o SubSeq(q, 1, n)) = len - (i + n) /\ Remainder(o) = len - i
  BY <1>5, <1>6, <1>8, Zenon
<1>11. i \in Nat /\ len \in Nat
  BY <1>3, <1>7
<1> HIDE DEF i, len
<1>12. len - (i + n) = len - i - n
  BY <1>11
<1> QED
  BY <1>9, <1>10, <1>12, Zenon

\* GenStartPacket finds a packet header at the head of the pipe, and no other in it.
LEMMA ReadHeader ==
    ASSUME NEW o \in Seq(Byte), NEW q \in Seq(Byte), Framed(o \o q),
           Remainder(o) = 0, HdrLen <= Len(q)
    PROVE  /\ q[1].i = 1 /\ q[HdrLen].p = q[1].p /\ q[1].len \in PacketLens
           /\ Remainder(o \o SubSeq(q, 1, HdrLen)) = q[1].len - HdrLen
           /\ \A j \in 2..HdrLen : q[j].i # 1
<1>1. HdrLen \in Nat /\ HdrLen > 0 /\ Len(q) \in Nat /\ q # << >> /\ 1 \in 1..Len(q)
  BY Constants
<1>2. q[1].i = 1 /\ q[1].len \in PacketLens
  BY <1>1, FramedAhead
<1>3. q[1].len \in Nat /\ HdrLen < q[1].len
  BY <1>2, Constants
<1>4. ASSUME NEW j \in 1..HdrLen PROVE q[j].p = q[1].p /\ q[j].i = j /\ q[j].len = q[1].len
  <2>1. j \in 1..Len(q) /\ 1 - q[1].i < j /\ j <= 1 - q[1].i + q[1].len /\ j - (1 - q[1].i) = j
    BY <1>1, <1>2, <1>3
  <2> QED
    BY <1>1, <2>1, FramedAhead
<1>5. /\ SubSeq(q, 1, HdrLen) \in Seq(Byte) /\ Len(SubSeq(q, 1, HdrLen)) = HdrLen
      /\ SubSeq(q, 1, HdrLen)[HdrLen] = q[HdrLen] /\ SubSeq(q, 1, HdrLen) # << >>
  BY <1>1, Cut
<1>6. Remainder(o \o SubSeq(q, 1, HdrLen)) = q[HdrLen].len - q[HdrLen].i
  BY <1>5, RemainderOfCat
<1> QED
  BY <1>1, <1>2, <1>4, <1>6

-------------------------------------------------------------------------------
(* The invariant *)

CallOfAdd == [pc: {"idle", "lock", "write"}, vc: Vcs, timeout: {"forever", "finite"},
              left: Seq(Byte), packet: Seq(Byte)]

Handler == [pc: {"idle", "select", "build", "fill", "idle frame", "cycled", "reschedule",
                 "returning"},
            vc: Vcs, data: Seq(Byte), fhp: Nat]

Typed ==
    /\ pipe \in [Vcs -> Seq(Byte)] /\ rem \in [Vcs -> Nat]
    /\ lock \in [Vcs -> Writers \cup {"free", "gen"}]
    /\ wr \in [Writers -> CallOfAdd] /\ gen \in Handler
    /\ Len(gen.data) <= DataLen /\ (gen.pc # "fill" => gen.data = << >>)
    /\ admitted \in [Vcs -> Seq(Byte)] /\ sent \in [Vcs -> Seq(Byte)]
    /\ frame \in [vc: Vcs, data: Seq(Byte), fhp: Nat] /\ Len(frame.data) <= DataLen
    /\ clean \subseteq Vcs /\ calls \in Nat
    /\ \A v \in Vcs : Len(pipe[v]) <= QueueDepth

\* The lock of a VC is held by the one thread that reads or writes its queue.
LockInv ==
    /\ \A v \in Vcs, w \in Writers : lock[v] = w <=> wr[w].pc = "write" /\ wr[w].vc = v
    /\ \A v \in Vcs : lock[v] = "gen" <=> gen.pc = "fill" /\ gen.vc = v

\* A call of add has m bytes of packet p in the pipe.
Has(c, p, len, m) ==
    /\ c.packet = Bytes(p, len) /\ c.left = SubSeq(Bytes(p, len), m + 1, len)
    /\ c.pc = "lock" => m = 0

WriterInv ==
    \A w \in Writers : wr[w].pc # "idle" =>
        \E p \in Nat, len \in PacketLens : \E m \in 0..len : Has(wr[w], p, len, m)

\* The bytes of VC v that have left its pipe: in frames routed, or in the frame
\* being filled.
Filling(v) == IF gen.pc = "fill" /\ gen.vc = v THEN gen.data ELSE << >>
Out(v) == sent[v] \o Filling(v)

\* The bytes of a packet not admitted yet that are in the pipe.
Written(c) == SubSeq(c.packet, 1, Len(c.packet) - Len(c.left))
Adding(v) == IF lock[v] \in Writers THEN Written(wr[lock[v]]) ELSE << >>

\* The VC has lost nothing: what went in is what came out and what is in the pipe,
\* what came out are packets admitted, and packet_rem is what is missing of the last.
VcInv(v) ==
    v \in clean =>
        /\ Out(v) \o pipe[v] = admitted[v] \o Adding(v)
        /\ IsPrefix(sent[v], admitted[v])
        /\ rem[v] = Remainder(Out(v))

AdmittedInv == \A v \in Vcs : Framed(admitted[v]) /\ Complete(admitted[v])

\* fhp is the offset of the first packet start in d, or NoStart.
PointsAtFirst(d, fhp) ==
    IF fhp = NoStart THEN \A k \in 1..Len(d) : d[k].i # 1
    ELSE fhp < Len(d) /\ d[fhp + 1].i = 1 /\ \A k \in 1..fhp : d[k].i # 1

FillInv == gen.pc = "fill" /\ gen.vc \in clean => PointsAtFirst(gen.data, gen.fhp)

TmInv ==
    /\ Typed /\ LockInv /\ WriterInv /\ AdmittedInv /\ FillInv /\ PointerExact
    /\ \A v \in Vcs : VcInv(v)

LEMMA TmInvInit == Init => TmInv
<1> SUFFICES ASSUME Init PROVE TmInv
  OBVIOUS
<1>0. DataLen \in Nat /\ MaxVc \in Nat /\ 0 \in Vcs /\ MaxVc \in Vcs /\ QueueDepth \in Nat
  BY Constants DEF Vcs
<1>1. << >> \in Seq(Byte) /\ Len(<< >>) = 0
  OBVIOUS
<1>2. gen.pc = "idle" /\ gen.data = << >> /\ gen.fhp = NoStart /\ gen.vc = 0 /\ gen \in Handler
  BY <1>0, <1>1 DEF Init, GenAt, Handler, NoStart
<1>3. NoCall \in CallOfAdd /\ NoCall.pc = "idle"
  BY <1>0, <1>1 DEF NoCall, CallOfAdd
<1>4. frame \in [vc: Vcs, data: Seq(Byte), fhp: Nat] /\ frame.data = << >> /\ frame.fhp = OnlyIdle
  BY <1>0, <1>1 DEF Init, NoFrame, OnlyIdle
<1>5. Typed
  <2>1. pipe \in [Vcs -> Seq(Byte)] /\ \A v \in Vcs : pipe[v] = << >>
    BY <1>1 DEF Init
  <2>2. admitted \in [Vcs -> Seq(Byte)] /\ sent \in [Vcs -> Seq(Byte)]
    BY <1>1 DEF Init
  <2>3. lock \in [Vcs -> Writers \cup {"free", "gen"}] /\ rem \in [Vcs -> Nat]
    BY DEF Init
  <2>4. wr \in [Writers -> CallOfAdd]
    BY <1>3 DEF Init
  <2> QED
    BY <1>0, <1>1, <1>2, <1>4, <2>1, <2>2, <2>3, <2>4 DEF Init, Typed
<1>6. LockInv /\ WriterInv
  BY <1>2, <1>3, Constants DEF Init, LockInv, WriterInv
<1>7. AdmittedInv /\ FillInv
  BY <1>1, <1>2 DEF Init, AdmittedInv, Framed, Complete, FillInv
<1>8. PointerExact
  BY <1>4 DEF PointerExact
<1>9. ASSUME NEW v \in Vcs PROVE VcInv(v)
  <2>1. pipe[v] = << >> /\ sent[v] = << >> /\ admitted[v] = << >> /\ rem[v] = 0 /\ lock[v] = "free"
    BY DEF Init
  <2>2. Filling(v) = << >> /\ Adding(v) = << >>
    BY <1>2, <2>1, Constants DEF Filling, Adding
  <2>3. << >> \o << >> = << >>
    BY <1>1, CatEmpty
  <2> QED
    BY <2>1, <2>2, <2>3 DEF VcInv, Out, IsPrefix, Remainder
<1> QED
  BY <1>5, <1>6, <1>7, <1>8, <1>9 DEF TmInv

\* A VC that a step does not concern
LEMMA VcKept ==
    ASSUME NEW v \in Vcs, VcInv(v), clean' \subseteq clean,
           pipe'[v] = pipe[v], rem'[v] = rem[v], admitted'[v] = admitted[v],
           sent'[v] = sent[v], Filling(v)' = Filling(v), Adding(v)' = Adding(v)
    PROVE  VcInv(v)'
BY DEF VcInv, Out

LEMMA PointerKept ==
    ASSUME PointerExact, frame' = frame, clean' \subseteq clean PROVE PointerExact'
BY DEF PointerExact, PacketStarts

\* Steps of the handler outside a frame, and those that only change what the
\* invariant does not look at
LEMMA QuietKeeps ==
    ASSUME TmInv, UNCHANGED << pipe, rem, lock, wr, admitted, sent, clean, calls >>,
           \/ gen' = gen /\ frame' = frame
           \/ /\ gen.pc # "fill" /\ gen' \in Handler /\ gen'.pc # "fill" /\ gen'.data = << >>
              /\ frame' = frame \/ frame' = NoFrame
    PROVE  TmInv'
<1>1. frame' = frame \/ frame' = NoFrame
  OBVIOUS
<1>2. Typed'
  <2>1. NoFrame \in [vc: Vcs, data: Seq(Byte), fhp: Nat] /\ NoFrame.data = << >>
    BY Constants DEF NoFrame, OnlyIdle, Vcs
  <2>2. /\ frame' \in [vc: Vcs, data: Seq(Byte), fhp: Nat] /\ Len(frame'.data) <= DataLen
    BY <1>1, <2>1, Constants DEF TmInv, Typed
  <2>3. gen' \in Handler /\ Len(gen'.data) <= DataLen /\ (gen'.pc # "fill" => gen'.data = << >>)
    BY Constants DEF TmInv, Typed
  <2> QED
    BY <2>2, <2>3 DEF TmInv, Typed
<1>3. LockInv' /\ WriterInv' /\ AdmittedInv'
  BY DEF TmInv, LockInv, WriterInv, AdmittedInv
<1>4. FillInv'
  BY DEF TmInv, FillInv
<1>5. PointerExact'
  <2>1. CASE frame' = NoFrame
    BY <2>1 DEF PointerExact, NoFrame
  <2> QED
    BY <1>1, <2>1, PointerKept DEF TmInv
<1>6. ASSUME NEW v \in Vcs PROVE VcInv(v)'
  <2>1. Filling(v)' = Filling(v) /\ Adding(v)' = Adding(v)
    BY DEF Filling, Adding
  <2> QED
    BY <2>1, VcKept DEF TmInv
<1> QED
  BY <1>2, <1>3, <1>4, <1>5, <1>6 DEF TmInv

-------------------------------------------------------------------------------
(* ccsds_tm_frame_add *)

\* What a writer's call is, before and after it changes: nothing else is concerned.
LEMMA WriterTypes ==
    ASSUME TmInv, NEW w \in Writers, NEW c \in CallOfAdd, wr' = [wr EXCEPT ![w] = c]
    PROVE  /\ wr' \in [Writers -> CallOfAdd] /\ wr'[w] = c /\ wr[w] \in CallOfAdd
           /\ \A x \in Writers \ {w} : wr'[x] = wr[x]
BY DEF TmInv, Typed

LEMMA AddKeeps == ASSUME TmInv, limit \in Scenarios, NEW w \in Writers, Add(w) PROVE TmInv'
<1>1. PICK v \in Vcs, len \in PacketLens, t \in {"forever", "finite"} :
         wr' = [wr EXCEPT ![w] = [pc |-> "lock", vc |-> v, timeout |-> t,
                                  left |-> Bytes(calls, len), packet |-> Bytes(calls, len)]]
  <2>1. limit.lens \subseteq PacketLens /\ limit.timeouts \subseteq {"forever", "finite"}
    BY TmAssumption DEF TmAssumption, Scenario
  <2> QED
    BY <2>1 DEF Add
<1> DEFINE c == [pc |-> "lock", vc |-> v, timeout |-> t,
                 left |-> Bytes(calls, len), packet |-> Bytes(calls, len)]
<1>2. /\ wr[w].pc = "idle" /\ calls' = calls + 1
      /\ UNCHANGED << pipe, rem, lock, gen, admitted, sent, frame, clean >>
  BY DEF Add, queueVars
<1>3. calls \in Nat /\ Bytes(calls, len) \in Seq(Byte) /\ Len(Bytes(calls, len)) = len /\ len \in Nat
  BY BytesAre, Constants DEF TmInv, Typed
<1>4. c \in CallOfAdd /\ c.pc = "lock"
  BY <1>3, Constants DEF CallOfAdd
<1>5. /\ wr' \in [Writers -> CallOfAdd] /\ wr'[w] = c
      /\ \A x \in Writers \ {w} : wr'[x] = wr[x]
  BY <1>1, <1>4, WriterTypes
<1>6. Has(c, calls, len, 0)
  <2>1. SubSeq(Bytes(calls, len), 1, len) = Bytes(calls, len)
    BY <1>3, SubSeqFull
  <2> QED
    BY <2>1 DEF Has
<1> HIDE DEF c
<1>7. Typed'
  BY <1>2, <1>3, <1>5, SMTT(40) DEF TmInv, Typed
<1>8. LockInv'
  BY <1>2, <1>4, <1>5 DEF TmInv, LockInv
<1>9. WriterInv'
  <2> SUFFICES ASSUME NEW x \in Writers, wr'[x].pc # "idle"
               PROVE  \E p \in Nat, l \in PacketLens : \E m \in 0..l : Has(wr'[x], p, l, m)
    BY DEF WriterInv, Has
  <2>1. CASE x = w
    BY <1>3, <1>5, <1>6, <2>1
  <2>2. CASE x # w
    BY <1>5, <2>2 DEF TmInv, WriterInv
  <2> QED
    BY <2>1, <2>2
<1>10. AdmittedInv' /\ FillInv' /\ PointerExact'
  BY <1>2, PointerKept DEF TmInv, AdmittedInv, FillInv
<1>11. ASSUME NEW u \in Vcs PROVE VcInv(u)'
  <2>1. lock[u] # w
    BY <1>2 DEF TmInv, LockInv
  <2>2. Filling(u)' = Filling(u) /\ Adding(u)' = Adding(u)
    BY <1>2, <1>5, <2>1 DEF Filling, Adding, Written
  <2> QED
    BY <1>2, <2>2, VcKept DEF TmInv
<1> QED
  BY <1>7, <1>8, <1>9, <1>10, <1>11 DEF TmInv

\* The rest of a packet, cut again.
LEMMA CutRest ==
    ASSUME NEW b \in Seq(Byte), NEW len \in Nat, Len(b) = len, NEW m \in 0..len,
           NEW n \in 0..(len - m), NEW left, left = SubSeq(b, m + 1, len)
    PROVE  /\ left \in Seq(Byte) /\ Len(left) = len - m
           /\ SubSeq(left, 1, n) \in Seq(Byte) /\ Len(SubSeq(left, 1, n)) = n
           /\ SubSeq(left, n + 1, Len(left)) = SubSeq(b, m + n + 1, len)
           /\ SubSeq(b, 1, m) \o SubSeq(left, 1, n) = SubSeq(b, 1, m + n)
<1>1. m \in Nat /\ n \in Nat /\ m + n <= len
  OBVIOUS
<1>2. left \in Seq(Byte) /\ Len(left) = len - m /\ \A i \in 1..(len - m) : left[i] = b[m + i]
  BY <1>1
<1>3. /\ SubSeq(left, 1, n) \in Seq(Byte) /\ Len(SubSeq(left, 1, n)) = n
      /\ \A i \in 1..n : SubSeq(left, 1, n)[i] = left[i]
  BY <1>1, <1>2, Cut
<1>4. SubSeq(left, n + 1, Len(left)) = SubSeq(b, m + n + 1, len)
  <2> DEFINE x == SubSeq(left, n + 1, len - m)
             y == SubSeq(b, m + n + 1, len)
             k == len - m - n
  <2>1. k \in Nat
    BY <1>1
  <2>2. x \in Seq(Byte) /\ Len(x) = k /\ \A i \in 1..k : x[i] = left[n + i]
    BY <1>1, <1>2
  <2>3. y \in Seq(Byte) /\ Len(y) = k /\ \A i \in 1..k : y[i] = b[m + n + i]
    BY <1>1
  <2>4. \A i \in 1..k : n + i \in 1..(len - m) /\ m + (n + i) = m + n + i
    BY <1>1
  <2> HIDE DEF x, y, k
  <2>5. \A i \in 1..Len(x) : x[i] = y[i]
    BY <1>2, <2>2, <2>3, <2>4
  <2>6. x = y
    BY <2>2, <2>3, <2>5, SeqEqual
  <2> QED
    BY <1>2, <2>6 DEF x, y
<1>5. SubSeq(b, 1, m) \o SubSeq(left, 1, n) = SubSeq(b, 1, m + n)
  <2>1. SubSeq(left, 1, n) = SubSeq(b, m + 1, m + n)
    <3> DEFINE x == SubSeq(left, 1, n)
               y == SubSeq(b, m + 1, m + n)
    <3>1. y \in Seq(Byte) /\ Len(y) = n /\ \A i \in 1..n : y[i] = b[m + i]
      BY <1>1
    <3>2. x \in Seq(Byte) /\ Len(x) = n /\ \A i \in 1..n : x[i] = b[m + i]
      <4>1. \A i \in 1..n : i \in 1..(len - m)
        BY <1>1
      <4>2. \A i \in 1..n : x[i] = left[i]
        BY <1>3
      <4>3. \A i \in 1..n : left[i] = b[m + i]
        BY <1>2, <4>1
      <4> QED
        BY <1>3, <4>2, <4>3
    <3> HIDE DEF x, y
    <3>3. x = y
      BY <3>1, <3>2, SeqEqual
    <3> QED
      BY <3>3 DEF x, y
  <2>2. 1 \in 1..(Len(b) + 1) /\ m \in (1 - 1)..Len(b) /\ m + n \in m..Len(b)
    BY <1>1
  <2>3. SubSeq(b, 1, m) \o SubSeq(b, m + 1, m + n) = SubSeq(b, 1, m + n)
    BY <2>2, ConcatAdjacentSubSeq
  <2> QED
    BY <2>1, <2>3
<1> QED
  BY <1>2, <1>3, <1>4, <1>5

\* What a call has in the pipe.
LEMMA WrittenIs ==
    ASSUME NEW c, NEW p \in Nat, NEW len \in PacketLens, NEW m \in 0..len, Has(c, p, len, m)
    PROVE  /\ Written(c) = SubSeq(Bytes(p, len), 1, m) /\ Written(c) \in Seq(Byte)
           /\ Len(c.packet) = len /\ Len(c.left) = len - m
           /\ m = 0 => Written(c) = << >>
           /\ m = len => Written(c) = c.packet
<1> DEFINE b == Bytes(p, len)
<1>1. len \in Nat /\ b \in Seq(Byte) /\ Len(b) = len /\ m \in Nat
  BY BytesAre, Constants
<1>2. c.packet = b /\ c.left = SubSeq(b, m + 1, len)
  BY DEF Has
<1> HIDE DEF b
<1>3. SubSeq(b, m + 1, len) \in Seq(Byte) /\ Len(SubSeq(b, m + 1, len)) = len - m
  BY <1>1
<1>4. Len(c.packet) - Len(c.left) = m
  BY <1>1, <1>2, <1>3
<1>5. Written(c) = SubSeq(b, 1, m)
  BY <1>2, <1>4 DEF Written
<1>6. SubSeq(b, 1, m) \in Seq(Byte)
  BY <1>1, Cut
<1>7. m = 0 => SubSeq(b, 1, m) = << >>
  BY SubSeqEmpty
<1>8. m = len => SubSeq(b, 1, m) = b
  BY <1>1, SubSeqFull
<1> QED
  BY <1>1, <1>2, <1>3, <1>5, <1>6, <1>7, <1>8 DEF b

\* The writer that changes its call in step with its lock, and no other
LEMMA AddLockKeeps == ASSUME TmInv, NEW w \in Writers, AddLock(w) PROVE TmInv'
<1> DEFINE v == wr[w].vc
           c == [wr[w] EXCEPT !.pc = "write"]
<1>1. /\ wr[w].pc = "lock" /\ lock[v] = "free"
      /\ lock' = [lock EXCEPT ![v] = w] /\ wr' = [wr EXCEPT ![w] = c]
      /\ UNCHANGED << pipe, rem, gen, admitted, sent, frame, clean, calls >>
  BY DEF AddLock
<1>2. wr[w] \in CallOfAdd /\ v \in Vcs
  BY DEF TmInv, Typed, CallOfAdd
<1>3. /\ c \in CallOfAdd /\ c.pc = "write" /\ c.vc = v
      /\ c.packet = wr[w].packet /\ c.left = wr[w].left
  BY <1>2 DEF CallOfAdd
<1> HIDE DEF c
<1>4. /\ wr' \in [Writers -> CallOfAdd] /\ wr'[w] = c
      /\ \A x \in Writers \ {w} : wr'[x] = wr[x]
  BY <1>1, <1>3, WriterTypes
<1>5. PICK p \in Nat, len \in PacketLens : \E m \in 0..len : Has(wr[w], p, len, m)
  BY <1>1 DEF TmInv, WriterInv
<1>6. Has(wr[w], p, len, 0) /\ Has(c, p, len, 0) /\ 0 \in 0..len
  BY <1>1, <1>3, <1>5, Constants DEF Has
<1>7. lock \in [Vcs -> Writers \cup {"free", "gen"}]
  BY DEF TmInv, Typed
<1>8. /\ lock' \in [Vcs -> Writers \cup {"free", "gen"}] /\ lock'[v] = w
      /\ \A u \in Vcs \ {v} : lock'[u] = lock[u]
  BY <1>1, <1>2, <1>7
<1> HIDE DEF v
<1>9. Typed'
  BY <1>1, <1>4, <1>8 DEF TmInv, Typed
<1>10. LockInv'
  <2>1. \A u \in Vcs, x \in Writers : lock'[u] = x <=> wr'[x].pc = "write" /\ wr'[x].vc = u
    BY <1>1, <1>2, <1>3, <1>4, <1>8, Constants DEF TmInv, LockInv
  <2>2. \A u \in Vcs : lock'[u] = "gen" <=> gen'.pc = "fill" /\ gen'.vc = u
    BY <1>1, <1>2, <1>8, Constants DEF TmInv, LockInv
  <2> QED
    BY <2>1, <2>2 DEF LockInv
<1>11. WriterInv'
  <2> SUFFICES ASSUME NEW x \in Writers, wr'[x].pc # "idle"
               PROVE  \E q \in Nat, l \in PacketLens : \E m \in 0..l : Has(wr'[x], q, l, m)
    BY DEF WriterInv, Has
  <2>1. CASE x = w
    BY <1>4, <1>6, <2>1
  <2>2. CASE x # w
    BY <1>4, <2>2 DEF TmInv, WriterInv
  <2> QED
    BY <2>1, <2>2
<1>12. AdmittedInv' /\ FillInv' /\ PointerExact'
  BY <1>1, PointerKept DEF TmInv, AdmittedInv, FillInv
<1>13. ASSUME NEW u \in Vcs PROVE VcInv(u)'
  <2>1. CASE u = v
    <3>1. Adding(u) = << >>
      BY <1>1, <2>1, Constants DEF Adding
    <3>2. Adding(u)' = << >>
      BY <1>4, <1>6, <1>8, <2>1, WrittenIs DEF Adding
    <3> QED
      BY <1>1, <3>1, <3>2, VcKept DEF TmInv, Filling
  <2>2. CASE u # v
    <3>1. lock[u] # w /\ lock'[u] = lock[u]
      BY <1>1, <1>8, <2>2 DEF TmInv, LockInv
    <3>2. Adding(u)' = Adding(u)
      BY <1>4, <3>1 DEF Adding, Written
    <3> QED
      BY <1>1, <3>2, VcKept DEF TmInv, Filling
  <2> QED
    BY <2>1, <2>2
<1> QED
  BY <1>9, <1>10, <1>11, <1>12, <1>13 DEF TmInv

LEMMA NoCallIs == NoCall \in CallOfAdd /\ NoCall.pc = "idle"
BY Constants DEF NoCall, CallOfAdd, Vcs

\* A writer that has the lock of a VC: nobody else does, and what it has in the
\* pipe is what is being added there.
LEMMA WriterHolds ==
    ASSUME TmInv, NEW w \in Writers, wr[w].pc = "write"
    PROVE  /\ wr[w] \in CallOfAdd /\ wr[w].vc \in Vcs /\ lock[wr[w].vc] = w
           /\ Filling(wr[w].vc) = << >> /\ Adding(wr[w].vc) = Written(wr[w])
           /\ \A u \in Vcs : u # wr[w].vc => lock[u] # w
<1>1. wr[w] \in CallOfAdd /\ wr[w].vc \in Vcs
  BY DEF TmInv, Typed, CallOfAdd
<1>2. lock[wr[w].vc] = w /\ \A u \in Vcs : u # wr[w].vc => lock[u] # w
  BY <1>1 DEF TmInv, LockInv
<1>3. ~(gen.pc = "fill" /\ gen.vc = wr[w].vc)
  BY <1>1, <1>2, Constants DEF TmInv, LockInv
<1> QED
  BY <1>1, <1>2, <1>3 DEF Filling, Adding

\* A call of add that returns and gives the lock back, if it has it
Returns(w) ==
    /\ wr' = [wr EXCEPT ![w] = NoCall] /\ gen' = gen
    /\ \/ wr[w].pc = "write" /\ lock' = [lock EXCEPT ![wr[w].vc] = "free"]
       \/ wr[w].pc # "write" /\ lock' = lock

LEMMA ReturnKeepsTypes ==
    ASSUME TmInv, NEW w \in Writers, Returns(w)
    PROVE  /\ wr' \in [Writers -> CallOfAdd] /\ wr'[w].pc = "idle"
           /\ \A x \in Writers \ {w} : wr'[x] = wr[x]
           /\ lock' \in [Vcs -> Writers \cup {"free", "gen"}]
           /\ \A u \in Vcs : lock'[u] = IF lock[u] = w THEN "free" ELSE lock[u]
           /\ \A u \in Vcs : lock[u] = w <=> wr[w].pc = "write" /\ u = wr[w].vc
<1>1. /\ wr' \in [Writers -> CallOfAdd] /\ wr'[w].pc = "idle"
      /\ \A x \in Writers \ {w} : wr'[x] = wr[x]
  BY NoCallIs, WriterTypes DEF Returns
<1>2. lock \in [Vcs -> Writers \cup {"free", "gen"}] /\ wr[w] \in CallOfAdd
  BY DEF TmInv, Typed
<1>3. /\ lock' \in [Vcs -> Writers \cup {"free", "gen"}]
      /\ \A u \in Vcs : lock'[u] = IF wr[w].pc = "write" /\ u = wr[w].vc THEN "free" ELSE lock[u]
  BY <1>2 DEF CallOfAdd, Returns
<1>4. \A u \in Vcs : lock[u] = w <=> wr[w].pc = "write" /\ u = wr[w].vc
  BY DEF TmInv, LockInv
<1> QED
  BY <1>1, <1>3, <1>4

LEMMA ReturnKeepsLocks ==
    ASSUME TmInv, NEW w \in Writers, Returns(w) PROVE LockInv' /\ WriterInv'
<1>1. LockInv'
  <2>1. ASSUME NEW u \in Vcs, NEW x \in Writers
        PROVE  lock'[u] = x <=> wr'[x].pc = "write" /\ wr'[x].vc = u
    <3>1. lock[u] = x <=> wr[x].pc = "write" /\ wr[x].vc = u
      BY DEF TmInv, LockInv
    <3>2. lock'[u] = IF lock[u] = w THEN "free" ELSE lock[u]
      BY ReturnKeepsTypes
    <3>3. CASE x = w
      BY <3>2, <3>3, ReturnKeepsTypes, Constants
    <3>4. CASE x # w
      <4>1. wr'[x] = wr[x]
        BY <3>4, ReturnKeepsTypes
      <4> QED
        BY <3>1, <3>2, <3>4, <4>1, Constants
    <3> QED
      BY <3>3, <3>4
  <2>2. ASSUME NEW u \in Vcs PROVE lock'[u] = "gen" <=> gen'.pc = "fill" /\ gen'.vc = u
    <3>1. lock[u] = "gen" <=> gen'.pc = "fill" /\ gen'.vc = u
      BY DEF TmInv, LockInv, Returns
    <3>2. lock'[u] = IF lock[u] = w THEN "free" ELSE lock[u]
      BY ReturnKeepsTypes
    <3> QED
      BY <3>1, <3>2, Constants
  <2> QED
    BY <2>1, <2>2 DEF LockInv
<1>2. WriterInv'
  <2> SUFFICES ASSUME NEW x \in Writers, wr'[x].pc # "idle"
               PROVE  \E q \in Nat, l \in PacketLens : \E m \in 0..l : Has(wr'[x], q, l, m)
    BY DEF WriterInv, Has
  <2> QED
    BY ReturnKeepsTypes DEF TmInv, WriterInv
<1> QED
  BY <1>1, <1>2

LEMMA ReturnKeepsVc ==
    ASSUME TmInv, NEW w \in Writers, Returns(w), NEW u \in Vcs
    PROVE  /\ Filling(u)' = Filling(u)
           /\ lock[u] = w => Adding(u)' = << >>
           /\ lock[u] # w => Adding(u)' = Adding(u)
<1>1. Filling(u)' = Filling(u)
  BY DEF Filling, Returns
<1>2. ASSUME lock[u] = w PROVE Adding(u)' = << >>
  BY <1>2, ReturnKeepsTypes, Constants DEF Adding
<1>3. ASSUME lock[u] # w PROVE Adding(u)' = Adding(u)
  <2>1. lock'[u] = lock[u]
    BY <1>3, ReturnKeepsTypes
  <2>2. lock[u] \in Writers => wr'[lock[u]] = wr[lock[u]]
    BY <1>3, ReturnKeepsTypes
  <2> QED
    BY <2>1, <2>2 DEF Adding, Written
<1> QED
  BY <1>1, <1>2, <1>3

LEMMA AddTimeoutKeeps == ASSUME TmInv, NEW w \in Writers, AddTimeout(w) PROVE TmInv'
<1> DEFINE v == wr[w].vc
<1>1. /\ wr' = [wr EXCEPT ![w] = NoCall]
      /\ UNCHANGED << pipe, rem, gen, admitted, sent, frame, calls >>
      /\ \/ wr[w].pc = "lock" /\ UNCHANGED << lock, clean >>
         \/ /\ wr[w].pc = "write" /\ lock' = [lock EXCEPT ![v] = "free"]
            /\ clean' = IF wr[w].left = wr[w].packet THEN clean ELSE clean \ {v}
  BY DEF AddTimeout
<1>2. Returns(w)
  BY <1>1 DEF Returns
<1>3. clean' \subseteq clean
  BY <1>1
<1>4. Typed'
  BY <1>1, <1>2, <1>3, ReturnKeepsTypes DEF TmInv, Typed
<1>5. AdmittedInv' /\ FillInv' /\ PointerExact'
  BY <1>1, <1>3, PointerKept DEF TmInv, AdmittedInv, FillInv
<1>6. ASSUME NEW u \in Vcs PROVE VcInv(u)'
  <2>0. /\ Filling(u)' = Filling(u)
        /\ lock[u] = w => Adding(u)' = << >>
        /\ lock[u] # w => Adding(u)' = Adding(u)
    BY <1>2, ReturnKeepsVc
  <2>1. CASE lock[u] = w /\ u \in clean'
    <3>1. wr[w].pc = "write" /\ u = v /\ wr[w].left = wr[w].packet
      BY <1>1, <1>2, <2>1, ReturnKeepsTypes
    <3>2. PICK p \in Nat, len \in PacketLens : \E m \in 0..len : Has(wr[w], p, len, m)
      BY <3>1 DEF TmInv, WriterInv
    <3>3. PICK m \in 0..len : Has(wr[w], p, len, m)
      BY <3>2
    <3>4. Len(wr[w].packet) = len /\ Len(wr[w].left) = len - m /\ (m = 0 => Written(wr[w]) = << >>)
      BY <3>3, WrittenIs
    <3>5. m = 0
      BY <3>1, <3>4, Constants
    <3>6. Adding(u) = << >>
      BY <3>1, <3>4, <3>5, WriterHolds
    <3> QED
      BY <1>1, <1>3, <2>0, <2>1, <3>6, VcKept DEF TmInv
  <2>2. CASE lock[u] # w
    BY <1>1, <1>3, <2>0, <2>2, VcKept DEF TmInv
  <2>3. CASE u \notin clean'
    BY <2>3 DEF VcInv
  <2> QED
    BY <2>1, <2>2, <2>3
<1> QED
  BY <1>2, <1>4, <1>5, <1>6, ReturnKeepsLocks DEF TmInv

LEMMA AddWriteKeeps == ASSUME TmInv, NEW w \in Writers, AddWrite(w) PROVE TmInv'
<1> DEFINE v == wr[w].vc
           left == wr[w].left
           n == Min({Len(left), QueueDepth - Len(pipe[v])})
           new == SubSeq(left, 1, n)
           rest == SubSeq(left, n + 1, Len(left))
<1>1. /\ wr[w].pc = "write" /\ n > 0
      /\ pipe' = [pipe EXCEPT ![v] = @ \o new]
      /\ \/ /\ rest # << >> /\ wr' = [wr EXCEPT ![w].left = rest]
            /\ UNCHANGED << lock, admitted >>
         \/ /\ rest = << >> /\ wr' = [wr EXCEPT ![w] = NoCall]
            /\ lock' = [lock EXCEPT ![v] = "free"]
            /\ admitted' = [admitted EXCEPT ![v] = @ \o wr[w].packet]
      /\ UNCHANGED << rem, gen, sent, frame, clean, calls >>
  BY DEF AddWrite
<1>2. /\ wr[w] \in CallOfAdd /\ v \in Vcs /\ lock[v] = w
      /\ Filling(v) = << >> /\ Adding(v) = Written(wr[w])
      /\ \A u \in Vcs : u # v => lock[u] # w
  BY <1>1, WriterHolds
<1>3. /\ pipe \in [Vcs -> Seq(Byte)] /\ admitted \in [Vcs -> Seq(Byte)] /\ sent \in [Vcs -> Seq(Byte)]
      /\ pipe[v] \in Seq(Byte) /\ admitted[v] \in Seq(Byte) /\ sent[v] \in Seq(Byte)
      /\ Len(pipe[v]) \in Nat /\ Len(pipe[v]) <= QueueDepth
  BY <1>2 DEF TmInv, Typed
<1>4. PICK p \in Nat, len \in PacketLens : \E m \in 0..len : Has(wr[w], p, len, m)
  BY <1>1 DEF TmInv, WriterInv
<1>5. PICK m \in 0..len : Has(wr[w], p, len, m)
  BY <1>4
<1> DEFINE b == Bytes(p, len)
<1>6. b \in Seq(Byte) /\ Len(b) = len /\ len \in Nat /\ m \in Nat
  BY BytesAre, Constants
<1>7. wr[w].packet = b /\ left = SubSeq(b, m + 1, len) /\ Written(wr[w]) = SubSeq(b, 1, m)
      /\ Len(left) = len - m
  BY <1>5, WrittenIs DEF Has
<1> HIDE DEF b
<1>8. n \in 0..(len - m) /\ n <= QueueDepth - Len(pipe[v]) /\ n \in Nat
  <2>1. Len(left) \in Nat /\ QueueDepth - Len(pipe[v]) \in Nat
    BY <1>3, <1>6, <1>7, Constants
  <2>2. n \in Nat /\ n <= Len(left) /\ n <= QueueDepth - Len(pipe[v])
    BY <2>1, MinOfTwo
  <2> QED
    BY <1>6, <1>7, <2>1, <2>2
<1> HIDE DEF n, left, v
<1>9. /\ left \in Seq(Byte) /\ new \in Seq(Byte) /\ Len(new) = n
      /\ rest = SubSeq(b, m + n + 1, len)
      /\ SubSeq(b, 1, m) \o new = SubSeq(b, 1, m + n)
  BY <1>6, <1>7, <1>8, CutRest, SMTT(40)
<1> HIDE DEF new, rest
<1>10. m + n \in 0..len /\ rest \in Seq(Byte) /\ Len(rest) = len - (m + n)
  BY <1>6, <1>8, <1>9
<1>11. /\ pipe' \in [Vcs -> Seq(Byte)] /\ pipe'[v] = pipe[v] \o new
       /\ Len(pipe'[v]) <= QueueDepth /\ \A u \in Vcs \ {v} : pipe'[u] = pipe[u]
  <2>1. pipe[v] \o new \in Seq(Byte) /\ Len(pipe[v] \o new) <= QueueDepth
    BY <1>3, <1>8, <1>9, Constants
  <2> QED
    BY <1>1, <1>2, <1>3, <2>1
<1>12. FillInv' /\ PointerExact'
  BY <1>1, PointerKept DEF TmInv, FillInv
<1>13. SubSeq(b, 1, m) \in Seq(Byte) /\ SubSeq(b, 1, m + n) \in Seq(Byte)
  BY <1>6, <1>10, Cut
\* Before the step, and with the new bytes at the end of both sides
<1>14. v \in clean => sent[v] \o pipe'[v] = admitted[v] \o SubSeq(b, 1, m + n)
  <2>1. SUFFICES ASSUME v \in clean PROVE sent[v] \o pipe'[v] = admitted[v] \o SubSeq(b, 1, m + n)
    OBVIOUS
  <2>2. Out(v) \o pipe[v] = admitted[v] \o SubSeq(b, 1, m)
    BY <1>2, <1>7, <2>1 DEF TmInv, VcInv
  <2>3. Out(v) = sent[v]
    BY <1>2, <1>3, CatEmpty DEF Out
  <2>6. \A x, y, z \in Seq(Byte) : (x \o y) \o z = x \o (y \o z)
    BY CatAssoc
  <2>4. sent[v] \o (pipe[v] \o new) = (sent[v] \o pipe[v]) \o new
    BY <1>3, <1>9, <2>6, Zenon
  <2>5. admitted[v] \o (SubSeq(b, 1, m) \o new) = (admitted[v] \o SubSeq(b, 1, m)) \o new
    <3>1. admitted[v] \in Seq(Byte)
      BY <1>3
    <3> QED
      BY <1>9, <1>13, <2>6, <3>1, Zenon
  <2> QED
    BY <1>9, <1>11, <2>2, <2>3, <2>4, <2>5, Zenon
<1>15. CASE rest # << >>
  <2> DEFINE c == [wr[w] EXCEPT !.left = rest]
  <2>1. wr' = [wr EXCEPT ![w] = c] /\ UNCHANGED << lock, admitted >>
    BY <1>1, <1>15
  <2>2. c \in CallOfAdd /\ c.pc = "write" /\ c.vc = v /\ c.packet = wr[w].packet /\ c.left = rest
    BY <1>1, <1>2, <1>10 DEF CallOfAdd, v
  <2> HIDE DEF c
  <2>3. /\ wr' \in [Writers -> CallOfAdd] /\ wr'[w] = c
        /\ \A x \in Writers \ {w} : wr'[x] = wr[x]
    BY <2>1, <2>2, WriterTypes
  <2>4. Has(c, p, len, m + n)
    BY <1>7, <1>9, <2>2 DEF Has, b
  <2>5. Typed'
    BY <1>1, <1>11, <2>1, <2>3 DEF TmInv, Typed
  <2>6. LockInv'
    BY <1>1, <2>1, <2>2, <2>3 DEF TmInv, LockInv, v
  <2>7. WriterInv'
    <3> SUFFICES ASSUME NEW x \in Writers, wr'[x].pc # "idle"
                 PROVE  \E q \in Nat, l \in PacketLens : \E k \in 0..l : Has(wr'[x], q, l, k)
      BY DEF WriterInv, Has
    <3>1. CASE x = w
      BY <1>10, <2>3, <2>4, <3>1
    <3>2. CASE x # w
      BY <2>3, <3>2 DEF TmInv, WriterInv
    <3> QED
      BY <3>1, <3>2
  <2>8. AdmittedInv'
    BY <2>1 DEF TmInv, AdmittedInv
  <2>9. ASSUME NEW u \in Vcs PROVE VcInv(u)'
    <3>1. CASE u = v
      <4>1. Adding(u)' = SubSeq(b, 1, m + n)
        BY <1>2, <1>10, <2>1, <2>3, <2>4, <3>1, WrittenIs DEF Adding, b
      <4>2. Filling(u)' = << >> /\ Out(u)' = sent[v] /\ Out(u) = sent[v]
        BY <1>1, <1>2, <1>3, <3>1, CatEmpty DEF Filling, Out
      <4> QED
        BY <1>1, <1>14, <2>1, <3>1, <4>1, <4>2 DEF TmInv, VcInv
    <3>2. CASE u # v
      <4>1. Adding(u)' = Adding(u)
        BY <1>2, <2>1, <2>3, <3>2 DEF Adding, Written
      <4> QED
        BY <1>1, <1>11, <2>1, <3>2, <4>1, VcKept DEF TmInv, Filling
    <3> QED
      BY <3>1, <3>2
  <2> QED
    BY <1>12, <2>5, <2>6, <2>7, <2>8, <2>9 DEF TmInv
<1>16. CASE rest = << >>
  <2>1. /\ wr' = [wr EXCEPT ![w] = NoCall] /\ lock' = [lock EXCEPT ![v] = "free"]
        /\ admitted' = [admitted EXCEPT ![v] = @ \o wr[w].packet]
    BY <1>1, <1>16
  <2>2. Returns(w)
    BY <1>1, <2>1 DEF Returns, v
  <2>3. m + n = len /\ SubSeq(b, 1, m + n) = b
    <3>1. m + n = len
      BY <1>6, <1>8, <1>10, <1>16
    <3> QED
      BY <1>6, <3>1, SubSeqFull
  <2>4. /\ admitted' \in [Vcs -> Seq(Byte)] /\ admitted'[v] = admitted[v] \o b
        /\ \A u \in Vcs \ {v} : admitted'[u] = admitted[u]
    <3>1. admitted[v] \o b \in Seq(Byte)
      BY <1>3, <1>6, Cat
    <3> QED
      BY <1>2, <1>3, <1>7, <2>1, <3>1
  <2>5. Typed'
    BY <1>1, <1>11, <2>2, <2>4, ReturnKeepsTypes DEF TmInv, Typed
  <2>6. AdmittedInv'
    <3>1. Framed(admitted[v]) /\ Complete(admitted[v])
      BY <1>2 DEF TmInv, AdmittedInv
    <3>2. Framed(admitted[v] \o b) /\ Complete(admitted[v] \o b)
      <4>1. len \in 0..len /\ SubSeq(Bytes(p, len), 1, len) = b
        BY <1>6, <2>3 DEF b
      <4>2. LET a == admitted[v] \o SubSeq(Bytes(p, len), 1, len) IN Framed(a) /\ Complete(a)
        BY <1>3, <3>1, <4>1, AppendedIsFramed
      <4> QED
        BY <4>1, <4>2
    <3> QED
      BY <2>4, <3>2 DEF TmInv, AdmittedInv
  <2>7. ASSUME NEW u \in Vcs PROVE VcInv(u)'
    <3>1. CASE u = v /\ u \in clean
      <4>1. Adding(u)' = << >> /\ Filling(u)' = << >>
        BY <1>2, <2>2, <3>1, ReturnKeepsVc
      <4>2. Out(u)' = sent[v] /\ Out(u) = sent[v]
        BY <1>1, <1>2, <1>3, <3>1, <4>1, CatEmpty DEF Out
      <4>3. admitted'[v] \o << >> = admitted'[v]
        BY <1>2, <2>4, CatEmpty
      <4>4. sent[v] \o pipe'[v] = admitted'[v] \o << >>
        BY <1>14, <2>3, <2>4, <3>1, <4>3, Zenon
      <4>5. IsPrefix(sent[v], admitted'[v])
        BY <1>3, <1>6, <2>4, <3>1, PrefixGrows DEF TmInv, VcInv
      <4> QED
        BY <1>1, <3>1, <4>1, <4>2, <4>4, <4>5 DEF TmInv, VcInv
    <3>2. CASE u # v
      <4>1. Filling(u)' = Filling(u) /\ Adding(u)' = Adding(u)
        BY <1>2, <2>2, <3>2, ReturnKeepsVc
      <4> QED
        BY <1>1, <1>11, <2>4, <3>2, <4>1, VcKept DEF TmInv
    <3>3. CASE u \notin clean
      BY <1>1, <3>3 DEF VcInv
    <3> QED
      BY <3>1, <3>2, <3>3
  <2> QED
    BY <1>12, <2>2, <2>5, <2>6, <2>7, ReturnKeepsLocks DEF TmInv
<1> QED
  BY <1>15, <1>16

-------------------------------------------------------------------------------
(* generator_work_handler *)

\* While the handler fills a frame it has the lock of the VC, no addition is under
\* way there, and on a VC that has lost nothing the pipe goes on where the frame ends.
LEMMA GenHolds ==
    ASSUME TmInv, gen.pc = "fill"
    PROVE  /\ gen \in Handler /\ gen.vc \in Vcs /\ gen.data \in Seq(Byte) /\ gen.fhp \in Nat
           /\ lock[gen.vc] = "gen" /\ Adding(gen.vc) = << >>
           /\ pipe[gen.vc] \in Seq(Byte) /\ sent[gen.vc] \in Seq(Byte)
           /\ Len(gen.data) \in Nat /\ Len(gen.data) <= DataLen /\ Space \in Nat
           /\ Out(gen.vc) = sent[gen.vc] \o gen.data /\ Out(gen.vc) \in Seq(Byte)
           /\ gen.vc \in clean =>
                /\ Out(gen.vc) \o pipe[gen.vc] = admitted[gen.vc]
                /\ Framed(Out(gen.vc) \o pipe[gen.vc])
                /\ rem[gen.vc] = Remainder(Out(gen.vc))
                /\ PointsAtFirst(gen.data, gen.fhp)
<1> DEFINE v == gen.vc
<1>1. gen \in Handler /\ v \in Vcs /\ gen.data \in Seq(Byte) /\ gen.fhp \in Nat
  BY DEF TmInv, Typed, Handler
<1>2. pipe[v] \in Seq(Byte) /\ sent[v] \in Seq(Byte) /\ admitted[v] \in Seq(Byte)
  BY <1>1 DEF TmInv, Typed
<1>3. lock[v] = "gen"
  BY <1>1 DEF TmInv, LockInv
<1>4. Adding(v) = << >>
  BY <1>3, Constants DEF Adding
<1>5. Out(v) = sent[v] \o gen.data
  BY DEF Out, Filling
<1>6. Out(v) \in Seq(Byte)
  BY <1>1, <1>2, <1>5, Cat
<1>7. Len(gen.data) \in Nat /\ Len(gen.data) <= DataLen /\ Space \in Nat
  BY <1>1, Constants DEF TmInv, Typed, Space
<1>8. ASSUME v \in clean
      PROVE  /\ Out(v) \o pipe[v] = admitted[v] /\ Framed(Out(v) \o pipe[v])
             /\ rem[v] = Remainder(Out(v)) /\ PointsAtFirst(gen.data, gen.fhp)
  <2>1. Out(v) \o pipe[v] = admitted[v] \o << >> /\ rem[v] = Remainder(Out(v))
    BY <1>1, <1>4, <1>8 DEF TmInv, VcInv
  <2>2. admitted[v] \o << >> = admitted[v]
    BY <1>2, CatEmpty
  <2>3. Framed(admitted[v])
    BY <1>1 DEF TmInv, AdmittedInv
  <2>4. PointsAtFirst(gen.data, gen.fhp)
    BY <1>8 DEF TmInv, FillInv
  <2> QED
    BY <2>1, <2>2, <2>3, <2>4, Zenon
<1> QED
  BY <1>1, <1>2, <1>3, <1>4, <1>5, <1>6, <1>7, <1>8

\* A VC the handler is not filling a frame from, when lock and call stay what they are.
LEMMA OtherVcKept ==
    ASSUME TmInv, gen.vc \in Vcs, NEW u \in Vcs, u # gen.vc, wr' = wr, gen'.vc = gen.vc,
           lock'[u] = lock[u], clean' \subseteq clean, pipe'[u] = pipe[u], rem'[u] = rem[u],
           admitted'[u] = admitted[u], sent'[u] = sent[u]
    PROVE  VcInv(u)'
<1>1. Filling(u)' = Filling(u)
  BY DEF Filling
<1>2. Adding(u)' = Adding(u)
  BY DEF Adding, Written
<1> QED
  BY <1>1, <1>2, VcKept DEF TmInv

LEMMA GenLockKeeps == ASSUME TmInv, GenLock PROVE TmInv'
<1> DEFINE v == gen.vc
<1>1. /\ gen.pc = "build" /\ lock[v] = "free" /\ lock' = [lock EXCEPT ![v] = "gen"]
      /\ gen' = GenAt("fill", v)
      /\ UNCHANGED << pipe, rem, wr, admitted, sent, frame, clean, calls >>
  BY DEF GenLock
<1>2. v \in Vcs /\ lock \in [Vcs -> Writers \cup {"free", "gen"}]
  BY DEF TmInv, Typed, Handler
<1>3. /\ gen'.pc = "fill" /\ gen'.vc = v /\ gen'.data = << >> /\ gen'.fhp = NoStart
      /\ gen' \in Handler
  BY <1>1, <1>2, Constants DEF GenAt, Handler, NoStart
<1>4. /\ lock' \in [Vcs -> Writers \cup {"free", "gen"}] /\ lock'[v] = "gen"
      /\ \A u \in Vcs \ {v} : lock'[u] = lock[u]
  BY <1>1, <1>2
<1>5. Typed'
  BY <1>1, <1>3, <1>4, Constants DEF TmInv, Typed
<1>6. LockInv'
  <2>1. ASSUME NEW u \in Vcs, NEW x \in Writers
        PROVE  lock'[u] = x <=> wr'[x].pc = "write" /\ wr'[x].vc = u
    <3>1. lock[u] = x <=> wr'[x].pc = "write" /\ wr'[x].vc = u
      BY <1>1 DEF TmInv, LockInv
    <3> QED
      BY <1>1, <1>4, <3>1, Constants
  <2>2. ASSUME NEW u \in Vcs PROVE lock'[u] = "gen" <=> gen'.pc = "fill" /\ gen'.vc = u
    <3>1. u # v => lock[u] # "gen"
      BY <1>1 DEF TmInv, LockInv
    <3> QED
      BY <1>3, <1>4, <3>1
  <2> QED
    BY <2>1, <2>2 DEF LockInv
<1>7. WriterInv' /\ AdmittedInv' /\ PointerExact'
  BY <1>1, PointerKept DEF TmInv, WriterInv, AdmittedInv
<1>8. FillInv'
  BY <1>3 DEF FillInv, PointsAtFirst
<1>9. ASSUME NEW u \in Vcs PROVE VcInv(u)'
  <2>1. CASE u = v
    <3>1. Filling(u)' = << >> /\ Filling(u) = << >>
      BY <1>1, <1>3, <2>1 DEF Filling
    <3>2. Adding(u)' = << >> /\ Adding(u) = << >>
      BY <1>1, <1>4, <2>1, Constants DEF Adding
    <3> QED
      BY <1>1, <3>1, <3>2, VcKept DEF TmInv
  <2>2. CASE u # v
    BY <1>1, <1>2, <1>3, <1>4, <2>2, OtherVcKept
  <2> QED
    BY <2>1, <2>2
<1> QED
  BY <1>5, <1>6, <1>7, <1>8, <1>9 DEF TmInv

\* n bytes move from the pipe into the frame.
LEMMA ReadKeeps ==
    ASSUME TmInv, gen.pc = "fill", NEW n \in Nat, n <= Space, NEW fhp \in Nat, Read(n, fhp),
           NEW r \in Nat, rem' = [rem EXCEPT ![gen.vc] = r], UNCHANGED << wr, admitted, calls >>,
           gen.vc \in clean =>
             /\ r = Remainder(Out(gen.vc) \o SubSeq(pipe[gen.vc], 1, n))
             /\ PointsAtFirst(gen.data \o SubSeq(pipe[gen.vc], 1, n), fhp)
    PROVE  TmInv'
<1> DEFINE v == gen.vc
           a == SubSeq(pipe[v], 1, n)
           b == SubSeq(pipe[v], n + 1, Len(pipe[v]))
           d == gen.data \o a
<1>1. /\ Len(pipe[v]) >= n /\ pipe' = [pipe EXCEPT ![v] = b]
      /\ gen' = [gen EXCEPT !.data = d, !.fhp = fhp]
      /\ UNCHANGED << lock, sent, frame, clean >>
  BY DEF Read
<1>2. /\ gen \in Handler /\ v \in Vcs /\ gen.data \in Seq(Byte)
      /\ lock[v] = "gen" /\ Adding(v) = << >>
      /\ pipe[v] \in Seq(Byte) /\ sent[v] \in Seq(Byte)
      /\ Len(gen.data) \in Nat /\ Len(gen.data) <= DataLen
      /\ Out(v) = sent[v] \o gen.data
  BY GenHolds
<1>3. n \in 0..Len(pipe[v])
  BY <1>1, <1>2
<1>4. /\ a \in Seq(Byte) /\ b \in Seq(Byte) /\ Len(a) = n /\ Len(b) = Len(pipe[v]) - n
      /\ pipe[v] = a \o b
  BY <1>2, <1>3, Cut
<1> HIDE DEF a, b
<1>5. d \in Seq(Byte) /\ Len(d) <= DataLen
  BY <1>2, <1>4, Constants DEF Space
<1> HIDE DEF d
<1>6. gen' \in Handler /\ gen'.pc = "fill" /\ gen'.vc = v /\ gen'.data = d /\ gen'.fhp = fhp
  BY <1>1, <1>2, <1>5 DEF Handler
<1> HIDE DEF v
<1>7. /\ pipe' \in [Vcs -> Seq(Byte)] /\ pipe'[v] = b /\ \A u \in Vcs \ {v} : pipe'[u] = pipe[u]
  BY <1>1, <1>2, <1>4 DEF TmInv, Typed
<1>8. \A u \in Vcs : Len(pipe'[u]) <= QueueDepth
  <2>1. Len(pipe[v]) \in Nat /\ Len(pipe[v]) <= QueueDepth
    BY <1>2 DEF TmInv, Typed
  <2>2. Len(b) <= QueueDepth
    BY <1>4, <2>1, Constants
  <2> QED
    BY <1>7, <2>2 DEF TmInv, Typed
<1>9. rem' \in [Vcs -> Nat] /\ rem'[v] = r /\ \A u \in Vcs \ {v} : rem'[u] = rem[u]
  BY <1>2 DEF TmInv, Typed, v
<1>10. Typed'
  BY <1>1, <1>5, <1>6, <1>7, <1>8, <1>9 DEF TmInv, Typed
<1>11. LockInv' /\ WriterInv' /\ AdmittedInv' /\ PointerExact'
  <2>1. LockInv'
    BY <1>1, <1>6 DEF TmInv, LockInv, v
  <2> QED
    BY <1>1, <2>1, PointerKept DEF TmInv, WriterInv, AdmittedInv
<1>12. FillInv'
  BY <1>1, <1>6 DEF FillInv, a, d, v
<1>13. ASSUME NEW u \in Vcs PROVE VcInv(u)'
  <2>1. CASE u = v /\ u \in clean
    <3>1. Out(u)' = sent[v] \o d
      BY <1>1, <1>6, <2>1 DEF Out, Filling
    <3>2. sent[v] \o d = Out(v) \o a /\ (sent[v] \o d) \o b = Out(v) \o pipe[v]
      <4>1. /\ sent[v] \in Seq(Byte) /\ gen.data \in Seq(Byte)
            /\ a \in Seq(Byte) /\ b \in Seq(Byte)
        BY <1>2, <1>4
      <4>2. \A x, y, z \in Seq(Byte) : (x \o y) \o z = x \o (y \o z)
        BY CatAssoc
      <4>3. (sent[v] \o gen.data) \o (a \o b) = (sent[v] \o (gen.data \o a)) \o b
        <5>1. sent[v] \o gen.data \in Seq(Byte)
          BY <1>2, GenHolds DEF v
        <5>2. ((sent[v] \o gen.data) \o a) \o b = (sent[v] \o gen.data) \o (a \o b)
          BY <4>1, <4>2, <5>1, Zenon
        <5>3. (sent[v] \o gen.data) \o a = sent[v] \o (gen.data \o a)
          BY <4>1, <4>2, Zenon
        <5> QED
          BY <5>2, <5>3, Zenon
      <4>4. sent[v] \o (gen.data \o a) = (sent[v] \o gen.data) \o a
        BY <4>1, <4>2, Zenon
      <4> QED
        BY <1>2, <1>4, <4>3, <4>4, Zenon DEF d
    <3>3. Adding(u)' = << >>
      BY <1>1, <1>2, <2>1, Constants DEF Adding
    <3>4. Out(v) \o pipe[v] = admitted[v] \o << >> /\ IsPrefix(sent[v], admitted[v])
      BY <1>2, <2>1 DEF TmInv, VcInv
    <3>5. Out(u)' \o pipe'[u] = admitted'[u] \o Adding(u)'
      BY <1>7, <2>1, <3>1, <3>2, <3>3, <3>4
    <3>6. rem'[u] = Remainder(Out(u)')
      BY <1>9, <2>1, <3>1, <3>2 DEF a, v
    <3> QED
      BY <1>1, <2>1, <3>4, <3>5, <3>6 DEF VcInv, Remainder
  <2>2. CASE u # v
    BY <1>1, <1>2, <1>6, <1>7, <1>9, <2>2, OtherVcKept DEF v
  <2>3. CASE u \notin clean
    BY <1>1, <2>3 DEF VcInv
  <2> QED
    BY <2>1, <2>2, <2>3
<1> QED
  BY <1>10, <1>11, <1>12, <1>13 DEF TmInv

\* The frame is over: the lock is given back, and the handler is out of it.
LEMMA UnlockKeeps ==
    ASSUME TmInv, gen.pc = "fill", GenUnlock, wr' = wr
    PROVE  /\ LockInv' /\ gen' \in Handler /\ gen'.pc = "cycled" /\ gen'.data = << >>
           /\ gen'.vc = gen.vc
           /\ lock' \in [Vcs -> Writers \cup {"free", "gen"}] /\ lock'[gen.vc] = "free"
           /\ \A u \in Vcs \ {gen.vc} : lock'[u] = lock[u]
<1> DEFINE v == gen.vc
<1>1. v \in Vcs /\ lock[v] = "gen" /\ lock \in [Vcs -> Writers \cup {"free", "gen"}]
  BY GenHolds DEF TmInv, Typed
<1>2. /\ gen'.pc = "cycled" /\ gen'.vc = v /\ gen'.data = << >> /\ gen' \in Handler
  BY <1>1, Constants DEF GenUnlock, GenAt, Handler, NoStart
<1>3. /\ lock' \in [Vcs -> Writers \cup {"free", "gen"}] /\ lock'[v] = "free"
      /\ \A u \in Vcs \ {v} : lock'[u] = lock[u]
  BY <1>1 DEF GenUnlock
<1>4. ASSUME NEW u \in Vcs, NEW x \in Writers
      PROVE  lock'[u] = x <=> wr'[x].pc = "write" /\ wr'[x].vc = u
  <2>1. lock[u] = x <=> wr'[x].pc = "write" /\ wr'[x].vc = u
    BY DEF TmInv, LockInv
  <2> QED
    BY <1>1, <1>3, <2>1, Constants
<1>5. ASSUME NEW u \in Vcs PROVE lock'[u] = "gen" <=> gen'.pc = "fill" /\ gen'.vc = u
  <2>1. u # v => lock[u] # "gen"
    BY DEF TmInv, LockInv
  <2> QED
    BY <1>2, <1>3, <2>1
<1> QED
  BY <1>2, <1>3, <1>4, <1>5 DEF LockInv

LEMMA AbortKeeps ==
    ASSUME TmInv, gen.pc = "fill", GenUnlock, FrameAborted, UNCHANGED << rem, wr, admitted, calls >>,
           pipe' = pipe \/ pipe' = [pipe EXCEPT ![gen.vc] = << >>]
    PROVE  TmInv'
<1> DEFINE v == gen.vc
<1>1. v \in Vcs
  BY GenHolds
<1>2. clean' = clean \ {v} /\ UNCHANGED << sent, frame >>
  BY DEF FrameAborted
<1>3. /\ LockInv' /\ gen' \in Handler /\ gen'.pc = "cycled" /\ gen'.data = << >> /\ gen'.vc = v
      /\ lock' \in [Vcs -> Writers \cup {"free", "gen"}]
      /\ \A u \in Vcs \ {v} : lock'[u] = lock[u]
  BY UnlockKeeps
<1>4. /\ pipe' \in [Vcs -> Seq(Byte)] /\ \A u \in Vcs \ {v} : pipe'[u] = pipe[u]
      /\ \A u \in Vcs : Len(pipe'[u]) <= QueueDepth
  <2>1. pipe \in [Vcs -> Seq(Byte)] /\ \A u \in Vcs : Len(pipe[u]) <= QueueDepth
    BY DEF TmInv, Typed
  <2>2. CASE pipe' = pipe
    BY <2>1, <2>2
  <2>3. CASE pipe' = [pipe EXCEPT ![v] = << >>]
    <3>1. << >> \in Seq(Byte) /\ Len(<< >>) <= QueueDepth
      BY Constants
    <3>2. /\ pipe' \in [Vcs -> Seq(Byte)] /\ pipe'[v] = << >>
          /\ \A u \in Vcs \ {v} : pipe'[u] = pipe[u]
      BY <1>1, <2>1, <2>3, <3>1
    <3> QED
      BY <2>1, <3>1, <3>2
  <2> QED
    BY <2>2, <2>3
<1>5. Typed'
  BY <1>2, <1>3, <1>4, Constants DEF TmInv, Typed
<1>6. WriterInv' /\ AdmittedInv' /\ FillInv' /\ PointerExact'
  <2>1. WriterInv' /\ AdmittedInv' /\ FillInv'
    BY <1>3 DEF TmInv, WriterInv, AdmittedInv, FillInv
  <2> QED
    BY <1>2, <2>1, PointerKept DEF TmInv
<1>7. ASSUME NEW u \in Vcs PROVE VcInv(u)'
  <2>1. CASE u = v
    BY <1>2, <2>1 DEF VcInv
  <2>2. CASE u # v
    BY <1>1, <1>2, <1>3, <1>4, <2>2, OtherVcKept
  <2> QED
    BY <2>1, <2>2
<1> QED
  BY <1>3, <1>5, <1>6, <1>7 DEF TmInv

\* The pointer of a frame that has one keeps it, whatever is read next.
LEMMA PointerStays ==
    ASSUME NEW d \in Seq(Byte), NEW t \in Seq(Byte), NEW fhp \in Nat,
           PointsAtFirst(d, fhp), fhp # NoStart
    PROVE  PointsAtFirst(d \o t, fhp)
<1> DEFINE e == d \o t
<1>1. Len(e) = Len(d) + Len(t) /\ Len(d) \in Nat /\ Len(t) \in Nat
  BY Cat
<1>2. \A i \in 1..Len(d) : e[i] = d[i]
  BY Cat
<1>3. fhp < Len(d) /\ d[fhp + 1].i = 1 /\ \A k \in 1..fhp : d[k].i # 1
  BY DEF PointsAtFirst
<1> HIDE DEF e
<1>4. fhp < Len(e) /\ e[fhp + 1].i = 1 /\ \A k \in 1..fhp : e[k].i # 1
  BY <1>1, <1>2, <1>3
<1> QED
  BY <1>4 DEF PointsAtFirst, e

\* A frame that has none: none of the bytes read starts a packet, or the first does.
LEMMA PointerMoves ==
    ASSUME NEW d \in Seq(Byte), NEW t \in Seq(Byte), PointsAtFirst(d, NoStart)
    PROVE  /\ (\A k \in 1..Len(t) : t[k].i # 1) => PointsAtFirst(d \o t, NoStart)
           /\ t # << >> /\ t[1].i = 1 /\ Len(d) # NoStart => PointsAtFirst(d \o t, Len(d))
<1> DEFINE e == d \o t
<1>1. Len(e) = Len(d) + Len(t) /\ Len(d) \in Nat /\ Len(t) \in Nat /\ (t # << >> => Len(t) > 0)
  BY Cat, EmptySeq
<1>2. /\ \A i \in 1..Len(d) : e[i] = d[i]
      /\ \A i \in 1..Len(t) : e[Len(d) + i] = t[i]
  BY Cat
<1>3. \A k \in 1..Len(d) : d[k].i # 1
  BY DEF PointsAtFirst
<1> HIDE DEF e
<1>4. ASSUME \A k \in 1..Len(t) : t[k].i # 1 PROVE PointsAtFirst(e, NoStart)
  <2>1. ASSUME NEW k \in 1..Len(e) PROVE e[k].i # 1
    <3>1. CASE k <= Len(d)
      BY <1>1, <1>2, <1>3, <3>1
    <3>2. CASE k > Len(d)
      <4>1. k - Len(d) \in 1..Len(t) /\ Len(d) + (k - Len(d)) = k
        BY <1>1, <3>2
      <4> QED
        BY <1>2, <1>4, <4>1
    <3> QED
      BY <1>1, <3>1, <3>2
  <2> QED
    BY <2>1 DEF PointsAtFirst
<1>5. ASSUME t # << >>, t[1].i = 1, Len(d) # NoStart PROVE PointsAtFirst(e, Len(d))
  <2>1. Len(d) < Len(e) /\ 1 \in 1..Len(t)
    BY <1>1, <1>5
  <2>2. e[Len(d) + 1].i = 1
    BY <1>2, <1>5, <2>1
  <2> QED
    BY <1>2, <1>3, <1>5, <2>1, <2>2 DEF PointsAtFirst
<1> QED
  BY <1>4, <1>5 DEF e

LEMMA GenContinueKeeps == ASSUME TmInv, GenContinue PROVE TmInv'
<1> DEFINE v == gen.vc
           n == Min({rem[v], Space})
<1>1. /\ gen.pc = "fill" /\ Space > 0 /\ rem[v] > 0
      /\ \/ Read(n, gen.fhp) /\ rem' = [rem EXCEPT ![v] = @ - n]
         \/ /\ pipe' = [pipe EXCEPT ![v] = << >>]
            /\ GenUnlock /\ FrameAborted /\ UNCHANGED rem
      /\ UNCHANGED << wr, admitted, calls >>
  BY DEF GenContinue
<1>2. v \in Vcs /\ rem[v] \in Nat /\ Space \in Nat
  BY <1>1, GenHolds DEF TmInv, Typed
<1>3. n \in Nat /\ n > 0 /\ n <= rem[v] /\ n <= Space
  BY <1>1, <1>2, MinOfTwo
<1> HIDE DEF n
<1>4. CASE Read(n, gen.fhp) /\ rem' = [rem EXCEPT ![v] = @ - n]
  <2> DEFINE r == rem[v] - n
             q == pipe[v]
             t == SubSeq(q, 1, n)
  <2>1. r \in Nat /\ rem' = [rem EXCEPT ![v] = r]
    BY <1>2, <1>3, <1>4
  <2>2. q \in Seq(Byte) /\ Len(q) >= n /\ gen.data \in Seq(Byte) /\ gen.fhp \in Nat
    BY <1>1, <1>4, GenHolds DEF Read
  <2>3. n \in 0..Len(q)
    BY <1>3, <2>2
  <2>4. t \in Seq(Byte) /\ Len(t) = n /\ \A k \in 1..n : t[k] = q[k]
    BY <2>2, <2>3, Cut
  <2>5. ASSUME v \in clean
        PROVE  r = Remainder(Out(v) \o t) /\ PointsAtFirst(gen.data \o t, gen.fhp)
    <3>1. /\ Out(v) \in Seq(Byte) /\ Framed(Out(v) \o q) /\ rem[v] = Remainder(Out(v))
          /\ PointsAtFirst(gen.data, gen.fhp)
      BY <1>1, <2>5, GenHolds
    <3>2. Remainder(Out(v) \o t) = Remainder(Out(v)) - n /\ \A k \in 1..n : q[k].i # 1
      BY <1>3, <2>2, <3>1, ReadRest
    <3> HIDE DEF t
    <3>3. PointsAtFirst(gen.data \o t, gen.fhp)
      <4>1. CASE gen.fhp = NoStart
        BY <2>2, <2>4, <3>1, <3>2, <4>1, PointerMoves
      <4>2. CASE gen.fhp # NoStart
        BY <2>2, <2>4, <3>1, <4>2, PointerStays
      <4> QED
        BY <4>1, <4>2
    <3> QED
      BY <3>1, <3>2, <3>3
  <2> QED
    BY <1>1, <1>3, <1>4, <2>1, <2>2, <2>5, ReadKeeps
<1>5. CASE /\ pipe' = [pipe EXCEPT ![v] = << >>] /\ GenUnlock /\ FrameAborted /\ UNCHANGED rem
  BY <1>1, <1>5, AbortKeeps
<1> QED
  BY <1>1, <1>4, <1>5

LEMMA GenStartPacketKeeps == ASSUME TmInv, GenStartPacket PROVE TmInv'
<1> DEFINE v == gen.vc
           q == pipe[v]
           f == FirstHeaderPointer
<1>1. /\ gen.pc = "fill" /\ Space >= HdrLen /\ rem[v] = 0 /\ q # << >>
      /\ \/ /\ Read(HdrLen, f)
            /\ \E total \in TotalLens : rem' = [rem EXCEPT ![v] = total - HdrLen]
         \/ GenUnlock /\ FrameAborted /\ UNCHANGED << pipe, rem >>
      /\ UNCHANGED << wr, admitted, calls >>
  BY DEF GenStartPacket
<1>2. HdrLen \in Nat /\ HdrLen > 0 /\ DataLen \in Nat
  BY Constants
<1>3. /\ v \in Vcs /\ q \in Seq(Byte) /\ gen.data \in Seq(Byte) /\ gen.fhp \in Nat
      /\ Len(gen.data) \in Nat
  BY <1>1, GenHolds
<1>4. f \in Nat /\ Len(gen.data) # NoStart
  BY <1>1, <1>2, <1>3 DEF FirstHeaderPointer, Space, NoStart
<1>5. CASE Read(HdrLen, f) /\ \E total \in TotalLens : rem' = [rem EXCEPT ![v] = total - HdrLen]
  <2>1. PICK total \in TotalLens : rem' = [rem EXCEPT ![v] = total - HdrLen]
    BY <1>5
  <2> DEFINE r == total - HdrLen
             t == SubSeq(q, 1, HdrLen)
  <2>2. Len(q) \in Nat /\ Len(q) >= HdrLen /\ HdrLen \in 0..Len(q)
    BY <1>2, <1>3, <1>5 DEF Read
  <2>3. q[1].len \in PacketLens
    <3>1. q[1] \in Byte
      BY <1>2, <1>3, <2>2, ElementOfSeq
    <3> QED
      BY <3>1 DEF Byte
  <2>4. total \in PacketLens
    BY <2>1, <2>3 DEF TotalLens
  <2>5. r \in Nat /\ rem' = [rem EXCEPT ![v] = r]
    BY <1>2, <2>1, <2>4, Constants
  <2>6. t \in Seq(Byte) /\ Len(t) = HdrLen /\ \A k \in 1..HdrLen : t[k] = q[k]
    BY <1>3, <2>2, Cut
  <2>7. ASSUME v \in clean
        PROVE  r = Remainder(Out(v) \o t) /\ PointsAtFirst(gen.data \o t, f)
    <3>1. /\ Out(v) \in Seq(Byte) /\ Framed(Out(v) \o q) /\ Remainder(Out(v)) = 0
          /\ PointsAtFirst(gen.data, gen.fhp)
      BY <1>1, <2>7, GenHolds
    <3>2. /\ Remainder(Out(v) \o t) = q[1].len - HdrLen
          /\ q[1].i = 1 /\ q[HdrLen].p = q[1].p
      BY <1>3, <2>2, <3>1, ReadHeader
    <3>3. total = q[1].len
      BY <2>1, <3>2 DEF TotalLens
    <3> HIDE DEF t
    <3>4. PointsAtFirst(gen.data \o t, f)
      <4>1. CASE gen.fhp = NoStart
        <5>1. f = Len(gen.data)
          BY <4>1 DEF FirstHeaderPointer
        <5>2. t # << >> /\ t[1].i = 1
          BY <1>2, <2>6, <3>2
        <5> QED
          BY <1>3, <1>4, <2>6, <3>1, <4>1, <5>1, <5>2, PointerMoves
      <4>2. CASE gen.fhp # NoStart
        <5>1. f = gen.fhp
          BY <4>2 DEF FirstHeaderPointer
        <5> QED
          BY <1>3, <2>6, <3>1, <4>2, <5>1, PointerStays
      <4> QED
        BY <4>1, <4>2
    <3> QED
      BY <3>2, <3>3, <3>4
  <2> QED
    BY <1>1, <1>2, <1>4, <1>5, <2>5, <2>7, ReadKeeps
<1>6. CASE GenUnlock /\ FrameAborted /\ UNCHANGED << pipe, rem >>
  BY <1>1, <1>6, AbortKeeps
<1> QED
  BY <1>1, <1>5, <1>6

LEMMA MinIs ==
    ASSUME NEW S, S \subseteq Nat, NEW x \in S, \A y \in S : x <= y PROVE Min(S) = x
<1>1. \A y \in S : (\A z \in S : y <= z) => y = x
  OBVIOUS
<1> QED
  BY <1>1 DEF Min

\* The pointer of a finished frame, that of the fill included, is what PointerExact asks.
LEMMA PointerOfFrame ==
    ASSUME NEW d \in Seq(Byte), Len(d) <= DataLen, NEW fhp \in Nat, PointsAtFirst(d, fhp),
           NEW v, NEW f, f.data = d,
           f.fhp = IF DataLen - Len(d) > HdrLen
                   THEN IF fhp = NoStart THEN Len(d) ELSE fhp ELSE fhp
    PROVE  f.fhp = IF PacketStarts(f) = {} THEN NoStart ELSE Min(PacketStarts(f))
<1> DEFINE In == {k - 1 : k \in {j \in DOMAIN d : d[j].i = 1}}
           Tail1 == IF DataLen - Len(d) > HdrLen THEN {Len(d)} ELSE {}
           S == In \cup Tail1
<1>1. PacketStarts(f) = S
  BY DEF PacketStarts
<1>2. Len(d) \in Nat /\ DOMAIN d = 1..Len(d) /\ DataLen \in Nat /\ HdrLen \in Nat
  BY Constants
<1>3. S \subseteq Nat
  BY <1>2
<1>4. CASE fhp = NoStart
  <2>1. In = {}
    BY <1>2, <1>4 DEF PointsAtFirst
  <2>2. CASE DataLen - Len(d) > HdrLen
    <3>1. S = {Len(d)} /\ f.fhp = Len(d)
      BY <1>4, <2>1, <2>2
    <3> HIDE DEF S
    <3>2. Min(S) = Len(d)
      <4>1. Len(d) \in S /\ \A y \in S : Len(d) <= y
        BY <1>2, <3>1
      <4> QED
        BY <1>3, <4>1, MinIs
    <3> QED
      BY <1>1, <3>1, <3>2
  <2>3. CASE ~(DataLen - Len(d) > HdrLen)
    BY <1>1, <1>4, <2>1, <2>3
  <2> QED
    BY <2>2, <2>3
<1>5. CASE fhp # NoStart
  <2>1. fhp < Len(d) /\ d[fhp + 1].i = 1 /\ \A k \in 1..fhp : d[k].i # 1
    BY <1>5 DEF PointsAtFirst
  <2>2. f.fhp = fhp
    BY <1>5
  <2>3. fhp \in S
    <3>1. fhp + 1 \in {j \in DOMAIN d : d[j].i = 1} /\ (fhp + 1) - 1 = fhp
      BY <1>2, <2>1
    <3> QED
      BY <3>1
  <2>4. ASSUME NEW y \in S PROVE fhp <= y
    <3>1. CASE y \in In
      <4>1. PICK k \in 1..Len(d) : d[k].i = 1 /\ y = k - 1
        BY <1>2, <3>1
      <4>2. ~(k \in 1..fhp)
        BY <2>1, <4>1
      <4> QED
        BY <1>2, <4>1, <4>2
    <3>2. CASE y \in Tail1
      BY <1>2, <2>1, <3>2
    <3> QED
      BY <3>1, <3>2
  <2> HIDE DEF S
  <2>5. Min(S) = fhp
    BY <1>3, <2>3, <2>4, MinIs
  <2> QED
    BY <1>1, <2>2, <2>3, <2>5
<1> QED
  BY <1>4, <1>5

LEMMA GenEmitKeeps == ASSUME TmInv, GenEmit PROVE TmInv'
<1> DEFINE v == gen.vc
           d == gen.data
           f == IF Space > HdrLen THEN FirstHeaderPointer ELSE gen.fhp
<1>1. /\ gen.pc = "fill" /\ GenUnlock /\ UNCHANGED << pipe, rem, wr, admitted, calls >>
      /\ \/ /\ sent' = [sent EXCEPT ![v] = @ \o d] /\ UNCHANGED clean
            /\ frame' = [vc |-> v, data |-> d, fhp |-> f]
         \/ FrameAborted
  BY DEF GenEmit
<1>2. /\ v \in Vcs /\ d \in Seq(Byte) /\ gen.fhp \in Nat /\ Adding(v) = << >>
      /\ pipe[v] \in Seq(Byte) /\ sent[v] \in Seq(Byte)
      /\ Len(d) \in Nat /\ Len(d) <= DataLen
      /\ Out(v) = sent[v] \o d /\ Out(v) \in Seq(Byte)
  BY <1>1, GenHolds
<1>3. /\ LockInv' /\ gen' \in Handler /\ gen'.pc = "cycled" /\ gen'.data = << >> /\ gen'.vc = v
      /\ lock' \in [Vcs -> Writers \cup {"free", "gen"}] /\ lock'[v] = "free"
      /\ \A u \in Vcs \ {v} : lock'[u] = lock[u]
  BY <1>1, UnlockKeeps
<1>4. CASE /\ sent' = [sent EXCEPT ![v] = @ \o d] /\ UNCHANGED clean
           /\ frame' = [vc |-> v, data |-> d, fhp |-> f]
  <2>1. /\ sent' \in [Vcs -> Seq(Byte)] /\ sent'[v] = Out(v)
        /\ \A u \in Vcs \ {v} : sent'[u] = sent[u]
    <3>1. sent \in [Vcs -> Seq(Byte)] /\ sent[v] \o d \in Seq(Byte)
      BY <1>2 DEF TmInv, Typed
    <3> QED
      BY <1>2, <1>4, <3>1
  <2>2. f \in Nat
    BY <1>2 DEF FirstHeaderPointer
  <2>3. frame'.vc = v /\ frame'.data = d /\ frame'.fhp = f /\ frame' \in [vc: Vcs, data: Seq(Byte), fhp: Nat]
    BY <1>2, <1>4, <2>2
  <2>4. Typed'
    <3>1. sent' \in [Vcs -> Seq(Byte)] /\ frame' \in [vc: Vcs, data: Seq(Byte), fhp: Nat]
          /\ Len(frame'.data) <= DataLen
      BY <1>2, <2>1, <2>3
    <3>2. Len(gen'.data) <= DataLen
      BY <1>3, EmptySeq, Constants
    <3>3. lock' \in [Vcs -> Writers \cup {"free", "gen"}] /\ gen' \in Handler /\ gen'.data = << >>
      BY <1>3
    <3>4. UNCHANGED << pipe, rem, wr, admitted, clean, calls >>
      BY <1>1, <1>4
    <3> QED
      BY <3>1, <3>2, <3>3, <3>4 DEF TmInv, Typed
  <2>5. WriterInv' /\ AdmittedInv' /\ FillInv'
    BY <1>1, <1>3 DEF TmInv, WriterInv, AdmittedInv, FillInv
  <2>6. PointerExact'
    <3> SUFFICES ASSUME v \in clean
                 PROVE  frame'.fhp = IF PacketStarts(frame') = {} THEN NoStart
                                     ELSE Min(PacketStarts(frame'))
      BY <1>4, <2>3 DEF PointerExact, PacketStarts
    <3>1. PointsAtFirst(d, gen.fhp)
      BY <1>1, GenHolds
    <3>2. frame'.fhp = IF DataLen - Len(d) > HdrLen
                       THEN IF gen.fhp = NoStart THEN Len(d) ELSE gen.fhp ELSE gen.fhp
      BY <2>3 DEF Space, FirstHeaderPointer
    <3> QED
      BY <1>2, <2>3, <3>1, <3>2, PointerOfFrame
  <2>7. ASSUME NEW u \in Vcs PROVE VcInv(u)'
    <3>1. CASE u = v /\ u \in clean
      <4>1. Filling(u)' = << >> /\ Adding(u)' = << >>
        BY <1>3, <3>1, Constants DEF Filling, Adding
      <4>2. Out(u)' = Out(v)
        <5>1. Out(u)' = sent'[v] \o << >>
          BY <3>1, <4>1 DEF Out
        <5>2. Out(v) \o << >> = Out(v)
          BY <1>2, CatEmpty
        <5> QED
          BY <2>1, <5>1, <5>2, Zenon
      <4>3. /\ Out(v) \o pipe[v] = admitted[v] \o << >> /\ rem[v] = Remainder(Out(v))
        BY <1>2, <3>1 DEF TmInv, VcInv
      <4>4. Out(v) \o pipe[v] = admitted[v]
        BY <1>1, <3>1, GenHolds
      <4>5. IsPrefix(Out(v), admitted[v])
        BY <1>2, <4>4, CatHasPrefix
      <4> QED
        BY <1>1, <2>1, <3>1, <4>1, <4>2, <4>3, <4>5 DEF VcInv, Remainder
    <3>2. CASE u # v
      BY <1>1, <1>2, <1>3, <1>4, <2>1, <3>2, OtherVcKept
    <3>3. CASE u \notin clean
      BY <1>4, <3>3 DEF VcInv
    <3> QED
      BY <3>1, <3>2, <3>3
  <2> QED
    BY <1>3, <2>4, <2>5, <2>6, <2>7 DEF TmInv
<1>5. CASE FrameAborted
  BY <1>1, <1>5, AbortKeeps
<1> QED
  BY <1>1, <1>4, <1>5

\* The steps of the handler outside a frame
LEMMA GenQuietKeeps ==
    ASSUME TmInv, GenBegin \/ GenSelect \/ GenIdleFrame \/ GenCheck
                  \/ GenReschedule \/ GenReturn
    PROVE  TmInv'
<1>0. /\ gen.vc \in Vcs /\ 0 \in Vcs /\ MaxVc \in Vcs /\ NoStart \in Nat
      /\ (gen.vc < MaxVc => gen.vc + 1 \in Vcs) /\ << >> \in Seq(Byte)
  <2>1. gen.vc \in Vcs
    BY DEF TmInv, Typed, Handler
  <2> QED
    BY <2>1, Constants DEF Vcs, NoStart
<1>1. ASSUME NEW pc \in {"idle", "select", "build", "idle frame", "cycled", "reschedule",
                      "returning"}, NEW v \in Vcs
      PROVE  GenAt(pc, v) \in Handler /\ GenAt(pc, v).pc # "fill" /\ GenAt(pc, v).data = << >>
  BY <1>0 DEF GenAt, Handler
<1>2. CASE GenBegin
  <2>1. /\ UNCHANGED << pipe, rem, lock, wr, admitted, sent, clean, calls, frame >>
        /\ gen.pc = "idle" /\ (gen' = GenAt("select", 0) \/ gen' = GenAt("returning", 0))
    BY <1>2 DEF GenBegin, queueVars
  <2> QED
    BY <1>0, <1>1, <2>1, QuietKeeps
<1>3. CASE GenSelect
  <2>1. /\ UNCHANGED << pipe, rem, lock, wr, admitted, sent, clean, calls, frame >>
        /\ gen.pc = "select"
        /\ \/ gen' = GenAt("build", gen.vc) \/ gen' = GenAt("idle frame", MaxVc)
           \/ gen.vc < MaxVc /\ gen' = GenAt("select", gen.vc + 1)
    BY <1>3 DEF GenSelect, queueVars
  <2> QED
    BY <1>0, <1>1, <2>1, QuietKeeps
<1>4. CASE GenIdleFrame
  <2>1. /\ UNCHANGED << pipe, rem, lock, wr, admitted, sent, clean, calls >>
        /\ gen.pc = "idle frame" /\ gen' = GenAt("cycled", MaxVc)
        /\ frame' = frame \/ frame' = NoFrame
    BY <1>4 DEF GenIdleFrame, FrameAborted, queueVars
  <2> QED
    BY <1>0, <1>1, <2>1, QuietKeeps
<1>5. CASE GenCheck
  <2>1. /\ UNCHANGED << pipe, rem, lock, wr, admitted, sent, clean, calls, frame >>
        /\ gen.pc = "cycled" /\ (gen' = GenAt("reschedule", 0) \/ gen' = GenAt("returning", 0))
    BY <1>5 DEF GenCheck, queueVars
  <2> QED
    BY <1>0, <1>1, <2>1, QuietKeeps
<1>6. CASE GenReschedule
  <2>1. /\ UNCHANGED << pipe, rem, lock, wr, admitted, sent, clean, calls, frame >>
        /\ gen.pc = "reschedule" /\ gen' = GenAt("returning", 0)
    BY <1>6 DEF GenReschedule, queueVars
  <2> QED
    BY <1>0, <1>1, <2>1, QuietKeeps
<1>7. CASE GenReturn
  <2>1. /\ UNCHANGED << pipe, rem, lock, wr, admitted, sent, clean, calls, frame >>
        /\ gen.pc = "returning" /\ gen' = GenAt("idle", 0)
    BY <1>7 DEF GenReturn, queueVars
  <2> QED
    BY <1>0, <1>1, <2>1, QuietKeeps
<1> QED
  BY <1>2, <1>3, <1>4, <1>5, <1>6, <1>7

LEMMA TmInvStep == TmInv /\ limit \in Scenarios /\ [Next]_vars => TmInv'
<1> SUFFICES ASSUME TmInv, limit \in Scenarios, [Next]_vars PROVE TmInv'
  OBVIOUS
<1>1. ASSUME NEW w \in Writers, Add(w) \/ Writer(w) PROVE TmInv'
  BY <1>1, AddKeeps, AddLockKeeps, AddWriteKeeps, AddTimeoutKeeps DEF Writer
<1>2. CASE Generator
  BY <1>2, GenQuietKeeps, GenLockKeeps, GenContinueKeeps, GenStartPacketKeeps, GenEmitKeeps
     DEF Generator
<1>3. ASSUME NEW c \in Controllers, Start(c) \/ Stop(c) \/ Controller(c) PROVE TmInv'
  <2>1. UNCHANGED << pipe, rem, lock, wr, admitted, sent, clean, calls, gen, frame >>
    BY <1>3 DEF Start, Stop, Controller, StartWork, StopWork, Toggle, ToggleWork, queueVars
  <2> QED
    BY <2>1, QuietKeeps
<1>4. CASE UNCHANGED vars
  BY <1>4, QuietKeeps DEF vars
<1> QED
  BY <1>1, <1>2, <1>3, <1>4 DEF Next

\* The scenario is chosen once.
LEMMA LimitAlways == Spec => [](limit \in Scenarios)
<1>1. Init => limit \in Scenarios
  BY DEF Init
<1>2. limit \in Scenarios /\ [Next]_vars => (limit \in Scenarios)'
  BY DEF Next, Add, Writer, AddLock, AddWrite, AddTimeout, Generator, GenBegin, GenSelect,
         GenLock, GenContinue, GenStartPacket, GenEmit, GenIdleFrame, GenCheck, GenReschedule,
         GenReturn, Start, Stop, Controller, StartWork, StopWork, Toggle, ToggleWork,
         workVars, vars
<1> QED
  BY <1>1, <1>2, PTL DEF Spec

LEMMA TmInvAlways == Spec => []TmInv
BY TmInvInit, TmInvStep, LimitAlways, PTL DEF Spec

-------------------------------------------------------------------------------
(* Frame counters *)

CounterInv ==
    /\ vcfc \in [Vcs -> 0..(FcModulus - 1)] /\ mcfc \in 0..(FcModulus - 1)
    /\ fsrNext \in BOOLEAN /\ PhaseInStep

\* A counter that wraps at an even modulus changes its parity with every step.
LEMMA NextCount ==
    ASSUME NEW c \in 0..(FcModulus - 1)
    PROVE  /\ (c + 1) % FcModulus \in 0..(FcModulus - 1)
           /\ ((c + 1) % FcModulus) % 2 = 1 <=> ~(c % 2 = 1)
<1>1. PICK k \in 1..128 : FcModulus = 2 * k
  BY TmAssumption DEF TmAssumption
<1>2. FcModulus \in Nat /\ FcModulus > 0 /\ (FcModulus - 1) % 2 = 1 /\ c \in Nat
  BY <1>1
<1>3. CASE c + 1 = FcModulus
  <2>1. (c + 1) % FcModulus = 0
    BY <1>2, <1>3
  <2>2. c = FcModulus - 1
    BY <1>2, <1>3
  <2> QED
    BY <1>2, <2>1, <2>2
<1>4. CASE c + 1 < FcModulus
  <2>1. (c + 1) % FcModulus = c + 1
    BY <1>2, <1>4
  <2> QED
    BY <1>2, <1>4, <2>1
<1> QED
  BY <1>2, <1>3, <1>4

LEMMA CountFramesKeeps ==
    ASSUME CounterInv, NEW v \in Vcs, CountFrames(v)
    PROVE  CounterInv'
<1>1. /\ mcfc \in 0..(FcModulus - 1) /\ vcfc \in [Vcs -> 0..(FcModulus - 1)]
      /\ mcfc' = (mcfc + 1) % FcModulus
      /\ vcfc' = [vcfc EXCEPT ![v] = (vcfc[v] + 1) % FcModulus]
  BY DEF CounterInv, CountFrames
<1>2. mcfc' \in 0..(FcModulus - 1) /\ (mcfc' % 2 = 1 <=> ~(mcfc % 2 = 1))
  BY <1>1, NextCount
<1>3. vcfc' \in [Vcs -> 0..(FcModulus - 1)]
  <2>1. (vcfc[v] + 1) % FcModulus \in 0..(FcModulus - 1)
    BY <1>1, NextCount
  <2> QED
    BY <1>1, <2>1
<1>4. fsrNext' \in BOOLEAN /\ (fsrNext' <=> ~fsrNext) /\ (fsrNext <=> mcfc % 2 = 1)
  BY Zenon DEF CounterInv, CountFrames, PhaseInStep
<1>5. PhaseInStep'
  BY <1>2, <1>4, Zenon DEF PhaseInStep
<1> QED
  BY <1>2, <1>3, <1>4, <1>5 DEF CounterInv

LEMMA CounterKept ==
    ASSUME CounterInv, UNCHANGED << vcfc, mcfc, fsrNext >> PROVE CounterInv'
BY DEF CounterInv, PhaseInStep

LEMMA CounterStep == TmInv /\ CounterInv /\ [Next]_vars => CounterInv'
<1> SUFFICES ASSUME TmInv, CounterInv, [Next]_vars PROVE CounterInv'
  OBVIOUS
<1>0. gen.vc \in Vcs /\ MaxVc \in Vcs
  <2>1. gen.vc \in Vcs
    BY DEF TmInv, Typed, Handler
  <2> QED
    BY <2>1, Constants DEF Vcs
<1>1. ASSUME NEW w \in Writers, Add(w) \/ Writer(w) PROVE CounterInv'
  BY <1>1, CounterKept DEF Add, Writer, AddLock, AddWrite, AddTimeout, counterVars
<1>2. CASE GenBegin \/ GenSelect \/ GenLock \/ GenCheck \/ GenReschedule \/ GenReturn
  BY <1>2, CounterKept
     DEF GenBegin, GenSelect, GenLock, GenCheck, GenReschedule, GenReturn, counterVars
<1>3. CASE GenContinue \/ GenStartPacket
  BY <1>3, CounterKept DEF GenContinue, GenStartPacket, Read, FrameAborted, counterVars
<1>4. CASE GenEmit \/ GenIdleFrame
  <2>1. CountFrames(gen.vc) \/ CountFrames(MaxVc) \/ UNCHANGED << vcfc, mcfc, fsrNext >>
    BY <1>4 DEF GenEmit, GenIdleFrame, FrameAborted, counterVars
  <2> QED
    BY <1>0, <2>1, CounterKept, CountFramesKeeps
<1>5. ASSUME NEW c \in Controllers, Start(c) \/ Stop(c) \/ Controller(c) PROVE CounterInv'
  BY <1>5, CounterKept
     DEF Start, Stop, Controller, StartWork, StopWork, Toggle, ToggleWork, counterVars
<1>6. CASE UNCHANGED vars
  BY <1>6, CounterKept DEF vars
<1> QED
  BY <1>1, <1>2, <1>3, <1>4, <1>5, <1>6 DEF Next, Generator

LEMMA CounterInit == Init => CounterInv
<1> SUFFICES ASSUME Init PROVE CounterInv
  OBVIOUS
<1>1. 0 \in 0..(FcModulus - 1)
  BY TmAssumption DEF TmAssumption
<1>2. PhaseInStep
  BY DEF Init, PhaseInStep
<1> QED
  BY <1>1, <1>2 DEF Init, CounterInv

-------------------------------------------------------------------------------
(* The work item *)

WorkInv ==
    /\ running \in BOOLEAN /\ work \in BOOLEAN
    /\ swallowed \in BOOLEAN /\ canceling \in BOOLEAN
    /\ canceling => gen.pc # "idle" /\ ~work

LEMMA WorkKept ==
    ASSUME WorkInv, UNCHANGED << running, work, swallowed, canceling >>,
           gen.pc # "idle" => gen'.pc # "idle"
    PROVE  WorkInv'
BY DEF WorkInv

LEMMA ScheduleIs == WorkInv /\ Schedule => work' \in BOOLEAN /\ (canceling => ~work')
BY Zenon DEF WorkInv, Schedule

LEMMA WorkStep == TmInv /\ WorkInv /\ [Next]_vars => WorkInv'
<1> SUFFICES ASSUME TmInv, WorkInv, [Next]_vars PROVE WorkInv'
  OBVIOUS
<1>0. ASSUME NEW pc, NEW v PROVE GenAt(pc, v).pc = pc
  BY DEF GenAt
<1>1. ASSUME NEW w \in Writers, Add(w) \/ Writer(w) PROVE WorkInv'
  BY <1>1, WorkKept DEF Add, Writer, AddLock, AddWrite, AddTimeout, workVars
<1>2. CASE GenBegin
  <2>1. /\ UNCHANGED << running, swallowed, canceling >> /\ work' = FALSE /\ gen.pc = "idle"
    BY <1>2 DEF GenBegin
  <2> QED
    BY <2>1 DEF WorkInv
<1>3. CASE GenSelect \/ GenLock \/ GenIdleFrame \/ GenCheck
  <2>1. /\ UNCHANGED << running, work, swallowed, canceling >>
        /\ \E pc \in {"build", "select", "idle frame", "fill", "cycled", "reschedule",
                      "returning"}, v \in Nat \cup Vcs \cup {gen.vc, gen.vc + 1} : gen' = GenAt(pc, v)
    BY <1>3, Constants DEF GenSelect, GenLock, GenIdleFrame, GenCheck, workVars
  <2> QED
    BY <1>0, <2>1, WorkKept
<1>4. CASE GenContinue \/ GenStartPacket \/ GenEmit
  <2>1. UNCHANGED << running, work, swallowed, canceling >> /\ gen.pc = "fill"
    BY <1>4 DEF GenContinue, GenStartPacket, GenEmit, workVars
  <2>2. \/ gen' = GenAt("cycled", gen.vc)
        \/ \E d, f : gen' = [gen EXCEPT !.data = d, !.fhp = f]
    BY <1>4 DEF GenContinue, GenStartPacket, GenEmit, Read, GenUnlock
  <2>3. gen \in Handler
    BY DEF TmInv, Typed
  <2>4. gen'.pc # "idle"
    <3>1. CASE gen' = GenAt("cycled", gen.vc)
      BY <1>0, <3>1
    <3>2. ASSUME NEW d, NEW f, gen' = [gen EXCEPT !.data = d, !.fhp = f]
          PROVE  gen'.pc = gen.pc
      BY <2>3, <3>2 DEF Handler
    <3> QED
      BY <2>1, <2>2, <3>1, <3>2
  <2> QED
    BY <2>1, <2>4, WorkKept
<1>5. CASE GenReschedule
  <2>1. UNCHANGED << running, swallowed, canceling >> /\ Schedule /\ gen' = GenAt("returning", 0)
    BY <1>5 DEF GenReschedule
  <2> QED
    BY <1>0, <2>1, ScheduleIs DEF WorkInv
<1>6. CASE GenReturn
  BY <1>6 DEF GenReturn, WorkInv
<1>7. ASSUME NEW c \in Controllers, Start(c) \/ Stop(c) PROVE WorkInv'
  <2>1. UNCHANGED << work, swallowed, canceling, gen >> /\ running' \in {TRUE, FALSE}
    BY <1>7 DEF Start, Stop, Toggle
  <2> QED
    BY <2>1 DEF WorkInv
<1>8. ASSUME NEW c \in Controllers, StartWork(c) PROVE WorkInv'
  BY <1>8, ScheduleIs DEF StartWork, ToggleWork, WorkInv
<1>9. ASSUME NEW c \in Controllers, StopWork(c) PROVE WorkInv'
  BY <1>9 DEF StopWork, ToggleWork, WorkInv
<1>10. CASE UNCHANGED vars
  BY <1>10, WorkKept DEF vars
<1> QED
  BY <1>1, <1>2, <1>3, <1>4, <1>5, <1>6, <1>7, <1>8, <1>9, <1>10
     DEF Next, Generator, Controller

LEMMA WorkInit == Init => WorkInv
BY DEF Init, WorkInv

-------------------------------------------------------------------------------
(* Theorems *)

\* What the frames of a VC have carried is the packets accepted by ccsds_tm_frame_add,
\* byte by byte and in order, as long as the VC has lost nothing: for any number of
\* threads adding at once and wherever build_packet_transfer_frame cuts the packets.
THEOREM TmStreamIsPackets == Spec => []StreamIsPackets
<1>1. TmInv => StreamIsPackets
  BY DEF TmInv, Typed, VcInv, StreamIsPackets
<1> QED
  BY <1>1, TmInvAlways, PTL

\* The first header pointer of a frame routed on a VC that has lost nothing is the
\* offset of the first packet start in it, the start of the idle packet that fills the
\* tail included, or the value that says that no packet starts in it.
THEOREM TmPointerExact == Spec => []PointerExact
<1>1. TmInv => PointerExact
  BY DEF TmInv
<1> QED
  BY <1>1, TmInvAlways, PTL

\* The pipe of a VC is never overrun, its lock is with the one thread that reads or
\* writes it, the frame counters wrap within their width, and the phase of the OCF is
\* in step with the master counter although frames may be given up; the work item is
\* marked as cancelled only while its handler runs, and is then not scheduled.
THEOREM TmGeneratorInv == Spec => []GeneratorInv
<1>1. Spec => []CounterInv
  BY TmInvAlways, CounterInit, CounterStep, PTL DEF Spec
<1>2. Spec => []WorkInv
  BY TmInvAlways, WorkInit, WorkStep, PTL DEF Spec
<1>3. TmInv /\ CounterInv /\ WorkInv /\ limit \in Scenarios => GeneratorInv
  <2> SUFFICES ASSUME TmInv, CounterInv, WorkInv, limit \in Scenarios PROVE GeneratorInv
    OBVIOUS
  <2>1. \A v \in Vcs : Len(pipe[v]) <= QueueDepth /\ rem[v] \in Nat
    BY DEF TmInv, Typed
  <2>2. gen.vc \in Vcs /\ Len(frame.data) <= DataLen /\ clean \subseteq Vcs
    BY DEF TmInv, Typed, Handler
  <2>3. /\ \A v \in Vcs, w \in Writers : lock[v] = w <=> wr[w].pc = "write" /\ wr[w].vc = v
        /\ \A v \in Vcs : lock[v] = "gen" <=> gen.pc = "fill" /\ gen.vc = v
    BY DEF TmInv, LockInv
  <2>4. TypeOK
    BY <2>1, <2>2, <2>3 DEF CounterInv, WorkInv, TypeOK
  <2> QED
    BY <2>4 DEF CounterInv, GeneratorInv
<1> QED
  BY <1>1, <1>2, <1>3, TmInvAlways, LimitAlways, PTL

=================================================================================
