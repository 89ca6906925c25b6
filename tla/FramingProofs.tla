---------------------------- MODULE FramingProofs ----------------------------
(***************************************************************************)
(* Proofs about Framing, for every set of lengths, prefix and chunk size:  *)
(* in whatever chunks the bytes come, the reader never decodes from the    *)
(* middle of a frame, and it returns each message once and in order; so it *)
(* keeps the promises of MessageStream.                                    *)
(***************************************************************************)
EXTENDS Framing, SequenceTheorems, WellFoundedInduction, TLAPS

(***************************************************************************)
(* Bytes, and sequences of them.                                           *)
(***************************************************************************)
FrameLen(b) == PrefixLen + b.len

\* Consecutive frames, the first of which may lack its head and the last its
\* tail.  A byte determines all those up to the end of its frame: unlike what it
\* says of its successor alone, this gives the end of a frame from its head
\* without an induction.
Tiled(s) ==
  /\ s \in Seq(Bytes)
  /\ \A i \in 1 .. Len(s) : s[i].at <= FrameLen(s[i])
  /\ \A i, j \in 1 .. Len(s) : i <= j /\ j - i <= FrameLen(s[i]) - s[i].at =>
       s[j].n = s[i].n /\ s[j].len = s[i].len /\ s[j].at = s[i].at + (j - i)
  /\ \A i \in 1 .. Len(s) : s[i].at = FrameLen(s[i]) /\ i + 1 <= Len(s) =>
       s[i + 1].at = 1 /\ s[i + 1].n = s[i].n + 1

\* concatenation, for sequences of bytes
LEMMA Associates ==
  ASSUME NEW s \in Seq(Bytes), NEW t \in Seq(Bytes), NEW u \in Seq(Bytes)
  PROVE  (s \o t) \o u = s \o (t \o u)
BY ConcatAssociative

LEMMA ByteType ==
  ASSUME NEW b \in Bytes
  PROVE  /\ b.n \in Nat /\ b.n \in 1 .. MaxMessages
         /\ b.len \in Lengths /\ b.len \in Nat
         /\ b.at \in Nat /\ b.at >= 1
         /\ FrameLen(b) \in Nat /\ FrameLen(b) >= 1
<1>1. b.n \in 1 .. MaxMessages /\ b.len \in Lengths /\ b.at \in Nat \ {0}
  BY DEF Bytes
<1>2. b.len \in Nat /\ PrefixLen \in Nat \ {0} /\ MaxMessages \in Nat
  BY <1>1, FramingAssumption
<1> QED
  BY <1>1, <1>2 DEF FrameLen

LEMMA ByteIn ==
  ASSUME NEW s \in Seq(Bytes), NEW i \in 1 .. Len(s)
  PROVE  /\ s[i] \in Bytes
         /\ s[i].n \in Nat /\ s[i].at \in Nat /\ s[i].at >= 1 /\ s[i].len \in Nat
         /\ FrameLen(s[i]) \in Nat
<1>1. s[i] \in Bytes
  BY ElementOfSeq
<1> QED
  BY <1>1, ByteType

\* Any part of consecutive frames is one.
LEMMA TiledPart ==
  ASSUME NEW s, Tiled(s), NEW a \in 0 .. Len(s), NEW b \in a .. Len(s)
  PROVE  /\ Tiled(SubSeq(s, a + 1, b))
         /\ Len(SubSeq(s, a + 1, b)) = b - a
         /\ \A i \in 1 .. b - a : SubSeq(s, a + 1, b)[i] = s[a + i]
<1> DEFINE t == SubSeq(s, a + 1, b)
<1>1. s \in Seq(Bytes) /\ Len(s) \in Nat
  BY LenProperties DEF Tiled
<1>2. \A i \in a + 1 .. b : s[i] \in Bytes
  BY <1>1, ElementOfSeq
<1>3. t \in Seq(Bytes) /\ Len(t) = b - a /\ \A i \in 1 .. b - a : t[i] = s[a + i]
  <2>1. /\ t \in Seq(Bytes)
        /\ Len(t) = IF a + 1 <= b THEN b - (a + 1) + 1 ELSE 0
        /\ \A i \in 1 .. b - (a + 1) + 1 : t[i] = s[(a + 1) + i - 1]
    BY <1>1, <1>2, SubSeqProperties
  <2> QED
    BY <2>1, <1>1
<1> HIDE DEF t
<1>4. \A i \in 1 .. Len(t) : t[i].at <= FrameLen(t[i])
  BY <1>1, <1>3, SMTT(30) DEF Tiled
<1>5. ASSUME NEW i \in 1 .. Len(t), NEW j \in 1 .. Len(t), i <= j,
             j - i <= FrameLen(t[i]) - t[i].at
      PROVE  t[j].n = t[i].n /\ t[j].len = t[i].len /\ t[j].at = t[i].at + (j - i)
  <2>1. /\ a + i \in 1 .. Len(s) /\ a + j \in 1 .. Len(s) /\ a + i <= a + j
        /\ (a + j) - (a + i) = j - i
        /\ t[i] = s[a + i] /\ t[j] = s[a + j]
    <3>1. i \in 1 .. b - a /\ j \in 1 .. b - a /\ a \in Nat /\ b \in Nat
      BY <1>1, <1>3
    <3>2. t[i] = s[a + i] /\ t[j] = s[a + j]
      BY <1>3, <3>1
    <3> QED
      BY <1>1, <1>5, <3>1, <3>2, SMTT(30)
  <2> QED
    BY <1>5, <2>1 DEF Tiled
<1>6. ASSUME NEW i \in 1 .. Len(t), t[i].at = FrameLen(t[i]), i + 1 <= Len(t)
      PROVE  t[i + 1].at = 1 /\ t[i + 1].n = t[i].n + 1
  <2>1. /\ a + i \in 1 .. Len(s) /\ (a + i) + 1 <= Len(s)
        /\ t[i] = s[a + i] /\ t[i + 1] = s[(a + i) + 1]
    BY <1>1, <1>3, <1>6
  <2> QED
    BY <1>6, <2>1 DEF Tiled
<1>7. Tiled(t)
  BY <1>3, <1>4, <1>5, <1>6 DEF Tiled
<1> QED
  BY <1>3, <1>7 DEF t

LEMMA FrameTiled ==
  ASSUME NEW n \in 1 .. MaxMessages, NEW len \in Lengths
  PROVE  /\ Tiled(Frame(n, len))
         /\ Len(Frame(n, len)) = PrefixLen + len
         /\ \A k \in 1 .. PrefixLen + len :
              Frame(n, len)[k] = [n |-> n, len |-> len, at |-> k]
<1> DEFINE f == Frame(n, len)
<1>1. PrefixLen + len \in Nat /\ n \in Nat /\ len \in Nat
  BY FramingAssumption
<1>2. \A k \in 1 .. PrefixLen + len : [n |-> n, len |-> len, at |-> k] \in Bytes
  BY <1>1 DEF Bytes
<1>3. /\ f \in Seq(Bytes)
      /\ Len(f) = PrefixLen + len
      /\ \A k \in 1 .. PrefixLen + len : f[k] = [n |-> n, len |-> len, at |-> k]
  BY <1>1, <1>2 DEF Frame
<1> HIDE DEF f
<1>4. \A k \in 1 .. Len(f) : f[k].at = k /\ f[k].n = n /\ f[k].len = len
                             /\ FrameLen(f[k]) = Len(f)
  BY <1>1, <1>3 DEF FrameLen
<1>5. Tiled(f)
  BY <1>1, <1>3, <1>4 DEF Tiled
<1> QED
  BY <1>3, <1>5 DEF f

\* A frame can follow where one ended.
Follows(n, s) ==
  s # <<>> => /\ s[Len(s)].at = FrameLen(s[Len(s)])
              /\ n = s[Len(s)].n + 1

Extends(t, s, n, len) ==
  /\ Tiled(t)
  /\ Len(t) = Len(s) + PrefixLen + len
  /\ \A i \in 1 .. Len(s) : t[i] = s[i]
  /\ \A k \in 1 .. PrefixLen + len : t[Len(s) + k] = [n |-> n, len |-> len, at |-> k]

LEMMA TiledConcat ==
  ASSUME NEW s, Tiled(s), NEW n \in 1 .. MaxMessages, NEW len \in Lengths,
         Follows(n, s)
  PROVE  Extends(s \o Frame(n, len), s, n, len)
<1> DEFINE f == Frame(n, len)
           t == s \o f
           size == PrefixLen + len
<1> USE DEF Follows
<1>1. /\ s \in Seq(Bytes) /\ Len(s) \in Nat
      /\ f \in Seq(Bytes) /\ Tiled(f) /\ Len(f) = size
      /\ \A k \in 1 .. size : f[k] = [n |-> n, len |-> len, at |-> k]
  BY FrameTiled, LenProperties DEF Tiled
<1>2. size \in Nat /\ size >= 1 /\ n \in Nat
  BY FramingAssumption
<1> HIDE DEF f, size
<1>3. /\ t \in Seq(Bytes) /\ Len(t) = Len(s) + size
      /\ \A i \in 1 .. Len(s) + size :
           t[i] = IF i <= Len(s) THEN s[i] ELSE f[i - Len(s)]
  BY <1>1, ConcatProperties
<1> HIDE DEF t
<1>10. \A i \in 1 .. Len(s) : t[i] = s[i]
  BY <1>1, <1>2, <1>3
<1>11. ASSUME NEW i \in Len(s) + 1 .. Len(t)
       PROVE  /\ i - Len(s) \in 1 .. size
              /\ t[i] = [n |-> n, len |-> len, at |-> i - Len(s)]
  <2>1. i \in 1 .. Len(s) + size /\ ~ (i <= Len(s)) /\ i - Len(s) \in 1 .. size
    BY <1>1, <1>2, <1>3
  <2> QED
    BY <1>1, <1>3, <2>1
<1>12. ASSUME NEW k \in 1 .. size
       PROVE  t[Len(s) + k] = [n |-> n, len |-> len, at |-> k]
  <2>1. Len(s) + k \in Len(s) + 1 .. Len(t) /\ (Len(s) + k) - Len(s) = k
    BY <1>1, <1>2, <1>3
  <2> QED
    BY <1>11, <2>1
<1>13. ASSUME NEW i \in Len(s) + 1 .. Len(t)
       PROVE  /\ t[i].n = n /\ t[i].len = len /\ t[i].at = i - Len(s)
              /\ FrameLen(t[i]) = size
  <2>0. t[i] = [n |-> n, len |-> len, at |-> i - Len(s)]
    BY <1>11
  <2>1. t[i].n = n /\ t[i].len = len /\ t[i].at = i - Len(s)
    BY <2>0
  <2> QED
    BY <2>1 DEF FrameLen, size
<1>6. ASSUME NEW i \in 1 .. Len(t) PROVE t[i].at <= FrameLen(t[i])
  <2>1. CASE i \in 1 .. Len(s)
    BY <1>10, <2>1 DEF Tiled
  <2>2. CASE i \in Len(s) + 1 .. Len(t)
    <3>1. i - Len(s) \in 1 .. size
      BY <1>11, <2>2
    <3>2. t[i].at = i - Len(s) /\ FrameLen(t[i]) = size
      BY <1>13, <2>2
    <3> QED
      BY <1>1, <1>2, <3>1, <3>2
  <2> QED
    BY <1>1, <1>2, <1>3, <2>1, <2>2
<1>7. ASSUME NEW i \in 1 .. Len(t), NEW j \in 1 .. Len(t), i <= j,
             j - i <= FrameLen(t[i]) - t[i].at
      PROVE  t[j].n = t[i].n /\ t[j].len = t[i].len /\ t[j].at = t[i].at + (j - i)
  <2>1. CASE j <= Len(s)
    <3>1. i \in 1 .. Len(s) /\ j \in 1 .. Len(s) /\ t[i] = s[i] /\ t[j] = s[j]
      BY <1>1, <1>3, <1>7, <1>10, <2>1
    <3> QED
      BY <1>7, <3>1 DEF Tiled
  <2>2. CASE i > Len(s)
    <3>1. i \in Len(s) + 1 .. Len(t) /\ j \in Len(s) + 1 .. Len(t)
      BY <1>1, <1>3, <1>7, <2>2
    <3>2. /\ t[i].n = n /\ t[i].len = len /\ t[i].at = i - Len(s)
          /\ t[j].n = n /\ t[j].len = len /\ t[j].at = j - Len(s)
      BY <1>13, <3>1
    <3> QED
      BY <1>1, <1>3, <3>2
  <2>3. CASE i <= Len(s) /\ j > Len(s)
    <3>1. i \in 1 .. Len(s) /\ Len(s) \in 1 .. Len(s) /\ s # <<>> /\ t[i] = s[i]
      BY <1>1, <1>10, <2>3
    <3>2. /\ s[i].at \in Nat /\ FrameLen(s[i]) \in Nat
          /\ s[i].at <= FrameLen(s[i])
      BY <1>1, <3>1, ByteIn DEF Tiled
    <3>3. Len(s) - i <= FrameLen(s[i]) - s[i].at
      BY <1>1, <1>3, <1>7, <2>3, <3>1, <3>2, SMTT(30)
    <3>4. /\ s[Len(s)].len = s[i].len
          /\ s[Len(s)].at = s[i].at + (Len(s) - i)
      BY <3>1, <3>3 DEF Tiled
    <3>5. FrameLen(s[i]) = s[i].at + (Len(s) - i)
      BY <3>1, <3>4 DEF FrameLen
    <3> QED
      BY <1>1, <1>3, <1>7, <2>3, <3>1, <3>2, <3>5, SMTT(30)
  <2> QED
    BY <1>1, <1>3, <2>1, <2>2, <2>3
<1>8. ASSUME NEW i \in 1 .. Len(t), t[i].at = FrameLen(t[i]), i + 1 <= Len(t)
      PROVE  t[i + 1].at = 1 /\ t[i + 1].n = t[i].n + 1
  <2>1. CASE i < Len(s)
    <3>1. i \in 1 .. Len(s) /\ i + 1 \in 1 .. Len(s)
      BY <1>1, <2>1
    <3>2. t[i] = s[i] /\ t[i + 1] = s[i + 1]
      BY <1>10, <3>1
    <3> QED
      BY <1>8, <3>1, <3>2 DEF Tiled
  <2>2. CASE i = Len(s)
    <3>1. s # <<>> /\ t[i] = s[Len(s)] /\ i + 1 \in Len(s) + 1 .. Len(t)
      BY <1>1, <1>3, <1>8, <1>10, <2>2
    <3>2. t[i + 1].n = n /\ t[i + 1].at = (Len(s) + 1) - Len(s)
      BY <1>13, <2>2, <3>1
    <3> QED
      BY <1>1, <2>2, <3>1, <3>2
  <2>3. CASE i > Len(s)
    <3>1. i \in Len(s) + 1 .. Len(t)
      BY <1>1, <2>3
    <3>2. i - Len(s) = size
      BY <1>8, <1>13, <3>1
    <3> QED
      BY <1>1, <1>2, <1>3, <1>8, <2>3, <3>2
  <2> QED
    BY <1>1, <1>3, <2>1, <2>2, <2>3
<1>9. Tiled(t)
  BY <1>3, <1>6, <1>7, <1>8 DEF Tiled
<1> QED
  BY <1>1, <1>3, <1>9, <1>10, <1>12, FramingAssumption DEF t, f, size, Extends

\* Where the frame that begins the sequence ends, the next one begins.
LEMMA FirstFrameEnds ==
  ASSUME NEW s, Tiled(s), s # <<>>, s[1].at = 1, Len(s) >= FrameLen(s[1])
  PROVE  /\ FrameLen(s[1]) \in 1 .. Len(s)
         /\ s[FrameLen(s[1])].n = s[1].n
         /\ s[FrameLen(s[1])].at = FrameLen(s[FrameLen(s[1])])
         /\ FrameLen(s[1]) + 1 <= Len(s) =>
              /\ s[FrameLen(s[1]) + 1].at = 1
              /\ s[FrameLen(s[1]) + 1].n = s[1].n + 1
<1> DEFINE e == FrameLen(s[1])
<1>1. s \in Seq(Bytes) /\ Len(s) \in Nat /\ 1 \in 1 .. Len(s)
  BY LenProperties, EmptySeq DEF Tiled
<1>2. e \in Nat /\ e >= 1
  BY <1>1, ElementOfSeq, ByteType
<1>3. e \in 1 .. Len(s)
  BY <1>1, <1>2
<1>4. s[e].n = s[1].n /\ s[e].len = s[1].len /\ s[e].at = 1 + (e - 1)
  <2> HIDE DEF e
  <2>1. 1 <= e /\ e - 1 <= e - s[1].at
    BY <1>2
  <2> QED
    BY <1>1, <1>3, <2>1 DEF Tiled, e
<1>5. s[e].at = FrameLen(s[e])
  BY <1>2, <1>4 DEF FrameLen
<1> QED
  BY <1>3, <1>4, <1>5 DEF Tiled
-----------------------------------------------------------------------------
(***************************************************************************)
(* What is pending: the buffer, and what is on the wire.                   *)
(***************************************************************************)
Arriving == Tiled(Pending)

FramesInv ==
  /\ sent \in 0 .. MaxMessages /\ finished \in BOOLEAN /\ lost \in BOOLEAN
  /\ reader \in {"connect", "task", "ended", "failed"}
  /\ buf \in Seq(Bytes) /\ wire \in Seq(Bytes)
  /\ Arriving
  /\ Pending # <<>> =>
       /\ Pending[1].at = 1 /\ Pending[1].n = Len(received) + 1
       /\ ~ lost => /\ Pending[Len(Pending)].at = FrameLen(Pending[Len(Pending)])
                    /\ Pending[Len(Pending)].n = sent
  /\ Pending = <<>> /\ ~ lost => Len(received) = sent
  /\ received \in Seq([n : Nat, len : Nat])
  /\ \A i \in 1 .. Len(received) : received[i].n = i

LEMMA PendingType ==
  ASSUME FramesInv
  PROVE  /\ Pending \in Seq(Bytes)
         /\ Len(buf) \in Nat /\ Len(wire) \in Nat /\ Len(Pending) = Len(buf) + Len(wire)
         /\ \A i \in 1 .. Len(buf) : Pending[i] = buf[i]
         /\ \A i \in 1 .. Len(wire) : Pending[Len(buf) + i] = wire[i]
<1>1. buf \in Seq(Bytes) /\ wire \in Seq(Bytes)
  BY DEF FramesInv
<1>2. Len(buf) \in Nat /\ Len(wire) \in Nat
  BY <1>1, LenProperties
<1>3. /\ Pending \in Seq(Bytes)
      /\ Len(Pending) = Len(buf) + Len(wire)
      /\ \A i \in 1 .. Len(buf) + Len(wire) :
           Pending[i] = IF i <= Len(buf) THEN buf[i] ELSE wire[i - Len(buf)]
  BY <1>1, ConcatProperties DEF Pending
<1> QED
  BY <1>2, <1>3

\* taking bytes off the front of one sequence of bytes, and off the end
LEMMA Parts ==
  ASSUME NEW s \in Seq(Bytes), NEW k \in 0 .. Len(s)
  PROVE  /\ SubSeq(s, 1, k) \in Seq(Bytes) /\ SubSeq(s, k + 1, Len(s)) \in Seq(Bytes)
         /\ Len(SubSeq(s, 1, k)) = k /\ Len(SubSeq(s, k + 1, Len(s))) = Len(s) - k
         /\ \A i \in 1 .. k : SubSeq(s, 1, k)[i] = s[i]
         /\ \A i \in 1 .. Len(s) - k : SubSeq(s, k + 1, Len(s))[i] = s[k + i]
<1>1. Len(s) \in Nat /\ \A i \in 1 .. Len(s) : s[i] \in Bytes
  BY LenProperties, ElementOfSeq
<1>2. /\ SubSeq(s, 1, k) \in Seq(Bytes)
      /\ Len(SubSeq(s, 1, k)) = IF 1 <= k THEN k - 1 + 1 ELSE 0
      /\ \A i \in 1 .. k - 1 + 1 : SubSeq(s, 1, k)[i] = s[1 + i - 1]
  <2>1. \A i \in 1 .. k : s[i] \in Bytes
    BY <1>1
  <2> QED
    BY <1>1, <2>1, SubSeqProperties
<1>3. /\ SubSeq(s, k + 1, Len(s)) \in Seq(Bytes)
      /\ Len(SubSeq(s, k + 1, Len(s))) =
           IF k + 1 <= Len(s) THEN Len(s) - (k + 1) + 1 ELSE 0
      /\ \A i \in 1 .. Len(s) - (k + 1) + 1 :
           SubSeq(s, k + 1, Len(s))[i] = s[(k + 1) + i - 1]
  <2>1. \A i \in k + 1 .. Len(s) : s[i] \in Bytes
    BY <1>1
  <2> QED
    BY <1>1, <2>1, SubSeqProperties
<1> QED
  BY <1>1, <1>2, <1>3

\* reading a chunk moves bytes from the wire to the buffer
LEMMA ReadingKeepsPending ==
  ASSUME FramesInv, ReadChunk
  PROVE  Pending' = Pending /\ buf' \in Seq(Bytes) /\ wire' \in Seq(Bytes)
<1>1. buf \in Seq(Bytes) /\ wire \in Seq(Bytes) /\ Len(wire) \in Nat
  BY LenProperties DEF FramesInv
<1>2. PICK k \in 1 .. ChunkLen :
        /\ k <= Len(wire)
        /\ buf' = buf \o SubSeq(wire, 1, k)
        /\ wire' = SubSeq(wire, k + 1, Len(wire))
  BY DEF ReadChunk
<1>3. k \in 0 .. Len(wire)
  BY <1>1, <1>2, FramingAssumption
<1>4. SubSeq(wire, 1, k) \in Seq(Bytes) /\ wire' \in Seq(Bytes)
  BY <1>1, <1>2, <1>3, Parts
<1>5. SubSeq(wire, 1, k) \o SubSeq(wire, k + 1, Len(wire)) = wire
  <2>1. /\ 1 \in 1 .. Len(wire) + 1 /\ k \in 1 - 1 .. Len(wire)
        /\ Len(wire) \in k .. Len(wire)
    BY <1>1, <1>3
  <2>2. SubSeq(wire, 1, k) \o SubSeq(wire, k + 1, Len(wire)) = SubSeq(wire, 1, Len(wire))
    BY <1>1, <2>1, ConcatAdjacentSubSeq
  <2> QED
    BY <1>1, <2>2, SubSeqFull
<1>6. (buf \o SubSeq(wire, 1, k)) \o wire' = buf \o (SubSeq(wire, 1, k) \o wire')
  BY <1>1, <1>4, ConcatAssociative
<1>7. buf' \in Seq(Bytes)
  BY <1>1, <1>2, <1>4, ConcatProperties
<1> QED
  BY <1>2, <1>4, <1>5, <1>6, <1>7 DEF Pending

\* a loss keeps the buffer and the beginning of what is on the wire
LEMMA LossCutsPending ==
  ASSUME FramesInv, NEW k \in 0 .. Len(wire), wire' = SubSeq(wire, 1, k), buf' = buf
  PROVE  /\ wire' \in Seq(Bytes)
         /\ Len(buf) + k \in 0 .. Len(Pending)
         /\ Pending' = SubSeq(Pending, 1, Len(buf) + k)
<1> DEFINE m == Len(buf) + k
<1>1. buf \in Seq(Bytes) /\ wire \in Seq(Bytes)
  BY DEF FramesInv
<1>2. /\ wire' \in Seq(Bytes) /\ Len(wire') = k
      /\ \A i \in 1 .. k : wire'[i] = wire[i]
  BY <1>1, Parts
<1>3. Len(buf) \in Nat /\ Len(wire) \in Nat /\ k \in Nat
  BY PendingType
<1>4. m \in 0 .. Len(Pending)
  BY <1>3, PendingType
<1>5. /\ Pending' \in Seq(Bytes) /\ Len(Pending') = m
      /\ \A i \in 1 .. m :
           Pending'[i] = IF i <= Len(buf) THEN buf[i] ELSE wire'[i - Len(buf)]
  BY <1>1, <1>2, ConcatProperties DEF Pending
<1>6. /\ SubSeq(Pending, 1, m) \in Seq(Bytes) /\ Len(SubSeq(Pending, 1, m)) = m
      /\ \A i \in 1 .. m : SubSeq(Pending, 1, m)[i] = Pending[i]
  BY <1>4, PendingType, Parts
<1>7. ASSUME NEW i \in 1 .. m
      PROVE  Pending'[i] = Pending[i]
  <2>1. CASE i <= Len(buf)
    <3>1. i \in 1 .. Len(buf)
      BY <1>3, <2>1
    <3> QED
      BY <1>5, <2>1, <3>1, PendingType
  <2>2. CASE ~ (i <= Len(buf))
    <3>1. /\ i - Len(buf) \in 1 .. k /\ i - Len(buf) \in 1 .. Len(wire)
          /\ Len(buf) + (i - Len(buf)) = i
      BY <1>3, <2>2
    <3>2. Pending'[i] = wire[i - Len(buf)]
      BY <1>2, <1>5, <2>2, <3>1
    <3>3. Pending[Len(buf) + (i - Len(buf))] = wire[i - Len(buf)]
      BY <3>1, PendingType
    <3> QED
      BY <3>1, <3>2, <3>3
  <2> QED
    BY <2>1, <2>2
<1>8. Pending' = SubSeq(Pending, 1, m)
  <2> HIDE DEF m
  <2>1. \A i \in 1 .. Len(Pending') : Pending'[i] = SubSeq(Pending, 1, m)[i]
    BY <1>5, <1>6, <1>7
  <2> QED
    BY <1>5, <1>6, <2>1, SeqEqual
<1> QED
  BY <1>2, <1>4, <1>8

LEMMA PastTheBuffer ==
  ASSUME NEW b \in Nat, NEW w \in Nat, NEW m \in Nat, m <= b,
         NEW i \in Nat, i <= (b - m) + w, ~ (i <= b - m)
  PROVE  i - (b - m) \in 1 .. w /\ b + (i - (b - m)) = m + i
OBVIOUS

\* drain(..m): the rest of the buffer, and all of the wire
LEMMA DrainCutsPending ==
  ASSUME FramesInv, NEW m \in 0 .. Len(buf),
         buf' = SubSeq(buf, m + 1, Len(buf)), wire' = wire
  PROVE  /\ buf' \in Seq(Bytes)
         /\ Pending' = SubSeq(Pending, m + 1, Len(Pending))
<1>1. buf \in Seq(Bytes) /\ wire \in Seq(Bytes)
  BY DEF FramesInv
<1>2. /\ buf' \in Seq(Bytes) /\ Len(buf') = Len(buf) - m
      /\ \A i \in 1 .. Len(buf) - m : buf'[i] = buf[m + i]
  BY <1>1, Parts
<1>3. Len(buf) \in Nat /\ Len(wire) \in Nat /\ m \in Nat /\ m <= Len(buf)
  BY PendingType
<1>4. m \in 0 .. Len(Pending)
  BY <1>3, PendingType
<1> DEFINE l == Len(Pending) - m
<1>5. /\ Pending' \in Seq(Bytes) /\ Len(Pending') = l
      /\ \A i \in 1 .. l :
           Pending'[i] = IF i <= Len(buf') THEN buf'[i] ELSE wire[i - Len(buf')]
  <2>1. /\ Pending' \in Seq(Bytes) /\ Len(Pending') = Len(buf') + Len(wire)
        /\ \A i \in 1 .. Len(buf') + Len(wire) :
             Pending'[i] = IF i <= Len(buf') THEN buf'[i] ELSE wire[i - Len(buf')]
    BY <1>1, <1>2, ConcatProperties DEF Pending
  <2>2. Len(buf') = Len(buf) - m /\ Len(Pending) = Len(buf) + Len(wire)
    BY <1>2, PendingType
  <2>3. Len(buf') + Len(wire) = l
    BY <1>3, <2>2
  <2> QED
    BY <2>1, <2>3
<1>6. /\ SubSeq(Pending, m + 1, Len(Pending)) \in Seq(Bytes)
      /\ Len(SubSeq(Pending, m + 1, Len(Pending))) = l
      /\ \A i \in 1 .. l : SubSeq(Pending, m + 1, Len(Pending))[i] = Pending[m + i]
  BY <1>4, PendingType, Parts
<1>7. l = (Len(buf) - m) + Len(wire) /\ l \in Nat
  BY <1>3, PendingType
<1> HIDE DEF l
<1>8. ASSUME NEW i \in 1 .. l
      PROVE  Pending'[i] = Pending[m + i]
  <2>1. CASE i <= Len(buf')
    <3>1. i \in 1 .. Len(buf) - m /\ m + i \in 1 .. Len(buf)
      BY <1>2, <1>3, <1>7, <2>1
    <3>2. Pending'[i] = buf[m + i]
      BY <1>2, <1>5, <2>1, <3>1
    <3> QED
      BY <3>1, <3>2, PendingType
  <2>2. CASE ~ (i <= Len(buf'))
    <3>1. /\ i - Len(buf') \in 1 .. Len(wire)
          /\ Len(buf) + (i - Len(buf')) = m + i
      <4>1. Len(buf') = Len(buf) - m
        BY <1>2
      <4>2. i \in Nat /\ i <= l
        BY <1>3, <1>7
      <4>3. ~ (i <= Len(buf) - m) /\ i <= (Len(buf) - m) + Len(wire)
        BY <1>7, <2>2, <4>1, <4>2
      <4>4. /\ i - (Len(buf) - m) \in 1 .. Len(wire)
            /\ Len(buf) + (i - (Len(buf) - m)) = m + i
        BY <1>3, <4>2, <4>3, PastTheBuffer
      <4> QED
        BY <4>1, <4>4
    <3>2. Pending'[i] = wire[i - Len(buf')]
      BY <1>5, <2>2
    <3>3. Pending[Len(buf) + (i - Len(buf'))] = wire[i - Len(buf')]
      BY <3>1, PendingType
    <3> QED
      BY <3>1, <3>2, <3>3
  <2> QED
    BY <2>1, <2>2
<1>9. Pending' = SubSeq(Pending, m + 1, Len(Pending))
  <2>1. \A i \in 1 .. Len(Pending') :
          Pending'[i] = SubSeq(Pending, m + 1, Len(Pending))[i]
    BY <1>5, <1>6, <1>8
  <2> QED
    BY <1>5, <1>6, <2>1, SeqEqual
<1> QED
  BY <1>2, <1>9
-----------------------------------------------------------------------------
(***************************************************************************)
(* The invariant.                                                          *)
(***************************************************************************)
Deliveries == Seq([n : Nat, len : Nat])

LEMMA FramesInit == Init => FramesInv
<1> SUFFICES ASSUME Init PROVE FramesInv
  OBVIOUS
<1>1. /\ buf = <<>> /\ wire = <<>> /\ received = <<>> /\ sent = 0
      /\ finished = FALSE /\ lost = FALSE /\ reader = "connect"
  BY DEF Init
<1>2. <<>> \in Seq(Bytes) /\ Len(<<>>) = 0 /\ <<>> \in Seq([n : Nat, len : Nat])
  BY EmptySeq
<1>3. Pending = <<>>
  BY <1>1, <1>2, ConcatEmptySeq DEF Pending
<1>4. Tiled(<<>>)
  BY <1>2 DEF Tiled
<1>5. 0 \in 0 .. MaxMessages /\ \A i \in 1 .. 0 : FALSE
  BY FramingAssumption
<1>6. Arriving /\ Len(received) = sent /\ \A i \in 1 .. Len(received) : received[i].n = i
  BY <1>1, <1>2, <1>3, <1>4, <1>5 DEF Arriving
<1>7. received \in Seq([n : Nat, len : Nat]) /\ buf \in Seq(Bytes) /\ wire \in Seq(Bytes)
  BY <1>1, <1>2
<1> QED
  BY <1>1, <1>3, <1>5, <1>6, <1>7 DEF FramesInv

LEMMA SendKeepsFrames ==
  ASSUME FramesInv, SendMessage
  PROVE  FramesInv'
<1>1. PICK len \in Lengths : wire' = wire \o Frame(sent + 1, len)
  BY DEF SendMessage
<1>2. /\ ~ lost /\ lost' = lost /\ sent' = sent + 1
      /\ sent \in Nat /\ sent' \in 1 .. MaxMessages
      /\ UNCHANGED <<finished, buf, received, reader>>
  BY FramingAssumption DEF FramesInv, SendMessage
<1> DEFINE f == Frame(sent + 1, len)
           size == PrefixLen + len
<1>3. f \in Seq(Bytes) /\ size \in Nat /\ size >= 1
  BY <1>2, FrameTiled, FramingAssumption DEF Tiled
<1>4. buf \in Seq(Bytes) /\ wire \in Seq(Bytes) /\ Tiled(Pending)
  BY DEF FramesInv, Arriving
<1>5. Pending' = Pending \o f /\ wire' \in Seq(Bytes)
  <2>1. wire' = wire \o f /\ buf' = buf
    BY <1>1, <1>2
  <2> HIDE DEF f
  <2>2. wire \o f \in Seq(Bytes)
    BY <1>3, <1>4, ConcatProperties, Zenon
  <2>3. f \in Seq(Bytes) /\ buf \in Seq(Bytes) /\ wire \in Seq(Bytes)
    BY <1>3, <1>4
  <2>4. (buf \o wire) \o f = buf \o (wire \o f)
    BY ONLY <2>3, Associates
  <2> QED
    BY <2>1, <2>2, <2>4 DEF Pending
<1>6. Follows(sent + 1, Pending)
  BY <1>2 DEF FramesInv, Follows
<1>7. /\ Tiled(Pending') /\ Len(Pending') = Len(Pending) + PrefixLen + len
      /\ \A i \in 1 .. Len(Pending) : Pending'[i] = Pending[i]
      /\ \A k \in 1 .. PrefixLen + len :
           Pending'[Len(Pending) + k] = [n |-> sent + 1, len |-> len, at |-> k]
  <2>1. sent + 1 \in 1 .. MaxMessages
    BY <1>2
  <2>2. Extends(Pending \o Frame(sent + 1, len), Pending, sent + 1, len)
    BY <1>4, <1>6, <2>1, TiledConcat
  <2>3. Pending' = Pending \o Frame(sent + 1, len)
    BY <1>5
  <2> QED
    BY <2>2, <2>3 DEF Extends
<1>8. Len(Pending) \in Nat /\ Pending \in Seq(Bytes)
  BY PendingType
<1>9. Pending'[1].at = 1 /\ Pending'[1].n = Len(received') + 1
  <2>1. CASE Pending # <<>>
    <3>1. 1 \in 1 .. Len(Pending)
      BY <1>8, <2>1, EmptySeq
    <3> QED
      BY <1>2, <1>7, <2>1, <3>1 DEF FramesInv
  <2>2. CASE Pending = <<>>
    <3>1. Len(Pending) = 0 /\ 1 \in 1 .. PrefixLen + len /\ 0 + 1 = 1
      BY <1>3, <2>2
    <3>2. Pending'[1] = [n |-> sent + 1, len |-> len, at |-> 1]
      BY <1>7, <3>1
    <3>3. Len(received) = sent
      BY <1>2, <2>2 DEF FramesInv
    <3> QED
      BY <1>2, <3>2, <3>3
  <2> QED
    BY <2>1, <2>2
<1>10. /\ Pending'[Len(Pending')].at = FrameLen(Pending'[Len(Pending')])
       /\ Pending'[Len(Pending')].n = sent'
  <2>1. Len(Pending') = Len(Pending) + size /\ size \in 1 .. PrefixLen + len
    BY <1>3, <1>7, <1>8, FramingAssumption
  <2>2. Pending'[Len(Pending')] = [n |-> sent + 1, len |-> len, at |-> size]
    BY <1>7, <2>1
  <2> QED
    BY <1>2, <2>2 DEF FrameLen
<1>11. Pending' # <<>>
  BY <1>3, <1>7, <1>8, FramingAssumption
<1> QED
  BY <1>2, <1>4, <1>5, <1>7, <1>9, <1>10, <1>11 DEF FramesInv, Arriving

LEMMA LossKeepsFrames ==
  ASSUME FramesInv, LoseConnection
  PROVE  FramesInv'
<1>1. PICK k \in 0 .. Len(wire) :
        /\ wire' = SubSeq(wire, 1, k)
        /\ finished' \in {FALSE, finished /\ k = Len(wire)}
  BY DEF LoseConnection
<1>2. /\ lost' = TRUE /\ finished' \in BOOLEAN
      /\ UNCHANGED <<sent, buf, received, reader>>
  BY <1>1 DEF LoseConnection
<1> DEFINE m == Len(buf) + k
<1>3. /\ wire' \in Seq(Bytes) /\ m \in 0 .. Len(Pending)
      /\ Pending' = SubSeq(Pending, 1, m)
  BY <1>1, <1>2, LossCutsPending
<1> HIDE DEF m
<1>4. Len(Pending) \in Nat /\ 0 \in 0 .. Len(Pending) /\ m \in Nat /\ 0 + 1 = 1 /\ m - 0 = m
  BY <1>3, PendingType
<1>5. /\ Tiled(Pending') /\ Len(Pending') = m
      /\ \A i \in 1 .. m : Pending'[i] = Pending[0 + i]
  <2>1. Tiled(Pending) /\ m \in 0 .. Len(Pending)
    BY <1>3 DEF FramesInv, Arriving
  <2>2. /\ Tiled(SubSeq(Pending, 0 + 1, m))
        /\ Len(SubSeq(Pending, 0 + 1, m)) = m - 0
        /\ \A i \in 1 .. m - 0 : SubSeq(Pending, 0 + 1, m)[i] = Pending[0 + i]
    BY <1>4, <2>1, TiledPart
  <2> QED
    BY <1>3, <1>4, <2>2
<1>6. Pending' # <<>> => /\ Pending'[1].at = 1
                         /\ Pending'[1].n = Len(received') + 1
  <2> SUFFICES ASSUME Pending' # <<>>
               PROVE  Pending'[1].at = 1 /\ Pending'[1].n = Len(received') + 1
    OBVIOUS
  <2>1. Pending' \in Seq(Bytes)
    BY <1>5 DEF Tiled
  <2>2. 1 \in 1 .. m /\ 0 + 1 = 1
    BY <1>4, <1>5, <2>1, EmptySeq
  <2>3. Pending # <<>>
    BY <1>3, <2>2, EmptySeq, PendingType
  <2>4. Pending'[1] = Pending[1]
    BY <1>5, <2>2
  <2> QED
    BY <1>2, <2>3, <2>4 DEF FramesInv
<1> QED
  BY <1>2, <1>3, <1>5, <1>6 DEF FramesInv, Arriving

LEMMA ReturnKeepsFrames ==
  ASSUME FramesInv, ReturnMessage
  PROVE  FramesInv'
<1> DEFINE m == PrefixLen + Declared
<1>1. /\ Len(buf) >= PrefixLen /\ Len(buf) >= m
      /\ received' = Append(received, [n |-> buf[1].n, len |-> Declared])
      /\ buf' = SubSeq(buf, m + 1, Len(buf))
      /\ reader' = "task"
      /\ UNCHANGED <<sent, finished, wire, lost>>
  BY DEF ReturnMessage, Decodes, writerVars
<1>2. buf \in Seq(Bytes) /\ Len(buf) \in Nat /\ 1 \in 1 .. Len(buf)
  BY <1>1, PendingType, FramingAssumption DEF FramesInv
<1>3. buf[1] \in Bytes /\ Pending[1] = buf[1]
  BY <1>2, ElementOfSeq, PendingType
<1>4. buf[1].n \in Nat /\ Declared \in Nat /\ m \in Nat /\ m >= 1
  BY <1>3, ByteType, FramingAssumption DEF Declared
<1>5. m = FrameLen(Pending[1]) /\ m \in 0 .. Len(buf)
  BY <1>1, <1>2, <1>3, <1>4 DEF FrameLen, Declared
<1> HIDE DEF m
<1>6. buf' \in Seq(Bytes) /\ Pending' = SubSeq(Pending, m + 1, Len(Pending))
  BY <1>1, <1>5, DrainCutsPending
<1>7. /\ Pending \in Seq(Bytes) /\ Len(Pending) \in Nat /\ m <= Len(Pending)
      /\ Pending # <<>> /\ Tiled(Pending)
  <2>1. Len(Pending) \in Nat /\ m <= Len(Pending) /\ Pending \in Seq(Bytes)
    BY <1>2, <1>5, PendingType
  <2> QED
    BY <1>4, <2>1 DEF FramesInv, Arriving
<1>8. Pending[1].at = 1 /\ Pending[1].n = Len(received) + 1
  BY <1>7 DEF FramesInv
<1>9. /\ Pending[m].n = Pending[1].n
      /\ m + 1 <= Len(Pending) =>
           Pending[m + 1].at = 1 /\ Pending[m + 1].n = Pending[1].n + 1
  BY <1>5, <1>7, <1>8, FirstFrameEnds
<1>10. /\ Tiled(Pending') /\ Len(Pending') = Len(Pending) - m
       /\ \A i \in 1 .. Len(Pending) - m : Pending'[i] = Pending[m + i]
  <2>1. m \in 0 .. Len(Pending) /\ Len(Pending) \in m .. Len(Pending)
    BY <1>4, <1>7
  <2> QED
    BY <1>6, <1>7, <2>1, TiledPart
<1>11. /\ received \in Deliveries /\ Len(received) \in Nat
       /\ received' \in Deliveries
       /\ Len(received') = Len(received) + 1
       /\ \A i \in 1 .. Len(received) : received'[i] = received[i]
       /\ received'[Len(received) + 1] = [n |-> buf[1].n, len |-> Declared]
  <2>1. received \in Deliveries
    BY DEF FramesInv, Deliveries
  <2>2. [n |-> buf[1].n, len |-> Declared] \in [n : Nat, len : Nat]
    BY <1>4
  <2> QED
    BY <1>1, <2>1, <2>2, AppendProperties, LenProperties DEF Deliveries
<1>12. \A i \in 1 .. Len(received') : received'[i].n = i
  <2>1. \A i \in 1 .. Len(received) : received'[i].n = i
    BY <1>11 DEF FramesInv
  <2>2. received'[Len(received) + 1].n = Len(received) + 1
    BY <1>3, <1>8, <1>11
  <2> QED
    BY <1>11, <2>1, <2>2
<1>13. ASSUME Pending' # <<>>
       PROVE  /\ Pending'[1].at = 1 /\ Pending'[1].n = Len(received') + 1
              /\ ~ lost' => /\ Pending'[Len(Pending')].at = FrameLen(Pending'[Len(Pending')])
                            /\ Pending'[Len(Pending')].n = sent'
  <2>1. Pending' \in Seq(Bytes)
    BY <1>10 DEF Tiled
  <2>2. Len(Pending') \in Nat \ {0}
    BY <1>13, <2>1, EmptySeq
  <2>3. /\ m + 1 <= Len(Pending) /\ 1 \in 1 .. Len(Pending) - m
        /\ Len(Pending') \in 1 .. Len(Pending) - m /\ m + Len(Pending') = Len(Pending)
    BY <1>4, <1>7, <1>10, <2>2
  <2>4. Pending'[1] = Pending[m + 1]
    BY <1>10, <2>3
  <2>5. Pending'[Len(Pending')] = Pending[Len(Pending)]
    BY <1>10, <2>3
  <2>6. Pending'[1].at = 1 /\ Pending'[1].n = Len(received') + 1
    BY <1>8, <1>9, <1>11, <2>3, <2>4
  <2> QED
    BY <1>1, <1>7, <2>5, <2>6 DEF FramesInv
<1>14. ASSUME Pending' = <<>>, ~ lost'
       PROVE  Len(received') = sent'
  <2>1. Len(Pending) = m
    BY <1>4, <1>7, <1>10, <1>14
  <2>2. Pending[Len(Pending)].n = sent
    BY <1>1, <1>7, <1>14 DEF FramesInv
  <2> QED
    BY <1>1, <1>8, <1>9, <1>11, <2>1, <2>2
<1>15. /\ sent' \in 0 .. MaxMessages /\ finished' \in BOOLEAN /\ lost' \in BOOLEAN
       /\ reader' \in {"connect", "task", "ended", "failed"}
       /\ wire' \in Seq(Bytes)
  BY <1>1 DEF FramesInv
<1> QED
  BY <1>6, <1>10, <1>11, <1>12, <1>13, <1>14, <1>15 DEF FramesInv, Arriving, Deliveries

LEMMA FramesStep == FramesInv /\ [Next]_vars => FramesInv'
<1> SUFFICES ASSUME FramesInv, [Next]_vars PROVE FramesInv'
  OBVIOUS
<1>1. CASE SendMessage
  BY <1>1, SendKeepsFrames
<1>2. CASE LoseConnection
  BY <1>2, LossKeepsFrames
<1>3. CASE ReturnMessage
  BY <1>3, ReturnKeepsFrames
<1>4. CASE ReadChunk
  <2>1. UNCHANGED <<sent, finished, lost, received, reader>>
    BY <1>4 DEF ReadChunk, writerVars
  <2>2. Pending' = Pending /\ buf' \in Seq(Bytes) /\ wire' \in Seq(Bytes)
    BY <1>4, ReadingKeepsPending
  <2> QED
    BY <2>1, <2>2 DEF FramesInv, Arriving
<1>5. ASSUME UNCHANGED <<sent, lost, received, buf, wire>>,
             finished' \in BOOLEAN, reader' \in {"connect", "task", "ended", "failed"}
      PROVE  FramesInv'
  <2>1. Pending' = Pending
    BY <1>5 DEF Pending
  <2> QED
    BY <1>5, <2>1 DEF FramesInv, Arriving
<1>6. CASE FinishStream
  BY <1>5, <1>6 DEF FinishStream, FramesInv
<1>7. CASE RefuseFrame \/ ReadEnd \/ ReadFails
  BY <1>5, <1>7 DEF RefuseFrame, ReadEnd, ReadFails, writerVars, FramesInv
<1>8. CASE UNCHANGED vars
  BY <1>5, <1>8 DEF vars, writerVars, FramesInv
<1> QED
  BY <1>1, <1>2, <1>3, <1>4, <1>6, <1>7, <1>8 DEF Next, ReadMessage

LEMMA FramesInvariant == Spec => []FramesInv
BY FramesInit, FramesStep, PTL DEF Spec

\* The bytes that are still to be decoded are whole frames, from the head of the
\* next one on, and only a lost connection leaves the last one incomplete,
\* whatever the sizes of the chunks read_message got them in.
THEOREM FramingBytesInOrder == Spec => []BytesInOrder
<1>1. FramesInv => BytesInOrder
  <2> SUFFICES ASSUME FramesInv PROVE BytesInOrder
    OBVIOUS
  <2>1. /\ Pending \in Seq(Bytes) /\ Len(Pending) \in Nat /\ Tiled(Pending)
        /\ DOMAIN Pending = 1 .. Len(Pending)
    BY PendingType, LenProperties DEF FramesInv, Arriving
  <2>2. \A i \in DOMAIN Pending : Pending[i] \in Bytes
    BY <2>1, ElementOfSeq
  <2>3. ASSUME NEW i \in 1 .. Len(Pending) - 1
        PROVE  IF Whole(i)
               THEN Pending[i + 1].at = 1 /\ Pending[i + 1].n = Pending[i].n + 1
               ELSE Pending[i + 1] = [Pending[i] EXCEPT !.at = @ + 1]
    <3>1. /\ i \in 1 .. Len(Pending) /\ i + 1 \in 1 .. Len(Pending)
          /\ i + 1 <= Len(Pending) /\ i <= i + 1 /\ (i + 1) - i = 1
      BY <2>1
    <3>2. /\ Pending[i] \in Bytes /\ Pending[i + 1] \in Bytes
          /\ Pending[i].at \in Nat /\ FrameLen(Pending[i]) \in Nat
          /\ Pending[i].at <= FrameLen(Pending[i])
      BY <2>1, <3>1, ByteIn DEF Tiled
    <3>3. Whole(i) <=> Pending[i].at = FrameLen(Pending[i])
      BY DEF Whole, FrameLen
    <3>4. CASE Whole(i)
      BY <2>1, <3>1, <3>3, <3>4 DEF Tiled
    <3>5. CASE ~ Whole(i)
      <4>1. (i + 1) - i <= FrameLen(Pending[i]) - Pending[i].at
        BY <3>1, <3>2, <3>3, <3>5
      <4>2. /\ Pending[i + 1].n = Pending[i].n /\ Pending[i + 1].len = Pending[i].len
            /\ Pending[i + 1].at = Pending[i].at + ((i + 1) - i)
        BY <2>1, <3>1, <4>1 DEF Tiled
      <4>3. Pending[i + 1] = [Pending[i] EXCEPT !.at = @ + 1]
        BY <3>1, <3>2, <4>2 DEF Bytes
      <4> QED
        BY <3>5, <4>3
    <3> QED
      BY <3>4, <3>5
  <2>4. Pending # <<>> /\ ~ lost => Whole(Len(Pending))
    BY DEF FramesInv, Whole, FrameLen
  <2> QED
    BY <2>2, <2>3, <2>4 DEF FramesInv, BytesInOrder
<1> QED
  BY <1>1, FramesInvariant, PTL

\* read_message returns the messages in the order they were written, each once:
\* the i-th that it returns is the i-th that was sent.
EachOnceInOrder == \A i \in 1 .. Len(received) : received[i].n = i

THEOREM FramingDeliversInOrder == Spec => []EachOnceInOrder
<1>1. FramesInv => EachOnceInOrder
  BY DEF FramesInv, EachOnceInOrder
<1> QED
  BY <1>1, FramesInvariant, PTL
-----------------------------------------------------------------------------
(***************************************************************************)
(* The messages in a sequence of bytes that begins with a frame.           *)
(***************************************************************************)
Lined(s, r) ==
  /\ Tiled(s) /\ r \in Nat
  /\ s # <<>> => s[1].at = 1 /\ s[1].n = r + 1

Ends(b) == b.at = FrameLen(b)

LastOf(s, r) ==
  IF s = <<>> THEN r ELSE IF Ends(s[Len(s)]) THEN s[Len(s)].n ELSE s[Len(s)].n - 1

LengthIn(s, n) == s[CHOOSE i \in DOMAIN s : s[i].n = n].len

QueueOf(s, r) ==
  [i \in 1 .. LastOf(s, r) - r |-> [n |-> r + i, len |-> LengthIn(s, r + i)]]

LEMMA UndeliveredIs == Undelivered = QueueOf(Pending, Len(received))
<1>1. \A n : LengthOf(n) = LengthIn(Pending, n)
  BY DEF LengthOf, LengthIn
<1>2. LastComplete = LastOf(Pending, Len(received))
  BY DEF LastComplete, LastOf, Whole, Ends, FrameLen
<1> QED
  BY <1>1, <1>2 DEF Undelivered, QueueOf

LEMMA UndeliveredIsToo == Undelivered' = QueueOf(Pending', Len(received'))
<1>1. \A n : LengthOf(n)' = LengthIn(Pending', n)
  BY DEF LengthOf, LengthIn
<1>2. LastComplete' = LastOf(Pending', Len(received'))
  BY DEF LastComplete, LastOf, Whole, Ends, FrameLen
<1> QED
  BY <1>1, <1>2 DEF Undelivered, QueueOf

LEMMA LeastNat ==
  ASSUME NEW T, T \subseteq Nat, T # {}
  PROVE  \E x \in T : \A y \in T : x <= y
<1>1. IsWellFoundedOn(OpToRel(<, Nat), Nat)
  BY NatLessThanWellFounded
<1>2. PICK x \in T : \A y \in T : ~(<<y, x>> \in OpToRel(<, Nat))
  BY <1>1, WFMin
<1>3. \A y \in T : ~(y < x)
  BY <1>2 DEF OpToRel
<1> QED
  BY <1>3

\* a byte and the next one
LEMMA NextByte ==
  ASSUME NEW s, Tiled(s), NEW i \in 1 .. Len(s), i + 1 <= Len(s)
  PROVE  IF Ends(s[i])
         THEN s[i + 1].at = 1 /\ s[i + 1].n = s[i].n + 1
         ELSE s[i + 1].n = s[i].n /\ s[i + 1].len = s[i].len
<1>1. s \in Seq(Bytes) /\ Len(s) \in Nat
  BY LenProperties DEF Tiled
<1>2. s[i].at \in Nat /\ FrameLen(s[i]) \in Nat /\ s[i].at <= FrameLen(s[i])
  BY <1>1, ByteIn DEF Tiled
<1>3. CASE Ends(s[i])
  BY <1>3 DEF Tiled, Ends
<1>4. CASE ~ Ends(s[i])
  <2>1. i + 1 \in 1 .. Len(s) /\ i <= i + 1 /\ (i + 1) - i = 1
    BY <1>1
  <2>2. (i + 1) - i <= FrameLen(s[i]) - s[i].at
    BY <1>2, <1>4, <2>1 DEF Ends
  <2> QED
    BY <1>4, <2>1, <2>2 DEF Tiled
<1> QED
  BY <1>3, <1>4

\* up to position j the numbers grow, name a length each and leave none out
Numbered(s, r, j) ==
  /\ s[j].n >= r + 1
  /\ \A i \in 1 .. j : s[i].n <= s[j].n /\ (s[i].n = s[j].n => s[i].len = s[j].len)
  /\ \A n \in r + 1 .. s[j].n : \E i \in 1 .. j : s[i].n = n

LEMMA FirstNumbered ==
  ASSUME NEW s, NEW r, Lined(s, r), s # <<>>
  PROVE  Numbered(s, r, 1)
<1>1. r \in Nat /\ s[1].n = r + 1
  BY DEF Lined
<1> QED
  BY <1>1 DEF Numbered

LEMMA NextNumbered ==
  ASSUME NEW s, NEW r, Lined(s, r), NEW j \in 1 .. Len(s), j + 1 <= Len(s),
         Numbered(s, r, j)
  PROVE  Numbered(s, r, j + 1)
<1>1. /\ Tiled(s) /\ s \in Seq(Bytes) /\ Len(s) \in Nat /\ r \in Nat
      /\ j \in Nat /\ j + 1 \in 1 .. Len(s) /\ 1 .. j \subseteq 1 .. Len(s)
  BY LenProperties DEF Tiled, Lined
<1>2. \A i \in 1 .. Len(s) : s[i].n \in Nat
  BY <1>1, ByteIn
<1>3. \A i \in 1 .. j + 1 : i \in 1 .. j \/ i = j + 1
  BY <1>1
<1>4. \A i \in 1 .. j : i \in 1 .. j + 1 /\ s[i].n \in Nat /\ s[i].n <= s[j].n
  BY <1>1, <1>2 DEF Numbered
<1>5. j \in 1 .. j /\ j + 1 \in 1 .. j + 1 /\ s[j].n \in Nat /\ s[j + 1].n \in Nat
  BY <1>1, <1>2
<1>6. CASE Ends(s[j])
  <2>1. s[j + 1].n = s[j].n + 1
    BY <1>1, <1>6, NextByte
  <2>2. ASSUME NEW i \in 1 .. j + 1
        PROVE  s[i].n <= s[j + 1].n /\ (s[i].n = s[j + 1].n => s[i].len = s[j + 1].len)
    BY <1>3, <1>4, <1>5, <2>1, SMTT(30)
  <2>3. ASSUME NEW n \in r + 1 .. s[j + 1].n
        PROVE  \E i \in 1 .. j + 1 : s[i].n = n
    <3>1. n \in r + 1 .. s[j].n \/ n = s[j + 1].n
      BY <1>1, <1>5, <2>1
    <3> QED
      BY <1>4, <1>5, <3>1 DEF Numbered
  <2>4. s[j + 1].n >= r + 1
    BY <1>1, <1>5, <2>1 DEF Numbered
  <2> QED
    BY <2>2, <2>3, <2>4 DEF Numbered
<1>7. CASE ~ Ends(s[j])
  <2>1. s[j + 1].n = s[j].n /\ s[j + 1].len = s[j].len
    BY <1>1, <1>7, NextByte
  <2>2. ASSUME NEW i \in 1 .. j + 1
        PROVE  s[i].n <= s[j + 1].n /\ (s[i].n = s[j + 1].n => s[i].len = s[j + 1].len)
    BY <1>3, <1>5, <2>1 DEF Numbered
  <2>3. ASSUME NEW n \in r + 1 .. s[j + 1].n
        PROVE  \E i \in 1 .. j + 1 : s[i].n = n
    BY <1>4, <2>1 DEF Numbered
  <2> QED
    BY <2>1, <2>2, <2>3 DEF Numbered
<1> QED
  BY <1>6, <1>7

LEMMA AllNumbered ==
  ASSUME NEW s, NEW r, Lined(s, r)
  PROVE  \A j \in 1 .. Len(s) : Numbered(s, r, j)
<1> DEFINE T == {j \in 1 .. Len(s) : ~ Numbered(s, r, j)}
<1>1. s \in Seq(Bytes) /\ Len(s) \in Nat
  BY LenProperties DEF Tiled, Lined
<1> SUFFICES ASSUME T # {} PROVE FALSE
  OBVIOUS
<1>2. PICK x \in T : \A y \in T : x <= y
  <2>1. T \subseteq Nat
    BY <1>1
  <2> QED
    BY <2>1, LeastNat
<1>3. x \in 1 .. Len(s) /\ s # <<>>
  BY <1>1, EmptySeq
<1>4. x # 1
  BY <1>3, FirstNumbered
<1>5. x - 1 \in 1 .. Len(s) /\ (x - 1) + 1 = x /\ ~ (x <= x - 1)
  BY <1>1, <1>3, <1>4
<1>6. Numbered(s, r, x - 1)
  BY <1>2, <1>5
<1>7. (x - 1) + 1 <= Len(s)
  BY <1>1, <1>3, <1>5
<1>8. Numbered(s, r, (x - 1) + 1)
  BY <1>5, <1>6, <1>7, NextNumbered
<1> QED
  BY <1>2, <1>5, <1>8

\* What the numbers say, wherever a frame lies in the sequence.
LEMMA Numbers ==
  ASSUME NEW s, NEW r, Lined(s, r)
  PROVE  /\ s \in Seq(Bytes) /\ Len(s) \in Nat /\ DOMAIN s = 1 .. Len(s) /\ r \in Nat
         /\ \A i \in 1 .. Len(s) : s[i].n \in Nat /\ s[i].n >= r + 1
         /\ \A j \in 1 .. Len(s) : \A i \in 1 .. j : s[i].n <= s[j].n
         /\ \A j \in 1 .. Len(s) : LengthIn(s, s[j].n) = s[j].len
         /\ \A j \in 1 .. Len(s) : \A n \in r + 1 .. s[j].n :
              \E i \in 1 .. Len(s) : s[i].n = n
<1>1. /\ s \in Seq(Bytes) /\ Len(s) \in Nat /\ DOMAIN s = 1 .. Len(s) /\ r \in Nat
      /\ \A j \in 1 .. Len(s) : Numbered(s, r, j)
  BY AllNumbered, LenProperties DEF Tiled, Lined
<1>2. \A i \in 1 .. Len(s) : s[i].n \in Nat
  BY <1>1, ByteIn
<1>3. ASSUME NEW j \in 1 .. Len(s)
      PROVE  LengthIn(s, s[j].n) = s[j].len
  <2> DEFINE c == CHOOSE i \in DOMAIN s : s[i].n = s[j].n
  <2>1. c \in 1 .. Len(s) /\ s[c].n = s[j].n
    BY <1>1
  <2>2. LengthIn(s, s[j].n) = s[c].len
    BY DEF LengthIn
  <2> HIDE DEF c
  <2>3. CASE c \in 1 .. j
    BY <1>1, <2>1, <2>2, <2>3 DEF Numbered
  <2>4. CASE j \in 1 .. c
    BY <1>1, <2>1, <2>2, <2>4 DEF Numbered
  <2>5. c \in 1 .. j \/ j \in 1 .. c
    BY <1>1, <2>1
  <2> QED
    BY <2>3, <2>4, <2>5
<1>4. \A j \in 1 .. Len(s) : 1 .. j \subseteq 1 .. Len(s)
  BY <1>1
<1> QED
  BY <1>1, <1>2, <1>3, <1>4 DEF Numbered

LEMMA Lasts ==
  ASSUME NEW s, NEW r, Lined(s, r)
  PROVE  /\ LastOf(s, r) \in Nat /\ LastOf(s, r) >= r
         /\ \A n \in r + 1 .. LastOf(s, r) : \E i \in 1 .. Len(s) : s[i].n = n
<1>1. /\ s \in Seq(Bytes) /\ Len(s) \in Nat /\ r \in Nat
      /\ \A i \in 1 .. Len(s) : s[i].n \in Nat /\ s[i].n >= r + 1
      /\ \A j \in 1 .. Len(s) : \A n \in r + 1 .. s[j].n :
              \E i \in 1 .. Len(s) : s[i].n = n
  BY Numbers
<1>2. CASE s = <<>>
  BY <1>1, <1>2 DEF LastOf
<1>3. CASE s # <<>>
  <2> DEFINE l == Len(s)
             z == s[l].n
  <2>1. l \in 1 .. Len(s)
    BY <1>1, <1>3, EmptySeq
  <2>2. z \in Nat /\ z >= r + 1 /\ \A n \in r + 1 .. z : \E i \in 1 .. Len(s) : s[i].n = n
    BY <1>1, <2>1
  <2>3. LastOf(s, r) \in {z, z - 1}
    BY <1>3 DEF LastOf
  <2> HIDE DEF l, z
  <2> DEFINE e == LastOf(s, r)
  <2> HIDE DEF e
  <2>4. e \in Nat /\ e >= r /\ \A n \in r + 1 .. e : n \in r + 1 .. z
    <3>1. e \in {z, z - 1}
      BY <2>3 DEF e
    <3> QED
      BY <1>1, <2>2, <3>1
  <2> QED
    BY <2>2, <2>4 DEF e
<1> QED
  BY <1>2, <1>3

LEMMA QueueType ==
  ASSUME NEW s, NEW r, Lined(s, r)
  PROVE  /\ QueueOf(s, r) \in Seq([n : Nat, len : Nat])
         /\ Len(QueueOf(s, r)) = LastOf(s, r) - r
         /\ LastOf(s, r) - r \in Nat
         /\ \A i \in 1 .. LastOf(s, r) - r :
              QueueOf(s, r)[i] = [n |-> r + i, len |-> LengthIn(s, r + i)]
<1> DEFINE k == LastOf(s, r) - r
<1>1. r \in Nat /\ k \in Nat
  BY Lasts, Numbers
<1>2. ASSUME NEW i \in 1 .. k
      PROVE  [n |-> r + i, len |-> LengthIn(s, r + i)] \in [n : Nat, len : Nat]
  <2>1. r + i \in r + 1 .. LastOf(s, r)
    BY <1>1, Lasts
  <2>2. PICK j \in 1 .. Len(s) : s[j].n = r + i
    BY <2>1, Lasts
  <2>3. LengthIn(s, r + i) = s[j].len /\ s[j].len \in Nat
    BY <2>2, Numbers, ByteIn
  <2>4. r + i \in Nat
    BY <1>1
  <2> QED
    BY <2>3, <2>4
<1> DEFINE q == [i \in 1 .. k |-> [n |-> r + i, len |-> LengthIn(s, r + i)]]
<1>3. QueueOf(s, r) = q
  BY DEF QueueOf
<1> HIDE DEF k
<1>4. q \in Seq([n : Nat, len : Nat]) /\ Len(q) = k
  <2> DEFINE D == [n : Nat, len : Nat]
  <2>1. q \in [1 .. k -> D]
    BY <1>2
  <2>2. DOMAIN q = 1 .. k
    OBVIOUS
  <2> HIDE DEF q, D
  <2>3. q \in Seq(D)
    BY <1>1, <2>1, SeqDef
  <2>4. Len(q) \in Nat /\ DOMAIN q = 1 .. Len(q)
    BY <2>3, LenProperties
  <2>5. Len(q) = k
    BY <1>1, <2>2, <2>4
  <2> QED
    BY <2>3, <2>5 DEF D
<1>5. \A i \in 1 .. k : q[i] = [n |-> r + i, len |-> LengthIn(s, r + i)]
  OBVIOUS
<1> HIDE DEF q
<1> QED
  BY <1>1, <1>3, <1>4, <1>5 DEF k

\* two sequences that agree on the frames of the messages up to e
LEMMA SameQueue ==
  ASSUME NEW s, NEW r, Lined(s, r), NEW t, NEW p, Lined(t, p),
         NEW i \in 1 .. Len(s), NEW j \in 1 .. Len(t), s[i] = t[j]
  PROVE  LengthIn(s, s[i].n) = LengthIn(t, s[i].n)
BY Numbers

\* Another message is written: it is the last of the queue.
LEMMA QueueGrows ==
  ASSUME NEW s, NEW t, NEW r, NEW n \in 1 .. MaxMessages, NEW len \in Lengths,
         Lined(s, r), Lined(t, r), Extends(t, s, n, len), Follows(n, s),
         s = <<>> => n = r + 1
  PROVE  QueueOf(t, r) = Append(QueueOf(s, r), [n |-> n, len |-> len])
<1> DEFINE D == [n : Nat, len : Nat]
           q == QueueOf(s, r)
           m == [n |-> n, len |-> len]
           size == PrefixLen + len
           last == Len(s) + size
<1>1. /\ Len(s) \in Nat /\ Len(t) = last /\ r \in Nat /\ n \in Nat /\ len \in Nat
      /\ size \in Nat /\ size >= 1 /\ s \in Seq(Bytes) /\ t \in Seq(Bytes)
  BY Numbers, FramingAssumption DEF Extends
<1>2. /\ t[last] = [n |-> n, len |-> len, at |-> size]
      /\ last \in 1 .. Len(t) /\ t # <<>>
  <2>1. size \in 1 .. size /\ last \in 1 .. last
    BY <1>1
  <2>2. t[last] = [n |-> n, len |-> len, at |-> size]
    BY <2>1 DEF Extends
  <2>3. last >= 1 /\ last # 0
    BY <1>1
  <2> QED
    BY <1>1, <2>1, <2>2, <2>3, EmptySeq
<1>3. LastOf(t, r) = n
  <2>1. t[Len(t)].at = size /\ t[Len(t)].n = n /\ FrameLen(t[Len(t)]) = size
    BY <1>1, <1>2 DEF FrameLen
  <2> QED
    BY <1>2, <2>1 DEF LastOf, Ends
<1>4. LastOf(s, r) = n - 1
  <2>1. CASE s = <<>>
    BY <1>1, <2>1 DEF LastOf
  <2>2. CASE s # <<>>
    <3>1. Len(s) \in 1 .. Len(s)
      BY <1>1, <2>2, EmptySeq
    <3>2. s[Len(s)].n \in Nat
      BY <3>1, Numbers
    <3> QED
      BY <1>1, <2>2, <3>2 DEF LastOf, Ends, Follows
  <2> QED
    BY <2>1, <2>2
<1>5. /\ q \in Seq(D) /\ Len(q) = (n - 1) - r /\ (n - 1) - r \in Nat
      /\ \A i \in 1 .. (n - 1) - r : q[i] = [n |-> r + i, len |-> LengthIn(s, r + i)]
  BY <1>4, QueueType
<1>6. /\ QueueOf(t, r) \in Seq(D) /\ Len(QueueOf(t, r)) = n - r
      /\ \A i \in 1 .. n - r : QueueOf(t, r)[i] = [n |-> r + i, len |-> LengthIn(t, r + i)]
  BY <1>3, QueueType
<1>7. m \in D
  BY <1>1
<1>8. LengthIn(t, n) = len
  <2>1. t[last].n = n /\ t[last].len = len
    BY <1>2
  <2> QED
    BY <1>2, <2>1, Numbers
<1>9. ASSUME NEW i \in 1 .. (n - 1) - r
      PROVE  LengthIn(t, r + i) = LengthIn(s, r + i)
  <2>1. r + i \in r + 1 .. LastOf(s, r)
    BY <1>1, <1>4, <1>5
  <2>2. PICK j \in 1 .. Len(s) : s[j].n = r + i
    BY <2>1, Lasts
  <2>3. j \in 1 .. Len(t) /\ t[j] = s[j]
    BY <1>1 DEF Extends
  <2> QED
    BY <2>2, <2>3, SameQueue
<1> HIDE DEF q, m, D, size, last
<1>10. /\ Append(q, m) \in Seq(D) /\ Len(Append(q, m)) = n - r
       /\ \A i \in 1 .. (n - 1) - r : Append(q, m)[i] = q[i]
       /\ Append(q, m)[n - r] = m
  <2>1. /\ Append(q, m) \in Seq(D) /\ Len(Append(q, m)) = Len(q) + 1
        /\ \A i \in 1 .. Len(q) : Append(q, m)[i] = q[i]
        /\ Append(q, m)[Len(q) + 1] = m
    BY <1>5, <1>7, AppendProperties
  <2>2. Len(q) + 1 = n - r
    BY <1>1, <1>5
  <2> QED
    BY <1>5, <2>1, <2>2
<1>11. ASSUME NEW i \in 1 .. n - r
       PROVE  QueueOf(t, r)[i] = Append(q, m)[i]
  <2>1. CASE i \in 1 .. (n - 1) - r
    BY <1>5, <1>6, <1>9, <1>10, <2>1
  <2>2. CASE i = n - r
    <3>1. r + i = n
      BY <1>1, <2>2
    <3> QED
      BY <1>6, <1>8, <1>10, <2>2, <3>1 DEF m
  <2>3. i \in 1 .. (n - 1) - r \/ i = n - r
    <3>1. n \in Nat /\ r \in Nat
      BY <1>1
    <3> QED
      BY <3>1
  <2> QED
    BY <2>1, <2>2, <2>3
<1>12. QueueOf(t, r) = Append(q, m)
  BY <1>6, <1>10, <1>11, SeqEqual
<1> QED
  BY <1>12 DEF q, m

\* The connection is lost: a prefix of the queue is left.
LEMMA QueueIsCut ==
  ASSUME NEW s, NEW r, Lined(s, r), NEW m \in 0 .. Len(s), Lined(SubSeq(s, 1, m), r)
  PROVE  \E k \in 0 .. Len(QueueOf(s, r)) :
           /\ QueueOf(SubSeq(s, 1, m), r) = SubSeq(QueueOf(s, r), 1, k)
           /\ m = Len(s) => k = Len(QueueOf(s, r))
<1> DEFINE t == SubSeq(s, 1, m)
<1>1. /\ Len(s) \in Nat /\ r \in Nat /\ s \in Seq(Bytes) /\ m \in Nat /\ Tiled(s)
      /\ \A i \in 1 .. Len(s) : s[i].n \in Nat
  BY Numbers DEF Lined
<1>2. t \in Seq(Bytes) /\ Len(t) = m /\ \A i \in 1 .. m : t[i] = s[i]
  BY <1>1, Parts
<1>t. Lined(t, r) /\ (m = Len(s) => t = s)
  <2>1. m = Len(s) => t = s
    BY <1>1, SubSeqFull
  <2> QED
    BY <2>1
<1> HIDE DEF t
<1>3. LastOf(t, r) <= LastOf(s, r)
  <2>1. CASE t = <<>>
    <3>1. LastOf(t, r) = r
      BY <2>1 DEF LastOf
    <3> QED
      BY <3>1, Lasts
  <2>2. CASE t # <<>> /\ m = Len(s)
    <3>1. LastOf(s, r) \in Nat
      BY Lasts
    <3> QED
      BY <1>t, <2>2, <3>1
  <2>3. CASE t # <<>> /\ m # Len(s)
    <3>1. /\ m \in 1 .. Len(s) /\ m + 1 <= Len(s) /\ m + 1 \in 1 .. Len(s)
          /\ Len(s) \in 1 .. Len(s) /\ m \in 1 .. Len(s) /\ m + 1 \in 1 .. Len(s)
      BY <1>1, <1>2, <2>3, EmptySeq
    <3>2. s # <<>>
      BY <3>1, EmptySeq
    <3> DEFINE a == s[m].n
               b == s[m + 1].n
               z == s[Len(s)].n
    <3>3. a \in Nat /\ b \in Nat /\ z \in Nat /\ a <= z /\ b <= z
      BY <3>1, Numbers
    <3>4. Ends(s[m]) => b = a + 1
      BY <1>1, <3>1, NextByte
    <3>5. LastOf(t, r) = IF Ends(s[m]) THEN a ELSE a - 1
      <4>1. t[Len(t)] = s[m]
        BY <1>2, <3>1
      <4> QED
        BY <2>3, <4>1 DEF LastOf
    <3>6. LastOf(s, r) = z \/ LastOf(s, r) = z - 1
      BY <3>2 DEF LastOf
    <3> HIDE DEF a, b, z
    <3> QED
      BY <3>3, <3>4, <3>5, <3>6
  <2> QED
    BY <2>1, <2>2, <2>3
<1> DEFINE q == QueueOf(s, r)
           k == LastOf(t, r) - r
           l == LastOf(s, r) - r
<1>4. /\ QueueOf(t, r) \in Seq([n : Nat, len : Nat]) /\ Len(QueueOf(t, r)) = k /\ k \in Nat
      /\ \A i \in 1 .. k : QueueOf(t, r)[i] = [n |-> r + i, len |-> LengthIn(t, r + i)]
  BY <1>t, QueueType
<1>5. /\ q \in Seq([n : Nat, len : Nat]) /\ Len(q) = l /\ l \in Nat
      /\ \A i \in 1 .. l : q[i] = [n |-> r + i, len |-> LengthIn(s, r + i)]
  BY QueueType
<1>6. k \in 0 .. l
  <2>1. LastOf(t, r) \in Nat /\ LastOf(s, r) \in Nat
    BY <1>t, Lasts
  <2> QED
    BY <1>1, <1>3, <1>4, <1>5, <2>1
<1>7. m = Len(s) => k = Len(q)
  BY <1>t, <1>5
<1>8. ASSUME NEW i \in 1 .. k
      PROVE  LengthIn(t, r + i) = LengthIn(s, r + i)
  <2>1. r + i \in r + 1 .. LastOf(t, r)
    <3>1. LastOf(t, r) \in Nat
      BY <1>t, Lasts
    <3> QED
      BY <1>1, <1>4, <3>1
  <2>2. PICK j \in 1 .. Len(t) : t[j].n = r + i
    BY <1>t, <2>1, Lasts
  <2>3. j \in 1 .. Len(s) /\ s[j] = t[j]
    BY <1>1, <1>2
  <2> QED
    BY <1>t, <2>2, <2>3, SameQueue
<1> HIDE DEF q, k, l
<1>9. /\ SubSeq(q, 1, k) \in Seq([n : Nat, len : Nat]) /\ Len(SubSeq(q, 1, k)) = k
      /\ \A i \in 1 .. k : SubSeq(q, 1, k)[i] = q[i]
  <2> DEFINE D == [n : Nat, len : Nat]
  <2>1. q \in Seq(D)
    BY <1>5
  <2> HIDE DEF D
  <2>2. \A i \in 1 .. k : q[i] \in D
    BY <1>5, <1>6, <2>1, ElementOfSeq
  <2>3. /\ SubSeq(q, 1, k) \in Seq(D)
        /\ Len(SubSeq(q, 1, k)) = IF 1 <= k THEN k - 1 + 1 ELSE 0
        /\ \A i \in 1 .. k - 1 + 1 : SubSeq(q, 1, k)[i] = q[1 + i - 1]
    BY <1>4, <2>1, <2>2, SubSeqProperties
  <2> QED
    BY <1>4, <2>3 DEF D
<1>10. ASSUME NEW i \in 1 .. k
       PROVE  QueueOf(t, r)[i] = SubSeq(q, 1, k)[i]
  <2>1. i \in 1 .. l
    <3>1. l \in Nat /\ k \in Nat /\ k <= l
      BY <1>4, <1>5, <1>6
    <3> QED
      BY <3>1
  <2>2. q[i] = [n |-> r + i, len |-> LengthIn(s, r + i)]
    BY <1>5, <2>1
  <2>3. QueueOf(t, r)[i] = [n |-> r + i, len |-> LengthIn(t, r + i)]
    BY <1>4
  <2> QED
    BY <1>8, <1>9, <2>2, <2>3
<1>11. QueueOf(t, r) = SubSeq(q, 1, k)
  BY <1>4, <1>9, <1>10, SeqEqual
<1>12. k \in 0 .. Len(q)
  BY <1>5, <1>6
<1> QED
  BY <1>7, <1>11, <1>12 DEF q, t

\* The first message is returned: the others are left.
LEMMA QueueIsServed ==
  ASSUME NEW s, NEW r, Lined(s, r), s # <<>>, Len(s) >= FrameLen(s[1]),
         Lined(SubSeq(s, FrameLen(s[1]) + 1, Len(s)), r + 1)
  PROVE  /\ QueueOf(s, r) # <<>>
         /\ Head(QueueOf(s, r)) = [n |-> s[1].n, len |-> s[1].len]
         /\ QueueOf(SubSeq(s, FrameLen(s[1]) + 1, Len(s)), r + 1) = Tail(QueueOf(s, r))
<1> DEFINE m == FrameLen(s[1])
           t == SubSeq(s, m + 1, Len(s))
<1>1. /\ Len(s) \in Nat /\ r \in Nat /\ s \in Seq(Bytes) /\ Tiled(s)
      /\ s[1].at = 1 /\ s[1].n = r + 1 /\ 1 \in 1 .. Len(s)
  <2>1. Len(s) \in Nat /\ r \in Nat /\ s \in Seq(Bytes)
    BY Numbers
  <2>2. 1 \in 1 .. Len(s)
    BY <2>1, EmptySeq
  <2> QED
    BY <2>1, <2>2 DEF Lined
<1>2. m \in 1 .. Len(s) /\ s[m].n = r + 1 /\ Ends(s[m])
  BY <1>1, FirstFrameEnds DEF Ends
<1>t. Lined(t, r + 1)
  OBVIOUS
<1> HIDE DEF m
<1>3. t \in Seq(Bytes) /\ Len(t) = Len(s) - m /\ \A i \in 1 .. Len(s) - m : t[i] = s[m + i]
  BY <1>1, <1>2, Parts
<1> HIDE DEF t
<1>4. LastOf(s, r) = LastOf(t, r + 1)
  <2>1. CASE t = <<>>
    <3>1. m = Len(s)
      BY <1>1, <1>2, <1>3, <2>1, EmptySeq
    <3>2. LastOf(s, r) = r + 1
      BY <1>2, <3>1 DEF LastOf
    <3> QED
      BY <2>1, <3>2 DEF LastOf
  <2>2. CASE t # <<>>
    <3>1. Len(t) \in 1 .. Len(s) - m /\ m + Len(t) = Len(s)
      BY <1>1, <1>2, <1>3, <2>2, EmptySeq
    <3>2. t[Len(t)] = s[Len(s)]
      BY <1>3, <3>1
    <3> QED
      BY <2>2, <3>2 DEF LastOf
  <2> QED
    BY <2>1, <2>2
<1> DEFINE D == [n : Nat, len : Nat]
           q == QueueOf(s, r)
           l == LastOf(s, r) - r
<1>5. /\ q \in Seq(D) /\ Len(q) = l /\ l \in Nat
      /\ \A i \in 1 .. l : q[i] = [n |-> r + i, len |-> LengthIn(s, r + i)]
  BY QueueType
<1>6. /\ QueueOf(t, r + 1) \in Seq(D) /\ Len(QueueOf(t, r + 1)) = LastOf(t, r + 1) - (r + 1)
      /\ LastOf(t, r + 1) - (r + 1) \in Nat
      /\ \A i \in 1 .. LastOf(t, r + 1) - (r + 1) :
           QueueOf(t, r + 1)[i] = [n |-> (r + 1) + i, len |-> LengthIn(t, (r + 1) + i)]
  BY <1>t, QueueType
<1>7. LastOf(t, r + 1) - (r + 1) = l - 1 /\ l >= 1 /\ l - 1 \in Nat
  <2>1. LastOf(s, r) \in Nat
    BY Lasts
  <2> QED
    BY <1>1, <1>4, <1>6, <2>1
<1>8. ASSUME NEW i \in 1 .. l - 1
      PROVE  LengthIn(t, (r + 1) + i) = LengthIn(s, (r + 1) + i)
  <2>1. (r + 1) + i \in (r + 1) + 1 .. LastOf(t, r + 1)
    <3>1. LastOf(t, r + 1) \in Nat
      BY <1>t, Lasts
    <3> QED
      BY <1>1, <1>6, <1>7, <3>1
  <2>2. PICK j \in 1 .. Len(t) : t[j].n = (r + 1) + i
    BY <1>t, <2>1, Lasts
  <2>3. m + j \in 1 .. Len(s) /\ s[m + j] = t[j]
    BY <1>1, <1>2, <1>3
  <2> QED
    BY <1>t, <2>2, <2>3, SameQueue
<1>9. q[1] = [n |-> s[1].n, len |-> s[1].len]
  <2>1. LengthIn(s, r + 1) = s[1].len
    BY <1>1, Numbers
  <2> QED
    BY <1>1, <1>5, <1>7, <2>1
<1> HIDE DEF q, l, D
<1>10. q # <<>>
  BY <1>5, <1>7, EmptySeq
<1>11. /\ Head(q) = q[1] /\ Tail(q) \in Seq(D) /\ Len(Tail(q)) = l - 1
       /\ \A i \in 1 .. l - 1 : Tail(q)[i] = q[i + 1]
  BY <1>5, <1>10, HeadTailProperties
<1>12. ASSUME NEW i \in 1 .. l - 1
       PROVE  QueueOf(t, r + 1)[i] = Tail(q)[i]
  <2>1. i + 1 \in 1 .. l /\ r + (i + 1) = (r + 1) + i
    <3>1. l \in Nat /\ r \in Nat
      BY <1>1, <1>5
    <3> QED
      BY <3>1
  <2>2. q[i + 1] = [n |-> (r + 1) + i, len |-> LengthIn(s, (r + 1) + i)]
    BY <1>5, <2>1
  <2>3. QueueOf(t, r + 1)[i] = [n |-> (r + 1) + i, len |-> LengthIn(t, (r + 1) + i)]
    BY <1>6, <1>7
  <2> QED
    BY <1>8, <1>11, <2>2, <2>3
<1>13. QueueOf(t, r + 1) = Tail(q)
  BY <1>6, <1>7, <1>11, <1>12, SeqEqual
<1> QED
  BY <1>9, <1>10, <1>11, <1>13 DEF q, t, m
-----------------------------------------------------------------------------
(***************************************************************************)
(* Every step is one of the stream of messages, or none.                   *)
(***************************************************************************)
LEMMA PendingLined ==
  FramesInv => Lined(Pending, Len(received))
<1> SUFFICES ASSUME FramesInv PROVE Lined(Pending, Len(received))
  OBVIOUS
<1>1. Len(received) \in Nat
  BY LenProperties DEF FramesInv
<1> QED
  BY <1>1 DEF FramesInv, Arriving, Lined

LEMMA UndeliveredKept ==
  ASSUME UNCHANGED <<received, Pending>>
  PROVE  UNCHANGED Undelivered
<1>1. LastComplete' = LastComplete
  BY DEF LastComplete, Whole
<1>2. \A n : LengthOf(n)' = LengthOf(n)
  BY DEF LengthOf
<1> QED
  BY <1>1, <1>2 DEF Undelivered

LEMMA SendIsSend ==
  ASSUME FramesInv, FramesInv', SendMessage
  PROVE  Messages!Send
<1>1. PICK len \in Lengths : wire' = wire \o Frame(sent + 1, len)
  BY DEF SendMessage
<1>2. /\ ~ finished /\ ~ lost /\ sent < MaxMessages /\ sent' = sent + 1
      /\ UNCHANGED <<finished, lost, buf, received, reader>>
      /\ sent + 1 \in 1 .. MaxMessages
  BY FramingAssumption DEF SendMessage, FramesInv
<1> DEFINE f == Frame(sent + 1, len)
           r == Len(received)
           s == Pending
<1>3. Pending' = s \o f
  <2>1. f \in Seq(Bytes) /\ buf \in Seq(Bytes) /\ wire \in Seq(Bytes)
    BY <1>2, FrameTiled DEF Tiled, FramesInv
  <2> HIDE DEF f
  <2>2. (buf \o wire) \o f = buf \o (wire \o f)
    BY ONLY <2>1, Associates
  <2>3. wire' = wire \o f /\ buf' = buf
    BY <1>1, <1>2 DEF f
  <2> QED
    BY <2>2, <2>3 DEF Pending
<1>4. Follows(sent + 1, s)
  BY <1>2 DEF FramesInv, Follows
<1>5. Extends(s \o f, s, sent + 1, len)
  <2>1. Tiled(s)
    BY DEF FramesInv, Arriving
  <2> QED
    BY <1>2, <1>4, <2>1, TiledConcat
<1>6. Lined(s, r) /\ Lined(s \o f, r)
  <2>1. Lined(s, r)
    BY PendingLined
  <2>2. Tiled(s \o f)
    BY <1>5 DEF Extends
  <2>3. Pending' # <<>> => Pending'[1].at = 1 /\ Pending'[1].n = Len(received') + 1
    BY DEF FramesInv
  <2>4. r \in Nat /\ Len(received') = r
    BY <1>2, <2>1 DEF Lined
  <2> QED
    BY <1>3, <2>1, <2>2, <2>3, <2>4 DEF Lined
<1>7. s = <<>> => sent + 1 = r + 1
  BY <1>2 DEF FramesInv
<1> HIDE DEF f, s, r
<1>8. QueueOf(s \o f, r) = Append(QueueOf(s, r), [n |-> sent + 1, len |-> len])
  BY <1>2, <1>4, <1>5, <1>6, <1>7, QueueGrows
<1>9. Undelivered = QueueOf(s, r)
  BY UndeliveredIs DEF s, r
<1>10. Undelivered' = QueueOf(s \o f, r)
  <2>1. Undelivered' = QueueOf(Pending', Len(received'))
    BY UndeliveredIsToo
  <2> QED
    BY <1>2, <1>3, <2>1 DEF r
<1> QED
  BY <1>2, <1>8, <1>9, <1>10 DEF Messages!Send, Reading

LEMMA LossIsLose ==
  ASSUME FramesInv, FramesInv', LoseConnection
  PROVE  Messages!Lose
<1>1. PICK k \in 0 .. Len(wire) :
        /\ wire' = SubSeq(wire, 1, k)
        /\ finished' \in {FALSE, finished /\ k = Len(wire)}
  BY DEF LoseConnection
<1>2. lost' = TRUE /\ UNCHANGED <<sent, buf, received, reader>>
  BY DEF LoseConnection
<1> DEFINE m == Len(buf) + k
           r == Len(received)
           s == Pending
<1>3. m \in 0 .. Len(s) /\ Pending' = SubSeq(s, 1, m)
  BY <1>1, <1>2, LossCutsPending
<1>4. m = Len(s) <=> k = Len(wire)
  BY PendingType
<1>5. Lined(s, r) /\ Lined(SubSeq(s, 1, m), r)
  <2>1. Lined(s, r)
    BY PendingLined
  <2>2. Tiled(Pending')
    BY DEF FramesInv, Arriving
  <2>3. Pending' # <<>> => Pending'[1].at = 1 /\ Pending'[1].n = Len(received') + 1
    BY DEF FramesInv
  <2>4. r \in Nat /\ Len(received') = r
    BY <1>2, <2>1 DEF Lined
  <2> QED
    BY <1>3, <2>1, <2>2, <2>3, <2>4 DEF Lined
<1> HIDE DEF m, s, r
<1>6. PICK i \in 0 .. Len(QueueOf(s, r)) :
        /\ QueueOf(SubSeq(s, 1, m), r) = SubSeq(QueueOf(s, r), 1, i)
        /\ m = Len(s) => i = Len(QueueOf(s, r))
  BY <1>3, <1>5, QueueIsCut
<1>7. Undelivered = QueueOf(s, r)
  BY UndeliveredIs DEF s, r
<1>8. Undelivered' = QueueOf(SubSeq(s, 1, m), r)
  <2>1. Undelivered' = QueueOf(Pending', Len(received'))
    BY UndeliveredIsToo
  <2> QED
    BY <1>2, <1>3, <2>1 DEF r
<1>9. finished' \in {FALSE, finished /\ i = Len(Undelivered)}
  <2>1. CASE k = Len(wire)
    BY <1>1, <1>4, <1>6, <1>7, <2>1
  <2>2. CASE k # Len(wire)
    BY <1>1, <2>2
  <2> QED
    BY <2>1, <2>2
<1>10. i \in 0 .. Len(Undelivered) /\ Undelivered' = SubSeq(Undelivered, 1, i)
  BY <1>6, <1>7, <1>8
<1> QED
  BY <1>2, <1>9, <1>10 DEF Messages!Lose, Reading

\* what the reader finds at the front of its buffer
LEMMA FrontOfBuffer ==
  ASSUME FramesInv, buf # <<>>
  PROVE  /\ Pending # <<>> /\ Pending[1] = buf[1] /\ 1 \in 1 .. Len(Pending)
         /\ Pending[1].n = Len(received) + 1 /\ Pending[1].at = 1
         /\ FrameLen(Pending[1]) = PrefixLen + Declared
         /\ Declared \in Nat
<1>1. buf \in Seq(Bytes) /\ Len(buf) \in Nat /\ 1 \in 1 .. Len(buf)
  <2>1. buf \in Seq(Bytes)
    BY DEF FramesInv
  <2> QED
    BY <2>1, EmptySeq, LenProperties
<1>2. Pending[1] = buf[1] /\ Len(Pending) \in Nat /\ 1 \in 1 .. Len(Pending)
  BY <1>1, PendingType
<1>3. Pending # <<>>
  BY <1>2, EmptySeq
<1>4. buf[1] \in Bytes
  BY <1>1, ElementOfSeq
<1> QED
  BY <1>2, <1>3, <1>4, ByteType DEF FramesInv, Declared, FrameLen

LEMMA ReturnIsDeliver ==
  ASSUME FramesInv, FramesInv', ReturnMessage
  PROVE  Messages!Deliver
<1> DEFINE m == FrameLen(Pending[1])
           r == Len(received)
           s == Pending
<1>1. /\ Reading /\ Len(buf) >= PrefixLen + Declared /\ Declared <= MaxLen
      /\ Len(buf) >= PrefixLen
      /\ received' = Append(received, [n |-> buf[1].n, len |-> Declared])
      /\ buf' = SubSeq(buf, PrefixLen + Declared + 1, Len(buf))
      /\ reader' = "task" /\ UNCHANGED <<sent, finished, lost, wire>>
  BY DEF ReturnMessage, Decodes, writerVars
<1>2. buf # <<>>
  <2>1. Len(<<>>) = 0
    BY EmptySeq
  <2> QED
    BY <1>1, <2>1, FramingAssumption
<1>3. /\ s # <<>> /\ s[1] = buf[1] /\ s[1].len = Declared
      /\ s[1].n = r + 1 /\ s[1].at = 1
      /\ m = PrefixLen + Declared /\ m \in 0 .. Len(buf) /\ m <= Len(s)
  <2>1. Len(buf) \in Nat /\ Len(wire) \in Nat /\ Len(s) = Len(buf) + Len(wire)
    BY PendingType
  <2>2. /\ s # <<>> /\ s[1] = buf[1] /\ s[1].n = r + 1 /\ s[1].at = 1
        /\ m = PrefixLen + Declared /\ Declared \in Nat
    BY <1>2, FrontOfBuffer
  <2>3. s[1].len = Declared
    BY <2>2 DEF Declared
  <2> HIDE DEF m, s, r
  <2>4. m \in 0 .. Len(buf) /\ m <= Len(s)
    BY <1>1, <2>1, <2>2, FramingAssumption
  <2> QED
    BY <2>2, <2>3, <2>4
<1>4. Pending' = SubSeq(s, m + 1, Len(s))
  BY <1>1, <1>3, DrainCutsPending
<1>5. Lined(s, r)
  BY PendingLined
<1>6. Len(received') = r + 1 /\ r + 1 \in Nat
  <2> DEFINE D == [n : Nat, len : Nat]
             e == [n |-> buf[1].n, len |-> Declared]
  <2>1. received \in Seq(D) /\ r \in Nat
    BY LenProperties DEF FramesInv
  <2>2. e \in D
    BY <1>2, <1>3, <2>1, FrontOfBuffer
  <2> HIDE DEF e, D
  <2>3. received' = Append(received, e)
    BY <1>1 DEF e
  <2> QED
    BY <2>1, <2>2, <2>3, AppendProperties
<1>7. Lined(SubSeq(s, m + 1, Len(s)), r + 1)
  <2>1. Tiled(Pending')
    BY DEF FramesInv, Arriving
  <2>2. Pending' # <<>> => Pending'[1].at = 1 /\ Pending'[1].n = Len(received') + 1
    BY DEF FramesInv
  <2> QED
    BY <1>4, <1>6, <2>1, <2>2 DEF Lined
<1>8. /\ QueueOf(s, r) # <<>>
      /\ Head(QueueOf(s, r)) = [n |-> s[1].n, len |-> s[1].len]
      /\ QueueOf(SubSeq(s, m + 1, Len(s)), r + 1) = Tail(QueueOf(s, r))
  <2>1. Len(s) >= m
    <3>1. Len(s) \in Nat
      BY PendingType
    <3> HIDE DEF s, m
    <3> QED
      BY <1>3, <3>1
  <2> HIDE DEF s, r
  <2> QED
    BY <1>3, <1>5, <1>7, <2>1, QueueIsServed DEF s
<1>9. Undelivered = QueueOf(s, r)
  BY UndeliveredIs
<1>10. Undelivered' = QueueOf(SubSeq(s, m + 1, Len(s)), r + 1)
  <2>1. Undelivered' = QueueOf(Pending', Len(received'))
    BY UndeliveredIsToo
  <2> HIDE DEF s, m, r
  <2> QED
    BY <1>4, <1>6, <2>1
<1>11. [n |-> s[1].n, len |-> s[1].len] = [n |-> buf[1].n, len |-> Declared]
  <2> HIDE DEF s, m, r
  <2> QED
    BY <1>3
<1> HIDE DEF s, m, r
<1>12. /\ Undelivered # <<>>
       /\ Head(Undelivered) = [n |-> buf[1].n, len |-> Declared]
       /\ Head(Undelivered).len = Declared
       /\ Undelivered' = Tail(Undelivered)
  BY <1>8, <1>9, <1>10, <1>11
<1> QED
  BY <1>1, <1>12 DEF Messages!Deliver, Reading

\* While the connection lasts, everything sent and not returned is in the queue.
LEMMA QueueOfAll ==
  ASSUME FramesInv, ~ lost, Pending # <<>>
  PROVE  /\ Undelivered # <<>>
         /\ Head(Undelivered).len = Pending[1].len
<1> DEFINE s == Pending
           r == Len(received)
           q == QueueOf(s, r)
           k == LastOf(s, r) - r
           D == [n : Nat, len : Nat]
<1>1. Lined(s, r)
  BY PendingLined
<1>2. /\ q \in Seq(D) /\ Len(q) = k /\ k \in Nat
      /\ \A i \in 1 .. k : q[i] = [n |-> r + i, len |-> LengthIn(s, r + i)]
  BY <1>1, QueueType
<1>3. /\ Len(s) \in Nat /\ r \in Nat /\ 1 \in 1 .. Len(s) /\ Len(s) \in 1 .. Len(s)
      /\ \A i \in 1 .. Len(s) : s[i].n \in Nat /\ s[i].n >= r + 1
      /\ s \in Seq(Bytes)
  <2>1. Len(s) \in Nat /\ r \in Nat /\ s \in Seq(Bytes)
        /\ \A i \in 1 .. Len(s) : s[i].n \in Nat /\ s[i].n >= r + 1
    BY <1>1, Numbers
  <2>2. Len(s) # 0
    BY <2>1, EmptySeq
  <2> HIDE DEF s
  <2> QED
    BY <2>1, <2>2
<1>4. LastOf(s, r) = s[Len(s)].n
  BY DEF FramesInv, LastOf, Ends
<1>5. k >= 1
  <2>1. s[Len(s)].n \in Nat /\ s[Len(s)].n >= r + 1
    BY <1>3
  <2> QED
    BY <1>3, <1>4, <2>1
<1>6. s[1].n = r + 1
  BY DEF FramesInv
<1>7. LengthIn(s, r + 1) = s[1].len
  <2> HIDE DEF s, r
  <2> QED
    BY <1>1, <1>3, <1>6, Numbers
<1>8. Undelivered = q
  BY UndeliveredIs
<1> HIDE DEF q, k, D, s, r
<1>9. q # <<>> /\ Head(q) = q[1]
  <2>1. q # <<>>
    BY <1>2, <1>5, EmptySeq
  <2> QED
    BY <1>2, <2>1, HeadTailProperties
<1>10. q[1].len = s[1].len
  BY <1>2, <1>5, <1>7
<1> QED
  BY <1>8, <1>9, <1>10 DEF s

LEMMA RefusalIsFail ==
  ASSUME FramesInv, RefuseFrame
  PROVE  Messages!Fail
<1>1. /\ Reading /\ Len(buf) >= PrefixLen /\ Declared > MaxLen
      /\ reader' = "failed" /\ UNCHANGED <<sent, finished, lost, wire, buf, received>>
  BY DEF RefuseFrame, TooLarge, writerVars
<1>2. UNCHANGED Undelivered
  <2>1. Pending' = Pending
    BY <1>1 DEF Pending
  <2> QED
    BY <1>1, <2>1, UndeliveredKept
<1>3. buf # <<>>
  <2>1. Len(<<>>) = 0
    BY EmptySeq
  <2> QED
    BY <1>1, <2>1, FramingAssumption
<1>4. lost \/ (Undelivered # <<>> /\ Head(Undelivered).len > MaxLen)
  BY <1>1, <1>3, FrontOfBuffer, QueueOfAll DEF Declared
<1> QED
  BY <1>1, <1>2, <1>4 DEF Messages!Fail, Reading

\* The end of a stream that is not lost is the end of a frame: a reader that
\* needs more has nothing left.
LEMMA EndIsClean ==
  ASSUME FramesInv, NeedsMore, wire = <<>>, buf # <<>>
  PROVE  lost
<1> SUFFICES ASSUME ~ lost PROVE FALSE
  OBVIOUS
<1> DEFINE s == Pending
           l == Len(s)
           e == FrameLen(s[1])
<1>1. /\ s # <<>> /\ s[1] = buf[1] /\ 1 \in 1 .. l /\ s[1].at = 1
      /\ e = PrefixLen + Declared /\ Declared \in Nat /\ Tiled(s)
  BY FrontOfBuffer DEF FramesInv, Arriving
<1>2. Len(buf) = l /\ l \in Nat
  <2>1. Len(wire) = 0
    BY EmptySeq
  <2>2. Len(buf) \in Nat /\ l = Len(buf) + Len(wire)
    BY PendingType
  <2> HIDE DEF l
  <2> QED
    BY <2>1, <2>2
<1>3. s[l].at = FrameLen(s[l])
  BY <1>1 DEF FramesInv
<1>4. l >= e
  <2> SUFFICES ASSUME l < e PROVE FALSE
    <3>1. e \in Nat
      BY <1>1, FramingAssumption
    <3> HIDE DEF l, e
    <3> QED
      BY <1>2, <3>1
  <2>1. l \in 1 .. l /\ 1 <= l /\ l - 1 <= e - s[1].at
    <3>1. e \in Nat
      BY <1>1, FramingAssumption
    <3> HIDE DEF l, e, s
    <3> QED
      BY <1>1, <1>2, <3>1
  <2>2. s[l].len = s[1].len /\ s[l].at = s[1].at + (l - 1)
    BY <1>1, <2>1 DEF Tiled
  <2>3. FrameLen(s[l]) = e
    BY <2>2 DEF FrameLen
  <2>4. s[l].at = l
    <3> HIDE DEF l, s
    <3> QED
      BY <1>1, <1>2, <2>2
  <2> HIDE DEF l, e, s
  <2> QED
    BY <1>2, <1>3, <2>3, <2>4
<1> HIDE DEF l, e, s
<1>5. Len(buf) >= PrefixLen + Declared
  BY <1>1, <1>2, <1>4
<1>6. Len(buf) >= PrefixLen /\ PrefixLen + Declared >= PrefixLen
  BY <1>1, <1>2, <1>5, FramingAssumption
<1>7. Declared <= MaxLen \/ Declared > MaxLen
  BY <1>1, FramingAssumption
<1> QED
  BY <1>5, <1>6, <1>7 DEF NeedsMore, Decodes, TooLarge

LEMMA EndIsEnd ==
  ASSUME FramesInv, ReadEnd
  PROVE  Messages!End \/ Messages!Fail
<1>1. /\ NeedsMore /\ Reading /\ wire = <<>> /\ finished
      /\ reader' = IF buf = <<>> THEN "ended" ELSE "failed"
      /\ UNCHANGED <<sent, finished, lost, wire, buf, received>>
  BY DEF ReadEnd, NeedsMore, writerVars
<1>2. UNCHANGED Undelivered
  <2>1. Pending' = Pending
    BY <1>1 DEF Pending
  <2> QED
    BY <1>1, <2>1, UndeliveredKept
<1>3. CASE buf = <<>>
  <2>1. Pending = <<>>
    <3>1. <<>> \in Seq(Bytes)
      BY EmptySeq
    <3>2. <<>> \o <<>> = <<>>
      BY <3>1, ConcatEmptySeq
    <3> QED
      BY <1>1, <1>3, <3>2 DEF Pending
  <2>2. Undelivered = <<>>
    <3>1. LastOf(Pending, Len(received)) = Len(received)
      BY <2>1 DEF LastOf
    <3>2. Lined(Pending, Len(received))
      BY PendingLined
    <3>3. /\ Undelivered \in Seq([n : Nat, len : Nat])
          /\ Len(Undelivered) = Len(received) - Len(received)
          /\ Len(received) \in Nat
      BY <3>1, <3>2, QueueType, UndeliveredIs DEF Lined
    <3>4. Len(Undelivered) = 0
      BY <3>3
    <3> QED
      BY <3>3, <3>4, EmptySeq
  <2> QED
    BY <1>1, <1>2, <1>3, <2>2 DEF Messages!End, Reading
<1>4. CASE buf # <<>>
  <2>1. lost
    BY <1>1, <1>4, EndIsClean
  <2> QED
    BY <1>1, <1>2, <1>4, <2>1 DEF Messages!Fail, Reading
<1> QED
  BY <1>3, <1>4

LEMMA FramingStep ==
  ASSUME FramesInv, FramesInv', [Next]_vars
  PROVE  [Messages!StreamNext]_(Messages!streamVars)
<1> USE DEF Messages!StreamNext, Messages!streamVars
<1>1. CASE SendMessage
  BY <1>1, SendIsSend
<1>2. CASE FinishStream
  <2>1. Pending' = Pending
    BY <1>2 DEF FinishStream, Pending
  <2>2. UNCHANGED Undelivered
    BY <1>2, <2>1, UndeliveredKept DEF FinishStream
  <2>3. Messages!Finish
    BY <1>2, <2>2 DEF FinishStream, Messages!Finish, Reading
  <2> QED
    BY <2>3
<1>3. CASE LoseConnection
  BY <1>3, LossIsLose
<1>4. CASE ReturnMessage
  BY <1>4, ReturnIsDeliver
<1>5. CASE RefuseFrame
  BY <1>5, RefusalIsFail
<1>6. CASE ReadChunk
  <2>1. UNCHANGED <<sent, finished, lost, received, reader>> /\ Pending' = Pending
    BY <1>6, ReadingKeepsPending DEF ReadChunk, writerVars
  <2>2. UNCHANGED Undelivered
    BY <2>1, UndeliveredKept
  <2> QED
    BY <2>1, <2>2 DEF Reading
<1>7. CASE ReadEnd
  BY <1>7, EndIsEnd
<1>8. CASE ReadFails
  <2>1. /\ Reading /\ lost /\ reader' = "failed"
        /\ UNCHANGED <<sent, finished, lost, wire, buf, received>>
    BY <1>8 DEF ReadFails, NeedsMore, writerVars
  <2>2. Pending' = Pending
    BY <2>1 DEF Pending
  <2>3. UNCHANGED Undelivered
    BY <2>1, <2>2, UndeliveredKept
  <2>4. Messages!Fail
    BY <2>1, <2>3 DEF Messages!Fail, Reading
  <2> QED
    BY <2>4
<1>9. CASE UNCHANGED vars
  <2>1. UNCHANGED <<sent, finished, lost, wire, buf, received, reader>>
    BY <1>9 DEF vars, writerVars
  <2>2. Pending' = Pending
    BY <2>1 DEF Pending
  <2>3. UNCHANGED Undelivered
    BY <2>1, <2>2, UndeliveredKept
  <2> QED
    BY <2>1, <2>3 DEF Reading
<1> QED
  BY <1>1, <1>2, <1>3, <1>4, <1>5, <1>6, <1>7, <1>8, <1>9 DEF Next, ReadMessage

\* The reader gets every message once, in order and whole, whatever the chunks;
\* it sees the end of the stream only when all has been returned, and an error
\* only if the connection is lost or the next message is above MAX_FRAME_LEN.
THEOREM FramingKeepsMessages == Spec => KeepsMessages
<1>1. Init => Messages!StreamInit
  <2> SUFFICES ASSUME Init PROVE Messages!StreamInit
    OBVIOUS
  <2>1. /\ buf = <<>> /\ wire = <<>> /\ received = <<>> /\ sent = 0
        /\ finished = FALSE /\ lost = FALSE /\ reader = "connect"
    BY DEF Init
  <2>2. Pending = <<>>
    <3>1. <<>> \in Seq(Bytes)
      BY EmptySeq
    <3>2. <<>> \o <<>> = <<>>
      BY <3>1, ConcatEmptySeq
    <3> QED
      BY <2>1, <3>2 DEF Pending
  <2>3. Undelivered = <<>>
    <3>1. Len(received) = 0 /\ FramesInv
      BY <2>1, EmptySeq, FramesInit
    <3>2. Undelivered \in Seq([n : Nat, len : Nat]) /\ Len(Undelivered) = 0 - 0
      BY <2>2, <3>1, PendingLined, QueueType, UndeliveredIs DEF LastOf
    <3>3. Len(Undelivered) = 0
      BY <3>2
    <3> QED
      BY <3>2, <3>3, EmptySeq
  <2> QED
    BY <2>1, <2>3 DEF Messages!StreamInit, Reading
<1>2. FramesInv /\ FramesInv' /\ [Next]_vars => [Messages!StreamNext]_(Messages!streamVars)
  BY FramingStep
<1> QED
  BY <1>1, <1>2, FramesInvariant, PTL DEF Spec, KeepsMessages, Messages!StreamSpec
=============================================================================
