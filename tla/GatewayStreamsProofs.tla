------------------------ MODULE GatewayStreamsProofs ------------------------
(***************************************************************************)
(* The places of the server are those of its handlers, and a link delivers *)
(* what was written on it, whole and in order, for any number of sessions, *)
(* streams and packets; UDP over a stream implements a UDP flow.           *)
(***************************************************************************)
EXTENDS GatewayStreams, FiniteSetTheorems, SequenceTheorems, TLAPS

(* The first frame of packet p, and whether x is the last one of its own.  *)
FirstFrame(n, p) == IF n = "udp" THEN <<"header", p>> ELSE <<"body", p>>
Completes(n, x) == x # Fin /\ (n = "udp" => x[1] = "body" \/ x = <<"header", Empty>>)

(* x is the frame that follows the j-th packet of s: that of the next, or  *)
(* the end of a link that its writer has finished.                         *)
After(n, s, fin, j, x) == IF j < Len(s) THEN x = FirstFrame(n, s[j + 1]) ELSE fin /\ x = Fin

(* The frames w on the wire of a link of network n carry s from its        *)
(* (k+1)-th packet on, up to wherever they were cut.                       *)
Framed(n, s, w, k, fin) ==
  /\ k \in 0 .. Len(s)
  /\ w # <<>> => After(n, s, fin, k, w[1])
  /\ \A i \in 1 .. Len(w) - 1 :
       \/ /\ n = "udp" /\ w[i][1] = "header" /\ w[i] # <<"header", Empty>>
          /\ w[i + 1] = <<"body", w[i][2]>>
       \/ /\ Completes(n, w[i])
          /\ \E j \in 1 .. Len(s) : w[i][2] = s[j] /\ After(n, s, fin, j, w[i + 1])

(* The wire was not cut: it ends where the writer has come to.             *)
Whole(n, s, w, k, fin, end) ==
  IF w = <<>> THEN k = Len(s) /\ (fin => end)
  ELSE IF fin THEN w[Len(w)] = Fin
  ELSE Len(s) > 0 /\ Completes(n, w[Len(w)]) /\ w[Len(w)][2] = s[Len(s)]

Distinct(s) == \A i, j \in DOMAIN s : s[i] = s[j] => i = j
BeginsWith(s, r) == Len(r) <= Len(s) /\ \A i \in 1 .. Len(r) : r[i] = s[i]

(* What a link carries and has delivered.                                  *)
LinkDelivers(l) ==
  LET n == network[l[1]]  k == Len(received[l]) IN
  /\ Distinct(sent[l]) /\ BeginsWith(sent[l], received[l])
  /\ Framed(n, sent[l], wire[l], k, l \in finished)
  /\ l[1] \notin broken => Whole(n, sent[l], wire[l], k, l \in finished, l \in ended)
  /\ l \in ended => /\ wire[l] = <<>>
                    /\ l[1] \notin broken => l \in finished /\ k = Len(sent[l])

(* A link nobody serves is untouched, the goroutines stop for a reason, and *)
(* a UDP flow, which has no end of its own, is only ever cut.              *)
LinkIsServed(l) ==
  /\ network[l[1]] = "none" =>
       /\ sent[l] = <<>> /\ received[l] = <<>> /\ wire[l] = <<>>
       /\ copying[l] = "off" /\ l \notin finished /\ l \notin ended
  /\ phase[l[1]] \in {"none", "offered", "asking"} => network[l[1]] = "none"
  /\ phase[l[1]] = "serving" => network[l[1]] # "none" /\ copying[l] # "off"
  /\ copying[l] = "failed" => l[1] \in closed
  /\ copying[l] = "ended" => IF l[2] = "up" THEN l \in ended ELSE l \in finished
  /\ network[l[1]] = "udp" => l \notin finished /\ (l[1] \in closed => l[1] \in broken)

LinksDeliver == \A l \in Link : LinkDelivers(l)
LinksAreServed == \A l \in Link : LinkIsServed(l)

(* The handlers, which are finitely many however many streams there are,   *)
(* hold the places.                                                        *)
Handlers == {st \in Stream : Handled(st)}
HandlersOf(s) == {st \in Stream : owner[st] = s /\ Handled(st)}
PlacesHeld == IsFiniteSet(Handlers) /\ PlacesAreHeldByHandlers

(* The inductive invariant.                                                *)
StreamIInv ==
  /\ TypeOK /\ PlacesHeld
  /\ LinksAreServed /\ LinksDeliver /\ RelayIsComplete

-----------------------------------------------------------------------------
(* Lemmas on the framing of a link.                                        *)

\* Frames of different kinds are different, and a frame carries its packet.
LEMMA FrameFacts ==
  ASSUME NEW n, NEW p
  PROVE  /\ <<"header", p>> # Fin /\ <<"body", p>> # Fin /\ <<"header", p>> # <<"body", p>>
         /\ FirstFrame(n, p) # Fin /\ FirstFrame(n, p)[2] = p
         /\ n = "udp" => FirstFrame(n, p) = <<"header", p>>
         /\ n # "udp" => FirstFrame(n, p) = <<"body", p>>
         /\ Fin[1] = "fin"
BY DEF Fin, FirstFrame

\* Appending to a sequence, entry by entry.
LEMMA AppendEntries ==
  ASSUME NEW S, NEW s \in Seq(S), NEW x \in S
  PROVE  /\ Append(s, x) \in Seq(S) /\ Append(s, x) # <<>>
         /\ Len(s) \in Nat /\ Len(Append(s, x)) = Len(s) + 1
         /\ \A i \in 1 .. Len(s) : Append(s, x)[i] = s[i]
         /\ Append(s, x)[Len(s) + 1] = x
  OBVIOUS

\* What Written puts on the wire for one packet: one frame or a header and a
\* body; a relay's packet is not empty.
LEMMA WrittenFrames ==
  ASSUME NEW n \in {"tcp", "udp"}, NEW p, n = "tcp" => p # Empty
  PROVE  Written(n, p) = IF n = "udp" /\ p # Empty THEN <<<<"header", p>>>> \o <<<<"body", p>>>>
                         ELSE <<FirstFrame(n, p)>>
<1>1. CASE n = "tcp"
  BY <1>1 DEF Written, MFrame, FirstFrame
<1>2. CASE n = "udp" /\ p = Empty
  BY <1>2 DEF Written, MFrame, FirstFrame
<1>3. CASE n = "udp" /\ p # Empty
  BY <1>3 DEF Written, MFrame, FirstFrame
<1> QED BY <1>1, <1>2, <1>3

\* The wire of a link after one more packet, as frames that are appended.
LEMMA WireAfterWrite ==
  ASSUME NEW n \in {"tcp", "udp"}, NEW p \in Packet, n = "tcp" => p # Empty,
         NEW w \in Seq(Frames)
  PROVE  /\ FirstFrame(n, p) \in Frames /\ <<"body", p>> \in Frames
         /\ w \o Written(n, p) =
              IF n = "udp" /\ p # Empty THEN Append(Append(w, <<"header", p>>), <<"body", p>>)
                                        ELSE Append(w, FirstFrame(n, p))
<1>1. <<"header", p>> \in Frames /\ <<"body", p>> \in Frames
  BY DEF Frames
<1>2. FirstFrame(n, p) \in Frames
  BY <1>1 DEF FirstFrame
<1> HIDE DEF Frames, FirstFrame
<1>3. \A x \in Frames : w \o <<x>> = Append(w, x)
  OBVIOUS
<1>4. ASSUME NEW x \in Frames, NEW y \in Frames
      PROVE  w \o (<<x>> \o <<y>>) = Append(Append(w, x), y)
  <2>1. <<x>> \in Seq(Frames) /\ <<y>> \in Seq(Frames)
    OBVIOUS
  <2>2. w \o (<<x>> \o <<y>>) = (w \o <<x>>) \o <<y>>
    BY <2>1, ConcatAssociative
  <2>3. Append(w, x) \in Seq(Frames)
    OBVIOUS
  <2>4. Append(w, x) \o <<y>> = Append(Append(w, x), y)
    BY <2>3
  <2> QED BY <1>3, <2>2, <2>4
<1>5. Written(n, p) = IF n = "udp" /\ p # Empty THEN <<<<"header", p>>>> \o <<<<"body", p>>>>
                      ELSE <<FirstFrame(n, p)>>
  BY WrittenFrames
<1> QED BY <1>1, <1>2, <1>3, <1>4, <1>5

\* A packet that is written starts where the packets before it have ended.
LEMMA FramedFirst ==
  ASSUME NEW n \in {"tcp", "udp"}, NEW s \in Seq(Packet), NEW w \in Seq(Frames), NEW k, NEW end,
         Framed(n, s, w, k, FALSE), Whole(n, s, w, k, FALSE, end), NEW p \in Packet,
         FirstFrame(n, p) \in Frames
  PROVE  Framed(n, Append(s, p), Append(w, FirstFrame(n, p)), k, FALSE)
<1> DEFINE x == FirstFrame(n, p)
           s2 == Append(s, p)
           w2 == Append(w, x)
<1>1. /\ Len(s) \in Nat /\ Len(s2) = Len(s) + 1 /\ s2[Len(s) + 1] = p
      /\ \A i \in 1 .. Len(s) : s2[i] = s[i]
  BY AppendEntries
<1>2. /\ Len(w) \in Nat /\ Len(w2) = Len(w) + 1 /\ w2[Len(w) + 1] = x
      /\ \A i \in 1 .. Len(w) : w2[i] = w[i]
  BY AppendEntries
<1> HIDE DEF s2, w2
<1>3. ASSUME NEW j \in 0 .. Len(s), NEW y, After(n, s, FALSE, j, y)
      PROVE  After(n, s2, FALSE, j, y)
  BY <1>1, <1>3 DEF After
<1>4. After(n, s2, FALSE, Len(s), x)
  BY <1>1 DEF After
<1>5. k \in 0 .. Len(s2)
  BY <1>1 DEF Framed
<1>6. After(n, s2, FALSE, k, w2[1])
  <2>1. CASE w = <<>>
    <3>1. Len(w) = 0 /\ k = Len(s)
      BY <2>1 DEF Whole
    <3>2. w2[1] = x
      BY <1>2, <3>1
    <3> QED BY <1>4, <3>1, <3>2
  <2>2. CASE w # <<>>
    <3>1. Len(w) >= 1 /\ w2[1] = w[1]
      BY <1>2, <2>2
    <3> QED BY <1>3, <2>2, <3>1 DEF Framed
  <2> QED BY <2>1, <2>2
<1>7. ASSUME NEW i \in 1 .. Len(w2) - 1
      PROVE  \/ /\ n = "udp" /\ w2[i][1] = "header" /\ w2[i] # <<"header", Empty>>
                /\ w2[i + 1] = <<"body", w2[i][2]>>
             \/ /\ Completes(n, w2[i])
                /\ \E j \in 1 .. Len(s2) : w2[i][2] = s2[j] /\ After(n, s2, FALSE, j, w2[i + 1])
  <2>1. CASE i = Len(w)
    <3>1. Len(s) \in 1 .. Len(s2) /\ Completes(n, w[i]) /\ w[i][2] = s[Len(s)] /\ w2[i] = w[i]
      BY <1>1, <1>2, <2>1 DEF Whole
    <3>2. w[i][2] = s2[Len(s)] /\ w2[i + 1] = x
      BY <1>1, <1>2, <2>1, <3>1 DEF Whole
    <3> QED BY <1>4, <3>1, <3>2
  <2>2. CASE i # Len(w)
    <3>1. i \in 1 .. Len(w) - 1 /\ w2[i] = w[i] /\ w2[i + 1] = w[i + 1]
      BY <1>2, <2>2
    <3>2. CASE Completes(n, w[i]) /\ \E j \in 1 .. Len(s) : w[i][2] = s[j] /\ After(n, s, FALSE, j, w[i + 1])
      <4>1. PICK j \in 1 .. Len(s) : w[i][2] = s[j] /\ After(n, s, FALSE, j, w[i + 1])
        BY <3>2
      <4>2. j \in 0 .. Len(s) /\ j \in 1 .. Len(s2) /\ s2[j] = s[j]
        BY <1>1
      <4>3. After(n, s2, FALSE, j, w[i + 1])
        BY <1>3, <4>1, <4>2
      <4> QED BY <3>1, <3>2, <4>1, <4>2, <4>3
    <3> QED BY <3>1, <3>2 DEF Framed
  <2> QED BY <2>1, <2>2
<1> QED BY <1>5, <1>6, <1>7 DEF Framed, x, s2, w2

\* A packet that is written, whole, is on the wire after those before it.
LEMMA FramedWrite ==
  ASSUME NEW n \in {"tcp", "udp"}, NEW s \in Seq(Packet), NEW w \in Seq(Frames), NEW k, NEW end,
         Framed(n, s, w, k, FALSE), Whole(n, s, w, k, FALSE, end), NEW p \in Packet,
         n = "tcp" => p # Empty
  PROVE  /\ w \o Written(n, p) \in Seq(Frames)
         /\ Framed(n, Append(s, p), w \o Written(n, p), k, FALSE)
         /\ Whole(n, Append(s, p), w \o Written(n, p), k, FALSE, end)
<1> DEFINE x == FirstFrame(n, p)
           y == <<"body", p>>
           s2 == Append(s, p)
           w2 == Append(w, x)
           w3 == Append(w2, y)
<1>1. x \in Frames /\ y \in Frames
  BY WireAfterWrite
<1>2. w \o Written(n, p) = IF n = "udp" /\ p # Empty THEN Append(Append(w, <<"header", p>>), y) ELSE w2
  BY WireAfterWrite
<1>3. Framed(n, s2, w2, k, FALSE)
  BY <1>1, FramedFirst
<1>4. /\ Len(s) \in Nat /\ Len(s2) = Len(s) + 1 /\ s2[Len(s) + 1] = p
  BY AppendEntries
<1>5. /\ w2 \in Seq(Frames) /\ w2 # <<>> /\ Len(w) \in Nat
      /\ Len(w2) = Len(w) + 1 /\ w2[Len(w) + 1] = x
  BY <1>1, AppendEntries
<1>6. x # Fin /\ x[2] = p /\ y # Fin /\ y[1] = "body" /\ y[2] = p
  BY FrameFacts
<1>7. CASE n = "udp" /\ p # Empty
  <2>1. x = <<"header", p>> /\ x[1] = "header" /\ x # <<"header", Empty>>
    BY <1>7 DEF FirstFrame
  <2>2. w \o Written(n, p) = w3
    BY <1>2, <1>7, <2>1
  <2>3. /\ w3 \in Seq(Frames) /\ w3 # <<>> /\ Len(w3) = Len(w) + 2 /\ w3[Len(w) + 2] = y
        /\ \A i \in 1 .. Len(w2) : w3[i] = w2[i]
    <3> HIDE DEF w2
    <3>1. Len(w3) = Len(w2) + 1 /\ w3[Len(w2) + 1] = y
      BY <1>1, <1>5, AppendEntries
    <3> QED BY <1>1, <1>5, <3>1, AppendEntries
  <2> HIDE DEF x, y, s2, w2, w3
  <2>4. Framed(n, s2, w3, k, FALSE)
    <3>0. w3[1] = w2[1]
      BY <1>5, <2>3
    <3>1. k \in 0 .. Len(s2) /\ After(n, s2, FALSE, k, w3[1])
      BY <1>3, <1>5, <3>0 DEF Framed
    <3>2. ASSUME NEW i \in 1 .. Len(w3) - 1
          PROVE  \/ /\ n = "udp" /\ w3[i][1] = "header" /\ w3[i] # <<"header", Empty>>
                    /\ w3[i + 1] = <<"body", w3[i][2]>>
                 \/ /\ Completes(n, w3[i])
                    /\ \E j \in 1 .. Len(s2) : w3[i][2] = s2[j] /\ After(n, s2, FALSE, j, w3[i + 1])
      <4>1. CASE i = Len(w) + 1
        <5>1. w3[i] = x /\ w3[i + 1] = y
          BY <1>5, <2>3, <4>1
        <5> QED BY <1>6, <1>7, <2>1, <5>1 DEF y
      <4>2. CASE i # Len(w) + 1
        <5>1. i \in 1 .. Len(w2) - 1 /\ w3[i] = w2[i] /\ w3[i + 1] = w2[i + 1]
          BY <1>5, <2>3, <4>2
        <5> QED BY <1>3, <5>1 DEF Framed
      <4> QED BY <4>1, <4>2
    <3> QED BY <3>1, <3>2 DEF Framed
  <2>5. Whole(n, s2, w3, k, FALSE, end)
    BY <1>4, <1>6, <2>3 DEF Whole, Completes
  <2> QED BY <2>2, <2>3, <2>4, <2>5 DEF s2
<1>8. CASE ~(n = "udp" /\ p # Empty)
  <2>1. w \o Written(n, p) = w2
    BY <1>2, <1>8
  <2>2. Completes(n, x)
    BY <1>6, <1>8 DEF Completes, FirstFrame
  <2> HIDE DEF x, y, s2, w2, w3
  <2>3. Whole(n, s2, w2, k, FALSE, end)
    BY <1>4, <1>5, <1>6, <2>2 DEF Whole
  <2> QED BY <1>3, <1>5, <2>1, <2>3 DEF s2
<1> QED BY <1>7, <1>8

\* The end of a link is on the wire after all that was written.
LEMMA FramedClose ==
  ASSUME NEW n \in {"tcp", "udp"}, NEW s \in Seq(Packet), NEW w \in Seq(Frames), NEW k, NEW end,
         Framed(n, s, w, k, FALSE), Whole(n, s, w, k, FALSE, end)
  PROVE  /\ Append(w, Fin) \in Seq(Frames)
         /\ Framed(n, s, Append(w, Fin), k, TRUE)
         /\ Whole(n, s, Append(w, Fin), k, TRUE, end)
<1> DEFINE w2 == Append(w, Fin)
<1>1. /\ w2 \in Seq(Frames) /\ w2 # <<>>
      /\ Len(w) \in Nat /\ Len(w2) = Len(w) + 1 /\ w2[Len(w) + 1] = Fin
      /\ \A i \in 1 .. Len(w) : w2[i] = w[i]
  <2>1. Fin \in Frames
    BY DEF Frames
  <2> QED BY <2>1, AppendEntries
<1>2. Len(s) \in Nat
  OBVIOUS
<1> HIDE DEF w2
<1>3. ASSUME NEW j \in 0 .. Len(s), NEW y, After(n, s, FALSE, j, y)
      PROVE  After(n, s, TRUE, j, y)
  BY <1>2, <1>3 DEF After
<1>4. After(n, s, TRUE, Len(s), Fin)
  BY <1>2 DEF After
<1>5. k \in 0 .. Len(s)
  BY DEF Framed
<1>6. After(n, s, TRUE, k, w2[1])
  <2>1. CASE w = <<>>
    <3>1. Len(w) = 0 /\ k = Len(s)
      BY <2>1 DEF Whole
    <3>2. w2[1] = Fin
      BY <1>1, <3>1
    <3> QED BY <1>4, <3>1, <3>2
  <2>2. CASE w # <<>>
    <3>1. Len(w) >= 1 /\ w2[1] = w[1]
      BY <1>1, <2>2
    <3> QED BY <1>3, <1>5, <2>2, <3>1 DEF Framed
  <2> QED BY <2>1, <2>2
<1>7. ASSUME NEW i \in 1 .. Len(w2) - 1
      PROVE  \/ /\ n = "udp" /\ w2[i][1] = "header" /\ w2[i] # <<"header", Empty>>
                /\ w2[i + 1] = <<"body", w2[i][2]>>
             \/ /\ Completes(n, w2[i])
                /\ \E j \in 1 .. Len(s) : w2[i][2] = s[j] /\ After(n, s, TRUE, j, w2[i + 1])
  <2>1. CASE i = Len(w)
    <3>1. Len(s) \in 1 .. Len(s) /\ Completes(n, w[i]) /\ w[i][2] = s[Len(s)]
      BY <1>1, <1>2, <2>1 DEF Whole
    <3>2. w2[i] = w[i] /\ w2[i + 1] = Fin
      BY <1>1, <2>1
    <3> QED BY <1>4, <3>1, <3>2
  <2>2. CASE i # Len(w)
    <3>1. i \in 1 .. Len(w) - 1 /\ w2[i] = w[i] /\ w2[i + 1] = w[i + 1]
      BY <1>1, <2>2
    <3>2. CASE Completes(n, w[i]) /\ \E j \in 1 .. Len(s) : w[i][2] = s[j] /\ After(n, s, FALSE, j, w[i + 1])
      <4>1. PICK j \in 1 .. Len(s) : w[i][2] = s[j] /\ After(n, s, FALSE, j, w[i + 1])
        BY <3>2
      <4>2. j \in 0 .. Len(s)
        BY <1>2
      <4>3. After(n, s, TRUE, j, w[i + 1])
        BY <1>3, <4>1, <4>2
      <4> QED BY <3>1, <3>2, <4>1, <4>3
    <3> QED BY <3>1, <3>2 DEF Framed
  <2> QED BY <2>1, <2>2
<1>8. Framed(n, s, w2, k, TRUE)
  BY <1>5, <1>6, <1>7 DEF Framed
<1>9. Whole(n, s, w2, k, TRUE, end)
  BY <1>1 DEF Whole
<1> QED BY <1>1, <1>8, <1>9 DEF w2

\* The frame at the head of a wire is the first of the next packet, or the end.
LEMMA FramedHead ==
  ASSUME NEW n \in {"none", "tcp", "udp"}, NEW s \in Seq(Packet), NEW w \in Seq(Frames), NEW k, NEW fin,
         Framed(n, s, w, k, fin), w # <<>>
  PROVE  /\ k \in Nat /\ Len(s) \in Nat /\ Len(w) \in Nat /\ Len(w) >= 1 /\ k <= Len(s)
         /\ w[1] # Fin => k < Len(s) /\ w[1] = FirstFrame(n, s[k + 1]) /\ w[1][2] = s[k + 1]
         /\ w[1] = Fin => fin /\ k = Len(s) /\ Len(w) = 1
<1>1. k \in Nat /\ Len(s) \in Nat /\ Len(w) \in Nat /\ Len(w) >= 1 /\ k <= Len(s)
  BY DEF Framed
<1>2. After(n, s, fin, k, w[1])
  BY DEF Framed
<1>3. CASE k < Len(s)
  BY <1>1, <1>2, <1>3, FrameFacts DEF After
<1>4. CASE k = Len(s)
  <2>1. fin /\ w[1] = Fin
    BY <1>1, <1>2, <1>4 DEF After
  <2>2. Len(w) = 1
    <3>1. ASSUME Len(w) > 1 PROVE FALSE
      <4>1. 1 \in 1 .. Len(w) - 1
        BY <1>1, <3>1
      <4>2. w[1][1] = "header" \/ Completes(n, w[1])
        BY <4>1 DEF Framed
      <4> QED BY <2>1, <4>2, FrameFacts DEF Completes
    <3>2. Len(w) \in Nat /\ Len(w) >= 1 /\ ~(Len(w) > 1)
      BY <1>1, <3>1
    <3>3. \A m \in Nat : m >= 1 /\ ~(m > 1) => m = 1
      OBVIOUS
    <3> QED BY <3>2, <3>3
  <2> QED BY <1>1, <1>4, <2>1, <2>2
<1> QED BY <1>1, <1>3, <1>4

\* Dropping whole frames from the head of a wire, entry by entry.
LEMMA TailEntries ==
  ASSUME NEW S, NEW w \in Seq(S), NEW t \in 1 .. Len(w)
  PROVE  /\ SubSeq(w, t + 1, Len(w)) \in Seq(S) /\ Len(SubSeq(w, t + 1, Len(w))) = Len(w) - t
         /\ \A i \in 1 .. Len(w) - t : SubSeq(w, t + 1, Len(w))[i] = w[i + t]
  OBVIOUS

\* A read takes the frames of exactly one packet, the next one, and leaves the
\* wire at the start of the packet after it.
LEMMA FramedRead ==
  ASSUME NEW n \in {"tcp", "udp"}, NEW s \in Seq(Packet), NEW w \in Seq(Frames), NEW k, NEW fin,
         NEW end, NEW whole \in BOOLEAN, NEW t \in {1, 2},
         Framed(n, s, w, k, fin), whole => Whole(n, s, w, k, fin, end), Distinct(s),
         w # <<>>, w[1] # Fin, t <= Len(w),
         t = 1 <=> n = "tcp" \/ w[1] = <<"header", Empty>>
  PROVE  /\ SubSeq(w, t + 1, Len(w)) \in Seq(Frames)
         /\ Framed(n, s, SubSeq(w, t + 1, Len(w)), k + 1, fin)
         /\ whole => Whole(n, s, SubSeq(w, t + 1, Len(w)), k + 1, fin, end)
<1> DEFINE w2 == SubSeq(w, t + 1, Len(w))
<1>1. /\ k \in Nat /\ Len(s) \in Nat /\ Len(w) \in Nat /\ Len(w) >= 1 /\ k < Len(s)
      /\ w[1] = FirstFrame(n, s[k + 1]) /\ w[1][2] = s[k + 1]
  BY FramedHead
<1>2. t \in 1 .. Len(w) /\ t \in Nat
  BY <1>1
<1>3. w2 \in Seq(Frames) /\ Len(w2) = Len(w) - t /\ \A i \in 1 .. Len(w) - t : w2[i] = w[i + t]
  BY <1>2, TailEntries
<1> HIDE DEF w2
<1>4. Completes(n, w[t]) /\ w[t][2] = s[k + 1] /\ w[t] # Fin
  <2>1. CASE t = 1
    BY <1>1, <2>1 DEF Completes, FirstFrame
  <2>2. CASE t = 2
    <3>1. n = "udp" /\ w[1] # <<"header", Empty>> /\ w[1] = <<"header", s[k + 1]>>
      BY <1>1, <2>2 DEF FirstFrame
    <3>2. ~Completes(n, w[1])
      BY <3>1 DEF Completes
    <3>3. 1 \in 1 .. Len(w) - 1
      BY <1>1, <2>2
    <3>4. w[2] = <<"body", s[k + 1]>>
      BY <1>1, <3>2, <3>3 DEF Framed
    <3> QED BY <2>2, <3>1, <3>4, FrameFacts DEF Completes
  <2> QED BY <2>1, <2>2
<1>5. t < Len(w) => After(n, s, fin, k + 1, w[t + 1])
  <2> SUFFICES ASSUME t < Len(w) PROVE After(n, s, fin, k + 1, w[t + 1])
    OBVIOUS
  <2>1. t \in 1 .. Len(w) - 1
    BY <1>1, <1>2
  <2>2. ~(n = "udp" /\ w[t][1] = "header" /\ w[t] # <<"header", Empty>>)
    BY <1>4 DEF Completes
  <2>3. PICK j \in 1 .. Len(s) : w[t][2] = s[j] /\ After(n, s, fin, j, w[t + 1])
    BY <2>1, <2>2 DEF Framed
  <2>4. k + 1 \in DOMAIN s /\ j \in DOMAIN s /\ s[j] = s[k + 1]
    BY <1>1, <1>4, <2>3
  <2>5. j = k + 1
    BY <2>4 DEF Distinct
  <2> QED BY <2>3, <2>5
<1>6. Framed(n, s, w2, k + 1, fin)
  <2>1. k + 1 \in 0 .. Len(s)
    BY <1>1
  <2>2. w2 # <<>> => After(n, s, fin, k + 1, w2[1])
    <3> SUFFICES ASSUME w2 # <<>> PROVE After(n, s, fin, k + 1, w2[1])
      OBVIOUS
    <3>1. Len(w2) >= 1
      BY <1>3
    <3>2. t < Len(w) /\ w2[1] = w[t + 1]
      BY <1>1, <1>2, <1>3, <3>1
    <3> QED BY <1>5, <3>2
  <2>3. ASSUME NEW i \in 1 .. Len(w2) - 1
        PROVE  /\ i + t \in 1 .. Len(w) - 1 /\ w2[i] = w[i + t] /\ w2[i + 1] = w[(i + t) + 1]
    BY <1>1, <1>2, <1>3
  <2> QED BY <2>1, <2>2, <2>3 DEF Framed
<1>7. ASSUME whole PROVE Whole(n, s, w2, k + 1, fin, end)
  <2>1. Whole(n, s, w, k, fin, end)
    BY <1>7
  <2>2. CASE w2 = <<>>
    <3>1. Len(w) = t
      BY <1>1, <1>2, <1>3, <2>2
    <3>2. ~fin /\ s[k + 1] = s[Len(s)]
      BY <1>4, <2>1, <3>1 DEF Whole
    <3>3. k + 1 \in DOMAIN s /\ Len(s) \in DOMAIN s
      BY <1>1
    <3>4. k + 1 = Len(s)
      BY <3>2, <3>3 DEF Distinct
    <3> QED BY <2>2, <3>2, <3>4 DEF Whole
  <2>3. CASE w2 # <<>>
    <3>1. Len(w2) >= 1
      BY <1>3, <2>3
    <3>2. w2[Len(w2)] = w[Len(w)]
      BY <1>1, <1>2, <1>3, <3>1
    <3> QED BY <2>1, <2>3, <3>2 DEF Whole
  <2> QED BY <2>2, <2>3
<1> QED BY <1>3, <1>6, <1>7 DEF w2

\* Of a wire that is cut any prefix may arrive.
LEMMA FramedCut ==
  ASSUME NEW n, NEW s \in Seq(Packet), NEW w \in Seq(Frames), NEW k, NEW fin,
         Framed(n, s, w, k, fin), NEW m \in 0 .. Len(w)
  PROVE  SubSeq(w, 1, m) \in Seq(Frames) /\ Framed(n, s, SubSeq(w, 1, m), k, fin)
<1> DEFINE w2 == SubSeq(w, 1, m)
<1>1. /\ w2 \in Seq(Frames) /\ Len(w2) = m /\ Len(w) \in Nat
      /\ \A i \in 1 .. m : w2[i] = w[i]
  OBVIOUS
<1> HIDE DEF w2
<1>2. w2 # <<>> => w # <<>> /\ w2[1] = w[1]
  BY <1>1
<1>3. ASSUME NEW i \in 1 .. Len(w2) - 1
      PROVE  i \in 1 .. Len(w) - 1 /\ w2[i] = w[i] /\ w2[i + 1] = w[i + 1]
  BY <1>1
<1>4. Framed(n, s, w2, k, fin)
  BY <1>2, <1>3 DEF Framed
<1> QED BY <1>1, <1>4 DEF w2

\* A link may be finished whose frames no longer arrive.
LEMMA FramedLost ==
  ASSUME NEW n, NEW s \in Seq(Packet), NEW w \in Seq(Frames), NEW k, Framed(n, s, w, k, FALSE)
  PROVE  Framed(n, s, w, k, TRUE)
<1>1. ASSUME NEW j \in 0 .. Len(s), NEW y, After(n, s, FALSE, j, y)
      PROVE  After(n, s, TRUE, j, y)
  BY <1>1 DEF After
<1>2. k \in 0 .. Len(s) /\ (w # <<>> => After(n, s, TRUE, k, w[1]))
  BY <1>1 DEF Framed
<1>3. ASSUME NEW i \in 1 .. Len(w) - 1, NEW j \in 1 .. Len(s), After(n, s, FALSE, j, w[i + 1])
      PROVE  After(n, s, TRUE, j, w[i + 1])
  <2>1. j \in 0 .. Len(s)
    OBVIOUS
  <2> QED BY <1>1, <1>3, <2>1
<1> QED BY <1>2, <1>3 DEF Framed

-----------------------------------------------------------------------------
(* Lemmas on parts of the invariant.                                       *)

\* A link is a stream and a direction.
LEMMA LinkParts ==
  /\ \A l \in Link : l[1] \in Stream /\ l[2] \in Dir /\ l = <<l[1], l[2]>>
  /\ \A st \in Stream, d \in Dir : <<st, d>> \in Link /\ <<st, d>>[1] = st /\ <<st, d>>[2] = d
BY DEF Link

\* A step that starts and ends no handler leaves the places alone.
LEMMA PlacesKept ==
  ASSUME StreamIInv, UNCHANGED <<owner, slots, serverSlots>>,
         \A st \in Stream : Handled(st)' <=> Handled(st)
  PROVE  PlacesHeld'
<1>1. Handlers' = Handlers
  BY DEF Handlers
<1>2. \A s \in Session : HandlersOf(s)' = HandlersOf(s)
  BY DEF HandlersOf
<1>3. PlacesAreHeldByHandlers'
  BY <1>1, <1>2 DEF StreamIInv, PlacesHeld, PlacesAreHeldByHandlers, Handlers, HandlersOf
<1> QED BY <1>1, <1>3 DEF StreamIInv, PlacesHeld

\* What the links carry depends on their data only; a stream that breaks
\* claims less.
LEMMA LinksKept ==
  ASSUME StreamIInv, UNCHANGED <<network, flow>>, broken \subseteq broken'
  PROVE  LinksDeliver'
<1> SUFFICES ASSUME NEW l \in Link PROVE LinkDelivers(l)'
  BY DEF LinksDeliver
<1>1. LinkDelivers(l)
  BY DEF StreamIInv, LinksDeliver
<1>2. UNCHANGED <<network, sent, finished, wire, received, ended>>
  BY DEF flow
<1> QED BY <1>1, <1>2 DEF LinkDelivers

\* A step on one link leaves what every other link carries alone.
LEMMA OtherLinks ==
  ASSUME StreamIInv, NEW l \in Link, NEW m \in Link, m # l, UNCHANGED <<network, broken>>,
         sent'[m] = sent[m], wire'[m] = wire[m], received'[m] = received[m],
         m \in finished' <=> m \in finished, m \in ended' <=> m \in ended
  PROVE  LinkDelivers(m)'
<1>1. LinkDelivers(m)
  BY DEF StreamIInv, LinksDeliver
<1> QED BY <1>1 DEF LinkDelivers

\* A stream that is cut delivers a prefix of what was on its way, and claims less.
LEMMA BreakKeeps ==
  ASSUME StreamIInv, NEW st \in Stream, NEW up \in 0 .. Len(wire[<<st, "up">>]), Break(st, up),
         UNCHANGED network
  PROVE  /\ wire' \in [Link -> Seq(Frames)] /\ LinksDeliver'
         /\ broken' = broken \cup {st} /\ UNCHANGED <<sent, finished, received, ended>>
         /\ \A l \in Link : wire[l] = <<>> => wire'[l] = <<>>
<1>1. PICK down \in 0 .. Len(wire[<<st, "down">>]) :
        wire' = [wire EXCEPT ![<<st, "up">>] = SubSeq(@, 1, up),
                             ![<<st, "down">>] = SubSeq(@, 1, down)]
  BY DEF Break
<1>2. broken' = broken \cup {st} /\ UNCHANGED <<sent, finished, received, ended>>
  BY DEF Break
<1>3. wire \in [Link -> Seq(Frames)] /\ sent \in [Link -> Seq(Packet)]
  BY DEF StreamIInv, TypeOK
<1>4. /\ <<st, "up">> \in Link /\ <<st, "down">> \in Link /\ <<st, "up">> # <<st, "down">>
      /\ \A l \in Link : l[1] = st => l \in {<<st, "up">>, <<st, "down">>}
  BY LinkParts DEF Dir
<1>5. /\ wire'[<<st, "up">>] = SubSeq(wire[<<st, "up">>], 1, up)
      /\ wire'[<<st, "down">>] = SubSeq(wire[<<st, "down">>], 1, down)
      /\ \A l \in Link : l \notin {<<st, "up">>, <<st, "down">>} => wire'[l] = wire[l]
      /\ DOMAIN wire' = Link
  BY <1>1, <1>3, <1>4
<1>6. ASSUME NEW l \in Link
      PROVE  /\ wire'[l] \in Seq(Frames) /\ LinkDelivers(l)'
             /\ wire[l] = <<>> => wire'[l] = <<>>
  <2>1. LinkDelivers(l) /\ wire[l] \in Seq(Frames) /\ sent[l] \in Seq(Packet)
    BY <1>3 DEF StreamIInv, LinksDeliver
  <2>2. CASE l \notin {<<st, "up">>, <<st, "down">>}
    BY <1>2, <1>5, <2>1, <2>2 DEF LinkDelivers
  <2>3. CASE l \in {<<st, "up">>, <<st, "down">>}
    <3>1. PICK m \in 0 .. Len(wire[l]) : wire'[l] = SubSeq(wire[l], 1, m)
      BY <1>5, <2>3
    <3>2. wire'[l] \in Seq(Frames) /\ (wire[l] = <<>> => wire'[l] = <<>>)
      BY <2>1, <3>1
    <3>3. Framed(network[l[1]], sent[l], wire'[l], Len(received[l]), l \in finished)
      <4> DEFINE fin == l \in finished
      <4>1. Framed(network[l[1]], sent[l], wire[l], Len(received[l]), fin)
        BY <2>1 DEF LinkDelivers
      <4> HIDE DEF fin
      <4>2. Framed(network[l[1]], sent[l], wire'[l], Len(received[l]), fin)
        BY <2>1, <3>1, <4>1, FramedCut
      <4> QED BY <4>2 DEF fin
    <3>4. l[1] = st
      BY <2>3, LinkParts DEF Dir
    <3> QED BY <1>2, <2>1, <3>2, <3>3, <3>4 DEF LinkDelivers
  <2> QED BY <2>2, <2>3
<1>7. wire' \in [Link -> Seq(Frames)]
  <2>1. wire' = [l \in Link |-> wire'[l]]
    BY <1>1, <1>3
  <2> QED BY <1>6, <2>1
<1> QED BY <1>2, <1>6, <1>7 DEF LinksDeliver

\* A complete relay stays complete if nothing is written or read upwards on a
\* closed stream and no stream is closed that was not closed or broken before.
LEMMA RelaysKept ==
  ASSUME StreamIInv, UNCHANGED <<network, sent, finished, received>>,
         closed' \ broken' \subseteq closed \ broken
  PROVE  RelayIsComplete'
BY DEF StreamIInv, RelayIsComplete

\* A place that is taken is the place of one more handler.
LEMMA PlaceTaken ==
  ASSUME StreamIInv, NEW st \in Stream, ~Handled(st),
         slots[owner[st]] < MaxFlows, serverSlots < ServerSlots,
         slots' = [slots EXCEPT ![owner[st]] = @ + 1], serverSlots' = serverSlots + 1,
         UNCHANGED owner, Handled(st)',
         \A other \in Stream : other # st => (Handled(other)' <=> Handled(other))
  PROVE  /\ slots' \in [Session -> 0 .. MaxFlows] /\ serverSlots' \in 0 .. ServerSlots
         /\ PlacesHeld'
<1>1. /\ owner \in [Stream -> Session] /\ owner[st] \in Session
      /\ slots \in [Session -> 0 .. MaxFlows] /\ serverSlots \in 0 .. ServerSlots
      /\ MaxFlows \in Nat /\ ServerSlots \in Nat
  BY PlacesAssumption DEF StreamIInv, TypeOK
<1>2. slots' \in [Session -> 0 .. MaxFlows] /\ serverSlots' \in 0 .. ServerSlots
  BY <1>1
<1>3. Handlers' = Handlers \cup {st} /\ st \notin Handlers
  BY DEF Handlers
<1>4. /\ HandlersOf(owner[st])' = HandlersOf(owner[st]) \cup {st} /\ st \notin HandlersOf(owner[st])
      /\ \A s \in Session : s # owner[st] => HandlersOf(s)' = HandlersOf(s)
  BY DEF HandlersOf
<1>5. /\ IsFiniteSet(Handlers) /\ serverSlots = Cardinality(Handlers)
      /\ \A s \in Session : slots[s] = Cardinality(HandlersOf(s))
  BY DEF StreamIInv, PlacesHeld, PlacesAreHeldByHandlers, Handlers, HandlersOf
<1>6. IsFiniteSet(HandlersOf(owner[st]))
  <2>1. HandlersOf(owner[st]) \subseteq Handlers
    BY DEF Handlers, HandlersOf
  <2> QED BY <1>5, <2>1, FS_Subset
<1>7. IsFiniteSet(Handlers') /\ Cardinality(Handlers') = serverSlots'
  BY <1>3, <1>5, FS_AddElement
<1>8. Cardinality(HandlersOf(owner[st])') = slots[owner[st]] + 1
  BY <1>1, <1>4, <1>5, <1>6, FS_AddElement
<1>9. \A s \in Session : slots'[s] = Cardinality(HandlersOf(s)')
  BY <1>1, <1>4, <1>5, <1>8
<1>10. PlacesAreHeldByHandlers'
  BY <1>7, <1>9 DEF PlacesAreHeldByHandlers, Handlers, HandlersOf
<1> QED BY <1>2, <1>7, <1>10 DEF PlacesHeld

\* A place that is released is the place of the handler that returns; it was
\* really taken, so neither count passes below zero.
LEMMA PlaceReleased ==
  ASSUME StreamIInv, NEW st \in Stream, Handled(st), Release(st), UNCHANGED owner, ~Handled(st)',
         \A other \in Stream : other # st => (Handled(other)' <=> Handled(other))
  PROVE  /\ slots' \in [Session -> 0 .. MaxFlows] /\ serverSlots' \in 0 .. ServerSlots
         /\ PlacesHeld'
<1>1. /\ owner \in [Stream -> Session] /\ owner[st] \in Session
      /\ slots \in [Session -> 0 .. MaxFlows] /\ serverSlots \in 0 .. ServerSlots
      /\ MaxFlows \in Nat /\ ServerSlots \in Nat
  BY PlacesAssumption DEF StreamIInv, TypeOK
<1>2. /\ slots' = [slots EXCEPT ![owner[st]] = slots[owner[st]] - 1]
      /\ serverSlots' = serverSlots - 1
  BY DEF Release
<1>3. Handlers' = Handlers \ {st} /\ st \in Handlers
  BY DEF Handlers
<1>4. /\ HandlersOf(owner[st])' = HandlersOf(owner[st]) \ {st} /\ st \in HandlersOf(owner[st])
      /\ \A s \in Session : s # owner[st] => HandlersOf(s)' = HandlersOf(s)
  BY DEF HandlersOf
<1>5. /\ IsFiniteSet(Handlers) /\ serverSlots = Cardinality(Handlers)
      /\ \A s \in Session : slots[s] = Cardinality(HandlersOf(s))
  BY DEF StreamIInv, PlacesHeld, PlacesAreHeldByHandlers, Handlers, HandlersOf
<1>6. IsFiniteSet(HandlersOf(owner[st]))
  <2>1. HandlersOf(owner[st]) \subseteq Handlers
    BY DEF Handlers, HandlersOf
  <2> QED BY <1>5, <2>1, FS_Subset
<1>7. serverSlots # 0 /\ slots[owner[st]] # 0
  BY <1>1, <1>3, <1>4, <1>5, <1>6, FS_EmptySet
<1>8. slots' \in [Session -> 0 .. MaxFlows] /\ serverSlots' \in 0 .. ServerSlots
  BY <1>1, <1>2, <1>7
<1>9. IsFiniteSet(Handlers') /\ Cardinality(Handlers') = serverSlots'
  BY <1>2, <1>3, <1>5, FS_RemoveElement
<1>10. Cardinality(HandlersOf(owner[st])') = slots[owner[st]] - 1
  BY <1>1, <1>4, <1>5, <1>6, FS_RemoveElement
<1>11. \A s \in Session : slots'[s] = Cardinality(HandlersOf(s)')
  BY <1>1, <1>2, <1>4, <1>5, <1>10
<1>12. PlacesAreHeldByHandlers'
  BY <1>9, <1>11 DEF PlacesAreHeldByHandlers, Handlers, HandlersOf
<1> QED BY <1>8, <1>9, <1>12 DEF PlacesHeld

-----------------------------------------------------------------------------
(* One lemma per action.                                                   *)

\* A stream that is offered has no handler yet.
LEMMA OfferInv ==
  ASSUME StreamIInv, NEW st \in Stream, Offer(st)
  PROVE  StreamIInv'
<1>1. /\ phase[st] = "none" /\ phase' = [phase EXCEPT ![st] = "offered"]
      /\ UNCHANGED <<session, owner, network, slots, serverSlots, closed, broken, copying, flow>>
  BY DEF Offer, places
<1>2. TypeOK'
  BY <1>1 DEF TypeOK, StreamIInv, flow
<1>3. PlacesHeld'
  <2>1. phase \in [Stream -> {"none", "offered", "asking", "serving", "done"}]
    BY DEF StreamIInv, TypeOK
  <2> QED BY <1>1, <2>1, PlacesKept DEF Handled
<1>5. LinksAreServed'
  BY <1>1, LinkParts DEF StreamIInv, LinksAreServed, LinkIsServed, flow, TypeOK
<1>6. LinksDeliver'
  BY <1>1, LinksKept
<1>7. RelayIsComplete'
  BY <1>1, RelaysKept DEF flow
<1> QED BY <1>2, <1>3, <1>5, <1>6, <1>7 DEF StreamIInv

\* A stream gets both places and a handler, or neither and is closed.
LEMMA AcceptInv ==
  ASSUME StreamIInv, NEW st \in Stream, Accept(st)
  PROVE  StreamIInv'
<1> DEFINE taken == slots[owner[st]] < MaxFlows /\ serverSlots < ServerSlots
<1>1. /\ phase[st] = "offered"
      /\ phase' = [phase EXCEPT ![st] = IF taken THEN "asking" ELSE "done"]
      /\ closed' = IF taken THEN closed ELSE closed \cup {st}
      /\ slots' = [slots EXCEPT ![owner[st]] = IF taken THEN @ + 1 ELSE @]
      /\ serverSlots' = IF taken THEN serverSlots + 1 ELSE serverSlots
      /\ UNCHANGED <<session, owner, network, broken, copying, flow>>
  BY DEF Accept, Take
<1>2. /\ phase \in [Stream -> {"none", "offered", "asking", "serving", "done"}]
      /\ slots \in [Session -> 0 .. MaxFlows] /\ serverSlots \in 0 .. ServerSlots
      /\ owner[st] \in Session
  BY DEF StreamIInv, TypeOK
<1>3. /\ slots' \in [Session -> 0 .. MaxFlows] /\ serverSlots' \in 0 .. ServerSlots
      /\ PlacesHeld'
  <2>1. CASE taken
    <3>1. /\ slots' = [slots EXCEPT ![owner[st]] = @ + 1] /\ serverSlots' = serverSlots + 1
      BY <1>1, <2>1
    <3>2. /\ ~Handled(st) /\ Handled(st)'
          /\ \A other \in Stream : other # st => (Handled(other)' <=> Handled(other))
      BY <1>1, <1>2, <2>1 DEF Handled
    <3>3. slots[owner[st]] < MaxFlows /\ serverSlots < ServerSlots /\ UNCHANGED owner
      BY <1>1, <2>1
    <3> HIDE DEF taken
    <3> QED BY <3>1, <3>2, <3>3, PlaceTaken
  <2>2. CASE ~taken
    <3>1. UNCHANGED <<owner, slots, serverSlots>>
      BY <1>1, <1>2, <2>2
    <3>2. \A other \in Stream : Handled(other)' <=> Handled(other)
      BY <1>1, <1>2, <2>2 DEF Handled
    <3> QED BY <1>2, <3>1, <3>2, PlacesKept
  <2> QED BY <2>1, <2>2
<1>4. network[st] = "none"
  <2>1. <<st, "up">> \in Link /\ <<st, "up">>[1] = st
    BY LinkParts DEF Dir
  <2> QED BY <1>1, <2>1 DEF StreamIInv, LinksAreServed, LinkIsServed
<1> HIDE DEF taken
<1>5. TypeOK'
  BY <1>1, <1>2, <1>3 DEF TypeOK, StreamIInv, flow
<1>6. PlacesHeld'
  BY <1>3
<1>8. LinksAreServed'
  BY <1>1, LinkParts DEF StreamIInv, LinksAreServed, LinkIsServed, flow, TypeOK
<1>9. LinksDeliver'
  BY <1>1, LinksKept
<1>10. RelayIsComplete'
  BY <1>1, <1>4 DEF StreamIInv, RelayIsComplete, flow
<1> QED BY <1>5, <1>6, <1>8, <1>9, <1>10 DEF StreamIInv

\* A handler that refuses gives both of its places back.
LEMMA RefuseInv ==
  ASSUME StreamIInv, NEW st \in Stream, Refuse(st)
  PROVE  StreamIInv'
<1>1. /\ phase[st] = "asking" /\ phase' = [phase EXCEPT ![st] = "done"]
      /\ closed' = closed \cup {st} /\ Release(st)
      /\ UNCHANGED <<session, owner, network, broken, copying, flow>>
  BY DEF Refuse
<1>2. phase \in [Stream -> {"none", "offered", "asking", "serving", "done"}]
  BY DEF StreamIInv, TypeOK
<1>3. /\ slots' \in [Session -> 0 .. MaxFlows] /\ serverSlots' \in 0 .. ServerSlots
      /\ PlacesHeld'
  <2>1. /\ Handled(st) /\ ~Handled(st)'
        /\ \A other \in Stream : other # st => (Handled(other)' <=> Handled(other))
    BY <1>1, <1>2 DEF Handled
  <2> QED BY <1>1, <2>1, PlaceReleased
<1>4. network[st] = "none"
  <2>1. <<st, "up">> \in Link /\ <<st, "up">>[1] = st
    BY LinkParts DEF Dir
  <2> QED BY <1>1, <2>1 DEF StreamIInv, LinksAreServed, LinkIsServed
<1>5. TypeOK'
  BY <1>1, <1>2, <1>3 DEF TypeOK, StreamIInv, flow
<1>6. PlacesHeld'
  BY <1>3
<1>8. LinksAreServed'
  BY <1>1, LinkParts DEF StreamIInv, LinksAreServed, LinkIsServed, flow, TypeOK
<1>9. LinksDeliver'
  BY <1>1, LinksKept
<1>10. RelayIsComplete'
  BY <1>1, <1>4 DEF StreamIInv, RelayIsComplete, flow
<1> QED BY <1>5, <1>6, <1>8, <1>9, <1>10 DEF StreamIInv

\* The end of a session drops the streams that no handler has.
LEMMA SessionEndsInv ==
  ASSUME StreamIInv, NEW s \in Session, SessionEnds(s)
  PROVE  StreamIInv'
<1>1. /\ session' = [session EXCEPT ![s] = "closing"]
      /\ phase' = [st \in Stream |-> IF owner[st] = s /\ phase[st] \in {"none", "offered"}
                                     THEN "done" ELSE phase[st]]
      /\ UNCHANGED <<owner, network, slots, serverSlots, closed, broken, copying, flow>>
  BY DEF SessionEnds, places
<1>2. TypeOK'
  BY <1>1 DEF TypeOK, StreamIInv, flow
<1>3. PlacesHeld'
  BY <1>1, PlacesKept DEF Handled, places
<1>5. LinksAreServed'
  BY <1>1, LinkParts DEF StreamIInv, LinksAreServed, LinkIsServed, flow, TypeOK
<1>6. LinksDeliver'
  BY <1>1, LinksKept
<1>7. RelayIsComplete'
  BY <1>1, RelaysKept DEF flow
<1> QED BY <1>2, <1>3, <1>5, <1>6, <1>7 DEF StreamIInv

\* A session leaves the registry when it has no handler.
LEMMA SessionReleasedInv ==
  ASSUME StreamIInv, NEW s \in Session, SessionReleased(s)
  PROVE  StreamIInv'
<1>1. /\ session' = [session EXCEPT ![s] = "gone"]
      /\ UNCHANGED <<owner, phase, network, slots, serverSlots, closed, broken, copying, flow>>
  BY DEF SessionReleased, places
<1>2. TypeOK'
  BY <1>1 DEF TypeOK, StreamIInv, flow
<1>3. PlacesHeld'
  BY <1>1, PlacesKept DEF Handled, places
<1>5. LinksAreServed'
  BY <1>1, LinkParts DEF StreamIInv, LinksAreServed, LinkIsServed, flow, TypeOK
<1>6. LinksDeliver'
  BY <1>1, LinksKept
<1>7. RelayIsComplete'
  BY <1>1, RelaysKept DEF flow
<1> QED BY <1>2, <1>3, <1>5, <1>6, <1>7 DEF StreamIInv

\* The session's context closes a stream, which counts as broken.
LEMMA CancelClosesInv ==
  ASSUME StreamIInv, NEW st \in Stream, CancelCloses(st)
  PROVE  StreamIInv'
<1>1. /\ closed' = closed \cup {st} /\ Break(st, 0)
      /\ UNCHANGED <<session, owner, phase, network, slots, serverSlots, copying>>
  BY DEF CancelCloses, places, state
<1>2. /\ wire' \in [Link -> Seq(Frames)] /\ LinksDeliver'
      /\ broken' = broken \cup {st} /\ UNCHANGED <<sent, finished, received, ended>>
      /\ \A l \in Link : wire[l] = <<>> => wire'[l] = <<>>
  <2>1. 0 \in 0 .. Len(wire[<<st, "up">>])
    BY LinkParts DEF StreamIInv, TypeOK, Dir
  <2> QED BY <1>1, <2>1, BreakKeeps
<1>3. TypeOK'
  BY <1>1, <1>2 DEF TypeOK, StreamIInv
<1>4. PlacesHeld'
  BY <1>1, PlacesKept DEF Handled
<1>5. LinksAreServed'
  BY <1>1, <1>2, LinkParts DEF StreamIInv, LinksAreServed, LinkIsServed, TypeOK
<1>6. RelayIsComplete'
  BY <1>1, <1>2, RelaysKept
<1> QED BY <1>2, <1>3, <1>4, <1>5, <1>6 DEF StreamIInv

\* A goroutine fails because its stream is closed.
LEMMA CopyFailsInv ==
  ASSUME StreamIInv, NEW l \in Link, CopyFails(l)
  PROVE  StreamIInv'
<1>1. /\ copying[l] = "run" /\ l[1] \in closed /\ copying' = [copying EXCEPT ![l] = "failed"]
      /\ UNCHANGED <<session, owner, phase, network, slots, serverSlots, closed, broken, flow>>
  BY DEF CopyFails, places, state
<1>2. TypeOK'
  BY <1>1 DEF TypeOK, StreamIInv, flow
<1>3. PlacesHeld'
  BY <1>1, PlacesKept DEF Handled, places
<1>5. LinksAreServed'
  BY <1>1, LinkParts DEF StreamIInv, LinksAreServed, LinkIsServed, flow, TypeOK
<1>6. LinksDeliver'
  BY <1>1, LinksKept
<1>7. RelayIsComplete'
  BY <1>1, RelaysKept DEF flow
<1> QED BY <1>2, <1>3, <1>5, <1>6, <1>7 DEF StreamIInv

\* A goroutine that fails by itself breaks its stream.
LEMMA CopyBreaksInv ==
  ASSUME StreamIInv, NEW l \in Link, CopyBreaks(l)
  PROVE  StreamIInv'
<1>1. /\ copying[l] = "run" /\ copying' = [copying EXCEPT ![l] = "failed"]
      /\ closed' = closed \cup {l[1]} /\ Break(l[1], 0)
      /\ UNCHANGED <<session, owner, phase, network, slots, serverSlots>>
  BY DEF CopyBreaks, places, state
<1>2. l[1] \in Stream
  BY LinkParts
<1>3. /\ wire' \in [Link -> Seq(Frames)] /\ LinksDeliver'
      /\ broken' = broken \cup {l[1]} /\ UNCHANGED <<sent, finished, received, ended>>
      /\ \A m \in Link : wire[m] = <<>> => wire'[m] = <<>>
  <2>1. 0 \in 0 .. Len(wire[<<l[1], "up">>])
    BY <1>2, LinkParts DEF StreamIInv, TypeOK, Dir
  <2> QED BY <1>1, <1>2, <2>1, BreakKeeps
<1>4. TypeOK'
  BY <1>1, <1>2, <1>3 DEF TypeOK, StreamIInv
<1>5. PlacesHeld'
  BY <1>1, PlacesKept DEF Handled
<1>6. LinksAreServed'
  BY <1>1, <1>3, LinkParts DEF StreamIInv, LinksAreServed, LinkIsServed, TypeOK
<1>7. RelayIsComplete'
  BY <1>1, <1>3, RelaysKept
<1> QED BY <1>3, <1>4, <1>5, <1>6, <1>7 DEF StreamIInv

\* The relay of a stream begins with both links untouched.
LEMMA ServeInv ==
  ASSUME StreamIInv, NEW st \in Stream, NEW n \in {"tcp", "udp"}, Serve(st, n)
  PROVE  StreamIInv'
<1>1. /\ phase[st] = "asking" /\ st \notin closed
      /\ phase' = [phase EXCEPT ![st] = "serving"]
      /\ network' = [network EXCEPT ![st] = n]
      /\ copying' = [l \in Link |-> IF l[1] = st THEN "run" ELSE copying[l]]
      /\ UNCHANGED <<session, owner, slots, serverSlots, closed, broken, sent, finished, wire,
                     received, ended>>
  BY DEF Serve, places, flow
<1>2. /\ phase \in [Stream -> {"none", "offered", "asking", "serving", "done"}]
      /\ network \in [Stream -> {"none", "tcp", "udp"}]
      /\ copying \in [Link -> {"off", "run", "ended", "failed"}]
  BY DEF StreamIInv, TypeOK
<1>3. \A l \in Link : l[1] # st => /\ network'[l[1]] = network[l[1]] /\ phase'[l[1]] = phase[l[1]]
                                   /\ copying'[l] = copying[l]
  BY <1>1, <1>2, LinkParts
<1>4. \A l \in Link : l[1] = st => /\ network'[l[1]] = n /\ phase'[l[1]] = "serving"
                                   /\ copying'[l] = "run"
  BY <1>1, <1>2
<1>5. \A l \in Link : l[1] = st => /\ sent[l] = <<>> /\ received[l] = <<>> /\ wire[l] = <<>>
                                   /\ l \notin finished /\ l \notin ended
  BY <1>1 DEF StreamIInv, LinksAreServed, LinkIsServed
<1>6. TypeOK'
  BY <1>1, <1>2 DEF TypeOK, StreamIInv
<1>7. PlacesHeld'
  <2>1. \A other \in Stream : Handled(other)' <=> Handled(other)
    BY <1>1, <1>2 DEF Handled
  <2> QED BY <1>1, <2>1, PlacesKept
<1>9. LinksAreServed'
  <2> SUFFICES ASSUME NEW l \in Link PROVE LinkIsServed(l)'
    BY DEF LinksAreServed
  <2>1. LinkIsServed(l)
    BY DEF StreamIInv, LinksAreServed
  <2>2. CASE l[1] = st
    BY <1>1, <1>4, <1>5, <2>2 DEF LinkIsServed
  <2>3. CASE l[1] # st
    BY <1>1, <1>3, <2>1, <2>3 DEF LinkIsServed
  <2> QED BY <2>2, <2>3
<1>10. LinksDeliver'
  <2> SUFFICES ASSUME NEW l \in Link PROVE LinkDelivers(l)'
    BY DEF LinksDeliver
  <2>1. LinkDelivers(l)
    BY DEF StreamIInv, LinksDeliver
  <2>2. CASE l[1] = st
    <3>1. Len(<<>>) = 0 /\ DOMAIN <<>> = {}
      OBVIOUS
    <3> QED BY <1>1, <1>5, <2>2, <3>1 DEF LinkDelivers, Distinct, BeginsWith, Framed, Whole
  <2>3. CASE l[1] # st
    BY <1>1, <1>3, <2>1, <2>3 DEF LinkDelivers
  <2> QED BY <2>2, <2>3
<1>11. RelayIsComplete'
  BY <1>1, <1>2 DEF StreamIInv, RelayIsComplete, TypeOK
<1> QED BY <1>6, <1>7, <1>9, <1>10, <1>11 DEF StreamIInv

\* A prefix is the subsequence of that length.
LEMMA PrefixIsSubSeq ==
  ASSUME NEW s \in Seq(Packet), NEW r \in Seq(Packet), BeginsWith(s, r)
  PROVE  r = SubSeq(s, 1, Len(r))
<1> DEFINE t == SubSeq(s, 1, Len(r))
<1>1. /\ Len(r) \in Nat /\ Len(r) <= Len(s) /\ \A i \in 1 .. Len(r) : r[i] = s[i]
  BY DEF BeginsWith
<1>2. t \in Seq(Packet) /\ Len(t) = Len(r) /\ \A i \in 1 .. Len(r) : t[i] = s[i]
  BY <1>1
<1> HIDE DEF t
<1>3. r = t
  BY <1>1, <1>2, SeqEqual
<1> QED BY <1>3 DEF t

\* The packets of a link after one more.
LEMMA ElementsAppend ==
  ASSUME NEW s \in Seq(Packet), NEW p \in Packet
  PROVE  Elements(Append(s, p)) = Elements(s) \cup {p}
<1>1. /\ Len(s) \in Nat /\ Len(Append(s, p)) = Len(s) + 1 /\ Append(s, p)[Len(s) + 1] = p
      /\ \A i \in 1 .. Len(s) : Append(s, p)[i] = s[i]
      /\ DOMAIN Append(s, p) = 1 .. Len(s) + 1 /\ DOMAIN s = 1 .. Len(s)
  OBVIOUS
<1>2. ASSUME NEW x \in Elements(Append(s, p)) PROVE x \in Elements(s) \cup {p}
  BY <1>1 DEF Elements
<1>3. ASSUME NEW x \in Elements(s) \cup {p} PROVE x \in Elements(Append(s, p))
  <2>1. CASE x = p
    <3>1. Len(s) + 1 \in DOMAIN Append(s, p)
      BY <1>1
    <3> QED BY <1>1, <2>1, <3>1 DEF Elements
  <2>2. CASE x \in Elements(s)
    <3>1. PICK i \in 1 .. Len(s) : x = s[i]
      BY <1>1, <2>2 DEF Elements
    <3>2. i \in DOMAIN Append(s, p) /\ x = Append(s, p)[i]
      BY <1>1, <3>1
    <3> QED BY <3>2 DEF Elements
  <2> QED BY <2>1, <2>2
<1> QED BY <1>2, <1>3

\* A packet that was not written before keeps the packets of a link distinct and
\* what was delivered a prefix.
LEMMA WrittenIsNew ==
  ASSUME NEW s \in Seq(Packet), NEW r \in Seq(Packet), NEW p \in Packet,
         Distinct(s), BeginsWith(s, r), p \notin Elements(s)
  PROVE  Distinct(Append(s, p)) /\ BeginsWith(Append(s, p), r) /\ Len(Append(s, p)) = Len(s) + 1
<1> DEFINE s2 == Append(s, p)
<1>1. /\ Len(s) \in Nat /\ Len(r) \in Nat /\ Len(s2) = Len(s) + 1 /\ s2[Len(s) + 1] = p
      /\ \A i \in 1 .. Len(s) : s2[i] = s[i]
      /\ DOMAIN s2 = 1 .. Len(s) + 1 /\ DOMAIN s = 1 .. Len(s)
  OBVIOUS
<1> HIDE DEF s2
<1>2. \A i \in 1 .. Len(s) : s[i] # p
  BY <1>1 DEF Elements
<1>3. ASSUME NEW i \in DOMAIN s2, NEW j \in DOMAIN s2, s2[i] = s2[j] PROVE i = j
  <2>1. CASE i \in 1 .. Len(s) /\ j \in 1 .. Len(s)
    BY <1>1, <1>3, <2>1 DEF Distinct
  <2>2. CASE i = Len(s) + 1 \/ j = Len(s) + 1
    BY <1>1, <1>2, <1>3, <2>2
  <2> QED BY <1>1, <2>1, <2>2
<1>4. Distinct(s2)
  BY <1>3 DEF Distinct
<1>5. BeginsWith(s2, r)
  BY <1>1 DEF BeginsWith
<1> QED BY <1>1, <1>4, <1>5 DEF s2

\* A reader that has as many packets as were written has what was written.
LEMMA DeliveredAll ==
  ASSUME NEW s \in Seq(Packet), NEW r \in Seq(Packet), BeginsWith(s, r), Len(r) = Len(s)
  PROVE  r = s
BY SeqEqual DEF BeginsWith

\* A relay returns when both goroutines have: unless it was broken it has carried
\* the whole request, and both directions are finished.
LEMMA ReturnInv ==
  ASSUME StreamIInv, NEW st \in Stream, Return(st)
  PROVE  StreamIInv'
<1>1. /\ phase[st] = "serving" /\ \A d \in Dir : copying[<<st, d>>] # "run"
      /\ phase' = [phase EXCEPT ![st] = "done"]
      /\ copying' = [l \in Link |-> IF l[1] = st THEN "off" ELSE copying[l]]
      /\ closed' = closed \cup {st} /\ Release(st)
      /\ UNCHANGED <<session, owner, network, broken, flow>>
  BY DEF Return
<1>2. phase \in [Stream -> {"none", "offered", "asking", "serving", "done"}]
  BY DEF StreamIInv, TypeOK
<1>3. /\ slots' \in [Session -> 0 .. MaxFlows] /\ serverSlots' \in 0 .. ServerSlots
      /\ PlacesHeld'
  <2>1. /\ Handled(st) /\ ~Handled(st)'
        /\ \A other \in Stream : other # st => (Handled(other)' <=> Handled(other))
    BY <1>1, <1>2 DEF Handled
  <2> QED BY <1>1, <2>1, PlaceReleased
<1>4. /\ <<st, "up">> \in Link /\ <<st, "up">>[1] = st /\ <<st, "up">>[2] = "up"
      /\ <<st, "down">> \in Link /\ <<st, "down">>[1] = st /\ <<st, "down">>[2] = "down"
  BY LinkParts DEF Dir
<1>5. LinkIsServed(<<st, "up">>) /\ LinkIsServed(<<st, "down">>)
  BY <1>4 DEF StreamIInv, LinksAreServed
<1>6. ASSUME st \notin closed
      PROVE  <<st, "up">> \in ended /\ <<st, "down">> \in finished
  <2>1. copying[<<st, "up">>] = "ended" /\ copying[<<st, "down">>] = "ended"
    BY <1>1, <1>4, <1>5, <1>6 DEF LinkIsServed, StreamIInv, TypeOK, Dir
  <2> QED BY <1>4, <1>5, <2>1 DEF LinkIsServed
<1>7. ASSUME st \notin closed, st \notin broken
      PROVE  /\ received[<<st, "up">>] = sent[<<st, "up">>]
             /\ {<<st, d>> : d \in Dir} \subseteq finished
  <2>1. LinkDelivers(<<st, "up">>) /\ <<st, "up">> \in ended
    BY <1>4, <1>6, <1>7 DEF StreamIInv, LinksDeliver
  <2>2. <<st, "up">> \in finished
    BY <1>4, <1>7, <2>1 DEF LinkDelivers
  <2>3. received[<<st, "up">>] = sent[<<st, "up">>]
    BY <1>4, <1>7, <2>1, DeliveredAll DEF LinkDelivers, StreamIInv, TypeOK
  <2> QED BY <1>6, <1>7, <2>2, <2>3 DEF Dir
<1>8. TypeOK'
  BY <1>1, <1>2, <1>3 DEF TypeOK, StreamIInv, flow
<1>9. PlacesHeld'
  BY <1>3
<1>10. network[st] = "udp" => st \in broken
  BY <1>4, <1>5, <1>7 DEF LinkIsServed, Dir
<1>11. LinksAreServed'
  <2> SUFFICES ASSUME NEW m \in Link PROVE LinkIsServed(m)'
    BY DEF LinksAreServed
  <2>1. LinkIsServed(m)
    BY DEF StreamIInv, LinksAreServed
  <2>2. m[1] \in Stream
    BY LinkParts
  <2>3. CASE m[1] = st
    <3>1. phase'[m[1]] = "done" /\ copying'[m] = "off"
      BY <1>1, <1>2, <2>2, <2>3
    <3> QED BY <1>1, <1>10, <2>1, <2>3, <3>1 DEF LinkIsServed, flow
  <2>4. CASE m[1] # st
    <3>1. phase'[m[1]] = phase[m[1]] /\ copying'[m] = copying[m]
      BY <1>1, <1>2, <2>2, <2>4
    <3> QED BY <1>1, <2>1, <2>4, <3>1 DEF LinkIsServed, flow
  <2> QED BY <2>3, <2>4
<1>12. LinksDeliver'
  BY <1>1, LinksKept
<1>13. RelayIsComplete'
  BY <1>1, <1>7 DEF StreamIInv, RelayIsComplete, flow
<1> QED BY <1>8, <1>9, <1>11, <1>12, <1>13 DEF StreamIInv

\* A packet that is written goes behind the ones before it; it is a new one.
LEMMA WriteInv ==
  ASSUME StreamIInv, NEW l \in Link, NEW p \in Packet, Write(l, p)
  PROVE  StreamIInv'
<1>1. /\ phase[l[1]] = "serving" /\ l[1] \notin closed /\ l \notin finished
      /\ l[1] \notin broken /\ p \notin Elements(sent[l])
      /\ network[l[1]] = "tcp" => p # Empty
      /\ sent' = [sent EXCEPT ![l] = Append(sent[l], p)]
      /\ wire' = [wire EXCEPT ![l] = wire[l] \o Written(network[l[1]], p)]
      /\ UNCHANGED <<session, owner, phase, network, slots, serverSlots, closed, broken, copying,
                     finished, received, ended>>
  BY DEF Write, Writing, Open, state, places
<1>2. /\ sent \in [Link -> Seq(Packet)] /\ wire \in [Link -> Seq(Frames)]
      /\ received \in [Link -> Seq(Packet)]
  BY DEF StreamIInv, TypeOK
<1>3. l[1] \in Stream /\ network[l[1]] \in {"tcp", "udp"} /\ l[1] \notin broken
  BY <1>1, LinkParts DEF StreamIInv, TypeOK, LinksAreServed, LinkIsServed
<1>4. LinkDelivers(l)
  BY DEF StreamIInv, LinksDeliver
<1>5. /\ Framed(network[l[1]], sent[l], wire[l], Len(received[l]), FALSE)
      /\ Whole(network[l[1]], sent[l], wire[l], Len(received[l]), FALSE, l \in ended)
      /\ Distinct(sent[l]) /\ BeginsWith(sent[l], received[l])
  <2>1. (l \in finished) = FALSE
    BY <1>1
  <2> QED BY <1>3, <1>4, <2>1 DEF LinkDelivers
<1>6. /\ wire'[l] \in Seq(Frames) /\ sent'[l] \in Seq(Packet)
      /\ Framed(network[l[1]], sent'[l], wire'[l], Len(received[l]), FALSE)
      /\ Whole(network[l[1]], sent'[l], wire'[l], Len(received[l]), FALSE, l \in ended)
  <2>1. sent[l] \in Seq(Packet) /\ wire[l] \in Seq(Frames)
    BY <1>2
  <2>2. sent'[l] = Append(sent[l], p) /\ wire'[l] = wire[l] \o Written(network[l[1]], p)
    BY <1>1, <1>2
  <2>3. /\ wire[l] \o Written(network[l[1]], p) \in Seq(Frames)
        /\ Framed(network[l[1]], Append(sent[l], p), wire[l] \o Written(network[l[1]], p),
                  Len(received[l]), FALSE)
        /\ Whole(network[l[1]], Append(sent[l], p), wire[l] \o Written(network[l[1]], p),
                 Len(received[l]), FALSE, l \in ended)
    BY <1>1, <1>3, <1>5, <2>1, FramedWrite
  <2>4. Append(sent[l], p) \in Seq(Packet)
    BY <2>1
  <2> QED BY <2>2, <2>3, <2>4
<1>7. Distinct(sent'[l]) /\ BeginsWith(sent'[l], received[l]) /\ Len(sent'[l]) = Len(sent[l]) + 1
  <2>1. /\ sent[l] \in Seq(Packet) /\ received[l] \in Seq(Packet)
        /\ sent'[l] = Append(sent[l], p)
    BY <1>1, <1>2
  <2> QED BY <1>1, <1>5, <2>1, WrittenIsNew
<1>8. l \notin ended
  BY <1>1, <1>4 DEF LinkDelivers
<1>9. LinkDelivers(l)'
  <2>1. (l \in finished') = FALSE
    BY <1>1
  <2> QED BY <1>1, <1>6, <1>7, <1>8, <2>1 DEF LinkDelivers
<1>10. TypeOK'
  BY <1>1, <1>2, <1>6 DEF TypeOK, StreamIInv
<1>11. PlacesHeld'
  BY <1>1, PlacesKept DEF Handled, places
<1>13. LinksAreServed'
  <2> SUFFICES ASSUME NEW m \in Link PROVE LinkIsServed(m)'
    BY DEF LinksAreServed
  <2>1. LinkIsServed(m)
    BY DEF StreamIInv, LinksAreServed
  <2>2. m # l => sent'[m] = sent[m] /\ wire'[m] = wire[m]
    BY <1>1, <1>2
  <2> QED BY <1>1, <1>3, <2>1, <2>2 DEF LinkIsServed
<1>14. LinksDeliver'
  <2> SUFFICES ASSUME NEW m \in Link PROVE LinkDelivers(m)'
    BY DEF LinksDeliver
  <2>1. CASE m # l
    BY <1>1, <1>2, <2>1, OtherLinks
  <2>2. CASE m = l
    BY <1>9, <2>2
  <2> QED BY <2>1, <2>2
<1>15. RelayIsComplete'
  <2> SUFFICES ASSUME NEW st \in closed \ broken, network[st] = "tcp"
               PROVE  /\ received[<<st, "up">>] = sent'[<<st, "up">>]
                      /\ {<<st, d>> : d \in Dir} \subseteq finished
    BY <1>1 DEF RelayIsComplete
  <2>1. /\ <<st, "up">> \in Link /\ <<st, "up">>[1] = st /\ <<st, "up">>[2] = "up"
    BY LinkParts DEF StreamIInv, TypeOK, Dir
  <2>2. <<st, "up">> # l
    BY <1>1, <2>1
  <2> QED BY <1>1, <1>2, <2>1, <2>2 DEF StreamIInv, RelayIsComplete
<1> QED BY <1>10, <1>11, <1>13, <1>14, <1>15 DEF StreamIInv

\* The end is written behind all the data.
LEMMA CloseWriteInv ==
  ASSUME StreamIInv, NEW l \in Link, CloseWrite(l)
  PROVE  StreamIInv'
<1>1. /\ phase[l[1]] = "serving" /\ l[1] \notin closed /\ l \notin finished
      /\ network[l[1]] = "tcp"
      /\ finished' = finished \cup {l}
      /\ wire' = IF l[1] \in broken THEN wire ELSE [wire EXCEPT ![l] = Append(wire[l], Fin)]
      /\ copying' = IF l[2] = "down" THEN [copying EXCEPT ![l] = "ended"] ELSE copying
      /\ UNCHANGED <<session, owner, phase, network, slots, serverSlots, closed, broken, sent,
                     received, ended>>
  BY DEF CloseWrite, Writing, Open, state, places
<1>2. /\ sent \in [Link -> Seq(Packet)] /\ wire \in [Link -> Seq(Frames)]
      /\ received \in [Link -> Seq(Packet)]
      /\ copying \in [Link -> {"off", "run", "ended", "failed"}]
  BY DEF StreamIInv, TypeOK
<1>3. l[1] \in Stream /\ l[2] \in Dir
  BY LinkParts
<1>4. LinkDelivers(l)
  BY DEF StreamIInv, LinksDeliver
<1>5. /\ Framed(network[l[1]], sent[l], wire[l], Len(received[l]), FALSE)
      /\ l[1] \notin broken =>
           Whole(network[l[1]], sent[l], wire[l], Len(received[l]), FALSE, l \in ended)
      /\ Distinct(sent[l]) /\ BeginsWith(sent[l], received[l])
  <2>1. (l \in finished) = FALSE
    BY <1>1
  <2> QED BY <1>3, <1>4, <2>1 DEF LinkDelivers
<1>6. /\ wire'[l] \in Seq(Frames)
      /\ Framed(network[l[1]], sent[l], wire'[l], Len(received[l]), TRUE)
      /\ l[1] \notin broken =>
           Whole(network[l[1]], sent[l], wire'[l], Len(received[l]), TRUE, l \in ended)
  <2>1. sent[l] \in Seq(Packet) /\ wire[l] \in Seq(Frames) /\ network[l[1]] \in {"tcp", "udp"}
    BY <1>1, <1>2
  <2>2. CASE l[1] \notin broken
    <3>1. wire'[l] = Append(wire[l], Fin)
      BY <1>1, <1>2, <2>2
    <3> QED BY <1>5, <2>1, <2>2, <3>1, FramedClose
  <2>3. CASE l[1] \in broken
    <3>1. wire'[l] = wire[l]
      BY <1>1, <2>3
    <3> QED BY <1>5, <2>1, <2>3, <3>1, FramedLost
  <2> QED BY <2>2, <2>3
<1>7. l \in ended => l[1] \in broken /\ wire'[l] = <<>>
  <2>1. l \in ended => l[1] \in broken /\ wire[l] = <<>>
    BY <1>1, <1>4 DEF LinkDelivers
  <2> QED BY <1>1, <2>1
<1>8. (l \in finished') = TRUE
  BY <1>1
<1>9. LinkDelivers(l)'
  BY <1>1, <1>5, <1>6, <1>7, <1>8 DEF LinkDelivers
<1>10. TypeOK'
  BY <1>1, <1>2, <1>6 DEF TypeOK, StreamIInv
<1>11. PlacesHeld'
  BY <1>1, PlacesKept DEF Handled, places
<1>13. LinksAreServed'
  <2> SUFFICES ASSUME NEW m \in Link PROVE LinkIsServed(m)'
    BY DEF LinksAreServed
  <2>1. LinkIsServed(m)
    BY DEF StreamIInv, LinksAreServed
  <2>2. m # l => wire'[m] = wire[m] /\ copying'[m] = copying[m]
    BY <1>1, <1>2
  <2>3. CASE m # l
    BY <1>1, <2>1, <2>2, <2>3 DEF LinkIsServed
  <2>4. CASE m = l
    BY <1>1, <1>2, <1>3, <2>1, <2>4 DEF LinkIsServed, Dir
  <2> QED BY <2>3, <2>4
<1>14. LinksDeliver'
  <2> SUFFICES ASSUME NEW m \in Link PROVE LinkDelivers(m)'
    BY DEF LinksDeliver
  <2>1. CASE m # l
    BY <1>1, <1>2, <2>1, OtherLinks
  <2>2. CASE m = l
    BY <1>9, <2>2
  <2> QED BY <2>1, <2>2
<1>15. RelayIsComplete'
  BY <1>1 DEF StreamIInv, RelayIsComplete
<1> QED BY <1>10, <1>11, <1>13, <1>14, <1>15 DEF StreamIInv

\* A reader gets the next packet, once it is complete.
LEMMA ReadInv ==
  ASSUME StreamIInv, NEW l \in Link, Read(l)
  PROVE  StreamIInv'
<1>1. /\ wire[l] # <<>> /\ l \notin ended /\ wire[l][1] # Fin /\ Taken(l) > 0
      /\ l[2] = "up" => copying[l] = "run" /\ l[1] \notin closed
      /\ received' = [received EXCEPT ![l] = Append(received[l], wire[l][1][2])]
      /\ wire' = [wire EXCEPT ![l] = SubSeq(wire[l], Taken(l) + 1, Len(wire[l]))]
      /\ UNCHANGED <<session, owner, phase, network, slots, serverSlots, closed, broken, copying,
                     sent, finished, ended>>
  BY DEF Read, Reading, Open, state, places
<1>2. /\ sent \in [Link -> Seq(Packet)] /\ wire \in [Link -> Seq(Frames)]
      /\ received \in [Link -> Seq(Packet)]
      /\ sent[l] \in Seq(Packet) /\ wire[l] \in Seq(Frames) /\ received[l] \in Seq(Packet)
  BY DEF StreamIInv, TypeOK
<1>3. LinkDelivers(l) /\ LinkIsServed(l)
  BY DEF StreamIInv, LinksDeliver, LinksAreServed
<1>4. l[1] \in Stream /\ network[l[1]] \in {"tcp", "udp"}
  BY <1>1, <1>3, LinkParts DEF StreamIInv, TypeOK, LinkIsServed
<1>5. /\ Taken(l) \in {1, 2} /\ Taken(l) <= Len(wire[l])
      /\ Taken(l) = 1 <=> network[l[1]] = "tcp" \/ wire[l][1] = <<"header", Empty>>
  <2>1. Len(wire[l]) \in Nat /\ Len(wire[l]) >= 1
    BY <1>1, <1>2
  <2>2. CASE network[l[1]] = "tcp" \/ wire[l][1] = <<"header", Empty>>
    <3>1. Taken(l) = 1
      BY <2>2 DEF Taken
    <3> QED BY <2>1, <2>2, <3>1
  <2>3. CASE network[l[1]] = "udp" /\ wire[l][1] # <<"header", Empty>>
    <3>1. Taken(l) = IF Len(wire[l]) >= 2 THEN 2 ELSE 0
      BY <2>3 DEF Taken
    <3> QED BY <1>1, <2>1, <2>3, <3>1
  <2> QED BY <1>4, <2>2, <2>3
<1>6. /\ Len(received[l]) < Len(sent[l]) /\ Len(received[l]) \in Nat /\ Len(sent[l]) \in Nat
      /\ wire[l][1][2] = sent[l][Len(received[l]) + 1]
  BY <1>1, <1>2, <1>3, <1>4, FramedHead DEF LinkDelivers
<1>7. /\ wire'[l] \in Seq(Frames)
      /\ Framed(network[l[1]], sent[l], wire'[l], Len(received[l]) + 1, l \in finished)
      /\ l[1] \notin broken =>
           Whole(network[l[1]], sent[l], wire'[l], Len(received[l]) + 1, l \in finished, l \in ended)
  <2> DEFINE whole == l[1] \notin broken
             fin == l \in finished
             end == l \in ended
  <2>1. /\ Framed(network[l[1]], sent[l], wire[l], Len(received[l]), fin) /\ Distinct(sent[l])
        /\ whole => Whole(network[l[1]], sent[l], wire[l], Len(received[l]), fin, end)
        /\ whole \in BOOLEAN
    BY <1>3 DEF LinkDelivers
  <2>2. wire'[l] = SubSeq(wire[l], Taken(l) + 1, Len(wire[l]))
    BY <1>1, <1>2
  <2> HIDE DEF whole, fin, end
  <2>3. /\ wire'[l] \in Seq(Frames)
        /\ Framed(network[l[1]], sent[l], wire'[l], Len(received[l]) + 1, fin)
        /\ whole => Whole(network[l[1]], sent[l], wire'[l], Len(received[l]) + 1, fin, end)
    BY <1>1, <1>2, <1>4, <1>5, <2>1, <2>2, FramedRead
  <2> QED BY <2>3 DEF whole, fin, end
<1>8. /\ received'[l] \in Seq(Packet) /\ Len(received'[l]) = Len(received[l]) + 1
      /\ BeginsWith(sent[l], received'[l])
  <2> DEFINE p == sent[l][Len(received[l]) + 1]
  <2>1. p \in Packet /\ received'[l] = Append(received[l], p)
    BY <1>1, <1>2, <1>6
  <2> HIDE DEF p
  <2>2. /\ Append(received[l], p) \in Seq(Packet) /\ Len(Append(received[l], p)) = Len(received[l]) + 1
        /\ \A i \in 1 .. Len(received[l]) : Append(received[l], p)[i] = received[l][i]
        /\ Append(received[l], p)[Len(received[l]) + 1] = p
    BY <1>2, <2>1, AppendEntries
  <2>3. \A i \in 1 .. Len(received[l]) : received[l][i] = sent[l][i]
    BY <1>3 DEF LinkDelivers, BeginsWith
  <2> QED BY <1>6, <2>1, <2>2, <2>3 DEF BeginsWith, p
<1>9. LinkDelivers(l)'
  BY <1>1, <1>3, <1>7, <1>8 DEF LinkDelivers
<1>10. TypeOK'
  BY <1>1, <1>2, <1>7, <1>8 DEF TypeOK, StreamIInv
<1>11. PlacesHeld'
  BY <1>1, PlacesKept DEF Handled, places
<1>13. LinksAreServed'
  <2> SUFFICES ASSUME NEW m \in Link PROVE LinkIsServed(m)'
    BY DEF LinksAreServed
  <2>1. LinkIsServed(m)
    BY DEF StreamIInv, LinksAreServed
  <2>2. m # l => received'[m] = received[m] /\ wire'[m] = wire[m]
    BY <1>1, <1>2
  <2> QED BY <1>1, <1>4, <2>1, <2>2 DEF LinkIsServed
<1>14. LinksDeliver'
  <2> SUFFICES ASSUME NEW m \in Link PROVE LinkDelivers(m)'
    BY DEF LinksDeliver
  <2>1. CASE m # l
    BY <1>1, <1>2, <2>1, OtherLinks
  <2>2. CASE m = l
    BY <1>9, <2>2
  <2> QED BY <2>1, <2>2
<1>15. RelayIsComplete'
  <2> SUFFICES ASSUME NEW st \in closed \ broken, network[st] = "tcp"
               PROVE  /\ received'[<<st, "up">>] = sent[<<st, "up">>]
                      /\ {<<st, d>> : d \in Dir} \subseteq finished
    BY <1>1 DEF RelayIsComplete
  <2>1. /\ <<st, "up">> \in Link /\ <<st, "up">>[1] = st /\ <<st, "up">>[2] = "up"
    BY LinkParts DEF StreamIInv, TypeOK, Dir
  <2>2. <<st, "up">> # l
    BY <1>1, <2>1
  <2> QED BY <1>1, <1>2, <2>1, <2>2 DEF StreamIInv, RelayIsComplete
<1> QED BY <1>10, <1>11, <1>13, <1>14, <1>15 DEF StreamIInv

\* The end that a reader sees of a link nobody cut is the one the writer meant,
\* behind all the data.
LEMMA ReadEndInv ==
  ASSUME StreamIInv, NEW l \in Link, ReadEnd(l)
  PROVE  StreamIInv'
<1>1. /\ l \notin ended /\ network[l[1]] # "none"
      /\ ended' = ended \cup {l}
      /\ wire' = [wire EXCEPT ![l] = <<>>]
      /\ closed' = IF network[l[1]] = "udp" THEN closed \cup {l[1]} ELSE closed
      /\ copying' = IF l[2] = "up" THEN [copying EXCEPT ![l] = "ended"] ELSE copying
      /\ UNCHANGED <<session, owner, phase, network, slots, serverSlots, broken, sent, finished,
                     received>>
  BY DEF ReadEnd, Reading, End, state, places
<1>2. /\ sent \in [Link -> Seq(Packet)] /\ wire \in [Link -> Seq(Frames)]
      /\ received \in [Link -> Seq(Packet)]
      /\ copying \in [Link -> {"off", "run", "ended", "failed"}]
      /\ sent[l] \in Seq(Packet) /\ wire[l] \in Seq(Frames) /\ received[l] \in Seq(Packet)
  BY DEF StreamIInv, TypeOK
<1>3. LinkDelivers(l) /\ LinkIsServed(l)
  BY DEF StreamIInv, LinksDeliver, LinksAreServed
<1>4. l[1] \in Stream /\ l[2] \in Dir /\ network[l[1]] \in {"tcp", "udp"}
  BY <1>1, LinkParts DEF StreamIInv, TypeOK
<1>5. l[1] \notin broken =>
        l \in finished /\ Len(received[l]) = Len(sent[l]) /\ network[l[1]] = "tcp"
  <2> SUFFICES ASSUME l[1] \notin broken
               PROVE  l \in finished /\ Len(received[l]) = Len(sent[l]) /\ network[l[1]] = "tcp"
    OBVIOUS
  <2>1. CASE wire[l] # <<>> /\ wire[l][1] = Fin
    <3> DEFINE fin == l \in finished
    <3>1. Framed(network[l[1]], sent[l], wire[l], Len(received[l]), fin)
      BY <1>3 DEF LinkDelivers
    <3> HIDE DEF fin
    <3>2. fin /\ Len(received[l]) = Len(sent[l])
      BY <1>2, <1>4, <2>1, <3>1, FramedHead
    <3> QED BY <1>3, <1>4, <3>2 DEF fin, LinkIsServed
  <2>2. CASE (wire[l] = <<>> \/ Taken(l) = 0) /\ l[1] \in closed
    <3>1. network[l[1]] = "tcp"
      BY <1>3, <1>4, <2>2 DEF LinkIsServed
    <3>2. wire[l] = <<>>
      BY <2>2, <3>1 DEF Taken
    <3>3. l \in finished
      <4>1. {<<l[1], d>> : d \in Dir} \subseteq finished
        BY <2>2, <3>1 DEF StreamIInv, RelayIsComplete
      <4>2. l = <<l[1], l[2]>> /\ l[2] \in Dir
        BY LinkParts
      <4> QED BY <4>1, <4>2
    <3>4. l \in ended
      BY <1>3, <3>2, <3>3 DEF LinkDelivers, Whole
    <3> QED BY <1>1, <3>4
  <2> QED BY <2>1, <2>2 DEF ReadEnd, AtEnd
<1>6. wire'[l] = <<>>
  BY <1>1, <1>2
<1>7. Len(received[l]) \in 0 .. Len(sent[l]) /\ Len(<<>>) = 0
  BY <1>2, <1>3 DEF LinkDelivers, BeginsWith
<1>8. /\ Framed(network[l[1]], sent[l], <<>>, Len(received[l]), l \in finished)
      /\ l[1] \notin broken =>
           Whole(network[l[1]], sent[l], <<>>, Len(received[l]), l \in finished, TRUE)
  BY <1>5, <1>7 DEF Framed, Whole
<1>9. LinkDelivers(l)'
  <2>1. (l \in ended') = TRUE
    BY <1>1
  <2> QED BY <1>1, <1>3, <1>5, <1>6, <1>8, <2>1 DEF LinkDelivers
<1>10. TypeOK'
  BY <1>1, <1>2, <1>4, <1>6 DEF TypeOK, StreamIInv
<1>11. PlacesHeld'
  BY <1>1, PlacesKept DEF Handled, places
<1>13. LinksAreServed'
  <2> SUFFICES ASSUME NEW m \in Link PROVE LinkIsServed(m)'
    BY DEF LinksAreServed
  <2>1. LinkIsServed(m)
    BY DEF StreamIInv, LinksAreServed
  <2>2. m # l => wire'[m] = wire[m] /\ copying'[m] = copying[m]
    BY <1>1, <1>2
  <2>3. CASE m # l
    BY <1>1, <1>5, <2>1, <2>2, <2>3 DEF LinkIsServed
  <2>4. CASE m = l
    BY <1>1, <1>2, <1>4, <1>5, <2>1, <2>4 DEF LinkIsServed, Dir
  <2> QED BY <2>3, <2>4
<1>14. LinksDeliver'
  <2> SUFFICES ASSUME NEW m \in Link PROVE LinkDelivers(m)'
    BY DEF LinksDeliver
  <2>1. CASE m # l
    BY <1>1, <1>2, <2>1, OtherLinks
  <2>2. CASE m = l
    BY <1>9, <2>2
  <2> QED BY <2>1, <2>2
<1>15. RelayIsComplete'
  BY <1>1, <1>5, RelaysKept
<1> QED BY <1>10, <1>11, <1>13, <1>14, <1>15 DEF StreamIInv

\* A client that closes a stream cuts it and closes nothing at the server.
LEMMA ClientClosesInv ==
  ASSUME StreamIInv, NEW st \in Stream, ClientCloses(st)
  PROVE  StreamIInv'
<1>1. PICK up \in 0 .. Len(wire[<<st, "up">>]) : Break(st, up)
  BY DEF ClientCloses
<1>2. UNCHANGED <<session, owner, phase, network, slots, serverSlots, closed, copying>>
  BY DEF ClientCloses, state, places
<1>3. /\ wire' \in [Link -> Seq(Frames)] /\ LinksDeliver'
      /\ broken' = broken \cup {st} /\ UNCHANGED <<sent, finished, received, ended>>
      /\ \A l \in Link : wire[l] = <<>> => wire'[l] = <<>>
  BY <1>1, <1>2, BreakKeeps
<1>4. TypeOK'
  BY <1>2, <1>3 DEF TypeOK, StreamIInv
<1>5. PlacesHeld'
  BY <1>2, PlacesKept DEF Handled
<1>6. LinksAreServed'
  BY <1>2, <1>3, LinkParts DEF StreamIInv, LinksAreServed, LinkIsServed, TypeOK
<1>7. RelayIsComplete'
  BY <1>2, <1>3, RelaysKept
<1> QED BY <1>3, <1>4, <1>5, <1>6, <1>7 DEF StreamIInv

\* A server without streams has the invariant.
LEMMA StreamInitInv == Init => StreamIInv
<1> SUFFICES ASSUME Init PROVE StreamIInv
  OBVIOUS
<1>1. TypeOK
  BY PlacesAssumption, OwnersAssumption DEF Init, TypeOK
<1>2. Handlers = {} /\ \A s \in Session : HandlersOf(s) = {}
  BY DEF Init, Handlers, HandlersOf, Handled
<1>3. PlacesHeld
  BY <1>2, FS_EmptySet DEF Init, PlacesHeld, PlacesAreHeldByHandlers, Handlers, HandlersOf
<1>4. RelayIsComplete
  BY DEF Init, RelayIsComplete
<1>5. LinksAreServed
  BY LinkParts DEF Init, LinksAreServed, LinkIsServed
<1>6. LinksDeliver
  <2>1. Len(<<>>) = 0 /\ DOMAIN <<>> = {}
    OBVIOUS
  <2> QED BY <2>1 DEF Init, LinksDeliver, LinkDelivers, Distinct, BeginsWith, Framed, Whole
<1> QED BY <1>1, <1>3, <1>4, <1>5, <1>6 DEF StreamIInv

\* A step that changes none of the variables keeps the invariant.
LEMMA StreamStutter == StreamIInv /\ UNCHANGED vars => StreamIInv'
<1> SUFFICES ASSUME StreamIInv, UNCHANGED vars PROVE StreamIInv'
  OBVIOUS
<1>1. /\ UNCHANGED <<session, owner, phase, network, slots, serverSlots, closed, broken, copying>>
      /\ UNCHANGED flow
  BY DEF vars, state, places
<1>2. TypeOK'
  BY <1>1 DEF StreamIInv, TypeOK, flow
<1>3. PlacesHeld'
  BY <1>1, PlacesKept DEF Handled
<1>4. LinksAreServed'
  BY <1>1 DEF StreamIInv, LinksAreServed, LinkIsServed, flow
<1>5. LinksDeliver' /\ RelayIsComplete'
  BY <1>1, LinksKept, RelaysKept DEF flow
<1> QED BY <1>2, <1>3, <1>4, <1>5 DEF StreamIInv

\* The invariant is inductive: no interleaving of sessions, handlers, goroutines
\* and clients leaves it.
THEOREM StreamsAlwaysIInv == Spec => []StreamIInv
<1>1. StreamIInv /\ [Next]_vars => StreamIInv'
  <2> SUFFICES ASSUME StreamIInv, [Next]_vars PROVE StreamIInv'
    OBVIOUS
  <2>1. CASE \E st \in Stream : Offer(st) \/ Accept(st) \/ Refuse(st)
    BY <2>1, OfferInv, AcceptInv, RefuseInv
  <2>2. CASE \E st \in Stream : Serve(st, "tcp") \/ Serve(st, "udp")
    BY <2>2, ServeInv
  <2>3. CASE \E st \in Stream : CancelCloses(st) \/ Return(st) \/ ClientCloses(st)
    BY <2>3, CancelClosesInv, ReturnInv, ClientClosesInv
  <2>4. CASE \E s \in Session : SessionEnds(s) \/ SessionReleased(s)
    BY <2>4, SessionEndsInv, SessionReleasedInv
  <2>5. CASE \E l \in Link : CopyFails(l) \/ CopyBreaks(l) \/ CloseWrite(l) \/ Read(l) \/ ReadEnd(l)
    BY <2>5, CopyFailsInv, CopyBreaksInv, CloseWriteInv, ReadInv, ReadEndInv
  <2>6. CASE \E l \in Link : \E p \in Packet : Write(l, p)
    BY <2>6, WriteInv
  <2>7. CASE UNCHANGED vars
    BY <2>7, StreamStutter
  <2> QED BY <2>1, <2>2, <2>3, <2>4, <2>5, <2>6, <2>7 DEF Next
<1> QED BY <1>1, StreamInitInv, PTL DEF Spec

\* Every taken place of a session and of the server belongs to a handler that is
\* running: no way out of a handler, and no full server, loses one.
THEOREM StreamsHoldTheirPlaces == Spec => []PlacesAreHeldByHandlers
<1>1. StreamIInv => PlacesAreHeldByHandlers
  BY DEF StreamIInv, PlacesHeld
<1> QED BY <1>1, StreamsAlwaysIInv, PTL

\* A TCP relay that nothing broke is closed only after the whole request was
\* delivered and both directions were half-closed.
THEOREM StreamsRelayCompletely == Spec => []RelayIsComplete
<1>1. StreamIInv => RelayIsComplete
  BY DEF StreamIInv
<1> QED BY <1>1, StreamsAlwaysIInv, PTL

\* Readers get the packets of their link in order and whole, however frames are
\* cut and lost, and take the end of a link that nobody cut to be where its writer
\* put it.
THEOREM StreamsAlwaysStreamInv == Spec => []StreamInv
<1>1. StreamIInv => StreamInv
  <2> SUFFICES ASSUME StreamIInv PROVE StreamInv
    OBVIOUS
  <2>1. ASSUME NEW l \in Link
        PROVE  /\ sent[l] \in Seq(Packet) /\ received[l] \in Seq(Packet) /\ LinkDelivers(l)
               /\ BeginsWith(sent[l], received[l])
    BY DEF StreamIInv, TypeOK, LinksDeliver, LinkDelivers
  <2>2. EndIsMeant
    <3> SUFFICES ASSUME NEW l \in ended, l[1] \notin broken
                 PROVE  l \in finished /\ received[l] = sent[l]
      BY DEF EndIsMeant
    <3>1. l \in Link
      BY DEF StreamIInv, TypeOK
    <3>2. l \in finished /\ Len(received[l]) = Len(sent[l])
      BY <2>1, <3>1 DEF LinkDelivers
    <3> QED BY <2>1, <3>1, <3>2, DeliveredAll
  <2>3. OrderIsKept
    <3> SUFFICES ASSUME NEW l \in Link
                 PROVE  \E n \in 0 .. Len(sent[l]) : received[l] = SubSeq(sent[l], 1, n)
      BY DEF OrderIsKept
    <3>1. /\ sent[l] \in Seq(Packet) /\ received[l] \in Seq(Packet)
          /\ BeginsWith(sent[l], received[l])
      BY <2>1
    <3>2. received[l] = SubSeq(sent[l], 1, Len(received[l]))
      BY <3>1, PrefixIsSubSeq
    <3>3. Len(received[l]) \in 0 .. Len(sent[l])
      BY <3>1 DEF BeginsWith
    <3> QED BY <3>2, <3>3
  <2> QED BY <2>2, <2>3 DEF StreamIInv, StreamInv
<1> QED BY <1>1, StreamsAlwaysIInv, PTL

-----------------------------------------------------------------------------
(* UDP over a stream implements a UDP flow.                                *)

\* Writing a packet sends it on the abstract flow, where it was not sent before.
LEMMA WriteSends ==
  ASSUME StreamIInv, NEW l \in Link, NEW p \in Packet, Write(l, p)
  PROVE  Udp!Send(l, p)
<1>1. /\ p \notin Elements(sent[l]) /\ sent' = [sent EXCEPT ![l] = Append(sent[l], p)]
      /\ UNCHANGED received
  BY DEF Write
<1>2. sent \in [Link -> Seq(Packet)] /\ sent[l] \in Seq(Packet)
  BY DEF StreamIInv, TypeOK
<1>3. sent'[l] = Append(sent[l], p) /\ \A m \in Link : m # l => sent'[m] = sent[m]
  BY <1>1, <1>2
<1>4. Elements(sent'[l]) = Elements(sent[l]) \cup {p}
  <2>1. Elements(Append(sent[l], p)) = Elements(sent[l]) \cup {p}
    BY <1>2, ElementsAppend
  <2> QED BY <1>3, <2>1
<1>5. [m \in Link |-> Elements(sent'[m])]
        = [[m \in Link |-> Elements(sent[m])] EXCEPT ![l] = Elements(sent[l]) \cup {p}]
  BY <1>3, <1>4
<1> QED BY <1>1, <1>5 DEF Udp!Send

\* Reading a packet receives it on the abstract flow: it was sent, and was not
\* received before.
LEMMA ReadReceives ==
  ASSUME StreamIInv, NEW l \in Link, Read(l)
  PROVE  \E p \in Packet : Udp!Receive(l, p)
<1>1. /\ wire[l] # <<>> /\ wire[l][1] # Fin /\ UNCHANGED sent
      /\ received' = [received EXCEPT ![l] = Append(received[l], wire[l][1][2])]
  BY DEF Read, Reading
<1>2. /\ sent[l] \in Seq(Packet) /\ wire[l] \in Seq(Frames) /\ received[l] \in Seq(Packet)
      /\ network[l[1]] \in {"none", "tcp", "udp"}
  BY LinkParts DEF StreamIInv, TypeOK
<1>3. LinkDelivers(l)
  BY DEF StreamIInv, LinksDeliver
<1> DEFINE k == Len(received[l])
           p == sent[l][k + 1]
<1>4. k < Len(sent[l]) /\ k \in Nat /\ Len(sent[l]) \in Nat /\ wire[l][1][2] = p
  BY <1>1, <1>2, <1>3, FramedHead DEF LinkDelivers
<1>5. k + 1 \in DOMAIN sent[l] /\ DOMAIN sent[l] = 1 .. Len(sent[l]) /\ DOMAIN received[l] = 1 .. k
  BY <1>2, <1>4
<1>6. p \in Packet /\ p \in Elements(sent[l])
  BY <1>2, <1>5 DEF Elements
<1>7. \A i \in DOMAIN received[l] : received[l][i] # p
  <2> SUFFICES ASSUME NEW i \in 1 .. k, received[l][i] = p PROVE FALSE
    BY <1>5
  <2>1. sent[l][i] = sent[l][k + 1] /\ i \in DOMAIN sent[l]
    BY <1>3, <1>4, <1>5 DEF LinkDelivers, BeginsWith
  <2>2. i = k + 1
    BY <1>3, <1>5, <2>1 DEF LinkDelivers, Distinct
  <2> QED BY <1>4, <2>2
<1> HIDE DEF p
<1> QED BY <1>1, <1>4, <1>6, <1>7 DEF Udp!Receive

\* The data that the abstract flow sees changes in Write and Read only.
LEMMA OthersCarryNothing ==
  ASSUME Next, ~(\E l \in Link : Read(l)), ~(\E l \in Link, p \in Packet : Write(l, p))
  PROVE  UNCHANGED <<sent, received>>
BY DEF Next, Offer, Accept, Refuse, Serve, CancelCloses, Return, ClientCloses, SessionEnds,
       SessionReleased, CopyFails, CopyBreaks, CloseWrite, ReadEnd, Break, flow

\* A UDP flow over a stream keeps the promise of a UDP flow: each datagram
\* arrives whole, at most once and only if it was sent.
THEOREM StreamsImplementUdp == Spec => UdpPromise
<1>1. Init => Udp!Init
  <2> SUFFICES ASSUME Init PROVE Udp!Init
    OBVIOUS
  <2>1. Elements(<<>>) = {}
    BY DEF Elements
  <2> QED BY <2>1 DEF Init, Udp!Init
<1>2. StreamIInv /\ [Next]_vars => [Udp!Next]_<<[l \in Link |-> Elements(sent[l])], received>>
  <2> SUFFICES ASSUME StreamIInv, [Next]_vars
               PROVE  \/ Udp!Next
                      \/ UNCHANGED <<[l \in Link |-> Elements(sent[l])], received>>
    OBVIOUS
  <2>1. CASE \E l \in Link, p \in Packet : Write(l, p)
    BY <2>1, WriteSends DEF Udp!Next
  <2>2. CASE \E l \in Link : Read(l)
    BY <2>2, ReadReceives DEF Udp!Next
  <2>3. CASE UNCHANGED <<sent, received>>
    BY <2>3
  <2>4. CASE UNCHANGED vars
    BY <2>4, <2>3 DEF vars, flow
  <2> QED BY <2>1, <2>2, <2>3, <2>4, OthersCarryNothing
<1> QED BY <1>1, <1>2, StreamsAlwaysIInv, PTL DEF Spec, UdpPromise, Udp!Spec
=============================================================================
