-------------------------- MODULE Stream2PageProofs --------------------------
(***************************************************************************)
(* Proofs about Stream2Page: the ring of AudioChunkBuffer implements the    *)
(* bounded queue, and the safety of the page and its engine, for every      *)
(* capacity and whatever the numbers of captures, models and samples.       *)
(***************************************************************************)
EXTENDS Stream2Page, FiniteSetTheorems, TLAPS

-----------------------------------------------------------------------------
(* The ring                                                                *)

\* The sample i places behind the oldest.
At(ring, i) == ring.buf[Wrapped(ring.head + i)]

\* Positions are taken modulo the size of the ring.
LEMMA Wraps ==
  ASSUME NEW a \in Nat, NEW b \in Nat, a < maxSamples, b <= maxSamples
  PROVE  /\ Wrapped(a + b) \in 0 .. maxSamples - 1
         /\ a + b < maxSamples => Wrapped(a + b) = a + b
         /\ a + b >= maxSamples => Wrapped(a + b) = (a + b) - maxSamples
BY BufferAssumption DEF Wrapped

\* The fields of a ring, as numbers.
LEMMA RingFields ==
  ASSUME NEW ring \in Ring
  PROVE  /\ ring.buf \in [0 .. maxSamples - 1 -> Sample]
         /\ ring.head \in Nat /\ ring.head < maxSamples
         /\ ring.len \in Nat /\ ring.len <= maxSamples
         /\ maxSamples \in Nat /\ maxSamples > 0
BY BufferAssumption DEF Ring

\* Turning the index twice or once is the same.
LEMMA WrapsTwice ==
  ASSUME NEW h \in Nat, NEW k \in Nat, NEW i \in Nat,
         h < maxSamples, k + i < maxSamples
  PROVE  Wrapped(Wrapped(h + k) + i) = Wrapped(h + (k + i))
<1>1. maxSamples \in Nat BY BufferAssumption
<1>2. CASE h + k < maxSamples
  BY <1>1, <1>2 DEF Wrapped
<1>3. CASE h + k >= maxSamples
  BY <1>1, <1>3 DEF Wrapped
<1>. QED BY <1>1, <1>2, <1>3

\* Different places of the ring are at different positions.
LEMMA WrapsApart ==
  ASSUME NEW h \in Nat, NEW i \in Nat, NEW j \in Nat,
         h < maxSamples, i < maxSamples, j < maxSamples, i # j
  PROVE  Wrapped(h + i) # Wrapped(h + j)
BY BufferAssumption DEF Wrapped

\* The two parts that are copied are one run of the ring, seen from the oldest.
LEMMA OldestAt ==
  ASSUME NEW ring \in Ring, NEW n \in 0 .. ring.len
  PROVE  Oldest(ring, n) = [i \in 1 .. n |-> At(ring, i - 1)]
<1>1. /\ ring.head \in Nat /\ ring.head < maxSamples /\ n \in Nat
      /\ ring.len \in Nat /\ ring.len <= maxSamples /\ n <= ring.len
      /\ maxSamples \in Nat /\ maxSamples > 0
  BY RingFields
<1>. DEFINE room == maxSamples - ring.head
            firstPart == IF n < room THEN n ELSE room
<1>2. ASSUME NEW i \in 1 .. n
      PROVE  (IF i <= firstPart THEN ring.buf[ring.head + i - 1]
              ELSE ring.buf[i - firstPart - 1]) = At(ring, i - 1)
  <2>1. CASE i <= firstPart
    <3>1. ring.head + (i - 1) < maxSamples BY <1>1, <2>1
    <3>2. Wrapped(ring.head + (i - 1)) = ring.head + i - 1
      BY <1>1, <3>1 DEF Wrapped
    <3>. QED BY <2>1, <3>2 DEF At
  <2>2. CASE ~(i <= firstPart)
    <3>1. firstPart = room /\ ring.head + (i - 1) >= maxSamples BY <1>1, <2>2
    <3>2. Wrapped(ring.head + (i - 1)) = i - firstPart - 1
      BY <1>1, <3>1 DEF Wrapped
    <3>. QED BY <2>2, <3>2 DEF At
  <2>. QED BY <2>1, <2>2
<1>. QED BY <1>2 DEF Oldest

\* The flat array holds what is at the ring's places, in order.
LEMMA Contents ==
  ASSUME NEW ring \in Ring
  PROVE  /\ toFloat32Array(ring) \in Seq(Sample)
         /\ Len(toFloat32Array(ring)) = ring.len
         /\ \A i \in 1 .. ring.len : toFloat32Array(ring)[i] = At(ring, i - 1)
<1>1. /\ ring.len \in 0 .. ring.len /\ ring.len \in Nat /\ ring.len <= maxSamples
      /\ ring.head \in Nat /\ ring.head < maxSamples
      /\ ring.buf \in [0 .. maxSamples - 1 -> Sample]
  BY RingFields
<1>2. toFloat32Array(ring) = [i \in 1 .. ring.len |-> At(ring, i - 1)]
  BY <1>1, OldestAt DEF toFloat32Array
<1>3. ASSUME NEW i \in 1 .. ring.len PROVE At(ring, i - 1) \in Sample
  <2>1. i - 1 \in Nat /\ i - 1 <= maxSamples BY <1>1, RingFields
  <2>2. Wrapped(ring.head + (i - 1)) \in 0 .. maxSamples - 1 BY <1>1, <2>1, Wraps
  <2>. QED BY <1>1, <2>2 DEF At
<1>. QED BY <1>1, <1>2, <1>3

\* Two sequences of the same length with the same elements are the same.
LEMMA SameSeq ==
  ASSUME NEW S, NEW s \in Seq(S), NEW t \in Seq(S), Len(s) = Len(t),
         \A i \in 1 .. Len(s) : s[i] = t[i]
  PROVE  s = t
OBVIOUS

\* A ring without its k oldest samples.
Without(ring, k) == [ring EXCEPT !.head = Wrapped(@ + k), !.len = @ - k]

\* Dropping the oldest k samples.
LEMMA WithoutOldest ==
  ASSUME NEW ring \in Ring, NEW k \in 0 .. ring.len
  PROVE  /\ Without(ring, k) \in Ring
         /\ Without(ring, k).len = ring.len - k
         /\ toFloat32Array(Without(ring, k))
              = SubSeq(toFloat32Array(ring), k + 1, ring.len)
<1>. DEFINE r == Without(ring, k)
<1>1. /\ ring.head \in Nat /\ ring.head < maxSamples
      /\ ring.len \in Nat /\ ring.len <= maxSamples /\ k \in Nat /\ k <= ring.len
      /\ maxSamples \in Nat /\ maxSamples > 0
  BY RingFields
<1>2. Wrapped(ring.head + k) \in 0 .. maxSamples - 1 BY <1>1, Wraps
<1>3. ring.len - k \in 0 .. maxSamples BY <1>1
<1>4. /\ r \in Ring /\ r.len = ring.len - k /\ r.buf = ring.buf
      /\ r.head = Wrapped(ring.head + k)
  BY <1>2, <1>3 DEF Without, Ring
<1>5. /\ toFloat32Array(ring) \in Seq(Sample) /\ Len(toFloat32Array(ring)) = ring.len
      /\ \A i \in 1 .. ring.len : toFloat32Array(ring)[i] = At(ring, i - 1)
  BY Contents
<1>6. /\ toFloat32Array(r) \in Seq(Sample) /\ Len(toFloat32Array(r)) = ring.len - k
      /\ \A i \in 1 .. ring.len - k : toFloat32Array(r)[i] = At(r, i - 1)
  BY <1>4, Contents
<1>. HIDE DEF r
<1>. DEFINE c == toFloat32Array(ring)
            s == SubSeq(c, k + 1, ring.len)
<1>. HIDE DEF c
<1>7. /\ s \in Seq(Sample) /\ Len(s) = ring.len - k
      /\ \A i \in 1 .. ring.len - k : s[i] = c[k + i]
  BY <1>1, <1>5 DEF c
<1>8. ASSUME NEW i \in 1 .. ring.len - k PROVE toFloat32Array(r)[i] = s[i]
  <2>1. /\ i - 1 \in Nat /\ k + (i - 1) < maxSamples /\ k + i \in 1 .. ring.len
        /\ (k + i) - 1 = k + (i - 1)
    BY <1>1
  <2>2. Wrapped(Wrapped(ring.head + k) + (i - 1)) = Wrapped(ring.head + (k + (i - 1)))
    BY <1>1, <2>1, WrapsTwice
  <2>3. At(r, i - 1) = At(ring, k + (i - 1)) BY <1>4, <2>2 DEF At
  <2>4. c[k + i] = At(ring, k + (i - 1)) BY <1>5, <2>1 DEF c
  <2>. QED BY <1>6, <1>7, <2>3, <2>4
<1>9. toFloat32Array(r) = s
  <2>. HIDE DEF s
  <2>. QED BY <1>1, <1>6, <1>7, <1>8, SameSeq
<1>. QED BY <1>4, <1>9 DEF r, c

\* new is buf with count samples of the chunk written at `at`.
IsSet(new, buf, at, chunk, from, count) ==
  /\ new \in [0 .. maxSamples - 1 -> Sample]
  /\ \A k \in 0 .. maxSamples - 1 :
       new[k] = IF at <= k /\ k < at + count THEN chunk[from + (k - at) + 1]
                ELSE buf[k]

\* What _buf.set(chunk.subarray(...), at) writes, and what it leaves.
LEMMA SetAt ==
  ASSUME NEW buf \in [0 .. maxSamples - 1 -> Sample], NEW chunk \in Seq(Sample),
         NEW at \in Nat, NEW from \in Nat, NEW count \in Nat,
         from + count <= Len(chunk)
  PROVE  IsSet(Set(buf, at, chunk, from, count), buf, at, chunk, from, count)
<1>1. maxSamples \in Nat BY BufferAssumption
<1>2. ASSUME NEW k \in 0 .. maxSamples - 1
      PROVE  k \in at .. at + count - 1 <=> at <= k /\ k < at + count
  BY <1>1
<1>3. ASSUME NEW k \in 0 .. maxSamples - 1, at <= k, k < at + count
      PROVE  chunk[from + (k - at) + 1] \in Sample
  <2>1. from + (k - at) + 1 \in 1 .. Len(chunk) BY <1>1, <1>3
  <2>. QED BY <2>1
<1>. QED BY <1>2, <1>3 DEF Set, IsSet

\* Where the samples there were and those written are, in a ring of `cap` places:
\* f samples go from the tail to the end, the others to the beginning.
LEMMA Places ==
  ASSUME NEW cap \in Nat, NEW h \in Nat, NEW l \in Nat, NEW n \in Nat,
         NEW i \in Nat, NEW tail \in Nat, NEW f \in Nat, NEW k \in Nat,
         h < cap, n < cap, l + n <= cap, k < cap, tail < cap,
         f = IF n < cap - tail THEN n ELSE cap - tail,
         tail = IF h + l < cap THEN h + l ELSE (h + l) - cap
  PROVE  /\ i < l /\ k = (IF h + i < cap THEN h + i ELSE (h + i) - cap)
              => ~(tail <= k /\ k < tail + f) /\ ~(0 <= k /\ k < 0 + (n - f))
         /\ i < f /\ k = (IF h + (l + i) < cap THEN h + (l + i) ELSE (h + (l + i)) - cap)
              => /\ tail <= k /\ k < tail + f /\ 0 + (k - tail) + 1 = i + 1
                 /\ ~(0 <= k /\ k < 0 + (n - f))
         /\ f <= i /\ i < n
              /\ k = (IF h + (l + i) < cap THEN h + (l + i) ELSE (h + (l + i)) - cap)
              => 0 <= k /\ k < 0 + (n - f) /\ f + (k - 0) + 1 = i + 1
OBVIOUS

\* The first part that is written, and the second.
LEMMA Parts ==
  ASSUME NEW cap \in Nat, NEW n \in Nat, NEW tail \in Nat, NEW f,
         tail < cap, f = IF n < cap - tail THEN n ELSE cap - tail
  PROVE  /\ f \in Nat /\ f <= n /\ n - f \in Nat
         /\ 0 + f <= n /\ f + (n - f) <= n
OBVIOUS

\* What Written writes, whether or not it passes the end.
LEMMA WrittenAt ==
  ASSUME NEW ring \in Ring, NEW chunk \in Seq(Sample),
         ring.len + Len(chunk) <= maxSamples, Len(chunk) < maxSamples
  PROVE  LET r == Written(ring, chunk)
         IN  /\ r \in Ring
             /\ r.head = ring.head /\ r.len = ring.len + Len(chunk)
             /\ \A i \in Nat : i < ring.len => At(r, i) = At(ring, i)
             /\ \A i \in 1 .. Len(chunk) : At(r, ring.len + (i - 1)) = chunk[i]
<1>. DEFINE h == ring.head
            l == ring.len
            n == Len(chunk)
            tail == Wrapped(h + l)
            room == maxSamples - tail
            firstPart == IF n < room THEN n ELSE room
            first == Set(ring.buf, tail, chunk, 0, firstPart)
            second == Set(first, 0, chunk, firstPart, n - firstPart)
            r == Written(ring, chunk)
<1>1. /\ h \in Nat /\ h < maxSamples /\ l \in Nat /\ l <= maxSamples
      /\ maxSamples \in Nat /\ maxSamples > 0 /\ n \in Nat
      /\ l + n <= maxSamples /\ n < maxSamples
  BY RingFields
<1>0. ring.buf \in [0 .. maxSamples - 1 -> Sample] BY RingFields
<1>2. tail \in 0 .. maxSamples - 1 BY <1>1, Wraps
<1>3. /\ firstPart \in Nat /\ firstPart <= n /\ n - firstPart \in Nat
      /\ 0 + firstPart <= n /\ firstPart + (n - firstPart) <= n
  <2>1. tail \in Nat /\ tail < maxSamples BY <1>1, <1>2
  <2>2. firstPart = IF n < maxSamples - tail THEN n ELSE maxSamples - tail
    OBVIOUS
  <2>. HIDE DEF tail, firstPart, n
  <2>. QED BY <1>1, <2>1, <2>2, Parts
<1>4. r = [buf |-> second, head |-> h, len |-> l + n]
  BY DEF Written
<1>5. IsSet(first, ring.buf, tail, chunk, 0, firstPart)
  <2>1. tail \in Nat /\ 0 \in Nat BY <1>1, <1>2
  <2>. HIDE DEF firstPart, tail
  <2>. QED BY <1>0, <1>3, <2>1, SetAt
<1>6. IsSet(second, first, 0, chunk, firstPart, n - firstPart)
  <2>1. first \in [0 .. maxSamples - 1 -> Sample] /\ 0 \in Nat BY <1>5 DEF IsSet
  <2>. HIDE DEF first, firstPart
  <2>. QED BY <1>3, <2>1, SetAt
<1>7. /\ r.buf = second /\ r.head = h /\ r.len = l + n /\ r \in Ring
  <2>. HIDE DEF second
  <2>. QED BY <1>1, <1>4, <1>6 DEF Ring, IsSet
<1>. HIDE DEF first, second, r, firstPart, tail
<1>. HIDE DEF h, l, n
<1>8. /\ firstPart = IF n < maxSamples - tail THEN n ELSE maxSamples - tail
      /\ tail = IF h + l < maxSamples THEN h + l ELSE (h + l) - maxSamples
      /\ tail \in Nat /\ tail < maxSamples
  BY <1>1, <1>2 DEF firstPart, room, tail, Wrapped
<1>. HIDE DEF room
<1>9. ASSUME NEW i \in Nat, i < l PROVE At(r, i) = At(ring, i)
  <2>. DEFINE k == Wrapped(h + i)
  <2>1. /\ k \in 0 .. maxSamples - 1 /\ k \in Nat /\ k < maxSamples
        /\ k = IF h + i < maxSamples THEN h + i ELSE (h + i) - maxSamples
    BY <1>1, <1>9 DEF Wrapped
  <2>. HIDE DEF k
  <2>2. /\ ~(tail <= k /\ k < tail + firstPart)
        /\ ~(0 <= k /\ k < 0 + (n - firstPart))
    BY <1>1, <1>3, <1>8, <1>9, <2>1, Places
  <2>3. second[k] = first[k] BY <1>6, <2>1, <2>2 DEF IsSet
  <2>4. first[k] = ring.buf[k] BY <1>5, <2>1, <2>2 DEF IsSet
  <2>. QED BY <1>7, <2>3, <2>4 DEF At, k, h
<1>10. ASSUME NEW p \in Nat, p < n PROVE At(r, l + p) = chunk[p + 1]
  <2>. DEFINE k == Wrapped(h + (l + p))
  <2>1. l + p \in Nat /\ l + p < maxSamples BY <1>1, <1>10
  <2>2. /\ k \in 0 .. maxSamples - 1 /\ k \in Nat /\ k < maxSamples
        /\ k = IF h + (l + p) < maxSamples THEN h + (l + p)
               ELSE (h + (l + p)) - maxSamples
    BY <1>1, <1>10, <2>1 DEF Wrapped
  <2>. HIDE DEF k
  <2>3. CASE p < firstPart
    <3>1. /\ tail <= k /\ k < tail + firstPart /\ 0 + (k - tail) + 1 = p + 1
          /\ ~(0 <= k /\ k < 0 + (n - firstPart))
      BY <1>1, <1>3, <1>8, <1>10, <2>2, <2>3, Places
    <3>2. second[k] = first[k] BY <1>6, <2>2, <3>1 DEF IsSet
    <3>3. first[k] = chunk[p + 1] BY <1>5, <2>2, <3>1 DEF IsSet
    <3>. QED BY <1>7, <3>2, <3>3 DEF At, k, h, l
  <2>4. CASE ~(p < firstPart)
    <3>1. 0 <= k /\ k < 0 + (n - firstPart) /\ firstPart + (k - 0) + 1 = p + 1
      BY <1>1, <1>3, <1>8, <1>10, <2>2, <2>4, Places
    <3>2. second[k] = chunk[p + 1] BY <1>6, <2>2, <3>1 DEF IsSet
    <3>. QED BY <1>7, <3>2 DEF At, k, h, l
  <2>. QED BY <2>3, <2>4
<1>11. ASSUME NEW i \in 1 .. n PROVE At(r, l + (i - 1)) = chunk[i]
  <2>1. i - 1 \in Nat /\ i - 1 < n /\ (i - 1) + 1 = i BY <1>1
  <2>. QED BY <1>10, <2>1
<1>. QED BY <1>7, <1>9, <1>11 DEF r, h, l, n

\* A sequence without its first d elements.
From(q, d) == SubSeq(q, d + 1, Len(q))

\* The elements after the first d.
LEMMA FromAt ==
  ASSUME NEW S, NEW q \in Seq(S), NEW d \in Nat, d <= Len(q)
  PROVE  /\ From(q, d) \in Seq(S)
         /\ Len(From(q, d)) = Len(q) - d
         /\ \A i \in 1 .. Len(q) - d : From(q, d)[i] = q[d + i]
<1>. DEFINE l == Len(q)
<1>1. l \in Nat OBVIOUS
<1>2. \A i \in d + 1 .. l : i \in 1 .. Len(q) BY <1>1
<1>3. SubSeq(q, d + 1, l) \in Seq(S) BY <1>1, <1>2
<1>4. Len(SubSeq(q, d + 1, l)) = l - d BY <1>1
<1>5. ASSUME NEW i \in 1 .. l - d PROVE SubSeq(q, d + 1, l)[i] = q[d + i]
  <2>1. d + 1 + i - 1 = d + i BY <1>1
  <2>. QED BY <1>1, <2>1
<1>. QED BY <1>3, <1>4, <1>5 DEF From

\* How many samples Newest leaves away, and what it keeps.
Cut(q, m) == IF Len(q) <= m THEN 0 ELSE Len(q) - m

\* The last m elements of a sequence, or all of them.
LEMMA NewestAt ==
  ASSUME NEW S, NEW q \in Seq(S), NEW m \in Nat
  PROVE  /\ Queue!Newest(q, m) \in Seq(S)
         /\ Len(Queue!Newest(q, m)) = Len(q) - Cut(q, m)
         /\ \A i \in 1 .. Len(q) - Cut(q, m) :
              Queue!Newest(q, m)[i] = q[Cut(q, m) + i]
<1>. DEFINE d == Cut(q, m)
<1>1. CASE Len(q) <= m
  <2>1. Queue!Newest(q, m) = q /\ d = 0 /\ Len(q) \in Nat
    BY <1>1 DEF Queue!Newest, Cut
  <2>2. \A i \in 1 .. Len(q) - d : d + i = i BY <2>1
  <2>. QED BY <2>1, <2>2
<1>2. CASE ~(Len(q) <= m)
  <2>1. Queue!Newest(q, m) = SubSeq(q, Len(q) - m + 1, Len(q)) BY <1>2 DEF Queue!Newest
  <2>2. d = Len(q) - m /\ d \in Nat /\ d <= Len(q) BY <1>2 DEF Cut
  <2>3. Queue!Newest(q, m) = From(q, d) BY <2>1, <2>2 DEF From
  <2>. HIDE DEF d
  <2>4. /\ From(q, d) \in Seq(S) /\ Len(From(q, d)) = Len(q) - d
        /\ \A i \in 1 .. Len(q) - d : From(q, d)[i] = q[d + i]
    BY <2>2, FromAt
  <2>. QED BY <2>3, <2>4 DEF d
<1>. QED BY <1>1, <1>2

\* append() makes room by dropping the oldest samples, no more than it must.
LEMMA DroppedAt ==
  ASSUME NEW ring \in Ring, NEW n \in Nat, n < maxSamples, NEW k,
         k = IF ring.len + n <= maxSamples THEN 0 ELSE ring.len + n - maxSamples
  PROVE  LET r == Dropped(ring, n)
         IN  /\ r \in Ring /\ r.len = ring.len - k
             /\ k \in 0 .. ring.len /\ r.len + n <= maxSamples
             /\ \A i \in 1 .. ring.len - k :
                  toFloat32Array(r)[i] = toFloat32Array(ring)[k + i]
<1>1. ring.len \in Nat /\ ring.len <= maxSamples /\ maxSamples \in Nat BY RingFields
<1>2. /\ k \in Nat /\ k <= ring.len /\ (ring.len - k) + n <= maxSamples
      /\ ring.len - k \in Nat
  BY <1>1
<1>3. CASE ring.len + n <= maxSamples
  <2>1. ring.len + n - maxSamples <= 0 /\ k = 0 BY <1>1, <1>3
  <2>2. Dropped(ring, n) = ring BY <2>1 DEF Dropped
  <2>3. \A i \in 1 .. ring.len - k : k + i = i BY <1>1, <2>1
  <2>. QED BY <1>1, <1>2, <2>1, <2>2, <2>3
<1>4. CASE ~(ring.len + n <= maxSamples)
  <2>1. ~(ring.len + n - maxSamples <= 0) /\ k = ring.len + n - maxSamples
    BY <1>1, <1>4
  <2>2. Dropped(ring, n) = Without(ring, k) BY <2>1 DEF Dropped, Without
  <2>3. k \in 0 .. ring.len BY <1>1, <1>2
  <2>4. /\ Without(ring, k) \in Ring /\ Without(ring, k).len = ring.len - k
        /\ toFloat32Array(Without(ring, k))
             = SubSeq(toFloat32Array(ring), k + 1, ring.len)
    BY <2>3, WithoutOldest
  <2>5. toFloat32Array(ring) \in Seq(Sample) /\ Len(toFloat32Array(ring)) = ring.len
    BY Contents
  <2>6. \A i \in 1 .. ring.len - k :
          SubSeq(toFloat32Array(ring), k + 1, ring.len)[i] = toFloat32Array(ring)[k + i]
    <3>. DEFINE c == toFloat32Array(ring)
                l == ring.len
    <3>. HIDE DEF c, l
    <3>1. c \in Seq(Sample) /\ Len(c) = l /\ k \in Nat /\ k <= Len(c)
      BY <1>2, <2>5 DEF c, l
    <3>2. \A i \in 1 .. l - k : From(c, k)[i] = c[k + i] BY <3>1, FromAt
    <3>3. SubSeq(c, k + 1, l) = From(c, k) BY <3>1 DEF From
    <3>. QED BY <3>2, <3>3 DEF c, l
  <2>. QED BY <1>2, <2>2, <2>3, <2>4, <2>6
<1>. QED BY <1>3, <1>4

(***************************************************************************)
(* append: whatever the ring holds and wherever its head is, it then holds  *)
(* the newest maxSamples of what it held and the chunk, in order.           *)
(***************************************************************************)
THEOREM AppendKeepsNewest ==
  ASSUME NEW ring \in Ring, NEW chunk \in Seq(Sample)
  PROVE  /\ append(ring, chunk) \in Ring
         /\ toFloat32Array(append(ring, chunk))
              = Queue!Newest(toFloat32Array(ring) \o chunk, maxSamples)
<1>. DEFINE n == Len(chunk)
            c == toFloat32Array(ring)
            l == ring.len
            q == c \o chunk
            d == Cut(q, maxSamples)
            r == append(ring, chunk)
            s == Queue!Newest(q, maxSamples)
<1>1. /\ l \in Nat /\ l <= maxSamples /\ maxSamples \in Nat /\ maxSamples > 0
      /\ n \in Nat
  BY RingFields
<1>2. c \in Seq(Sample) /\ Len(c) = l BY Contents
<1>3. ring.buf \in [0 .. maxSamples - 1 -> Sample] BY RingFields
<1>. HIDE DEF c, l
<1>4. /\ q \in Seq(Sample) /\ Len(q) = l + n
      /\ \A i \in 1 .. l : q[i] = c[i]
      /\ \A i \in 1 .. n : q[l + i] = chunk[i]
  BY <1>1, <1>2
<1>. HIDE DEF q
<1>5. /\ s \in Seq(Sample) /\ Len(s) = Len(q) - d
      /\ \A i \in 1 .. Len(q) - d : s[i] = q[d + i]
  <2>1. q \in Seq(Sample) /\ maxSamples \in Nat BY <1>1, <1>4
  <2>. QED BY <2>1, NewestAt
<1>6. d = (IF l + n <= maxSamples THEN 0 ELSE (l + n) - maxSamples) /\ d \in Nat
  BY <1>1, <1>4 DEF Cut
<1>. HIDE DEF s, d
<1>7. CASE n >= maxSamples
  <2>. DEFINE from == n - maxSamples
              buf == Set(ring.buf, 0, chunk, from, maxSamples)
  <2>1. r = [buf |-> buf, head |-> 0, len |-> maxSamples] BY <1>7 DEF append
  <2>2. from \in Nat /\ from + maxSamples <= Len(chunk) BY <1>1, <1>7
  <2>3. /\ buf \in [0 .. maxSamples - 1 -> Sample]
        /\ \A k \in 0 .. maxSamples - 1 : buf[k] = chunk[from + (k - 0) + 1]
    <3>1. maxSamples \in Nat /\ 0 \in Nat BY <1>1
    <3>. HIDE DEF from
    <3>2. buf \in [0 .. maxSamples - 1 -> Sample] BY <1>3, <2>2, <3>1, SetAt DEF IsSet
    <3>3. \A k \in 0 .. maxSamples - 1 : k \in 0 .. 0 + maxSamples - 1 BY <3>1
    <3>4. \A k \in 0 .. maxSamples - 1 : buf[k] = chunk[from + (k - 0) + 1]
      BY <3>3 DEF Set
    <3>. QED BY <3>2, <3>4
  <2>. HIDE DEF buf
  <2>4. r \in Ring /\ r.len = maxSamples BY <1>1, <2>1, <2>3 DEF Ring
  <2>5. /\ toFloat32Array(r) \in Seq(Sample) /\ Len(toFloat32Array(r)) = maxSamples
        /\ \A i \in 1 .. maxSamples : toFloat32Array(r)[i] = At(r, i - 1)
    BY <2>4, Contents
  <2>6. r.head = 0 /\ r.buf = buf BY <2>1
  <2>. HIDE DEF r
  <2>7. d = (l + n) - maxSamples /\ Len(q) - d = maxSamples BY <1>1, <1>4, <1>6, <1>7
  <2>8. ASSUME NEW i \in 1 .. maxSamples PROVE toFloat32Array(r)[i] = s[i]
    <3>1. /\ i - 1 \in 0 .. maxSamples - 1 /\ i - 1 < 0 + maxSamples /\ 0 <= i - 1
          /\ (n - maxSamples) + ((i - 1) - 0) + 1 = (n - maxSamples) + i
          /\ (n - maxSamples) + i \in 1 .. n
          /\ l + ((n - maxSamples) + i) = ((l + n) - maxSamples) + i
      BY <1>1, <1>7
    <3>2. Wrapped(0 + (i - 1)) = i - 1 BY <1>1, <3>1 DEF Wrapped
    <3>3. At(r, i - 1) = buf[i - 1] BY <2>6, <3>2 DEF At
    <3>4. buf[i - 1] = chunk[(n - maxSamples) + i] BY <2>3, <3>1
    <3>5. s[i] = q[d + i] BY <1>5, <2>7
    <3>6. q[d + i] = chunk[(n - maxSamples) + i] BY <1>4, <2>7, <3>1
    <3>. QED BY <2>5, <3>3, <3>4, <3>5, <3>6
  <2>9. toFloat32Array(r) = s BY <1>1, <1>5, <2>5, <2>7, <2>8, SameSeq
  <2>. QED BY <2>4, <2>9 DEF r, s, q, c
<1>8. CASE ~(n >= maxSamples)
  <2>. DEFINE p == Dropped(ring, n)
  <2>1. n < maxSamples /\ d = IF l + n <= maxSamples THEN 0 ELSE l + n - maxSamples
    BY <1>1, <1>6, <1>8
  <2>2. /\ p \in Ring /\ p.len = l - d /\ d \in 0 .. l /\ p.len + n <= maxSamples
        /\ \A i \in 1 .. l - d : toFloat32Array(p)[i] = c[d + i]
    <3>. HIDE DEF n
    <3>1. n \in Nat BY <1>1
    <3>. QED BY <2>1, <3>1, DroppedAt DEF c, l
  <2>3. r = Written(p, chunk) BY <1>8 DEF append
  <2>. HIDE DEF p
  <2>4. /\ r \in Ring /\ r.len = p.len + n
        /\ \A i \in Nat : i < p.len => At(r, i) = At(p, i)
        /\ \A i \in 1 .. n : At(r, p.len + (i - 1)) = chunk[i]
    BY <2>1, <2>2, <2>3, WrittenAt
  <2>. HIDE DEF r
  <2>5. /\ toFloat32Array(r) \in Seq(Sample) /\ Len(toFloat32Array(r)) = p.len + n
        /\ \A i \in 1 .. p.len + n : toFloat32Array(r)[i] = At(r, i - 1)
    BY <2>4, Contents
  <2>6. \A i \in 1 .. p.len : toFloat32Array(p)[i] = At(p, i - 1) BY <2>2, Contents
  <2>7. /\ p.len = l - d /\ d \in Nat /\ d <= l /\ p.len \in Nat
        /\ Len(q) - d = p.len + n
    BY <1>1, <1>4, <2>2
  <2>8. ASSUME NEW i \in 1 .. p.len + n PROVE toFloat32Array(r)[i] = s[i]
    <3>1. s[i] = q[d + i] BY <1>5, <2>7
    <3>2. CASE i <= p.len
      <4>1. i \in 1 .. p.len /\ i - 1 \in Nat /\ i - 1 < p.len /\ d + i \in 1 .. l
            /\ i \in 1 .. l - d
        BY <1>1, <2>7, <3>2
      <4>2. At(r, i - 1) = c[d + i] BY <2>2, <2>4, <2>6, <4>1
      <4>. QED BY <1>4, <2>5, <3>1, <4>1, <4>2
    <3>3. CASE ~(i <= p.len)
      <4>1. i - p.len \in 1 .. n /\ p.len + ((i - p.len) - 1) = i - 1
            /\ l + (i - p.len) = d + i
        BY <1>1, <2>7, <3>3
      <4>2. At(r, i - 1) = chunk[i - p.len] BY <2>4, <4>1
      <4>3. q[d + i] = chunk[i - p.len] BY <1>4, <4>1
      <4>. QED BY <2>5, <3>1, <4>2, <4>3
    <3>. QED BY <3>2, <3>3
  <2>9. toFloat32Array(r) = s BY <1>1, <1>5, <2>5, <2>7, <2>8, SameSeq
  <2>. QED BY <2>4, <2>9 DEF r, s, q, c
<1>. QED BY <1>7, <1>8

\* clear() empties the ring.
LEMMA ClearEmpties ==
  ASSUME NEW ring \in Ring
  PROVE  /\ clear(ring) \in Ring
         /\ toFloat32Array(clear(ring)) = <<>>
<1>1. /\ ring.buf \in [0 .. maxSamples - 1 -> Sample]
      /\ 0 \in 0 .. maxSamples - 1 /\ 0 \in 0 .. maxSamples
  BY RingFields
<1>2. clear(ring) \in Ring /\ clear(ring).len = 0
  BY <1>1 DEF clear, Ring
<1>3. toFloat32Array(clear(ring)) \in Seq(Sample) /\ Len(toFloat32Array(clear(ring))) = 0
  BY <1>2, Contents
<1>. QED BY <1>2, <1>3

(***************************************************************************)
(* consume: it returns the n oldest samples, or all, and the others stay,   *)
(* in order, wherever the head is.  (The page has no use for it.)           *)
(***************************************************************************)
THEOREM ConsumeTakesOldest ==
  ASSUME NEW ring \in Ring, NEW n \in Nat
  PROVE  /\ consume(ring, n) \in Ring
         /\ toFloat32Array(consume(ring, n))
              = SubSeq(toFloat32Array(ring), Count(ring, n) + 1, ring.len)
         /\ \A i \in 1 .. Count(ring, n) :
              Oldest(ring, Count(ring, n))[i] = toFloat32Array(ring)[i]
<1>1. ring.len \in Nat BY RingFields
<1>2. Count(ring, n) \in 0 .. ring.len BY <1>1 DEF Count
<1>3. consume(ring, n) = Without(ring, Count(ring, n)) BY DEF consume, Without
<1>4. ASSUME NEW i \in 1 .. Count(ring, n)
      PROVE  Oldest(ring, Count(ring, n))[i] = toFloat32Array(ring)[i]
  <2>1. i \in 1 .. ring.len BY <1>1, <1>2
  <2>2. Oldest(ring, Count(ring, n)) = [j \in 1 .. Count(ring, n) |-> At(ring, j - 1)]
    BY <1>2, OldestAt
  <2>3. toFloat32Array(ring)[i] = At(ring, i - 1) BY <2>1, Contents
  <2>. QED BY <2>2, <2>3
<1>. QED BY <1>2, <1>3, <1>4, WithoutOldest

\* What KeepTail keeps.
LEMMA TailKept ==
  ASSUME NEW ring \in Ring, NEW from \in 0 .. ring.len
  PROVE  LET all  == toFloat32Array(ring)
             kept == append(clear(ring), SubSeq(all, from + 1, ring.len))
         IN  kept \in Ring /\ toFloat32Array(kept) = SubSeq(all, from + 1, ring.len)
<1>. DEFINE all == toFloat32Array(ring)
            tail == SubSeq(all, from + 1, ring.len)
<1>1. /\ all \in Seq(Sample) /\ Len(all) = ring.len
      /\ ring.len \in Nat /\ ring.len <= maxSamples /\ maxSamples \in Nat
      /\ from \in Nat /\ from <= ring.len
  BY Contents, RingFields
<1>2. tail = From(all, from) BY <1>1 DEF From
<1>. HIDE DEF all, tail
<1>3. tail \in Seq(Sample) /\ Len(tail) = ring.len - from
  BY <1>1, <1>2, FromAt
<1>4. <<>> \o tail = tail /\ Len(tail) <= maxSamples BY <1>1, <1>3
<1>5. Queue!Newest(tail, maxSamples) = tail BY <1>4 DEF Queue!Newest
<1>6. clear(ring) \in Ring /\ toFloat32Array(clear(ring)) = <<>> BY ClearEmpties
<1>7. /\ append(clear(ring), tail) \in Ring
      /\ toFloat32Array(append(clear(ring), tail)) = Queue!Newest(<<>> \o tail, maxSamples)
  BY <1>3, <1>6, AppendKeepsNewest
<1>. QED BY <1>4, <1>5, <1>7 DEF all, tail

-----------------------------------------------------------------------------
(* The page and its engine                                                 *)

\* The engine is given audio only when it has a context, and init is over.
EngineInv ==
  /\ ~instance => wpc = "none" /\ ppc \in {"ready", "stop"}
  /\ instance => g_ctx # 0
  /\ wpc = "infer" => used = g_ctx

\* Until Start is clicked out of turn there is one capture, the one Stop stops.
CaptureInv ==
  orderly => /\ \A c, d \in Captures :
                 capture[c] # "none" /\ capture[d] # "none" => c = d
             /\ \A c \in Captures :
                 capture[c] = "running" => doRecording /\ c \in currentVAD

\* Samples of an utterance are samples.
LEMMA QueueTypes ==
  ASSUME NEW after \in Nat, NEW n \in Utterances, after + n <= MaxQueued
  PROVE  Samples(after, n) \in Seq(Sample) /\ n \in Nat
<1>1. n \in Nat /\ MaxQueued \in Nat /\ Sample = 0 .. MaxQueued BY PageAssumption
<1>2. \A k \in 1 .. n : after + k \in Sample BY <1>1
<1>. QED BY <1>1, <1>2 DEF Samples

\* The part of TypeOK about the ring.
LEMMA RingKept ==
  ASSUME TypeOK, [Next]_vars
  PROVE  audioBufferQueue' \in Ring
<1>1. audioBufferQueue \in Ring /\ queued \in Nat BY PageAssumption DEF TypeOK
<1>2. CASE VoiceEnd
  <2>1. PICK n \in Utterances :
          /\ queued + n <= MaxQueued
          /\ audioBufferQueue' = append(audioBufferQueue, Samples(queued, n))
    BY <1>2 DEF VoiceEnd
  <2>. QED BY <1>1, <2>1, QueueTypes, AppendKeepsNewest
<1>3. CASE StopEnds
  BY <1>1, <1>3, ClearEmpties DEF StopEnds
<1>4. CASE KeepTail
  <2>. DEFINE all == toFloat32Array(audioBufferQueue)
              from == IF Len(all) > keepLen THEN Len(all) - keepLen ELSE 0
  <2>1. audioBufferQueue' = append(clear(audioBufferQueue), SubSeq(all, from + 1, Len(all)))
    BY <1>4 DEF KeepTail
  <2>2. Len(all) = audioBufferQueue.len /\ audioBufferQueue.len \in Nat /\ keepLen \in Nat
    BY <1>1, Contents, RingFields, PageAssumption
  <2>3. from \in 0 .. audioBufferQueue.len BY <2>2
  <2>. HIDE DEF from
  <2>. QED BY <1>1, <2>1, <2>2, <2>3, TailKept
<1>5. CASE UNCHANGED audioBufferQueue
  BY <1>1, <1>5
<1>6. [Next]_vars => VoiceEnd \/ StopEnds \/ KeepTail \/ UNCHANGED audioBufferQueue
  BY DEF Next, vars, pageVars, LoadEvent, StoreFS, Start, Stop, PageStep, Give, Flush,
         FlushGives, Record, Started, WorkerStep, WorkerSleeps, WorkerWakes, WorkerTakes, WorkerHears
<1>. QED BY <1>2, <1>3, <1>4, <1>5, <1>6

\* A set of one has one element.
LEMMA SingletonCardinality ==
  ASSUME NEW c PROVE Cardinality({c}) = 1
BY FS_Singleton

\* What the page and the engine hold, the ring aside.
PageTypes ==
  /\ ppc \in {"ready", "give", "keep", "stop_give", "stop", "flush"}
  /\ queued \in 0 .. MaxQueued
  /\ {instance, doRecording, startEnabled, stopEnabled, orderly} \subseteq BOOLEAN
  /\ {shared, lock} \subseteq BOOLEAN
  /\ capture \in [Captures -> {"none", "starting", "running"}]
  /\ bufLen \in [Continuous -> 0 .. MaxHeld]
  /\ currentVAD \subseteq Captures /\ Cardinality(currentVAD) <= 1
  /\ {g_ctx, used} \subseteq 0 .. 2
  /\ wpc \in {"none", "loop", "sleep", "infer", "store"}

\* TypeOK, by component.
LEMMA TypeParts == TypeOK <=> LoadTypeOK /\ audioBufferQueue \in Ring /\ PageTypes
BY DEF TypeOK, PageTypes

\* The page starts in the invariant.
LEMMA InitInv == Init => TypeOK /\ EngineInv /\ CaptureInv /\ LoadAnswered
<1> SUFFICES ASSUME Init PROVE TypeOK /\ EngineInv /\ CaptureInv /\ LoadAnswered
  OBVIOUS
<1>1. audioBufferQueue \in Ring
  BY BufferAssumption DEF Init, NewRing, Ring
<1>2. Cardinality(currentVAD) <= 1
  <2>1. Cardinality({}) = 0 BY FS_EmptySet
  <2>. QED BY <2>1 DEF Init
<1>3. 0 \in 0 .. MaxQueued /\ 0 \in 0 .. MaxHeld
  BY PageAssumption
<1>4. LoadTypeOK BY DEF Init, LoadInit, LoadTypeOK
<1>5. PageTypes
  <2>1. capture \in [Captures -> {"none", "starting", "running"}] BY DEF Init
  <2>2. /\ {instance, doRecording, startEnabled, stopEnabled, orderly} \subseteq BOOLEAN
        /\ {shared, lock} \subseteq BOOLEAN
        /\ ppc \in {"ready", "give", "keep", "stop_give", "stop", "flush"}
        /\ wpc \in {"none", "loop", "sleep", "infer", "store"}
        /\ currentVAD \subseteq Captures
    BY DEF Init
  <2>3. {g_ctx, used} \subseteq 0 .. 2 BY DEF Init
  <2>4. bufLen \in [Continuous -> 0 .. MaxHeld] BY <1>3 DEF Init
  <2>. QED BY <1>2, <1>3, <2>1, <2>2, <2>3, <2>4 DEF Init, PageTypes
<1>6. EngineInv /\ CaptureInv /\ LoadAnswered
  BY DEF Init, LoadInit, EngineInv, CaptureInv, LoadAnswered
<1>. QED BY <1>1, <1>4, <1>5, <1>6, TypeParts

\* One step of a load.
LEMMA LoadStepKept ==
  ASSUME LoadTypeOK, LoadAnswered, UNCHANGED <<startEnabled, stopEnabled>>,
         NEW m \in Models, Choose(m) \/ LoadStep(m)
  PROVE  LoadTypeOK' /\ LoadAnswered'
<1>1. CASE Choose(m)
  BY <1>1 DEF LoadTypeOK, LoadAnswered, Choose, LoadGoto, Pending
<1>2. CASE Open(m)
  BY <1>2 DEF LoadTypeOK, LoadAnswered, Open, LoadGoto, Cancel, Pending
<1>3. CASE Missed(m)
  BY <1>3 DEF LoadTypeOK, LoadAnswered, Missed, LoadGoto, Cancel, Pending
<1>4. CASE Fetched(m)
  BY <1>4 DEF LoadTypeOK, LoadAnswered, Fetched, LoadGoto, Pending
<1>5. CASE NotStored(m)
  BY <1>5 DEF LoadTypeOK, LoadAnswered, NotStored, LoadGoto, Cancel
<1>. QED BY <1>1, <1>2, <1>3, <1>4, <1>5 DEF LoadStep

\* The end of a load enables the button.
LEMMA StoreFSKept ==
  ASSUME LoadTypeOK, StoreFS
  PROVE  LoadTypeOK' /\ LoadAnswered'
<1>1. PICK m \in Models : Ready(m) BY DEF StoreFS
<1>2. LoadTypeOK' BY <1>1 DEF LoadTypeOK, Ready, LoadGoto
<1>3. LoadAnswered' BY DEF StoreFS, LoadAnswered
<1>. QED BY <1>2, <1>3

PageInv == PageTypes /\ EngineInv /\ CaptureInv

\* What an action leaves alone keeps what is said of it.
LEMMA LoadsAlone ==
  ASSUME LoadTypeOK, LoadAnswered, UNCHANGED loadVars,
         startEnabled \/ stopEnabled => startEnabled' \/ stopEnabled'
  PROVE  LoadTypeOK' /\ LoadAnswered'
BY DEF LoadTypeOK, LoadAnswered, loadVars, Pending

\* What leaves the engine alone keeps what is said of it.
LEMMA EngineAlone ==
  ASSUME EngineInv, UNCHANGED <<instance, g_ctx, used, wpc>>,
         ~instance => ppc' \in {"ready", "stop"}
  PROVE  EngineInv'
BY DEF EngineInv

\* What leaves the captures alone keeps what is said of them.
LEMMA CaptureAlone ==
  ASSUME CaptureInv, UNCHANGED <<orderly, capture, doRecording, currentVAD>>
  PROVE  CaptureInv'
BY DEF CaptureInv

\* Start keeps the invariant of the page,
LEMMA StartKept ==
  ASSUME PageInv, Start
  PROVE  PageInv'
<1>1. PICK ok \in BOOLEAN :
        /\ IF NeedsInit THEN EngineInit(ok) /\ instance' = ok
           ELSE UNCHANGED <<g_ctx, instance>>
        /\ IF instance'
             THEN \E c \in Captures : /\ capture[c] = "none"
                                      /\ capture' = [capture EXCEPT ![c] = "starting"]
             ELSE UNCHANGED capture
  BY DEF Start
<1>2. /\ UNCHANGED <<ppc, queued, doRecording, startEnabled, stopEnabled, bufLen,
                     currentVAD, shared, lock, wpc, used>>
      /\ orderly' = (orderly /\ \A c \in Captures : capture[c] = "none")
      /\ ppc = "ready"
  BY DEF Start
<1>3. /\ g_ctx' \in 0 .. 2 /\ instance' \in BOOLEAN
      /\ instance' => g_ctx' # 0
      /\ instance => g_ctx' = g_ctx /\ instance'
  BY <1>1 DEF PageInv, PageTypes, EngineInv, EngineInit, NeedsInit
<1>4. EngineInv'
  BY <1>2, <1>3 DEF PageInv, EngineInv
<1>5. capture' \in [Captures -> {"none", "starting", "running"}]
  BY <1>1 DEF PageInv, PageTypes
<1>6. orderly' \in BOOLEAN
  <2>. DEFINE quiet == \A c \in Captures : capture[c] = "none"
  <2>1. quiet \in BOOLEAN OBVIOUS
  <2>. HIDE DEF quiet
  <2>2. orderly \in BOOLEAN BY DEF PageInv, PageTypes
  <2>3. orderly' = (orderly /\ quiet) BY <1>2 DEF quiet
  <2>. QED BY <2>1, <2>2, <2>3
<1>7. PageTypes'
  <2>1. /\ ppc' \in {"ready", "give", "keep", "stop_give", "stop", "flush"}
        /\ queued' \in 0 .. MaxQueued
        /\ bufLen' \in [Continuous -> 0 .. MaxHeld]
        /\ currentVAD' \subseteq Captures /\ Cardinality(currentVAD') <= 1
        /\ used' \in 0 .. 2
        /\ wpc' \in {"none", "loop", "sleep", "infer", "store"}
        /\ {doRecording', startEnabled', stopEnabled', shared', lock'} \subseteq BOOLEAN
    BY <1>2 DEF PageInv, PageTypes
  <2>. QED BY <1>3, <1>5, <1>6, <2>1 DEF PageTypes
<1>8. CaptureInv'
  <2>. SUFFICES ASSUME orderly'
       PROVE  /\ \A c, d \in Captures :
                   capture'[c] # "none" /\ capture'[d] # "none" => c = d
              /\ \A c \in Captures : capture'[c] # "running"
    BY DEF CaptureInv
  <2>1. \A c \in Captures : capture[c] = "none" BY <1>2
  <2>2. CASE UNCHANGED capture
    BY <2>1, <2>2
  <2>3. CASE \E c \in Captures : capture' = [capture EXCEPT ![c] = "starting"]
    <3>1. PICK s \in Captures : capture' = [capture EXCEPT ![s] = "starting"] BY <2>3
    <3>2. \A c \in Captures : capture'[c] = IF c = s THEN "starting" ELSE "none"
      BY <2>1, <3>1 DEF PageInv, PageTypes
    <3>. QED BY <3>2
  <2>. QED BY <1>1, <2>2, <2>3
<1>. QED BY <1>4, <1>7, <1>8 DEF PageInv

\* so does the microphone's answer,
LEMMA StartedKept ==
  ASSUME PageInv, NEW c \in Captures, Started(c)
  PROVE  PageInv' /\ (startEnabled \/ stopEnabled => startEnabled' \/ stopEnabled')
<1>1. /\ ppc = "ready" /\ capture[c] = "starting"
      /\ UNCHANGED <<ppc, queued, instance, bufLen, orderly, g_ctx, shared, lock, wpc,
                     used>>
  BY DEF Started, engineVars
<1>2. EngineInv' BY <1>1, EngineAlone DEF PageInv
<1>3. CASE /\ capture' = [capture EXCEPT ![c] = "running"]
           /\ currentVAD' = {c}
           /\ doRecording' = TRUE
           /\ startEnabled' = FALSE /\ stopEnabled' = TRUE
  <2>1. PageTypes'
    <3>1. Cardinality({c}) <= 1 BY SingletonCardinality
    <3>. QED BY <1>1, <1>3, <3>1 DEF PageInv, PageTypes
  <2>2. \A d \in Captures : capture'[d] = IF d = c THEN "running" ELSE capture[d]
    BY <1>3 DEF PageInv, PageTypes
  <2>3. CaptureInv' BY <1>1, <1>3, <2>2 DEF PageInv, CaptureInv
  <2>. QED BY <1>2, <1>3, <2>1, <2>3 DEF PageInv
<1>4. CASE /\ capture' = [capture EXCEPT ![c] = "none"]
           /\ UNCHANGED <<currentVAD, doRecording, startEnabled, stopEnabled>>
  <2>1. PageTypes' BY <1>1, <1>4 DEF PageInv, PageTypes
  <2>2. \A d \in Captures : capture'[d] = IF d = c THEN "none" ELSE capture[d]
    BY <1>4 DEF PageInv, PageTypes
  <2>3. CaptureInv' BY <1>1, <1>4, <2>2 DEF PageInv, CaptureInv
  <2>. QED BY <1>2, <1>4, <2>1, <2>3 DEF PageInv
<1>. QED BY <1>3, <1>4 DEF Started

\* What set_audio does to the engine.
AudioGiven ==
  /\ shared' = shared \/ shared' = TRUE
  /\ wpc' = wpc \/ (wpc = "none" /\ wpc' = "loop")

\* set_audio does that.
LEMMA SetAudioGives == SetAudio => AudioGiven
BY DEF SetAudio, AudioGiven

\* so do Stop, the end of an utterance, a timer and the page's own steps,
LEMMA PageKept ==
  ASSUME PageInv, Stop \/ VoiceEnd \/ Flush \/ PageStep
  PROVE  PageInv' /\ (startEnabled \/ stopEnabled => startEnabled' \/ stopEnabled')
<1>1. CASE Stop
  <2>1. /\ ppc' \in {"stop_give", "stop"}
        /\ ~instance => ppc' = "stop"
        /\ UNCHANGED <<queued, instance, doRecording, startEnabled, stopEnabled, capture,
                       bufLen, currentVAD, orderly, g_ctx, shared, lock, wpc, used>>
    BY <1>1 DEF Stop, PageGoto, engineVars
  <2>2. EngineInv' BY <2>1, EngineAlone DEF PageInv
  <2>3. CaptureInv' BY <2>1, CaptureAlone DEF PageInv
  <2>4. PageTypes' BY <2>1 DEF PageInv, PageTypes
  <2>. QED BY <2>1, <2>2, <2>3, <2>4 DEF PageInv
<1>2. CASE VoiceEnd
  <2>1. /\ ppc' \in {"ready", "give"}
        /\ ~instance => ppc' = "ready"
        /\ UNCHANGED <<instance, doRecording, startEnabled, stopEnabled, capture,
                       bufLen, currentVAD, orderly, g_ctx, shared, lock, wpc, used>>
    BY <1>2 DEF VoiceEnd, PageGoto, engineVars
  <2>2. queued' \in 0 .. MaxQueued
    <3>1. PICK n \in Utterances : queued + n <= MaxQueued /\ queued' = queued + n
      BY <1>2 DEF VoiceEnd
    <3>2. n \in Nat /\ queued \in Nat /\ MaxQueued \in Nat
      BY PageAssumption DEF PageInv, PageTypes
    <3>. QED BY <3>1, <3>2
  <2>3. EngineInv' BY <2>1, EngineAlone DEF PageInv
  <2>4. CaptureInv' BY <2>1, CaptureAlone DEF PageInv
  <2>5. PageTypes' BY <2>1, <2>2 DEF PageInv, PageTypes
  <2>. QED BY <2>1, <2>3, <2>4, <2>5 DEF PageInv
<1>3. CASE Give
  <2>1. /\ ppc \in {"give", "stop_give"} /\ ppc' \in {"keep", "stop"}
        /\ UNCHANGED <<queued, instance, doRecording, startEnabled, stopEnabled, capture,
                       bufLen, currentVAD, orderly, g_ctx, lock, used>>
        /\ AudioGiven
    BY <1>3, SetAudioGives DEF Give, PageGoto
  <2>2. instance /\ EngineInv'
    BY <2>1 DEF PageInv, EngineInv, AudioGiven
  <2>3. CaptureInv' BY <2>1, CaptureAlone DEF PageInv
  <2>4. PageTypes' BY <2>1 DEF PageInv, PageTypes, AudioGiven
  <2>. QED BY <2>1, <2>2, <2>3, <2>4 DEF PageInv
<1>4. CASE KeepTail
  <2>1. /\ ppc' = "ready"
        /\ UNCHANGED <<queued, instance, doRecording, startEnabled, stopEnabled, capture,
                       bufLen, currentVAD, orderly, g_ctx, shared, lock, wpc, used>>
    BY <1>4 DEF KeepTail, PageGoto, engineVars
  <2>2. EngineInv' BY <2>1, EngineAlone DEF PageInv
  <2>3. CaptureInv' BY <2>1, CaptureAlone DEF PageInv
  <2>4. PageTypes' BY <2>1 DEF PageInv, PageTypes
  <2>. QED BY <2>1, <2>2, <2>3, <2>4 DEF PageInv
<1>5. CASE StopEnds
  <2>1. /\ ppc' = "ready" /\ doRecording' = FALSE /\ startEnabled' = TRUE
        /\ stopEnabled' = FALSE
        /\ capture' = [c \in Captures |-> IF c \in currentVAD THEN "none" ELSE capture[c]]
        /\ bufLen' = [k \in Continuous |-> IF k \in currentVAD THEN 0 ELSE bufLen[k]]
        /\ UNCHANGED <<queued, instance, currentVAD, orderly, g_ctx, lock, used>>
    BY <1>5 DEF StopEnds, PageGoto, Stopped
  <2>2. AudioGiven /\ (instance \/ UNCHANGED wpc)
    <3>1. CASE \E k \in Continuous \cap currentVAD : Full(k) /\ SetAudio
      BY <3>1, SetAudioGives DEF Full
    <3>2. CASE UNCHANGED <<shared, wpc>>
      BY <3>2 DEF AudioGiven
    <3>. QED BY <1>5, <3>1, <3>2 DEF StopEnds
  <2>3. EngineInv' BY <2>1, <2>2 DEF PageInv, EngineInv, AudioGiven
  <2>4. CaptureInv' BY <2>1 DEF PageInv, CaptureInv
  <2>5. bufLen' \in [Continuous -> 0 .. MaxHeld]
    BY <2>1, PageAssumption DEF PageInv, PageTypes
  <2>6. PageTypes' BY <2>1, <2>2, <2>5 DEF PageInv, PageTypes, AudioGiven
  <2>. QED BY <2>1, <2>3, <2>4, <2>6 DEF PageInv
<1>6. CASE Flush
  <2>1. /\ ppc' = "flush" /\ instance
        /\ UNCHANGED <<queued, instance, doRecording, startEnabled, stopEnabled, capture,
                       bufLen, currentVAD, orderly, g_ctx, shared, lock, wpc, used>>
    BY <1>6 DEF Flush, Full, PageGoto, engineVars
  <2>2. EngineInv' BY <2>1, EngineAlone DEF PageInv
  <2>3. CaptureInv' BY <2>1, CaptureAlone DEF PageInv
  <2>4. PageTypes' BY <2>1 DEF PageInv, PageTypes
  <2>. QED BY <2>1, <2>2, <2>3, <2>4 DEF PageInv
<1>7. CASE FlushGives
  <2>1. PICK k \in Continuous :
          /\ Full(k) /\ SetAudio
          /\ bufLen' = [bufLen EXCEPT ![k] = overlapSamples]
    BY <1>7 DEF FlushGives
  <2>2. /\ ppc' = "ready"
        /\ UNCHANGED <<queued, instance, doRecording, startEnabled, stopEnabled, capture,
                       currentVAD, orderly, g_ctx, lock, used>>
    BY <1>7 DEF FlushGives, PageGoto
  <2>3. AudioGiven /\ instance BY <2>1, SetAudioGives DEF Full
  <2>4. bufLen' \in [Continuous -> 0 .. MaxHeld]
    <3>1. /\ bufLen \in [Continuous -> 0 .. MaxHeld] /\ bufLen[k] >= minSamples
          /\ MaxHeld \in Nat /\ minSamples \in Nat /\ overlapSamples \in Nat
          /\ overlapSamples < minSamples
      BY <2>1, PageAssumption DEF PageInv, PageTypes, Full
    <3>2. overlapSamples \in 0 .. MaxHeld BY <3>1
    <3>. QED BY <2>1, <3>1, <3>2
  <2>5. EngineInv' BY <2>2, <2>3 DEF PageInv, EngineInv, AudioGiven
  <2>6. CaptureInv' BY <2>2, CaptureAlone DEF PageInv
  <2>7. PageTypes' BY <2>2, <2>3, <2>4 DEF PageInv, PageTypes, AudioGiven
  <2>. QED BY <2>2, <2>5, <2>6, <2>7 DEF PageInv
<1>. QED BY <1>1, <1>2, <1>3, <1>4, <1>5, <1>6, <1>7 DEF PageStep

\* so do the messages of the worklet,
LEMMA RecordKept ==
  ASSUME PageInv, NEW k \in Continuous, Record(k)
  PROVE  PageInv'
<1>1. PICK n \in Frames :
        bufLen[k] + n <= MaxHeld /\ bufLen' = [bufLen EXCEPT ![k] = @ + n]
  BY DEF Record
<1>2. UNCHANGED <<ppc, queued, instance, doRecording, startEnabled, stopEnabled, capture,
                  currentVAD, orderly, g_ctx, shared, lock, wpc, used>>
  BY DEF Record, engineVars
<1>3. bufLen' \in [Continuous -> 0 .. MaxHeld]
  <2>1. bufLen \in [Continuous -> 0 .. MaxHeld] /\ n \in Nat /\ MaxHeld \in Nat
    BY PageAssumption DEF PageInv, PageTypes
  <2>2. bufLen[k] + n \in 0 .. MaxHeld BY <1>1, <2>1
  <2>. QED BY <1>1, <2>1, <2>2
<1>4. EngineInv' BY <1>2 DEF PageInv, EngineInv
<1>5. CaptureInv' BY <1>2, CaptureAlone DEF PageInv
<1>6. PageTypes' BY <1>2, <1>3 DEF PageInv, PageTypes
<1>. QED BY <1>4, <1>5, <1>6 DEF PageInv

\* and so do the worker's.
LEMMA WorkerKept ==
  ASSUME PageInv, WorkerStep
  PROVE  PageInv'
<1>1. /\ UNCHANGED pageVars /\ g_ctx' = g_ctx
      /\ wpc # "none" /\ wpc' \in {"loop", "sleep", "infer", "store"}
      /\ shared' = shared \/ shared' = FALSE
      /\ lock' = lock \/ lock' \in BOOLEAN
      /\ used' = used \/ used' = g_ctx
      /\ wpc' = "infer" => used' = g_ctx
  BY DEF WorkerStep, WorkerSleeps, WorkerWakes, WorkerTakes, WorkerHears, Released
<1>0. UNCHANGED <<ppc, queued, instance, doRecording, startEnabled, stopEnabled,
                  capture, bufLen, currentVAD, orderly>>
  BY <1>1 DEF pageVars
<1>3. EngineInv'
  <2>1. instance BY <1>1 DEF PageInv, EngineInv
  <2>. QED BY <1>0, <1>1, <2>1 DEF PageInv, EngineInv
<1>4. CaptureInv' BY <1>0, CaptureAlone DEF PageInv
<1>5. PageTypes'
  <2>1. shared' \in BOOLEAN BY <1>1 DEF PageInv, PageTypes
  <2>2. lock' \in BOOLEAN BY <1>1 DEF PageInv, PageTypes
  <2>3. g_ctx' \in 0 .. 2 /\ used' \in 0 .. 2 BY <1>1 DEF PageInv, PageTypes
  <2>4. wpc' \in {"none", "loop", "sleep", "infer", "store"} BY <1>1
  <2>. QED BY <1>0, <2>1, <2>2, <2>3, <2>4 DEF PageInv, PageTypes
<1>. QED BY <1>3, <1>4, <1>5 DEF PageInv

PageSafety == TypeOK /\ EngineInv /\ CaptureInv /\ LoadAnswered

\* Every step keeps all of it.
LEMMA NextInv == PageSafety /\ [Next]_vars => PageSafety'
<1> SUFFICES ASSUME PageSafety, [Next]_vars PROVE PageSafety'
  OBVIOUS
<1>1. /\ LoadTypeOK /\ LoadAnswered /\ PageInv /\ TypeOK
      /\ audioBufferQueue \in Ring
  BY TypeParts DEF PageSafety, PageInv
<1>2. LoadTypeOK' /\ LoadAnswered' /\ PageInv' => PageSafety'
  <2>1. audioBufferQueue' \in Ring BY <1>1, RingKept
  <2>2. LoadTypeOK' /\ PageTypes' => TypeOK' BY <2>1 DEF TypeOK, PageTypes
  <2>. QED BY <2>2 DEF PageSafety, PageInv
<1>3. ASSUME UNCHANGED pageVars, UNCHANGED engineVars
      PROVE  PageInv'
  BY <1>1, <1>3 DEF PageInv, PageTypes, EngineInv, CaptureInv, pageVars, engineVars
<1>4. CASE LoadEvent
  <2>1. PICK m \in Models : Choose(m) \/ LoadStep(m) BY <1>4 DEF LoadEvent
  <2>2. UNCHANGED pageVars /\ UNCHANGED engineVars BY <1>4 DEF LoadEvent
  <2>3. UNCHANGED <<startEnabled, stopEnabled>> BY <2>2 DEF pageVars
  <2>. QED BY <1>1, <1>2, <1>3, <2>1, <2>2, <2>3, LoadStepKept
<1>5. CASE StoreFS
  <2>1. LoadTypeOK' /\ LoadAnswered' BY <1>1, <1>5, StoreFSKept
  <2>2. /\ UNCHANGED <<ppc, queued, instance, doRecording, capture, bufLen, currentVAD,
                       orderly, g_ctx, shared, lock, wpc, used>>
        /\ {startEnabled', stopEnabled'} \subseteq BOOLEAN
    BY <1>5 DEF StoreFS, engineVars
  <2>3. PageInv' BY <1>1, <2>2 DEF PageInv, PageTypes, EngineInv, CaptureInv
  <2>. QED BY <1>2, <2>1, <2>3
<1>6. CASE Start
  <2>1. UNCHANGED loadVars /\ UNCHANGED <<startEnabled, stopEnabled>> BY <1>6 DEF Start
  <2>2. PageInv' BY <1>1, <1>6, StartKept
  <2>. QED BY <1>1, <1>2, <2>1, <2>2, LoadsAlone
<1>7. ASSUME NEW c \in Captures, Started(c) PROVE PageSafety'
  <2>1. UNCHANGED loadVars BY <1>7 DEF Started
  <2>2. PageInv' /\ (startEnabled \/ stopEnabled => startEnabled' \/ stopEnabled')
    BY <1>1, <1>7, StartedKept
  <2>. QED BY <1>1, <1>2, <2>1, <2>2, LoadsAlone
<1>8. CASE Stop \/ VoiceEnd \/ Flush \/ PageStep
  <2>1. UNCHANGED loadVars
    BY <1>8 DEF Stop, VoiceEnd, Flush, PageStep, Give, KeepTail, StopEnds, FlushGives
  <2>2. PageInv' /\ (startEnabled \/ stopEnabled => startEnabled' \/ stopEnabled')
    BY <1>1, <1>8, PageKept
  <2>. QED BY <1>1, <1>2, <2>1, <2>2, LoadsAlone
<1>9. CASE WorkerStep
  <2>1. UNCHANGED loadVars /\ UNCHANGED pageVars
    BY <1>9 DEF WorkerStep, WorkerSleeps, WorkerWakes, WorkerTakes, WorkerHears
  <2>2. UNCHANGED <<startEnabled, stopEnabled>> BY <2>1 DEF pageVars
  <2>3. PageInv' BY <1>1, <1>9, WorkerKept
  <2>. QED BY <1>1, <1>2, <2>1, <2>2, <2>3, LoadsAlone
<1>10. CASE UNCHANGED vars
  <2>1. UNCHANGED loadVars /\ UNCHANGED pageVars /\ UNCHANGED engineVars
    BY <1>10 DEF vars
  <2>2. UNCHANGED <<startEnabled, stopEnabled>> BY <2>1 DEF pageVars
  <2>. QED BY <1>1, <1>2, <1>3, <2>1, <2>2, LoadsAlone
<1>11. ASSUME NEW k \in Continuous, Record(k) PROVE PageSafety'
  <2>1. UNCHANGED loadVars /\ UNCHANGED <<startEnabled, stopEnabled>> BY <1>11 DEF Record
  <2>2. PageInv' BY <1>1, <1>11, RecordKept
  <2>. QED BY <1>1, <1>2, <2>1, <2>2, LoadsAlone
<1>. QED BY <1>4, <1>5, <1>6, <1>7, <1>8, <1>9, <1>10, <1>11 DEF Next

\* The invariant holds in every behaviour.
LEMMA Invariance == Spec => []PageSafety
<1>1. Init => PageSafety BY InitInv DEF PageSafety
<1>. QED BY <1>1, NextInv, PTL DEF Spec

\* The page, the load and the engine hold values of their types.
THEOREM TypeCorrect == Spec => []TypeOK
<1>1. PageSafety => TypeOK BY DEF PageSafety
<1>. QED BY Invariance, <1>1, PTL

(***************************************************************************)
(* The worker transcribes with the context there is: whatever the worker is *)
(* doing, init is not called again once it has succeeded (onStart, init).   *)
(***************************************************************************)
THEOREM ContextIsLive == Spec => []ContextLive
<1>1. PageSafety => ContextLive BY DEF PageSafety, EngineInv, ContextLive
<1>. QED BY Invariance, <1>1, PTL

(***************************************************************************)
(* Nothing captures when the page does not record, if Start was never       *)
(* clicked while there was a capture (startRecording, stopRecording).       *)
(***************************************************************************)
THEOREM CapturesStop == Spec => []CaptureStops
<1>1. PageSafety => CaptureStops BY DEF PageSafety, CaptureInv, CaptureStops
<1>. QED BY Invariance, <1>1, PTL

\* The user has a button or a load, unless a download failed (loadRemote, storeFS).
THEOREM LoadsAnswered == Spec => []LoadAnswered
<1>1. PageSafety => LoadAnswered BY DEF PageSafety
<1>. QED BY Invariance, <1>1, PTL

\* Every step of the page is one of the bounded queue, or leaves it alone.
LEMMA QueueStep ==
  ASSUME TypeOK, [Next]_vars
  PROVE  [Queue!Next]_(toFloat32Array(audioBufferQueue))
<1>1. audioBufferQueue \in Ring /\ queued \in Nat BY PageAssumption DEF TypeOK
<1>2. CASE VoiceEnd
  <2>1. PICK n \in Utterances :
          /\ queued + n <= MaxQueued
          /\ audioBufferQueue' = append(audioBufferQueue, Samples(queued, n))
    BY <1>2 DEF VoiceEnd
  <2>2. Samples(queued, n) \in Seq(Sample) /\ queued \in 0 .. MaxQueued
    BY <1>1, <2>1, QueueTypes DEF TypeOK
  <2>3. Queue!Add(Samples(queued, n))
    BY <1>1, <2>1, <2>2, AppendKeepsNewest DEF Queue!Add
  <2>. QED BY <2>2, <2>3 DEF Queue!Next
<1>3. CASE StopEnds
  <2>1. Queue!Clear BY <1>1, <1>3, ClearEmpties DEF StopEnds, Queue!Clear
  <2>. QED BY <2>1 DEF Queue!Next
<1>4. CASE KeepTail
  <2>. DEFINE all == toFloat32Array(audioBufferQueue)
              from == IF Len(all) > keepLen THEN Len(all) - keepLen ELSE 0
  <2>1. audioBufferQueue' = append(clear(audioBufferQueue), SubSeq(all, from + 1, Len(all)))
    BY <1>4 DEF KeepTail
  <2>2. Len(all) = audioBufferQueue.len /\ audioBufferQueue.len \in Nat /\ keepLen \in Nat
    BY <1>1, Contents, RingFields, PageAssumption
  <2>3. from \in 0 .. Len(all) /\ from \in 0 .. audioBufferQueue.len BY <2>2
  <2>. HIDE DEF from
  <2>4. all' = SubSeq(all, from + 1, Len(all)) BY <1>1, <2>1, <2>2, <2>3, TailKept
  <2>5. Queue!Consume(from) BY <2>4 DEF Queue!Consume
  <2>. QED BY <2>3, <2>5 DEF Queue!Next
<1>5. CASE UNCHANGED audioBufferQueue
  BY <1>5
<1>6. [Next]_vars => VoiceEnd \/ StopEnds \/ KeepTail \/ UNCHANGED audioBufferQueue
  BY DEF Next, vars, pageVars, LoadEvent, StoreFS, Start, Stop, PageStep, Give, Flush,
         FlushGives, Record, Started, WorkerStep, WorkerSleeps, WorkerWakes, WorkerTakes, WorkerHears
<1>. QED BY <1>2, <1>3, <1>4, <1>5, <1>6

(***************************************************************************)
(* The ring, with its head that turns and its two-part copies, implements   *)
(* the queue that keeps the newest samples (AudioChunkBuffer).              *)
(***************************************************************************)
THEOREM RingImplementsQueue == Spec => QueueRefined
<1>1. Init => Queue!Init
  <2> SUFFICES ASSUME Init PROVE Queue!Init
    OBVIOUS
  <2>1. audioBufferQueue \in Ring /\ audioBufferQueue.len = 0
    BY BufferAssumption DEF Init, NewRing, Ring
  <2>2. /\ toFloat32Array(audioBufferQueue) \in Seq(Sample)
        /\ Len(toFloat32Array(audioBufferQueue)) = 0
    BY <2>1, Contents
  <2>. QED BY <2>2 DEF Queue!Init
<1>2. TypeOK /\ [Next]_vars => [Queue!Next]_(toFloat32Array(audioBufferQueue))
  BY QueueStep
<1>. QED BY <1>1, <1>2, TypeCorrect, PTL DEF Spec, QueueRefined, Queue!Spec

-----------------------------------------------------------------------------
(* What the page hands over                                                *)

\* The worker holds the mutex only where it gives it back by itself, and runs while
\* there is audio for it.
WorkerInv ==
  /\ lock => wpc \in {"sleep", "store"}
  /\ shared => wpc # "none"

\* The guards of the worker's next step.
WorkerCanStep == wpc # "none" /\ (wpc = "loop" => ~lock)

\* The page starts a worker that does not run, and leaves one that runs where it is.
LEMMA NotTheWorker ==
  ASSUME [Next]_vars, ~WorkerStep
  PROVE  /\ lock' = lock
         /\ wpc' = wpc \/ (wpc = "none" /\ wpc' = "loop")
         /\ shared' = shared \/ (shared' = TRUE /\ wpc' # "none")
<1>1. CASE PageStep
  BY <1>1 DEF PageStep, Give, KeepTail, StopEnds, FlushGives, SetAudio, engineVars
<1>2. CASE ~PageStep
  BY <1>2 DEF Next, LoadEvent, StoreFS, Start, Stop, VoiceEnd, Flush, Started, Record, vars,
       engineVars
<1>. QED BY <1>1, <1>2

\* Where a step of the worker leads.
LEMMA WorkerGoes ==
  ASSUME WorkerStep
  PROVE  \/ wpc = "loop" /\ wpc' = "sleep" /\ ~shared /\ shared' = shared /\ lock' = TRUE
         \/ wpc \in {"sleep", "store"} /\ wpc' = "loop" /\ shared' = shared /\ lock' = FALSE
         \/ wpc = "loop" /\ wpc' = "infer" /\ shared' = FALSE /\ ~lock /\ lock' = lock
         \/ wpc = "infer" /\ wpc' = "loop" /\ shared' = shared /\ lock' = lock
         \/ wpc = "infer" /\ wpc' = "store" /\ shared' = shared /\ lock' = TRUE
BY DEF WorkerStep, WorkerSleeps, WorkerWakes, WorkerTakes, WorkerHears, Released

LEMMA WorkerInvariance == Spec => []WorkerInv
<1>1. Init => WorkerInv BY DEF Init, WorkerInv
<1>2. WorkerInv /\ [Next]_vars => WorkerInv'
  <2> SUFFICES ASSUME WorkerInv, [Next]_vars PROVE WorkerInv'
    OBVIOUS
  <2>1. CASE WorkerStep
    <3>1. wpc \in {"loop", "infer"} => ~lock BY DEF WorkerInv
    <3>2. lock' => wpc' \in {"sleep", "store"}
      BY <2>1, <3>1, WorkerGoes, Zenon
    <3>3. wpc' \in {"sleep", "store", "loop", "infer"}
      BY <2>1, WorkerGoes, Zenon
    <3>. QED BY <3>2, <3>3 DEF WorkerInv
  <2>2. CASE ~WorkerStep
    <3>1. lock' => wpc' \in {"sleep", "store"}
      BY <2>2, NotTheWorker, Zenon DEF WorkerInv
    <3>2. shared' => wpc' # "none"
      BY <2>2, NotTheWorker, Zenon DEF WorkerInv
    <3>. QED BY <3>1, <3>2 DEF WorkerInv
  <2>. QED BY <2>1, <2>2
<1>. QED BY <1>1, <1>2, PTL DEF Spec

(***************************************************************************)
(* The prover has no rules for ENABLED: that a step whose guards hold is    *)
(* ENABLED is a hypothesis.                                                 *)
(***************************************************************************)
GuardsSuffice == [](WorkerCanStep => ENABLED <<WorkerStep>>_vars)

\* Audio that waits for the worker, by where the worker is.
Waits(there) == shared /\ wpc \in there

\* A step brings a worker that audio waits for nearer to it.
LEMMA Nearer ==
  ASSUME WorkerInv, [Next]_vars
  PROVE  /\ Waits({"infer"}) => Waits({"infer"})' \/ Waits({"sleep", "store", "loop"})'
         /\ Waits({"infer"}) /\ WorkerStep => Waits({"sleep", "store", "loop"})'
         /\ Waits({"sleep", "store"}) =>
              Waits({"sleep", "store"})' \/ Waits({"loop"})'
         /\ Waits({"sleep", "store"}) /\ WorkerStep => Waits({"loop"})'
         /\ Waits({"loop"}) => Waits({"loop"})' \/ ~shared'
         /\ Waits({"loop"}) /\ WorkerStep => ~shared'
<1>1. CASE WorkerStep
  <2>1. Waits({"infer"}) => shared' /\ wpc' \in {"store", "loop"}
    BY <1>1, WorkerGoes, Zenon DEF Waits
  <2>2. Waits({"sleep", "store"}) => shared' /\ wpc' = "loop"
    BY <1>1, WorkerGoes, Zenon DEF Waits
  <2>3. Waits({"loop"}) => ~shared'
    BY <1>1, WorkerGoes, Zenon DEF Waits
  <2>. QED BY <1>1, <2>1, <2>2, <2>3 DEF Waits
<1>2. CASE ~WorkerStep
  <2>1. shared /\ wpc # "none" => shared' /\ wpc' = wpc
    BY <1>2, NotTheWorker, Zenon
  <2>. QED BY <1>2, <2>1 DEF Waits
<1>. QED BY <1>1, <1>2

(***************************************************************************)
(* The worker takes what the page hands over, however often inferences fail *)
(* and wherever it is: it is at most a transcription, a text to store and a *)
(* look at the buffer away, and never waits for the mutex it holds itself.  *)
(***************************************************************************)
THEOREM AudioIsHeard == FairSpec /\ GuardsSuffice => AudioHeard
<1>1. TypeOK /\ WorkerInv /\ shared
        => Waits({"infer"}) \/ Waits({"sleep", "store"}) \/ Waits({"loop"})
  BY DEF TypeOK, WorkerInv, Waits
<1>2. Waits({"sleep", "store", "loop"}) => Waits({"sleep", "store"}) \/ Waits({"loop"})
  BY DEF Waits
<1>3. WorkerInv /\ (Waits({"infer"}) \/ Waits({"sleep", "store"}) \/ Waits({"loop"}))
        => WorkerCanStep
  BY DEF WorkerInv, Waits, WorkerCanStep
<1>4. WorkerInv /\ Waits({"infer"}) /\ [Next]_vars
        => Waits({"infer"})' \/ Waits({"sleep", "store", "loop"})'
  BY Nearer
<1>5. WorkerInv /\ Waits({"infer"}) /\ [Next]_vars /\ <<WorkerStep>>_vars
        => Waits({"sleep", "store", "loop"})'
  BY Nearer
<1>6. WorkerInv /\ Waits({"sleep", "store"}) /\ [Next]_vars
        => Waits({"sleep", "store"})' \/ Waits({"loop"})'
  BY Nearer
<1>7. WorkerInv /\ Waits({"sleep", "store"}) /\ [Next]_vars /\ <<WorkerStep>>_vars
        => Waits({"loop"})'
  BY Nearer
<1>8. WorkerInv /\ Waits({"loop"}) /\ [Next]_vars => Waits({"loop"})' \/ (~shared)'
  BY Nearer
<1>9. WorkerInv /\ Waits({"loop"}) /\ [Next]_vars /\ <<WorkerStep>>_vars => (~shared)'
  BY Nearer
<1>. QED
  BY <1>1, <1>2, <1>3, <1>4, <1>5, <1>6, <1>7, <1>8, <1>9, WorkerInvariance, TypeCorrect, PTL
  DEF FairSpec, Spec, GuardsSuffice, AudioHeard

=============================================================================
