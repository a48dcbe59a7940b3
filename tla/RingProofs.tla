----------------------------- MODULE RingProofs -----------------------------
(***************************************************************************)
(* The ring buffers of the kernel (pipe.c, uart.c, console.c): an array of *)
(* N places and two unsigned indices that only grow, wrap at U, and are    *)
(* taken modulo N to find a place.  Such a ring is a queue because N       *)
(* divides U.  The facts are about values, so that they can be used of the *)
(* state before a step and of the state after it.                          *)
(***************************************************************************)
EXTENDS Integers, Sequences, SequenceTheorems, TLAPS

\* What a ring with reading index r and writing index w holds.
Held(r, w, U) == (w - r) % U
Stored(d, w, b, N) == [d EXCEPT ![w % N] = b]
Inc(k, U) == (k + 1) % U
Divides(N, U) == U % N = 0

\* One element more at the end, one less at the beginning.
Appended(q, b, q1) == q1 = Append(q, b)
Taken(q, q1) == q # <<>> /\ q1 = Tail(q)

\* The first elements, all of q, are still there.
Kept(q, q1) == SubSeq(q1, 1, Len(q)) = q

Queue(d, r, w, N, U) == [k \in 1 .. Held(r, w, U) |-> d[(r + k - 1) % N]]

\* Quotient and remainder.
LEMMA DivMod ==
  ASSUME NEW m \in Nat \ {0}, NEW x \in Int
  PROVE  \E q \in Int, r \in 0 .. m - 1 : x = m * q + r /\ r = x % m
<1>1. PICK q \in Int : q = x \div m
  OBVIOUS
<1>2. PICK r \in 0 .. m - 1 : r = x % m
  OBVIOUS
<1>3. x = m * q + r
  BY <1>1, <1>2
<1>4. QED
  BY <1>2, <1>3

\* They are unique.
LEMMA ModUnique ==
  ASSUME NEW m \in Nat \ {0}, NEW q \in Int, NEW r \in 0 .. m - 1
  PROVE  (m * q + r) % m = r
OBVIOUS

\* Multiples of the divisor do not matter.
LEMMA ModShift ==
  ASSUME NEW m \in Nat \ {0}, NEW x \in Int, NEW k \in Int
  PROVE  (x + m * k) % m = x % m
<1>1. PICK q \in Int, r \in 0 .. m - 1 : x = m * q + r /\ r = x % m
  BY DivMod
<1>2. q + k \in Int /\ x + m * k = m * (q + k) + r
  BY <1>1
<1>3. QED
  BY <1>1, <1>2, ModUnique

\* Numbers less than the divisor apart have different remainders.
LEMMA ModDistinct ==
  ASSUME NEW m \in Nat \ {0}, NEW x \in Int, NEW d \in 1 .. m - 1
  PROVE  (x + d) % m # x % m
<1>1. PICK q \in Int, r \in 0 .. m - 1 : x = m * q + r /\ r = x % m
  BY DivMod
<1>2. CASE r + d < m
  <2>1. x + d = m * q + (r + d) /\ r + d \in 0 .. m - 1
    BY <1>1, <1>2
  <2>2. (x + d) % m = r + d
    BY <2>1, ModUnique
  <2>3. QED
    BY <1>1, <2>2
<1>3. CASE r + d >= m
  <2>1. x + d = m * (q + 1) + (r + d - m) /\ r + d - m \in 0 .. m - 1 /\ q + 1 \in Int
    BY <1>1, <1>3
  <2>2. (x + d) % m = r + d - m
    BY <2>1, ModUnique
  <2>3. QED
    BY <1>1, <2>2
<1>4. QED
  BY <1>2, <1>3

\* Adding to an unsigned counter.
LEMMA Wraps ==
  ASSUME NEW m \in Nat \ {0}, NEW a \in 0 .. m - 1, NEW k \in 0 .. m
  PROVE  (a + k) % m = IF a + k < m THEN a + k ELSE a + k - m
<1>1. CASE a + k < m
  <2>1. a + k = m * 0 + (a + k) /\ a + k \in 0 .. m - 1
    BY <1>1
  <2>2. QED
    BY <1>1, <2>1, ModUnique
<1>2. CASE a + k >= m
  <2>1. a + k = m * 1 + (a + k - m) /\ a + k - m \in 0 .. m - 1
    BY <1>2
  <2>2. (a + k) % m = a + k - m
    BY <2>1, ModUnique
  <2>3. QED
    BY <1>2, <2>2
<1>3. QED
  BY <1>1, <1>2

\* The distance of two unsigned counters.
LEMMA Distance ==
  ASSUME NEW m \in Nat \ {0}, NEW a \in 0 .. m - 1, NEW b \in 0 .. m - 1
  PROVE  (a - b) % m = IF a >= b THEN a - b ELSE a - b + m
<1>1. CASE a >= b
  <2>1. a - b = m * 0 + (a - b) /\ a - b \in 0 .. m - 1
    BY <1>1
  <2>2. QED
    BY <1>1, <2>1, ModUnique
<1>2. CASE a < b
  <2>1. a - b = m * (-1) + (a - b + m) /\ a - b + m \in 0 .. m - 1 /\ -1 \in Int
    BY <1>2
  <2>2. (a - b) % m = a - b + m
    BY <2>1, ModUnique
  <2>3. QED
    BY <1>2, <2>2
<1>3. QED
  BY <1>1, <1>2
\* The distance of the indices.
LEMMA Counters ==
  ASSUME NEW U \in Nat \ {0},
         NEW r \in 0 .. U - 1, NEW w \in 0 .. U - 1
  PROVE  /\ Held(r, w, U) \in 0 .. U - 1
         /\ w = r + Held(r, w, U) \/ w = r + Held(r, w, U) - U
         /\ r = w <=> Held(r, w, U) = 0
<1>1. PICK h : h = Held(r, w, U)
  OBVIOUS
<1>2. h = IF w >= r THEN w - r ELSE w - r + U
  BY <1>1, Distance, Zenon DEF Held
<1>3. h \in 0 .. U - 1 /\ (w = r + h \/ w = r + h - U) /\ (r = w <=> h = 0)
  BY <1>2
<1>4. QED
  BY <1>1, <1>3, Zenon

\* A full ring.
LEMMA Full ==
  ASSUME NEW U \in Nat \ {0}, NEW N \in 1 .. U - 1,
         NEW r \in 0 .. U - 1, NEW w \in 0 .. U - 1
  PROVE  w = (r + N) % U <=> Held(r, w, U) = N
<1>1. PICK h : h = Held(r, w, U)
  OBVIOUS
<1>2. h = IF w >= r THEN w - r ELSE w - r + U
  BY <1>1, Distance, Zenon DEF Held
<1>3. PICK f : f = (r + N) % U
  OBVIOUS
<1>4. f = IF r + N < U THEN r + N ELSE r + N - U
  <2>1. N \in 0 .. U
    OBVIOUS
  <2>2. QED
    BY <1>3, <2>1, Wraps, Zenon
<1>5. w = f <=> h = N
  BY <1>2, <1>4
<1>6. QED
  BY <1>1, <1>3, <1>5, Zenon

\* The writing index goes on by j, or back.
LEMMA HeldMore ==
  ASSUME NEW U \in Nat \ {0}, NEW r \in 0 .. U - 1, NEW w \in 0 .. U - 1, NEW j \in Nat,
         Held(r, w, U) + j < U
  PROVE  Held(r, (w + j) % U, U) = Held(r, w, U) + j /\ (w + j) % U \in 0 .. U - 1
<1>1. PICK h : h = Held(r, w, U)
  OBVIOUS
<1>2. h = IF w >= r THEN w - r ELSE w - r + U
  BY <1>1, Distance, Zenon DEF Held
<1>3. PICK v : v = (w + j) % U
  OBVIOUS
<1>4. j \in 0 .. U
  BY <1>1, <1>2
<1>5. v = IF w + j < U THEN w + j ELSE w + j - U
  BY <1>3, <1>4, Wraps, Zenon
<1>6. v \in 0 .. U - 1
  BY <1>4, <1>5, <1>2, <1>1
<1>7. PICK g : g = Held(r, v, U)
  OBVIOUS
<1>8. g = IF v >= r THEN v - r ELSE v - r + U
  BY <1>6, <1>7, Distance, Zenon DEF Held
<1>9. g = h + j
  BY <1>1, <1>2, <1>4, <1>5, <1>8
<1>10. QED
  BY <1>1, <1>3, <1>6, <1>7, <1>9, Zenon

LEMMA HeldLess ==
  ASSUME NEW U \in Nat \ {0}, NEW r \in 0 .. U - 1, NEW w \in 0 .. U - 1,
         NEW j \in 0 .. Held(r, w, U)
  PROVE  Held(r, (w - j) % U, U) = Held(r, w, U) - j /\ (w - j) % U \in 0 .. U - 1
<1>1. PICK h : h = Held(r, w, U)
  OBVIOUS
<1>2. h = IF w >= r THEN w - r ELSE w - r + U
  BY <1>1, Distance, Zenon DEF Held
<1>3. PICK v : v = (w - j) % U
  OBVIOUS
<1>4. j \in 0 .. U - 1 /\ j <= h
  BY <1>1, <1>2
<1>5. v = IF w >= j THEN w - j ELSE w - j + U
  BY <1>3, <1>4, Distance, Zenon
<1>6. v \in 0 .. U - 1
  BY <1>4, <1>5
<1>7. PICK g : g = Held(r, v, U)
  OBVIOUS
<1>8. g = IF v >= r THEN v - r ELSE v - r + U
  BY <1>6, <1>7, Distance, Zenon DEF Held
<1>9. g = h - j
  BY <1>2, <1>4, <1>5, <1>8
<1>10. QED
  BY <1>1, <1>3, <1>6, <1>7, <1>9, Zenon

\* The reading index goes on by one.
LEMMA HeldTaken ==
  ASSUME NEW U \in Nat \ {0}, NEW r \in 0 .. U - 1, NEW w \in 0 .. U - 1,
         Held(r, w, U) # 0
  PROVE  /\ Held((r + 1) % U, w, U) = Held(r, w, U) - 1
         /\ (r + 1) % U \in 0 .. U - 1
         /\ (r + 1) % U = r + 1 \/ (r + 1) % U = r + 1 - U
<1>1. PICK h : h = Held(r, w, U)
  OBVIOUS
<1>2. h = IF w >= r THEN w - r ELSE w - r + U
  BY <1>1, Distance, Zenon DEF Held
<1>3. PICK v : v = (r + 1) % U
  OBVIOUS
<1>4. 1 \in 0 .. U
  OBVIOUS
<1>5. v = IF r + 1 < U THEN r + 1 ELSE r + 1 - U
  BY <1>3, <1>4, Wraps, Zenon
<1>6. v \in 0 .. U - 1
  BY <1>5
<1>7. PICK g : g = Held(v, w, U)
  OBVIOUS
<1>8. g = IF w >= v THEN w - v ELSE w - v + U
  BY <1>6, <1>7, Distance, Zenon DEF Held
<1>9. g = h - 1 /\ (v = r + 1 \/ v = r + 1 - U)
  BY <1>1, <1>2, <1>5, <1>8
<1>10. QED
  BY <1>1, <1>3, <1>6, <1>7, <1>9, Zenon

\* An element is at the place that its number modulo N names, also when its
\* number has wrapped.
LEMMA SamePlace ==
  ASSUME NEW U \in Nat \ {0}, NEW N \in Nat \ {0}, Divides(N, U), NEW x \in Int
  PROVE  (x - U) % N = x % N
<1>1. PICK q \in Int, r \in 0 .. N - 1 : U = N * q + r /\ r = U % N
  <2>1. U \in Int
    OBVIOUS
  <2>2. QED
    BY <2>1, DivMod, Zenon
<1>2. r = 0
  BY <1>1, Zenon DEF Divides
<1>3. x - U = x + N * (-q) /\ -q \in Int
  <2>1. U = N * q + 0
    BY <1>1, <1>2, Zenon
  <2>2. U \in Int /\ N \in Int
    OBVIOUS
  <2>4. QED
    BY <2>1, <2>2
<1>4. (x + N * (-q)) % N = x % N
  BY <1>3, ModShift, Zenon
<1>5. QED
  BY <1>3, <1>4, Zenon

\* An index between the two others.
LEMMA HeldSplit ==
  ASSUME NEW U \in Nat \ {0}, NEW r \in 0 .. U - 1, NEW w \in 0 .. U - 1,
         NEW e \in 0 .. U - 1, Held(r, w, U) <= Held(r, e, U)
  PROVE  Held(w, e, U) = Held(r, e, U) - Held(r, w, U)
<1>1. PICK h : h = Held(r, w, U)
  OBVIOUS
<1>2. h = IF w >= r THEN w - r ELSE w - r + U
  BY <1>1, Distance, Zenon DEF Held
<1>3. PICK g : g = Held(r, e, U)
  OBVIOUS
<1>4. g = IF e >= r THEN e - r ELSE e - r + U
  BY <1>3, Distance, Zenon DEF Held
<1>5. PICK d : d = Held(w, e, U)
  OBVIOUS
<1>6. d = IF e >= w THEN e - w ELSE e - w + U
  BY <1>5, Distance, Zenon DEF Held
<1>7. h <= g
  BY <1>1, <1>3, Zenon
<1>8. d = g - h
  BY <1>2, <1>4, <1>6, <1>7
<1>9. QED
  BY <1>1, <1>3, <1>5, <1>8, Zenon

\* A function that continues another one.
LEMMA IsStart ==
  ASSUME NEW S, NEW k \in Nat, NEW s \in [1 .. k -> S], NEW l \in Nat, k <= l,
         NEW t \in [1 .. l -> S], \A j \in 1 .. k : t[j] = s[j]
  PROVE  SubSeq(t, 1, k) = s
<1>1. t \in Seq(S) /\ Len(t) = l
  OBVIOUS
<1>2. PICK u : u = SubSeq(t, 1, k)
  OBVIOUS
<1>3. u = [j \in 1 .. k |-> t[j]]
  BY <1>1, <1>2
<1>4. QED
  BY <1>2, <1>3

\* Append, element by element.
LEMMA IsAppend ==
  ASSUME NEW S, NEW k \in Nat, NEW s \in [1 .. k -> S], NEW b \in S,
         NEW t \in [1 .. k + 1 -> S], \A j \in 1 .. k : t[j] = s[j], t[k + 1] = b
  PROVE  t = Append(s, b)
<1>1. s \in Seq(S) /\ Len(s) = k
  OBVIOUS
<1>2. t \in Seq(S) /\ Len(t) = k + 1
  OBVIOUS
<1>3. /\ Append(s, b) \in Seq(S) /\ Len(Append(s, b)) = k + 1
      /\ \A j \in 1 .. k : Append(s, b)[j] = s[j]
      /\ Append(s, b)[k + 1] = b
  BY <1>1, AppendProperties
<1>4. \A j \in 1 .. k + 1 : j \in 1 .. k \/ j = k + 1
  OBVIOUS
<1>5. \A j \in 1 .. Len(t) : t[j] = Append(s, b)[j]
  BY <1>2, <1>3, <1>4
<1>6. QED
  BY <1>2, <1>3, <1>5, SeqEqual, Zenon

\* The same for Tail.
LEMMA IsTail ==
  ASSUME NEW S, NEW k \in Nat \ {0}, NEW s \in [1 .. k -> S],
         NEW t \in [1 .. k - 1 -> S], \A j \in 1 .. k - 1 : t[j] = s[j + 1]
  PROVE  s # <<>> /\ t = Tail(s)
<1>1. s \in Seq(S) /\ Len(s) = k /\ s # <<>>
  OBVIOUS
<1>2. t \in Seq(S) /\ Len(t) = k - 1
  OBVIOUS
<1>3. /\ Tail(s) \in Seq(S) /\ Len(Tail(s)) = k - 1
      /\ \A j \in 1 .. k - 1 : Tail(s)[j] = s[j + 1]
  BY <1>1, HeadTailProperties
<1>4. \A j \in 1 .. Len(t) : t[j] = Tail(s)[j]
  BY <1>2, <1>3
<1>5. QED
  BY <1>1, <1>2, <1>3, <1>4, SeqEqual, Zenon

-----------------------------------------------------------------------------
\* Writing to the next place disturbs nothing that the ring holds.
LEMMA Untouched ==
  ASSUME NEW U \in Nat \ {0}, NEW N \in 1 .. U, Divides(N, U),
         NEW r \in 0 .. U - 1, NEW w \in 0 .. U - 1, Held(r, w, U) < N
  PROVE  /\ w % N = (r + Held(r, w, U)) % N
         /\ \A k \in 1 .. Held(r, w, U) : (r + k - 1) % N # w % N
<1>1. PICK h : h = Held(r, w, U)
  OBVIOUS
<1>2. h \in 0 .. N - 1 /\ (w = r + h \/ w = r + h - U) /\ N \in Nat \ {0}
  <2>1. h \in 0 .. U - 1 /\ (w = r + h \/ w = r + h - U)
    BY <1>1, Counters
  <2>2. QED
    BY <1>1, <2>1
<1>3. w % N = (r + h) % N
  <2>1. PICK x \in Int : x = r + h
    BY <1>2
  <2>2. (x - U) % N = x % N
    BY <1>2, SamePlace, Zenon
  <2>3. QED
    <3>1. w = x \/ w = x - U
      BY <1>2, <2>1
    <3>2. QED
      BY <2>1, <2>2, <3>1, Zenon
<1>4. ASSUME NEW k \in 1 .. h PROVE (r + k - 1) % N # w % N
  <2>1. /\ r + k - 1 \in Int /\ h + 1 - k \in 1 .. N - 1
        /\ (r + k - 1) + (h + 1 - k) = r + h
    BY <1>2
  <2>2. ((r + k - 1) + (h + 1 - k)) % N # (r + k - 1) % N
    BY <1>2, <2>1, ModDistinct, Zenon
  <2>3. QED
    BY <1>3, <2>1, <2>2, Zenon
<1>5. QED
  BY <1>1, <1>3, <1>4, Zenon

\* The queue is a sequence.
LEMMA QueueType ==
  ASSUME NEW U \in Nat \ {0}, NEW N \in 1 .. U, NEW S, NEW d \in [0 .. N - 1 -> S],
         NEW r \in 0 .. U - 1, NEW w \in 0 .. U - 1
  PROVE  Queue(d, r, w, N, U) \in [1 .. Held(r, w, U) -> S]
<1>1. Held(r, w, U) \in 0 .. U - 1
  BY Counters
<1>2. \A k \in 1 .. Held(r, w, U) : (r + k - 1) % N \in 0 .. N - 1
  BY <1>1
<1>3. QED
  BY <1>1, <1>2 DEF Queue

LEMMA QueueSeq ==
  ASSUME NEW U \in Nat \ {0}, NEW N \in 1 .. U, NEW S, NEW d \in [0 .. N - 1 -> S],
         NEW r \in 0 .. U - 1, NEW w \in 0 .. U - 1
  PROVE  Queue(d, r, w, N, U) \in Seq(S)
<1>1. Held(r, w, U) \in Nat
  BY Counters
<1>2. Queue(d, r, w, N, U) \in [1 .. Held(r, w, U) -> S]
  BY QueueType
<1>3. QED
  BY <1>1, <1>2

LEMMA QueueLen ==
  ASSUME NEW U \in Nat \ {0}, NEW N, NEW d, NEW r \in 0 .. U - 1, NEW w \in 0 .. U - 1
  PROVE  Len(Queue(d, r, w, N, U)) = Held(r, w, U)
<1>1. Held(r, w, U) \in Nat
  BY Counters
<1>2. QED
  BY <1>1 DEF Queue

\* Writing b at the next place and moving the index on appends b.
LEMMA RingPut ==
  ASSUME NEW U \in Nat \ {0}, NEW N \in 1 .. U, Divides(N, U),
         NEW S, NEW d \in [0 .. N - 1 -> S], NEW b \in S,
         NEW r \in 0 .. U - 1, NEW w \in 0 .. U - 1,
         Held(r, w, U) < N, Held(r, w, U) + 1 < U
  PROVE  /\ Held(r, Inc(w, U), U) = Held(r, w, U) + 1
         /\ Appended(Queue(d, r, w, N, U), b, Queue(Stored(d, w, b, N), r, Inc(w, U), N, U))
         /\ Queue(Stored(d, w, b, N), r, Inc(w, U), N, U) \in Seq(S)
<1>1. PICK e : e = Stored(d, w, b, N)
  OBVIOUS
<1>2. PICK v : v = Inc(w, U)
  OBVIOUS
<1>3. PICK h : h = Held(r, w, U)
  OBVIOUS
<1>4. h \in 0 .. N - 1 /\ h \in Nat
  <2>1. h \in 0 .. U - 1
    BY <1>3, Counters
  <2>2. QED
    BY <1>3, <2>1
<1>5. Held(r, v, U) = h + 1 /\ v \in 0 .. U - 1
  <2>1. 1 \in Nat
    OBVIOUS
  <2>2. Held(r, (w + 1) % U, U) = Held(r, w, U) + 1 /\ (w + 1) % U \in 0 .. U - 1
    BY <2>1, HeldMore, Zenon
  <2>3. QED
    BY <1>2, <1>3, <2>2, Zenon DEF Inc
<1>6. w % N = (r + h) % N /\ \A k \in 1 .. h : (r + k - 1) % N # w % N
  <2>1. /\ w % N = (r + Held(r, w, U)) % N
        /\ \A k \in 1 .. Held(r, w, U) : (r + k - 1) % N # w % N
    BY Untouched
  <2>2. QED
    BY <1>3, <2>1, Zenon
<1>7. w % N \in 0 .. N - 1 /\ \A k \in Nat \ {0} : (r + k - 1) % N \in 0 .. N - 1
  OBVIOUS
<1>8. e \in [0 .. N - 1 -> S] /\ e[w % N] = b /\ \A k \in 0 .. N - 1 : k # w % N => e[k] = d[k]
  BY <1>1, <1>7 DEF Stored
<1>9. PICK Q : Q = Queue(d, r, w, N, U)
  OBVIOUS
<1>10. PICK Q1 : Q1 = Queue(e, r, v, N, U)
  OBVIOUS
<1>11. Q \in [1 .. h -> S] /\ Q1 \in [1 .. h + 1 -> S]
  <2>1. Queue(d, r, w, N, U) \in [1 .. Held(r, w, U) -> S]
    BY QueueType
  <2>2. Queue(e, r, v, N, U) \in [1 .. Held(r, v, U) -> S]
    BY <1>5, <1>8, QueueType
  <2>3. QED
    BY <1>3, <1>5, <1>9, <1>10, <2>1, <2>2, Zenon
<1>12. \A k \in 1 .. h : Q1[k] = Q[k]
  <2> SUFFICES ASSUME NEW k \in 1 .. h PROVE Q1[k] = Q[k]
    OBVIOUS
  <2>1. k \in 1 .. h + 1 /\ k \in Nat \ {0}
    BY <1>4
  <2>2. Q1[k] = e[(r + k - 1) % N] /\ Q[k] = d[(r + k - 1) % N]
    BY <1>3, <1>5, <1>9, <1>10, <2>1 DEF Queue
  <2>3. QED
    BY <1>6, <1>7, <1>8, <2>1, <2>2, Zenon
<1>13. Q1[h + 1] = b
  <2>1. h + 1 \in 1 .. h + 1 /\ r + (h + 1) - 1 = r + h
    BY <1>4
  <2>2. Q1[h + 1] = e[(r + (h + 1) - 1) % N]
    BY <1>5, <1>10, <2>1 DEF Queue
  <2>3. QED
    BY <1>6, <1>8, <2>1, <2>2, Zenon
<1>14. Q1 = Append(Q, b)
  BY <1>4, <1>11, <1>12, <1>13, IsAppend
<1>15. Queue(e, r, v, N, U) \in Seq(S)
  BY <1>5, <1>8, QueueSeq
<1>16. QED
  BY <1>1, <1>2, <1>3, <1>5, <1>9, <1>10, <1>14, <1>15, Zenon DEF Appended

\* Moving the reading index on takes the first element.
LEMMA RingTake ==
  ASSUME NEW U \in Nat \ {0}, NEW N \in 1 .. U, Divides(N, U),
         NEW S, NEW d \in [0 .. N - 1 -> S],
         NEW r \in 0 .. U - 1, NEW w \in 0 .. U - 1, r # w
  PROVE  /\ Held(Inc(r, U), w, U) = Held(r, w, U) - 1
         /\ Taken(Queue(d, r, w, N, U), Queue(d, Inc(r, U), w, N, U))
         /\ Queue(d, Inc(r, U), w, N, U) \in Seq(S)
<1>1. PICK v : v = Inc(r, U)
  OBVIOUS
<1>2. PICK h : h = Held(r, w, U)
  OBVIOUS
<1>3. h \in Nat \ {0}
  <2>1. h \in 0 .. U - 1 /\ h # 0
    BY <1>2, Counters
  <2>2. QED
    BY <2>1
<1>4. Held(v, w, U) = h - 1 /\ v \in 0 .. U - 1 /\ (v = r + 1 \/ v = r + 1 - U)
  <2>1. Held(r, w, U) # 0
    BY <1>2, <1>3
  <2>2. /\ Held((r + 1) % U, w, U) = Held(r, w, U) - 1
        /\ (r + 1) % U \in 0 .. U - 1
        /\ (r + 1) % U = r + 1 \/ (r + 1) % U = r + 1 - U
    BY <2>1, HeldTaken, Zenon
  <2>3. QED
    BY <1>1, <1>2, <2>2, Zenon DEF Inc
<1>5. PICK Q : Q = Queue(d, r, w, N, U)
  OBVIOUS
<1>6. PICK Q1 : Q1 = Queue(d, v, w, N, U)
  OBVIOUS
<1>7. Q \in [1 .. h -> S] /\ Q1 \in [1 .. h - 1 -> S]
  <2>1. Queue(d, r, w, N, U) \in [1 .. Held(r, w, U) -> S]
    BY QueueType
  <2>2. Queue(d, v, w, N, U) \in [1 .. Held(v, w, U) -> S]
    BY <1>4, QueueType
  <2>3. QED
    BY <1>2, <1>4, <1>5, <1>6, <2>1, <2>2, Zenon
<1>8. \A k \in 1 .. h - 1 : Q1[k] = Q[k + 1]
  <2> SUFFICES ASSUME NEW k \in 1 .. h - 1 PROVE Q1[k] = Q[k + 1]
    OBVIOUS
  <2>1. PICK x \in Int : x = r + k
    BY <1>3
  <2>2. v + k - 1 = x \/ v + k - 1 = x - U
    BY <1>3, <1>4, <2>1
  <2>3. r + (k + 1) - 1 = x /\ k + 1 \in 1 .. h /\ N \in Nat \ {0}
    BY <1>3, <2>1
  <2>4. (x - U) % N = x % N
    BY <2>3, SamePlace, Zenon
  <2>5. (v + k - 1) % N = (r + (k + 1) - 1) % N
    BY <2>2, <2>3, <2>4, Zenon
  <2>6. Q1[k] = d[(v + k - 1) % N] /\ Q[k + 1] = d[(r + (k + 1) - 1) % N]
    BY <1>2, <1>4, <1>5, <1>6, <2>3 DEF Queue
  <2>7. QED
    BY <2>5, <2>6, Zenon
<1>9. Q # <<>> /\ Q1 = Tail(Q)
  BY <1>3, <1>7, <1>8, IsTail
<1>10. Queue(d, v, w, N, U) \in Seq(S)
  BY <1>4, QueueSeq
<1>11. QED
  BY <1>1, <1>2, <1>4, <1>5, <1>6, <1>9, <1>10, Zenon DEF Taken

\* Writing at an index e ahead of w, and moving w on to v, keeps what the ring holds.
LEMMA RingKeep ==
  ASSUME NEW U \in Nat \ {0}, NEW N \in 1 .. U, Divides(N, U),
         NEW S, NEW d \in [0 .. N - 1 -> S], NEW b \in S,
         NEW r \in 0 .. U - 1, NEW w \in 0 .. U - 1, NEW e \in 0 .. U - 1,
         NEW v \in 0 .. U - 1, Held(r, e, U) < N,
         Held(r, w, U) <= Held(r, e, U), Held(r, w, U) <= Held(r, v, U)
  PROVE  Kept(Queue(d, r, w, N, U), Queue(Stored(d, e, b, N), r, v, N, U))
<1>1. PICK f : f = Stored(d, e, b, N)
  OBVIOUS
<1>2. PICK h \in 0 .. U - 1 : h = Held(r, w, U)
  BY Counters
<1>3. PICK g \in 0 .. U - 1 : g = Held(r, e, U)
  BY Counters
<1>4. PICK l \in 0 .. U - 1 : l = Held(r, v, U)
  BY Counters
<1>5. h <= g /\ h <= l
  BY <1>2, <1>3, <1>4, Zenon
<1>6. \A k \in 1 .. g : (r + k - 1) % N # e % N
  <2>1. \A k \in 1 .. Held(r, e, U) : (r + k - 1) % N # e % N
    BY Untouched
  <2>2. QED
    BY <1>3, <2>1, Zenon
<1>7. e % N \in 0 .. N - 1 /\ \A k \in Nat \ {0} : (r + k - 1) % N \in 0 .. N - 1
  OBVIOUS
<1>8. f \in [0 .. N - 1 -> S] /\ \A k \in 0 .. N - 1 : k # e % N => f[k] = d[k]
  BY <1>1, <1>7 DEF Stored
<1>9. PICK Q : Q = Queue(d, r, w, N, U)
  OBVIOUS
<1>10. PICK Q1 : Q1 = Queue(f, r, v, N, U)
  OBVIOUS
<1>11. Q \in [1 .. h -> S] /\ Q1 \in [1 .. l -> S]
  <2>1. Queue(d, r, w, N, U) \in [1 .. Held(r, w, U) -> S]
    BY QueueType
  <2>2. Queue(f, r, v, N, U) \in [1 .. Held(r, v, U) -> S]
    BY <1>8, QueueType
  <2>3. QED
    BY <1>2, <1>4, <1>9, <1>10, <2>1, <2>2, Zenon
<1>12. \A k \in 1 .. h : Q1[k] = Q[k]
  <2> SUFFICES ASSUME NEW k \in 1 .. h PROVE Q1[k] = Q[k]
    OBVIOUS
  <2>1. k \in 1 .. l /\ k \in 1 .. g /\ k \in Nat \ {0}
    BY <1>5
  <2>2. Q1[k] = f[(r + k - 1) % N] /\ Q[k] = d[(r + k - 1) % N]
    BY <1>2, <1>4, <1>9, <1>10, <2>1 DEF Queue
  <2>3. QED
    BY <1>6, <1>7, <1>8, <2>1, <2>2, Zenon
<1>13. SubSeq(Q1, 1, h) = Q
  BY <1>5, <1>11, <1>12, IsStart
<1>14. Len(Q) = h
  BY <1>11
<1>15. QED
  BY <1>1, <1>9, <1>10, <1>13, <1>14, Zenon DEF Kept

\* A ring that is left alone keeps all.
LEMMA RingSame ==
  ASSUME NEW U \in Nat \ {0}, NEW N \in 1 .. U, NEW S, NEW d \in [0 .. N - 1 -> S],
         NEW r \in 0 .. U - 1, NEW w \in 0 .. U - 1
  PROVE  Kept(Queue(d, r, w, N, U), Queue(d, r, w, N, U)) /\ Queue(d, r, w, N, U) \in Seq(S)
<1>1. PICK Q : Q = Queue(d, r, w, N, U)
  OBVIOUS
<1>2. PICK h \in 0 .. U - 1 : h = Held(r, w, U)
  BY Counters
<1>3. Q \in [1 .. h -> S]
  BY <1>1, <1>2, QueueType
<1>4. SubSeq(Q, 1, h) = Q
  BY <1>3, IsStart
<1>5. Len(Q) = h
  BY <1>3
<1>6. QED
  BY <1>1, <1>4, <1>5, QueueSeq, Zenon DEF Kept
=============================================================================
