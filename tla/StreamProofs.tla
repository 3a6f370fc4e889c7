---------------------------- MODULE StreamProofs ----------------------------
(***************************************************************************)
(* The circular buffers of a pipe (kernel/pipe.c) and of the console       *)
(* (kernel/console.c) hold what was put into them and not yet taken out,   *)
(* in order, for every size of the buffers, of the counters and of the     *)
(* calls.                                                                  *)
(***************************************************************************)
EXTENDS Pipe, Console, TLAPS

-----------------------------------------------------------------------------
(* Sequences. *)

\* Append() adds an entry at the end.
LEMMA AppendFacts ==
  ASSUME NEW V, NEW s \in Seq(V), NEW c \in V
  PROVE  /\ Append(s, c) \in Seq(V) /\ Len(Append(s, c)) = Len(s) + 1
         /\ \A k \in 1 .. Len(s) : Append(s, c)[k] = s[k]
         /\ Append(s, c)[Len(s) + 1] = c
OBVIOUS

\* Tail() leaves out the first entry.
LEMMA TailFacts ==
  ASSUME NEW V, NEW s \in Seq(V), s # <<>>
  PROVE  /\ Tail(s) \in Seq(V) /\ Len(Tail(s)) = Len(s) - 1
         /\ \A k \in 1 .. Len(s) - 1 : Tail(s)[k] = s[k + 1]
OBVIOUS

\* Two sequences with the same entries are the same.
LEMMA SameEntries ==
  ASSUME NEW V, NEW s \in Seq(V), NEW t \in Seq(V), Len(s) = Len(t),
         \A k \in 1 .. Len(s) : s[k] = t[k]
  PROVE  s = t
OBVIOUS

\* The first n entries.
LEMMA PrefixFacts ==
  ASSUME NEW V, NEW s \in Seq(V), NEW n \in Nat, n <= Len(s)
  PROVE  /\ SubSeq(s, 1, n) \in Seq(V) /\ Len(SubSeq(s, 1, n)) = n
         /\ \A k \in 1 .. n : SubSeq(s, 1, n)[k] = s[k]
OBVIOUS

\* The entries of a concatenation.
LEMMA ConcatFacts ==
  ASSUME NEW V, NEW s \in Seq(V), NEW t \in Seq(V)
  PROVE  /\ s \o t \in Seq(V) /\ Len(s \o t) = Len(s) + Len(t)
         /\ \A k \in 1 .. Len(s) + Len(t) :
              (s \o t)[k] = IF k <= Len(s) THEN s[k] ELSE t[k - Len(s)]
OBVIOUS

-----------------------------------------------------------------------------
(* Numbers modulo n. *)

\* The quotient and the remainder.
LEMMA ModDiv ==
  ASSUME NEW n \in Nat \ {0}, NEW a \in Int
  PROVE  a \div n \in Int /\ a % n \in 0 .. n - 1 /\ a = n * (a \div n) + (a % n)
OBVIOUS

\* The remainder is unique.
LEMMA ModUnique ==
  ASSUME NEW n \in Nat \ {0}, NEW q \in Int, NEW r \in 0 .. n - 1
  PROVE  (n * q + r) % n = r
OBVIOUS

\* A number below n is its own remainder.
LEMMA ModSmall ==
  ASSUME NEW n \in Nat \ {0}, NEW r \in 0 .. n - 1
  PROVE  r % n = r
OBVIOUS

\* A multiple of n does not change the remainder.
LEMMA ModShift ==
  ASSUME NEW n \in Nat \ {0}, NEW a \in Int, NEW q \in Int
  PROVE  (a + n * q) % n = a % n
<1> DEFINE d == a \div n
           r == a % n
<1>1. d \in Int /\ r \in 0 .. n - 1 /\ a = n * d + r
  BY ModDiv, Zenon
<1> HIDE DEF d, r
<1>2. a + n * q = n * (d + q) + r
  BY <1>1
<1>3. (n * (d + q) + r) % n = r
  BY <1>1, ModUnique
<1> QED
  BY <1>2, <1>3, Zenon DEF r

\* A sum may be reduced first.
LEMMA ModAdd ==
  ASSUME NEW n \in Nat \ {0}, NEW a \in Int, NEW b \in Int
  PROVE  ((a % n) + b) % n = (a + b) % n
<1> DEFINE d == a \div n
           r == a % n
<1>1. d \in Int /\ r \in 0 .. n - 1 /\ a = n * d + r
  BY ModDiv
<1> HIDE DEF d, r
<1>2. a + b = (r + b) + n * d
  BY <1>1
<1>3. r + b \in Int
  BY <1>1
<1>4. \A c \in Int : (c + n * d) % n = c % n
  BY <1>1, ModShift, Zenon
<1>5. ((r + b) + n * d) % n = (r + b) % n
  BY <1>3, <1>4, Zenon
<1> QED
  BY <1>2, <1>5, Zenon DEF r

\* Two reductions, the first by a multiple of the second.
LEMMA ModMod ==
  ASSUME NEW n \in Nat \ {0}, NEW m \in Nat \ {0}, m % n = 0, NEW a \in Int
  PROVE  (a % m) % n = a % n
<1> DEFINE d == a \div m
           r == a % m
           k == m \div n
<1>1. d \in Int /\ r \in 0 .. m - 1 /\ a = m * d + r
  BY ModDiv, Zenon
<1>2. k \in Int /\ m = n * k
  BY ModDiv
<1> HIDE DEF d, r, k
<1>3. m * d = n * (k * d)
  BY <1>1, <1>2
<1>4. a = r + n * (k * d) /\ k * d \in Int
  BY <1>1, <1>3, <1>2
<1> DEFINE q == k * d
<1>5. q \in Int /\ a = r + n * q
  BY <1>4, Zenon
<1> HIDE DEF q
<1>6. \A c \in Int : (c + n * q) % n = c % n
  BY <1>5, ModShift, Zenon
<1>7. r \in Int
  BY <1>1
<1> QED
  BY <1>5, <1>6, <1>7, Zenon DEF r

\* Numbers closer than n have different remainders.
LEMMA ModDiffer ==
  ASSUME NEW n \in Nat \ {0}, NEW a \in Int, NEW b \in Int, a < b, b < a + n
  PROVE  a % n # b % n
<1> SUFFICES ASSUME a % n = b % n PROVE FALSE
  OBVIOUS
<1> DEFINE d == a \div n
           e == b \div n
           r == a % n
<1>1. d \in Int /\ e \in Int /\ r \in Int /\ a = n * d + r /\ b = n * e + r
  BY ModDiv
<1> HIDE DEF d, e, r
<1>2. b - a = n * (e - d) /\ e - d \in Int
  BY <1>1
<1> DEFINE q == e - d
<1>3. q \in Int /\ b - a = n * q /\ 0 < n * q /\ n * q < n
  BY <1>1, <1>2
<1> HIDE DEF q
<1>4. CASE q <= 0
  BY <1>3, <1>4
<1>5. CASE q >= 1
  BY <1>3, <1>5
<1> QED
  BY <1>3, <1>4, <1>5

\* The way from a to b modulo m leads to b.
LEMMA ModWay ==
  ASSUME NEW m \in Nat \ {0}, NEW a \in 0 .. m - 1, NEW b \in 0 .. m - 1
  PROVE  /\ (b - a) % m \in 0 .. m - 1
         /\ b = (a + ((b - a) % m)) % m
<1>1. (b - a) % m \in 0 .. m - 1
  BY ModDiv
<1>2. (((b - a) % m) + a) % m = ((b - a) + a) % m
  <2>1. b - a \in Int /\ a \in Int
    OBVIOUS
  <2> QED
    BY <2>1, ModAdd, Zenon
<1>3. ((b - a) % m) + a = a + ((b - a) % m) /\ (b - a) + a = b
  BY <1>1
<1> QED
  BY <1>1, <1>2, <1>3, ModSmall, Zenon

\* And a way of k < m from a is the way to where it leads.
LEMMA ModBack ==
  ASSUME NEW m \in Nat \ {0}, NEW a \in 0 .. m - 1, NEW k \in 0 .. m - 1
  PROVE  /\ (a + k) % m \in 0 .. m - 1
         /\ (((a + k) % m) - a) % m = k
<1>1. (a + k) % m \in 0 .. m - 1
  BY ModDiv
<1>2. (((a + k) % m) + (0 - a)) % m = ((a + k) + (0 - a)) % m
  <2>1. a + k \in Int /\ 0 - a \in Int
    OBVIOUS
  <2> QED
    BY <2>1, ModAdd, Zenon
<1>3. ((a + k) % m) + (0 - a) = ((a + k) % m) - a /\ (a + k) + (0 - a) = k
  BY <1>1
<1> QED
  BY <1>1, <1>2, <1>3, ModSmall, Zenon

-----------------------------------------------------------------------------
(* Circular buffers of p places. *)

\* The n values from place i on.
Ring(b, i, n, p) == [k \in 1 .. n |-> b[(i + k - 1) % p]]

\* It is a sequence of n values.
LEMMA RingSeq ==
  ASSUME NEW p \in Nat \ {0}, NEW V, NEW b \in [0 .. p - 1 -> V], NEW i \in Int, NEW n \in Nat
  PROVE  Ring(b, i, n, p) \in Seq(V)
<1>1. \A k \in 1 .. n : b[(i + k - 1) % p] \in V
  BY ModDiv
<1> QED
  BY <1>1 DEF Ring

\* Its length and its values.
LEMMA RingAt ==
  ASSUME NEW p, NEW b, NEW i, NEW n \in Nat
  PROVE  /\ Len(Ring(b, i, n, p)) = n
         /\ \A k \in 1 .. n : Ring(b, i, n, p)[k] = b[(i + k - 1) % p]
BY DEF Ring

\* d is b but for place j.
Stored(b, d, j) == \A k \in DOMAIN b \ {j} : d[k] = b[k]

\* A value stored behind the last one is appended.
LEMMA RingStore ==
  \A p \in Nat \ {0} : \A V : \A b \in [0 .. p - 1 -> V] : \A d \in [0 .. p - 1 -> V] :
    \A i \in Int : \A n \in Nat : n < p => (Stored(b, d, (i + n) % p) =>
      Ring(d, i, n + 1, p) = Append(Ring(b, i, n, p), d[(i + n) % p]))
<1> SUFFICES ASSUME NEW p \in Nat \ {0}, NEW V, NEW b \in [0 .. p - 1 -> V], NEW d \in [0 .. p - 1 -> V],
                    NEW i \in Int, NEW n \in Nat, n < p, Stored(b, d, (i + n) % p)
             PROVE  Ring(d, i, n + 1, p) = Append(Ring(b, i, n, p), d[(i + n) % p])
  BY Zenon
<1> DEFINE c == d[(i + n) % p]
           s == Ring(b, i, n, p)
           t == Ring(d, i, n + 1, p)
<1>1. (i + n) % p \in 0 .. p - 1
  BY ModDiv
<1>2. c \in V
  BY <1>1, Zenon
<1>3. \A k \in 1 .. n : d[(i + k - 1) % p] = b[(i + k - 1) % p]
  <2> TAKE k \in 1 .. n
  <2>1. (i + k - 1) % p # (i + n) % p
    <3>1. i + k - 1 \in Int /\ i + n \in Int /\ i + k - 1 < i + n /\ i + n < (i + k - 1) + p
      OBVIOUS
    <3> QED
      BY <3>1, ModDiffer, Zenon
  <2>2. (i + k - 1) % p \in 0 .. p - 1
    <3>1. i + k - 1 \in Int
      OBVIOUS
    <3> QED
      BY <3>1, ModDiv, Zenon
  <2>3. DOMAIN b = 0 .. p - 1
    OBVIOUS
  <2> QED
    BY <2>1, <2>2, <2>3, Zenon DEF Stored
<1>4. d[(i + (n + 1) - 1) % p] = c
  <2>1. i + (n + 1) - 1 = i + n
    OBVIOUS
  <2> QED
    BY <2>1, Zenon
<1> HIDE DEF c
<1>5. /\ s \in Seq(V) /\ Len(s) = n
      /\ \A k \in 1 .. n : s[k] = b[(i + k - 1) % p]
  <2>1. s \in Seq(V)
    BY RingSeq, Zenon
  <2> QED
    BY <2>1 DEF Ring
<1>6. /\ t \in Seq(V) /\ Len(t) = n + 1
      /\ \A k \in 1 .. n + 1 : t[k] = d[(i + k - 1) % p]
  <2>1. t \in Seq(V)
    BY RingSeq
  <2> QED
    BY <2>1 DEF Ring
<1> HIDE DEF s, t
<1>7. /\ Append(s, c) \in Seq(V) /\ Len(Append(s, c)) = n + 1
      /\ \A k \in 1 .. n : Append(s, c)[k] = s[k]
      /\ Append(s, c)[n + 1] = c
  BY <1>2, <1>5, AppendFacts
<1>8. \A k \in 1 .. n + 1 : t[k] = Append(s, c)[k]
  <2> TAKE k \in 1 .. n + 1
  <2>1. CASE k \in 1 .. n
    BY <1>3, <1>5, <1>6, <1>7, <2>1, ZenonT(30)
  <2>2. CASE k = n + 1
    BY <1>4, <1>6, <1>7, <2>2, Zenon
  <2>3. k \in 1 .. n \/ k = n + 1
    OBVIOUS
  <2> QED
    BY <2>1, <2>2, <2>3, Zenon
<1>9. t = Append(s, c)
  BY <1>6, <1>7, <1>8, SameEntries, Zenon
<1> QED
  BY <1>9, Zenon DEF s, t, c

\* A value stored behind the first m does not change them.
LEMMA RingKeep ==
  \A p \in Nat \ {0} : \A V : \A b \in [0 .. p - 1 -> V] : \A d \in [0 .. p - 1 -> V] :
    \A i \in Int : \A n \in Nat : \A m \in 0 .. n : n < p => (Stored(b, d, (i + n) % p) =>
      Ring(d, i, m, p) = Ring(b, i, m, p))
<1> SUFFICES ASSUME NEW p \in Nat \ {0}, NEW V, NEW b \in [0 .. p - 1 -> V], NEW d \in [0 .. p - 1 -> V],
                    NEW i \in Int, NEW n \in Nat, NEW m \in 0 .. n, n < p, Stored(b, d, (i + n) % p)
             PROVE  Ring(d, i, m, p) = Ring(b, i, m, p)
  BY Zenon
<1>1. ASSUME NEW k \in 1 .. m PROVE d[(i + k - 1) % p] = b[(i + k - 1) % p]
  <2>1. (i + k - 1) % p # (i + n) % p
    <3>1. i + k - 1 \in Int /\ i + n \in Int /\ i + k - 1 < i + n /\ i + n < (i + k - 1) + p
      OBVIOUS
    <3> QED
      BY <3>1, ModDiffer, Zenon
  <2>2. (i + k - 1) % p \in 0 .. p - 1
    <3>1. i + k - 1 \in Int
      OBVIOUS
    <3> QED
      BY <3>1, ModDiv, Zenon
  <2>3. DOMAIN b = 0 .. p - 1
    OBVIOUS
  <2> QED
    BY <2>1, <2>2, <2>3, Zenon DEF Stored
<1> QED
  BY <1>1, Zenon DEF Ring

\* Without the first value.
LEMMA RingTail ==
  ASSUME NEW p \in Nat \ {0}, NEW V, NEW b \in [0 .. p - 1 -> V], NEW i \in Int, NEW n \in Nat \ {0}
  PROVE  Ring(b, i + 1, n - 1, p) = Tail(Ring(b, i, n, p))
<1> DEFINE s == Ring(b, i, n, p)
           t == Ring(b, i + 1, n - 1, p)
<1>1. /\ s \in Seq(V) /\ Len(s) = n
      /\ \A k \in 1 .. n : s[k] = b[(i + k - 1) % p]
  <2>1. s \in Seq(V)
    BY RingSeq, Zenon
  <2> QED
    BY <2>1 DEF Ring
<1>2. /\ t \in Seq(V) /\ Len(t) = n - 1
      /\ \A k \in 1 .. n - 1 : t[k] = b[((i + 1) + k - 1) % p]
  <2>1. t \in Seq(V)
    BY RingSeq
  <2> QED
    BY <2>1 DEF Ring
<1> HIDE DEF s, t
<1>3. /\ Tail(s) \in Seq(V) /\ Len(Tail(s)) = n - 1
      /\ \A k \in 1 .. n - 1 : Tail(s)[k] = s[k + 1]
  BY <1>1, TailFacts
<1>4. \A k \in 1 .. n - 1 : t[k] = Tail(s)[k]
  <2> TAKE k \in 1 .. n - 1
  <2>1. (i + 1) + k - 1 = i + (k + 1) - 1 /\ k + 1 \in 1 .. n
    OBVIOUS
  <2> QED
    <3>1. t[k] = b[((i + 1) + k - 1) % p] /\ Tail(s)[k] = s[k + 1]
      BY <1>2, <1>3, Zenon
    <3>2. s[k + 1] = b[(i + (k + 1) - 1) % p]
      BY <1>1, <2>1, Zenon
    <3> QED
      BY <2>1, <3>1, <3>2, Zenon
<1>5. t = Tail(s)
  BY <1>2, <1>3, <1>4, SameEntries, Zenon
<1> QED
  BY <1>5, Zenon DEF s, t

\* Without the last value.
LEMMA RingFront ==
  ASSUME NEW p \in Nat \ {0}, NEW V, NEW b \in [0 .. p - 1 -> V], NEW i \in Int, NEW n \in Nat \ {0}
  PROVE  Ring(b, i, n - 1, p) = SubSeq(Ring(b, i, n, p), 1, n - 1)
<1> DEFINE s == Ring(b, i, n, p)
           t == Ring(b, i, n - 1, p)
           u == SubSeq(s, 1, n - 1)
<1>1. /\ s \in Seq(V) /\ Len(s) = n
      /\ \A k \in 1 .. n : s[k] = b[(i + k - 1) % p]
  <2>1. s \in Seq(V)
    BY RingSeq
  <2> QED
    BY <2>1 DEF Ring
<1>2. /\ t \in Seq(V) /\ Len(t) = n - 1
      /\ \A k \in 1 .. n - 1 : t[k] = b[(i + k - 1) % p]
  <2>1. t \in Seq(V)
    BY RingSeq
  <2> QED
    BY <2>1 DEF Ring
<1> HIDE DEF s, t
<1>3. /\ u \in Seq(V) /\ Len(u) = n - 1
      /\ \A k \in 1 .. n - 1 : u[k] = s[k]
  BY <1>1, PrefixFacts
<1> HIDE DEF u
<1>4. \A k \in 1 .. n - 1 : t[k] = u[k]
  <2> TAKE k \in 1 .. n - 1
  <2>1. k \in 1 .. n
    OBVIOUS
  <2> QED
    BY <1>1, <1>2, <1>3, <2>1, Zenon
<1>5. t = u
  BY <1>2, <1>3, <1>4, SameEntries, Zenon
<1> QED
  BY <1>5, Zenon DEF s, t, u

\* Two parts.
LEMMA RingCat ==
  ASSUME NEW p \in Nat \ {0}, NEW V, NEW b \in [0 .. p - 1 -> V], NEW i \in Int, NEW n \in Nat, NEW m \in Nat
  PROVE  Ring(b, i, n + m, p) = Ring(b, i, n, p) \o Ring(b, i + n, m, p)
<1> DEFINE s == Ring(b, i, n, p)
           t == Ring(b, i + n, m, p)
           u == Ring(b, i, n + m, p)
<1>1. /\ s \in Seq(V) /\ Len(s) = n
      /\ \A k \in 1 .. n : s[k] = b[(i + k - 1) % p]
  <2>1. s \in Seq(V)
    BY RingSeq, Zenon
  <2> QED
    BY <2>1 DEF Ring
<1>2. /\ t \in Seq(V) /\ Len(t) = m
      /\ \A k \in 1 .. m : t[k] = b[((i + n) + k - 1) % p]
  <2>1. t \in Seq(V)
    BY RingSeq
  <2> QED
    BY <2>1 DEF Ring
<1>3. /\ u \in Seq(V) /\ Len(u) = n + m
      /\ \A k \in 1 .. n + m : u[k] = b[(i + k - 1) % p]
  <2>1. u \in Seq(V)
    BY RingSeq
  <2> QED
    BY <2>1 DEF Ring
<1> HIDE DEF s, t, u
<1>4. /\ s \o t \in Seq(V) /\ Len(s \o t) = n + m
      /\ \A k \in 1 .. n + m : (s \o t)[k] = IF k <= n THEN s[k] ELSE t[k - n]
  <2>1. /\ s \o t \in Seq(V) /\ Len(s \o t) = Len(s) + Len(t)
        /\ \A k \in 1 .. Len(s) + Len(t) : (s \o t)[k] = IF k <= Len(s) THEN s[k] ELSE t[k - Len(s)]
    <3>1. s \in Seq(V) /\ t \in Seq(V)
      BY <1>1, <1>2, Zenon
    <3> QED
      BY <3>1, ConcatFacts, Zenon
  <2> QED
    BY <1>1, <1>2, <2>1, Zenon
<1>5. \A k \in 1 .. n + m : u[k] = (s \o t)[k]
  <2> TAKE k \in 1 .. n + m
  <2>0. u[k] = b[(i + k - 1) % p] /\ (s \o t)[k] = IF k <= n THEN s[k] ELSE t[k - n]
    BY <1>3, <1>4, Zenon
  <2>1. CASE k <= n
    <3>1. k \in 1 .. n
      BY <2>1
    <3> QED
      BY <1>1, <2>0, <2>1, <3>1, Zenon
  <2>2. CASE k > n
    <3>1. k - n \in 1 .. m /\ (i + n) + (k - n) - 1 = i + k - 1 /\ ~ (k <= n)
      BY <2>2
    <3>2. t[k - n] = b[((i + n) + (k - n) - 1) % p]
      BY <1>2, <3>1, Zenon
    <3> QED
      BY <2>0, <3>1, <3>2, Zenon
  <2>3. k <= n \/ k > n
    OBVIOUS
  <2> QED
    BY <2>1, <2>2, <2>3, Zenon
<1>6. u = s \o t
  BY <1>3, <1>4, <1>5, SameEntries, Zenon
<1> QED
  BY <1>6, Zenon DEF s, t, u

\* The place may be reduced by a multiple of the size of the buffer.
LEMMA RingMod ==
  ASSUME NEW p \in Nat \ {0}, NEW m \in Nat \ {0}, m % p = 0,
         NEW V, NEW b \in [0 .. p - 1 -> V], NEW i \in Int, NEW n \in Nat
  PROVE  Ring(b, i % m, n, p) = Ring(b, i, n, p)
<1>1. i % m \in Int
  BY ModDiv
<1>2. ASSUME NEW k \in 1 .. n PROVE ((i % m) + k - 1) % p = (i + k - 1) % p
  <2>0. k - 1 \in Int
    OBVIOUS
  <2>1. (((i % m) % p) + (k - 1)) % p = ((i % m) + (k - 1)) % p
    BY <1>1, <2>0, ModAdd, Zenon
  <2>2. ((i % p) + (k - 1)) % p = (i + (k - 1)) % p
    BY <2>0, ModAdd, Zenon
  <2>3. (i % m) % p = i % p
    BY ModMod, Zenon
  <2>4. (i % m) + (k - 1) = (i % m) + k - 1 /\ i + (k - 1) = i + k - 1
    BY <1>1, Zenon
  <2> QED
    BY <2>1, <2>2, <2>3, <2>4, Zenon
<1> QED
  BY <1>2, Zenon DEF Ring

-----------------------------------------------------------------------------
(* The pipe. *)

Bytes == (Writers \X Nat) \cup {<<>>}
PipeType == [data : [0 .. PIPESIZE - 1 -> Bytes], nread : 0 .. UINT - 1, nwrite : 0 .. UINT - 1,
             readopen : BOOLEAN, writeopen : BOOLEAN]
PipePcs == {"start", "loop", "copy", "nap", "sleep", "woken", "done", "closed"}
CallType == [pc : PipePcs, i : Nat, n : Nat]

\* The inductive invariant: that the buffer agrees with the queue needs no help but types.
PipeInv ==
  /\ pi \in PipeType /\ call \in [PipeUsers -> CallType]
  /\ StreamIntact

\* The bytes that are in the pipe.
Count == (pi.nwrite - pi.nread) % UINT

\* StreamIntact, in terms of the ring.
LEMMA IntactRing ==
  StreamIntact <=> Count <= PIPESIZE /\ queue = Ring(pi.data, pi.nread, Count, PIPESIZE)
BY Zenon DEF StreamIntact, Count, Ring

\* The ring of the pipe.
LEMMA PipeRing ==
  /\ PIPESIZE \in Nat \ {0} /\ UINT \in Nat \ {0} /\ PIPESIZE < UINT /\ UINT % PIPESIZE = 0
  /\ \A b \in [0 .. PIPESIZE - 1 -> Bytes] : \A i \in Int : \A n \in Nat :
       Ring(b, i % UINT, n, PIPESIZE) = Ring(b, i, n, PIPESIZE)
  /\ \A b \in [0 .. PIPESIZE - 1 -> Bytes] : \A d \in [0 .. PIPESIZE - 1 -> Bytes] :
       \A i \in Int : \A n \in Nat : n < PIPESIZE => (Stored(b, d, (i + n) % PIPESIZE) =>
         Ring(d, i, n + 1, PIPESIZE) = Append(Ring(b, i, n, PIPESIZE), d[(i + n) % PIPESIZE]))
<1>1. PIPESIZE \in Nat \ {0} /\ UINT \in Nat \ {0} /\ PIPESIZE < UINT /\ UINT % PIPESIZE = 0
  BY PipeAssumption
<1>2. \A V : \A b \in [0 .. PIPESIZE - 1 -> V] : \A i \in Int : \A n \in Nat :
        Ring(b, i % UINT, n, PIPESIZE) = Ring(b, i, n, PIPESIZE)
  BY <1>1, RingMod, Zenon
<1>3. \A V : \A b \in [0 .. PIPESIZE - 1 -> V] : \A d \in [0 .. PIPESIZE - 1 -> V] :
        \A i \in Int : \A n \in Nat : n < PIPESIZE => (Stored(b, d, (i + n) % PIPESIZE) =>
          Ring(d, i, n + 1, PIPESIZE) = Append(Ring(b, i, n, PIPESIZE), d[(i + n) % PIPESIZE]))
  BY <1>1, RingStore, Zenon
<1>4. \A b \in [0 .. PIPESIZE - 1 -> Bytes] : \A d \in [0 .. PIPESIZE - 1 -> Bytes] :
        \A i \in Int : \A n \in Nat : n < PIPESIZE => (Stored(b, d, (i + n) % PIPESIZE) =>
          Ring(d, i, n + 1, PIPESIZE) = Append(Ring(b, i, n, PIPESIZE), d[(i + n) % PIPESIZE]))
  BY <1>3, Zenon
<1> QED
  BY <1>1, <1>2, <1>4, Zenon

\* The fields of the pipe.
LEMMA PipeFields ==
  ASSUME pi \in PipeType
  PROVE  /\ pi.data \in [0 .. PIPESIZE - 1 -> Bytes]
         /\ pi.nread \in 0 .. UINT - 1 /\ pi.nwrite \in 0 .. UINT - 1
         /\ Count \in 0 .. UINT - 1
         /\ pi.nwrite = (pi.nread + Count) % UINT
         /\ PIPESIZE \in Nat \ {0} /\ UINT \in Nat \ {0} /\ PIPESIZE < UINT /\ UINT % PIPESIZE = 0
<1>1. PIPESIZE \in Nat \ {0} /\ UINT \in Nat \ {0} /\ PIPESIZE < UINT /\ UINT % PIPESIZE = 0
  BY PipeAssumption
<1>2. /\ pi.data \in [0 .. PIPESIZE - 1 -> Bytes]
      /\ pi.nread \in 0 .. UINT - 1 /\ pi.nwrite \in 0 .. UINT - 1
  BY Zenon DEF PipeType
<1>3. Count \in 0 .. UINT - 1 /\ pi.nwrite = (pi.nread + Count) % UINT
  BY <1>1, <1>2, ModWay, ZenonT(60) DEF Count
<1> QED
  BY <1>1, <1>2, <1>3, Zenon

\* wakeup() and a change of pc keep the type of the calls.
LEMMA CallTypes ==
  ASSUME call \in [PipeUsers -> CallType], NEW p \in PipeUsers, NEW pc \in PipePcs, NEW side
  PROVE  /\ Moved(p, pc) \in [PipeUsers -> CallType]
         /\ Wake(Moved(p, pc), side) \in [PipeUsers -> CallType]
<1> DEFINE c == Moved(p, pc)
<1>1. c \in [PipeUsers -> CallType]
  BY Zenon DEF Moved, CallType, PipePcs
<1> HIDE DEF c
<1>2. ASSUME NEW q \in PipeUsers
      PROVE  (IF q \in side /\ c[q].pc = "sleep" THEN [c[q] EXCEPT !.pc = "woken"] ELSE c[q]) \in CallType
  BY <1>1, Zenon DEF CallType, PipePcs
<1>3. Wake(c, side) \in [PipeUsers -> CallType]
  BY <1>2, Zenon DEF Wake
<1> QED
  BY <1>1, <1>3, Zenon DEF c

\* pipewrite() copies a byte behind the last one.
LEMMA WriteCopiesStep ==
  ASSUME PipeInv, NEW p \in PipeUsers, WriteCopies(p)
  PROVE  PipeInv'
<1> DEFINE n == Count
           b == pi.data
           r == pi.nread
           c == <<p, call[p].i>>
<1>1. /\ b \in [0 .. PIPESIZE - 1 -> Bytes] /\ r \in 0 .. UINT - 1 /\ n \in 0 .. UINT - 1
      /\ pi.nwrite = (r + n) % UINT /\ pi.nwrite \in 0 .. UINT - 1
      /\ PIPESIZE \in Nat \ {0} /\ UINT \in Nat \ {0} /\ PIPESIZE < UINT /\ UINT % PIPESIZE = 0
  BY PipeFields, Zenon DEF PipeInv
<1>2. n <= PIPESIZE /\ queue = Ring(b, r, n, PIPESIZE)
  BY IntactRing, Zenon DEF PipeInv
<1>3. n < PIPESIZE
  <2>1. n # PIPESIZE
    BY <1>1, Zenon DEF WriteCopies, Full
  <2> HIDE DEF n
  <2> QED
    BY <1>1, <1>2, <2>1
<1>4. c \in Bytes /\ p \in Writers /\ call[p].i \in Nat
  BY Zenon DEF WriteCopies, MayWrite, PipeInv, CallType, Bytes
<1> DEFINE d == [b EXCEPT ![(r + n) % PIPESIZE] = c]
           w == (pi.nwrite + 1) % UINT
<1>5. pi.nwrite % PIPESIZE = (r + n) % PIPESIZE
  <2>1. r + n \in Int
    BY <1>1
  <2>2. ((r + n) % UINT) % PIPESIZE = (r + n) % PIPESIZE
    BY <1>1, <2>1, ModMod, Zenon
  <2> QED
    BY <1>1, <2>2, Zenon
<1>6. pi'.data = d /\ pi'.nwrite = w /\ pi'.nread = r /\ pi'.readopen = pi.readopen /\ pi'.writeopen = pi.writeopen
      /\ pi' = [pi EXCEPT !.data = d, !.nwrite = w]
  BY <1>5, Zenon DEF WriteCopies, PipeInv, PipeType
<1>7. w = (r + (n + 1)) % UINT /\ w \in 0 .. UINT - 1
  <2>1. r + n \in Int /\ 1 \in Int
    BY <1>1
  <2>2. (((r + n) % UINT) + 1) % UINT = ((r + n) + 1) % UINT
    BY <1>1, <2>1, ModAdd, Zenon
  <2>3. (r + n) + 1 = r + (n + 1) /\ r + (n + 1) \in Int
    <3> HIDE DEF n, r
    <3> QED
      BY <1>1
  <2>4. w = (r + (n + 1)) % UINT
    BY <1>1, <2>2, <2>3, Zenon
  <2> QED
    BY <1>1, <2>3, <2>4, ModDiv, Zenon
<1>8. n + 1 \in 0 .. UINT - 1 /\ n + 1 <= PIPESIZE /\ n \in Nat /\ r \in Int
  <2> HIDE DEF n, r
  <2> QED
    BY <1>1, <1>3
<1>9. (w - r) % UINT = n + 1
  <2> HIDE DEF n, r, w
  <2>0. UINT \in Nat \ {0} /\ r \in 0 .. UINT - 1 /\ n + 1 \in 0 .. UINT - 1
    BY <1>1, <1>8, Zenon
  <2>1. (((r + (n + 1)) % UINT) - r) % UINT = n + 1
    BY <2>0, ModBack, Zenon
  <2> QED
    BY <1>7, <2>1, Zenon
<1>10. Count' = n + 1
  BY <1>6, <1>9, Zenon DEF Count
<1>11. Ring(d, r, n + 1, PIPESIZE) = Append(Ring(b, r, n, PIPESIZE), c)
  <2> HIDE DEF n, r, b, c
  <2>1. b \in [0 .. PIPESIZE - 1 -> Bytes] /\ r \in Int /\ n \in Nat
    BY <1>1, <1>8, Zenon
  <2>2. (r + n) % PIPESIZE \in 0 .. PIPESIZE - 1
    <3>1. r + n \in Int
      BY <2>1
    <3> QED
      BY <1>1, <3>1, ModDiv, Zenon
  <2>3. d \in [0 .. PIPESIZE - 1 -> Bytes] /\ d[(r + n) % PIPESIZE] = c /\ Stored(b, d, (r + n) % PIPESIZE)
    BY <1>4, <2>1, <2>2, Zenon DEF Stored
  <2> HIDE DEF d
  <2> QED
    <3>1. Ring(d, r, n + 1, PIPESIZE) = Append(Ring(b, r, n, PIPESIZE), d[(r + n) % PIPESIZE])
      <4>1. \A x \in [0 .. PIPESIZE - 1 -> Bytes] : n < PIPESIZE => (Stored(b, x, (r + n) % PIPESIZE) =>
              Ring(x, r, n + 1, PIPESIZE) = Append(Ring(b, r, n, PIPESIZE), x[(r + n) % PIPESIZE]))
        <5>1. \A y \in [0 .. PIPESIZE - 1 -> Bytes] : \A x \in [0 .. PIPESIZE - 1 -> Bytes] :
                \A i \in Int : \A k \in Nat : k < PIPESIZE => (Stored(y, x, (i + k) % PIPESIZE) =>
                  Ring(x, i, k + 1, PIPESIZE) = Append(Ring(y, i, k, PIPESIZE), x[(i + k) % PIPESIZE]))
          BY PipeRing, Zenon
        <5>2. b \in [0 .. PIPESIZE - 1 -> Bytes]
          BY <2>1, Zenon
        <5>3. r \in Int
          BY <2>1, Zenon
        <5>4. n \in Nat
          BY <2>1, Zenon
        <5> QED
          BY <5>1, <5>2, <5>3, <5>4, Zenon
      <4> QED
        BY <1>3, <2>3, <4>1, Zenon
    <3> QED
      BY <2>3, <3>1, Zenon
<1>12. queue' = Ring(pi'.data, pi'.nread, Count', PIPESIZE)
  BY <1>2, <1>6, <1>10, <1>11, Zenon DEF WriteCopies
<1>13. StreamIntact'
  <2>1. StreamIntact' <=> Count' <= PIPESIZE /\ queue' = Ring(pi'.data, pi'.nread, Count', PIPESIZE)
    BY Zenon DEF StreamIntact, Count, Ring
  <2> QED
    BY <1>8, <1>10, <1>12, <2>1, Zenon
<1>14. pi' \in PipeType
  <2>1. (r + n) % PIPESIZE \in 0 .. PIPESIZE - 1
    <3>1. r + n \in Int
      BY <1>1
    <3> QED
      BY <1>1, <3>1, ModDiv, Zenon
  <2>2. d \in [0 .. PIPESIZE - 1 -> Bytes]
    BY <1>1, <1>4, <2>1, Zenon
  <2> HIDE DEF d, w
  <2> QED
    BY <1>6, <1>7, <2>2, Zenon DEF PipeInv, PipeType
<1>15. call' \in [PipeUsers -> CallType]
  <2>1. [call[p] EXCEPT !.i = call[p].i + 1] \in CallType
    BY <1>4 DEF PipeInv, CallType
  <2>2. call' = [call EXCEPT ![p] = [call[p] EXCEPT !.i = call[p].i + 1]]
    BY Zenon DEF WriteCopies
  <2> QED
    BY <2>1, <2>2, Zenon DEF PipeInv
<1> QED
  BY <1>13, <1>14, <1>15, Zenon DEF PipeInv

\* piperead() takes the first byte.
LEMMA ReadCopiesStep ==
  ASSUME PipeInv, NEW p \in PipeUsers, ReadCopies(p)
  PROVE  PipeInv'
<1> DEFINE n == Count
           b == pi.data
           r == pi.nread
           s == (r + 1) % UINT
<1>1. /\ b \in [0 .. PIPESIZE - 1 -> Bytes] /\ r \in 0 .. UINT - 1 /\ n \in 0 .. UINT - 1
      /\ pi.nwrite = (r + n) % UINT /\ pi.nwrite \in 0 .. UINT - 1
      /\ PIPESIZE \in Nat \ {0} /\ UINT \in Nat \ {0} /\ PIPESIZE < UINT /\ UINT % PIPESIZE = 0
  BY PipeFields DEF PipeInv
<1>2. n <= PIPESIZE /\ queue = Ring(b, r, n, PIPESIZE)
  BY IntactRing DEF PipeInv
<1>3. n # 0
  <2>1. ASSUME n = 0 PROVE FALSE
    <3>1. r + 0 = r /\ r % UINT = r
      <4> HIDE DEF r
      <4>1. UINT \in Nat \ {0} /\ r \in 0 .. UINT - 1
        BY <1>1, Zenon
      <4> QED
        BY <4>1, ModSmall
    <3> QED
      BY <1>1, <2>1, <3>1, Zenon DEF ReadCopies, Empty
  <2> QED
    BY <2>1, Zenon
<1>4. /\ pi'.data = b /\ pi'.nread = s /\ pi'.nwrite = pi.nwrite
      /\ pi'.readopen = pi.readopen /\ pi'.writeopen = pi.writeopen
      /\ pi' = [pi EXCEPT !.nread = s]
  BY Zenon DEF ReadCopies, PipeInv, PipeType
<1>5. s \in 0 .. UINT - 1 /\ n - 1 \in 0 .. UINT - 1 /\ n \in Nat \ {0} /\ n - 1 \in Nat /\ r + 1 \in Int /\ r \in Int
      /\ n - 1 <= PIPESIZE
  <2>1. r + 1 \in Int
    BY <1>1
  <2>2. s \in 0 .. UINT - 1
    BY <1>1, <2>1, ModDiv, Zenon
  <2> HIDE DEF n, r, s
  <2> QED
    BY <1>1, <1>2, <1>3, <2>1, <2>2
<1>6. pi.nwrite = (s + (n - 1)) % UINT
  <2>1. n - 1 \in Int
    BY <1>5
  <2>2. (((r + 1) % UINT) + (n - 1)) % UINT = ((r + 1) + (n - 1)) % UINT
    BY <1>1, <1>5, <2>1, ModAdd, Zenon
  <2>3. (r + 1) + (n - 1) = r + n
    <3> HIDE DEF n, r
    <3> QED
      BY <1>1
  <2> QED
    BY <1>1, <2>2, <2>3, Zenon
<1>7. (pi.nwrite - s) % UINT = n - 1
  <2> HIDE DEF n, s
  <2>1. (((s + (n - 1)) % UINT) - s) % UINT = n - 1
    <3>1. UINT \in Nat \ {0} /\ s \in 0 .. UINT - 1 /\ n - 1 \in 0 .. UINT - 1
      BY <1>1, <1>5, Zenon
    <3> QED
      BY <3>1, ModBack, Zenon
  <2> QED
    BY <1>6, <2>1, Zenon
<1>8. Count' = n - 1
  BY <1>4, <1>7, Zenon DEF Count
<1>9. Ring(b, s, n - 1, PIPESIZE) = Tail(Ring(b, r, n, PIPESIZE))
  <2>1. Ring(b, s, n - 1, PIPESIZE) = Ring(b, r + 1, n - 1, PIPESIZE)
    <3> HIDE DEF n, r, b
    <3>1. PIPESIZE \in Nat \ {0} /\ UINT \in Nat \ {0} /\ UINT % PIPESIZE = 0
            /\ b \in [0 .. PIPESIZE - 1 -> Bytes] /\ r + 1 \in Int /\ n - 1 \in Nat
      BY <1>1, <1>5, Zenon
    <3> QED
      BY <3>1, PipeRing, Zenon
  <2>2. Ring(b, r + 1, n - 1, PIPESIZE) = Tail(Ring(b, r, n, PIPESIZE))
    <3> HIDE DEF n, r, b
    <3>1. PIPESIZE \in Nat \ {0} /\ b \in [0 .. PIPESIZE - 1 -> Bytes] /\ r \in Int /\ n \in Nat \ {0}
      BY <1>1, <1>5, Zenon
    <3> QED
      BY <3>1, RingTail, Zenon
  <2> QED
    BY <2>1, <2>2, Zenon
<1>10. queue' = Ring(pi'.data, pi'.nread, Count', PIPESIZE)
  BY <1>2, <1>4, <1>8, <1>9, Zenon DEF ReadCopies
<1>11. StreamIntact'
  <2>1. StreamIntact' <=> Count' <= PIPESIZE /\ queue' = Ring(pi'.data, pi'.nread, Count', PIPESIZE)
    BY DEF StreamIntact, Count, Ring
  <2> QED
    BY <1>5, <1>8, <1>10, <2>1, Zenon
<1>12. pi' \in PipeType
  <2> HIDE DEF s
  <2> QED
    BY <1>4, <1>5, Zenon DEF PipeInv, PipeType
<1>13. call' \in [PipeUsers -> CallType]
  <2>1. call[p].i + 1 \in Nat
    BY DEF PipeInv, CallType
  <2>2. [call[p] EXCEPT !.i = call[p].i + 1, !.pc = "copy"] \in CallType
    BY <2>1, Zenon DEF PipeInv, CallType, PipePcs
  <2>3. call' = [call EXCEPT ![p] = [call[p] EXCEPT !.i = call[p].i + 1, !.pc = "copy"]]
    BY Zenon DEF ReadCopies, PipeInv
  <2> QED
    BY <2>2, <2>3, Zenon DEF PipeInv
<1> QED
  BY <1>11, <1>12, <1>13 DEF PipeInv

\* The other steps leave the bytes and the counters alone.
LEMMA PipeOtherStep ==
  ASSUME PipeInv, NEW p \in PipeUsers,
         \/ PipeEnter(p) \/ WriteFails(p) \/ WriteSleeps(p) \/ WriteReturns(p) \/ ReadWaits(p)
         \/ (\E copied \in BOOLEAN : ReadReturns(p, copied)) \/ PipeSleep(p) \/ pipeclose(p) \/ PipeKill(p)
  PROVE  PipeInv'
<1>1. call' \in [PipeUsers -> CallType]
  <2>1. CASE PipeEnter(p)
    <3>1. PICK n \in IF p \in Writers THEN {WRITE} ELSE READS :
            call' = [call EXCEPT ![p] = IF call[p].pc = "woken" THEN [@ EXCEPT !.pc = "loop"]
                                        ELSE [pc |-> "loop", i |-> 0, n |-> n]]
      BY <2>1, Zenon DEF PipeEnter
    <3>2. n \in Nat
      BY PipeAssumption, Zenon
    <3>3. [call[p] EXCEPT !.pc = "loop"] \in CallType /\ [pc |-> "loop", i |-> 0, n |-> n] \in CallType
      BY <3>2, Zenon DEF PipeInv, CallType, PipePcs
    <3> QED
      BY <3>1, <3>3, Zenon DEF PipeInv
  <2>2. CASE ~ PipeEnter(p)
    <3>1. \/ call' = call
          \/ \E pc \in PipePcs : call' = Moved(p, pc)
          \/ \E pc \in PipePcs : \E side : call' = Wake(Moved(p, pc), side)
      <4>1. /\ "done" \in PipePcs /\ "nap" \in PipePcs /\ "sleep" \in PipePcs /\ "start" \in PipePcs
            /\ "closed" \in PipePcs /\ "woken" \in PipePcs
        BY Zenon DEF PipePcs
      <4>2. CASE WriteFails(p)
        BY <4>1, <4>2, Zenon DEF WriteFails
      <4>3. CASE WriteSleeps(p)
        BY <4>1, <4>3, Zenon DEF WriteSleeps
      <4>4. CASE WriteReturns(p)
        BY <4>1, <4>4, Zenon DEF WriteReturns
      <4>5. CASE ReadWaits(p)
        BY <4>1, <4>5, Zenon DEF ReadWaits
      <4>6. CASE \E copied \in BOOLEAN : ReadReturns(p, copied)
        <5>1. call' = Wake(Moved(p, IF call[p].i = 0 \/ p \in pkilled THEN "done" ELSE "start"), Writers)
          BY <4>6, Zenon DEF ReadReturns
        <5> QED
          BY <4>1, <5>1, Zenon
      <4>7. CASE pipeclose(p)
        BY <4>1, <4>7, Zenon DEF pipeclose
      <4>8. CASE PipeKill(p)
        BY <4>1, <4>8, Zenon DEF PipeKill
      <4>9. CASE PipeSleep(p)
        BY <4>1, <4>9, Zenon DEF PipeSleep
      <4> QED
        BY <2>2, <4>2, <4>3, <4>4, <4>5, <4>6, <4>7, <4>8, <4>9, Zenon
    <3> QED
      BY <3>1, CallTypes DEF PipeInv
  <2> QED
    BY <2>1, <2>2, Zenon
<1>2. queue' = queue
  BY Zenon DEF PipeEnter, WriteFails, WriteSleeps, WriteReturns, ReadWaits, ReadReturns, PipeSleep, pipeclose,
         PipeKill
<1>3. /\ pi' \in PipeType
      /\ pi'.data = pi.data /\ pi'.nread = pi.nread /\ pi'.nwrite = pi.nwrite
  <2>1. pi' = pi \/ pi' = [pi EXCEPT !.writeopen = FALSE] \/ pi' = [pi EXCEPT !.readopen = FALSE]
    BY Zenon DEF PipeEnter, WriteFails, WriteSleeps, WriteReturns, ReadWaits, ReadReturns, PipeSleep, pipeclose,
         PipeKill
  <2> QED
    BY <2>1, Zenon DEF PipeInv, PipeType
<1>4. StreamIntact'
  BY <1>2, <1>3, Zenon DEF PipeInv, StreamIntact
<1> QED
  BY <1>1, <1>3, <1>4, Zenon DEF PipeInv

\* pipealloc() establishes the invariant, and so does an empty pipe later.
LEMMA PipeStart ==
  ASSUME PipeInit
  PROVE  PipeInv
<1>1. PIPESIZE \in Nat \ {0} /\ UINT \in Nat \ {0} /\ PIPESIZE < UINT
  BY PipeAssumption
<1>2. PICK k \in {0, UINT - 1} :
        pi = [data |-> [i \in 0 .. PIPESIZE - 1 |-> <<>>], nread |-> k, nwrite |-> k,
              readopen |-> TRUE, writeopen |-> TRUE]
  BY Zenon DEF PipeInit
<1>3. k \in 0 .. UINT - 1
  BY <1>1
<1>4. pi \in PipeType
  BY <1>2, <1>3, Zenon DEF PipeType, Bytes
<1>5. (pi.nwrite - pi.nread) % UINT = 0
  <2>1. pi.nwrite - pi.nread = 0
    BY <1>2, <1>3
  <2>2. 0 % UINT = 0
    BY <1>1, ModSmall
  <2> QED
    BY <2>1, <2>2, Zenon
<1>6. StreamIntact
  <2>1. queue = <<>>
    BY Zenon DEF PipeInit
  <2>2. [j \in 1 .. 0 |-> pi.data[(pi.nread + j - 1) % PIPESIZE]] = <<>>
    OBVIOUS
  <2> QED
    BY <1>1, <1>5, <2>1, <2>2 DEF StreamIntact
<1>7. call \in [PipeUsers -> CallType]
  BY Zenon DEF PipeInit, CallType, PipePcs
<1> QED
  BY <1>4, <1>6, <1>7, Zenon DEF PipeInv

\* The pipe of kernel/pipe.c keeps the stream intact: the buffer holds what pipewrite()
\* stored and piperead() did not take, in order, for any number of readers and writers,
\* any size of the buffer and of the counters that are a multiple of it.
THEOREM PipeCorrect == PipeSpec => []StreamIntact
<1>1. PipeInit => PipeInv
  BY PipeStart, Zenon
<1>2. PipeInv /\ [PipeNext]_pipeVars => PipeInv'
  <2> SUFFICES ASSUME PipeInv, [PipeNext]_pipeVars PROVE PipeInv'
    OBVIOUS
  <2>1. CASE PipeNext
    <3>1. PICK p \in PipeUsers : PipeStep(p) \/ PipeKill(p)
      BY <2>1, Zenon DEF PipeNext
    <3> QED
      BY <3>1, WriteCopiesStep, ReadCopiesStep, PipeOtherStep, Zenon DEF PipeStep
  <2>2. CASE UNCHANGED pipeVars
    BY <2>2, Zenon DEF pipeVars, PipeInv, StreamIntact
  <2> QED
    BY <2>1, <2>2, Zenon
<1>3. PipeInv => StreamIntact
  BY Zenon DEF PipeInv
<1> QED
  BY <1>1, <1>2, <1>3, PTL DEF PipeSpec

-----------------------------------------------------------------------------
(* The console. *)

ConsType == [buf : [0 .. INPUT_BUF_SIZE - 1 -> Chars], r : 0 .. INDEX - 1, w : 0 .. INDEX - 1,
             e : 0 .. INDEX - 1]
ReadType == [pc : {"idle", "start", "loop", "sleep"}, n : Int, some : BOOLEAN]

\* Bytes of the lines that arrived, and of the line that is being edited.
Lines == Wrap(cons.w - cons.r)
Edits == Wrap(cons.e - cons.w)
InBuf(i, n) == Ring(cons.buf, i, n, INPUT_BUF_SIZE)

\* The inductive invariant: the two stretches follow each other and fit into the buffer,
\* and the second has no newline, so that ^U takes all of it.
ConsoleInv ==
  /\ cons \in ConsType /\ reading \in [LineReaders -> ReadType]
  /\ Lines + Edits <= INPUT_BUF_SIZE
  /\ Lines + Edits = INPUT_BUF_SIZE => Edits = 0
  /\ arrived = InBuf(cons.r, Lines) /\ editing = InBuf(cons.w, Edits)
  /\ \A k \in 1 .. Edits : editing[k] # "NL"
  /\ \A p \in LineReaders : reading[p].pc = "sleep" => Lines = 0

\* The sizes.
LEMMA ConsSizes ==
  /\ INPUT_BUF_SIZE \in Nat \ {0} /\ INDEX \in Nat \ {0} /\ INPUT_BUF_SIZE < INDEX
  /\ INDEX % INPUT_BUF_SIZE = 0
BY ConsoleAssumption

\* An index of the console's buffer may be taken modulo INDEX.
LEMMA ConsMod ==
  \A b \in [0 .. INPUT_BUF_SIZE - 1 -> Chars] : \A i \in Int : \A n \in Nat :
    Ring(b, i % INDEX, n, INPUT_BUF_SIZE) = Ring(b, i, n, INPUT_BUF_SIZE)
<1>1. \A V : \A b \in [0 .. INPUT_BUF_SIZE - 1 -> V] : \A i \in Int : \A n \in Nat :
        Ring(b, i % INDEX, n, INPUT_BUF_SIZE) = Ring(b, i, n, INPUT_BUF_SIZE)
  BY ConsSizes, RingMod, Zenon
<1> QED
  BY <1>1, Zenon

\* A character stored behind a stretch of the buffer makes it longer by that character.
LEMMA ConsStore ==
  \A b \in [0 .. INPUT_BUF_SIZE - 1 -> Chars] : \A d \in [0 .. INPUT_BUF_SIZE - 1 -> Chars] :
    \A i \in Int : \A n \in Nat : n < INPUT_BUF_SIZE => (Stored(b, d, (i + n) % INPUT_BUF_SIZE) =>
      Ring(d, i, n + 1, INPUT_BUF_SIZE) = Append(Ring(b, i, n, INPUT_BUF_SIZE), d[(i + n) % INPUT_BUF_SIZE]))
<1>1. \A V : \A b \in [0 .. INPUT_BUF_SIZE - 1 -> V] : \A d \in [0 .. INPUT_BUF_SIZE - 1 -> V] :
        \A i \in Int : \A n \in Nat : n < INPUT_BUF_SIZE => (Stored(b, d, (i + n) % INPUT_BUF_SIZE) =>
          Ring(d, i, n + 1, INPUT_BUF_SIZE) = Append(Ring(b, i, n, INPUT_BUF_SIZE), d[(i + n) % INPUT_BUF_SIZE]))
  BY ConsSizes, RingStore, Zenon
<1> QED
  BY <1>1, Zenon

\* It changes no stretch that ends before it.
LEMMA ConsKeep ==
  \A b \in [0 .. INPUT_BUF_SIZE - 1 -> Chars] : \A d \in [0 .. INPUT_BUF_SIZE - 1 -> Chars] :
    \A i \in Int : \A n \in Nat : \A m \in 0 .. n :
      n < INPUT_BUF_SIZE => (Stored(b, d, (i + n) % INPUT_BUF_SIZE) =>
        Ring(d, i, m, INPUT_BUF_SIZE) = Ring(b, i, m, INPUT_BUF_SIZE))
<1>1. \A V : \A b \in [0 .. INPUT_BUF_SIZE - 1 -> V] : \A d \in [0 .. INPUT_BUF_SIZE - 1 -> V] :
        \A i \in Int : \A n \in Nat : \A m \in 0 .. n :
          n < INPUT_BUF_SIZE => (Stored(b, d, (i + n) % INPUT_BUF_SIZE) =>
            Ring(d, i, m, INPUT_BUF_SIZE) = Ring(b, i, m, INPUT_BUF_SIZE))
  BY ConsSizes, RingKeep, Zenon
<1> QED
  BY <1>1, Zenon

\* The tail, the front and two neighbours of stretches of the buffer.
LEMMA ConsParts ==
  /\ \A b \in [0 .. INPUT_BUF_SIZE - 1 -> Chars] : \A i \in Int : \A n \in Nat :
       Ring(b, i, n, INPUT_BUF_SIZE) \in Seq(Chars)
  /\ \A b \in [0 .. INPUT_BUF_SIZE - 1 -> Chars] : \A i \in Int : \A n \in Nat \ {0} :
       /\ Ring(b, i + 1, n - 1, INPUT_BUF_SIZE) = Tail(Ring(b, i, n, INPUT_BUF_SIZE))
       /\ Ring(b, i, n - 1, INPUT_BUF_SIZE) = SubSeq(Ring(b, i, n, INPUT_BUF_SIZE), 1, n - 1)
  /\ \A b \in [0 .. INPUT_BUF_SIZE - 1 -> Chars] : \A i \in Int : \A n \in Nat : \A m \in Nat :
       Ring(b, i, n + m, INPUT_BUF_SIZE) = Ring(b, i, n, INPUT_BUF_SIZE) \o Ring(b, i + n, m, INPUT_BUF_SIZE)
<1>1. \A V : \A b \in [0 .. INPUT_BUF_SIZE - 1 -> V] : \A i \in Int : \A n \in Nat :
        Ring(b, i, n, INPUT_BUF_SIZE) \in Seq(V)
  BY ConsSizes, RingSeq, Zenon
<1>2. \A V : \A b \in [0 .. INPUT_BUF_SIZE - 1 -> V] : \A i \in Int : \A n \in Nat \ {0} :
        Ring(b, i + 1, n - 1, INPUT_BUF_SIZE) = Tail(Ring(b, i, n, INPUT_BUF_SIZE))
  BY ConsSizes, RingTail, Zenon
<1>3. \A V : \A b \in [0 .. INPUT_BUF_SIZE - 1 -> V] : \A i \in Int : \A n \in Nat \ {0} :
        Ring(b, i, n - 1, INPUT_BUF_SIZE) = SubSeq(Ring(b, i, n, INPUT_BUF_SIZE), 1, n - 1)
  BY ConsSizes, RingFront, Zenon
<1>4. \A V : \A b \in [0 .. INPUT_BUF_SIZE - 1 -> V] : \A i \in Int : \A n \in Nat : \A m \in Nat :
        Ring(b, i, n + m, INPUT_BUF_SIZE) = Ring(b, i, n, INPUT_BUF_SIZE) \o Ring(b, i + n, m, INPUT_BUF_SIZE)
  BY ConsSizes, RingCat, Zenon
<1> QED
  BY <1>1, <1>2, <1>3, <1>4, Zenon

\* The fields of cons and the ways between the indices.
LEMMA ConsFields ==
  ASSUME cons \in ConsType
  PROVE  /\ cons.buf \in [0 .. INPUT_BUF_SIZE - 1 -> Chars]
         /\ cons.r \in 0 .. INDEX - 1 /\ cons.w \in 0 .. INDEX - 1 /\ cons.e \in 0 .. INDEX - 1
         /\ Lines \in 0 .. INDEX - 1 /\ Edits \in 0 .. INDEX - 1
         /\ cons.w = (cons.r + Lines) % INDEX /\ cons.e = (cons.w + Edits) % INDEX
<1>1. /\ cons.buf \in [0 .. INPUT_BUF_SIZE - 1 -> Chars]
      /\ cons.r \in 0 .. INDEX - 1 /\ cons.w \in 0 .. INDEX - 1 /\ cons.e \in 0 .. INDEX - 1
  BY Zenon DEF ConsType
<1>2. Lines \in 0 .. INDEX - 1 /\ cons.w = (cons.r + Lines) % INDEX
  BY <1>1, ConsSizes, ModWay, ZenonT(60) DEF Lines, Wrap
<1>3. Edits \in 0 .. INDEX - 1 /\ cons.e = (cons.w + Edits) % INDEX
  BY <1>1, ConsSizes, ModWay, ZenonT(60) DEF Edits, Wrap
<1> QED
  BY <1>1, <1>2, <1>3, Zenon

\* A way of n places from place a, and k more.
LEMMA Further ==
  \A a \in 0 .. INDEX - 1 : \A n \in Int : \A k \in Int : (((a + n) % INDEX) + k) % INDEX = (a + (n + k)) % INDEX
<1> SUFFICES ASSUME NEW a \in 0 .. INDEX - 1, NEW n \in Int, NEW k \in Int
             PROVE  (((a + n) % INDEX) + k) % INDEX = (a + (n + k)) % INDEX
  BY Zenon
<1>1. a + n \in Int /\ (a + n) + k = a + (n + k)
  BY ConsSizes
<1>2. (((a + n) % INDEX) + k) % INDEX = ((a + n) + k) % INDEX
  BY <1>1, ConsSizes, ModAdd, Zenon
<1> QED
  BY <1>1, <1>2, Zenon

\* The way back.
LEMMA Way ==
  \A a \in 0 .. INDEX - 1 : \A k \in 0 .. INDEX - 1 :
    (a + k) % INDEX \in 0 .. INDEX - 1 /\ Wrap(((a + k) % INDEX) - a) = k
BY ConsSizes, ModBack, Zenon DEF Wrap

\* The place of e is that of the buffer's last byte and one.
LEMMA ConsEnd ==
  ASSUME cons \in ConsType, Lines + Edits <= INPUT_BUF_SIZE
  PROVE  /\ cons.e = (cons.r + (Lines + Edits)) % INDEX
         /\ Wrap(cons.e - cons.r) = Lines + Edits
         /\ Lines + Edits \in 0 .. INDEX - 1 /\ Lines \in Nat /\ Edits \in Nat
<1> DEFINE a == Lines
           b == Edits
           r == cons.r
           w == cons.w
           e == cons.e
<1>1. /\ r \in 0 .. INDEX - 1 /\ w \in 0 .. INDEX - 1 /\ e \in 0 .. INDEX - 1
      /\ a \in 0 .. INDEX - 1 /\ b \in 0 .. INDEX - 1
      /\ w = (r + a) % INDEX /\ e = (w + b) % INDEX
  BY ConsFields, Zenon
<1>2. a \in Nat /\ b \in Nat /\ a \in Int /\ b \in Int /\ a + b \in 0 .. INDEX - 1
  <2>1. a \in 0 .. INDEX - 1 /\ b \in 0 .. INDEX - 1 /\ a + b <= INPUT_BUF_SIZE
    BY <1>1, Zenon
  <2> HIDE DEF a, b
  <2> QED
    BY <2>1, ConsSizes
<1>3. (((r + a) % INDEX) + b) % INDEX = (r + (a + b)) % INDEX
  BY <1>1, <1>2, Further, Zenon
<1>4. e = (r + (a + b)) % INDEX
  BY <1>1, <1>3, Zenon
<1>5. Wrap(((r + (a + b)) % INDEX) - r) = a + b
  BY <1>1, <1>2, Way, Zenon
<1> QED
  BY <1>2, <1>4, <1>5, Zenon

\* A stretch of the buffer.
LEMMA SpanRing ==
  ASSUME cons \in ConsType
  PROVE  Span(cons.r, cons.w) = InBuf(cons.r, Lines) /\ Span(cons.w, cons.e) = InBuf(cons.w, Edits)
<1>1. ASSUME NEW i \in 0 .. INDEX - 1, NEW j \in 0 .. INDEX - 1
      PROVE  Span(i, j) = InBuf(i, Wrap(j - i))
  <2>1. Wrap(j - i) \in 0 .. INDEX - 1
    BY ConsSizes, ModWay, Zenon DEF Wrap
  <2>2. ASSUME NEW k \in 1 .. Wrap(j - i) PROVE Char(Wrap(i + k - 1)) = cons.buf[(i + k - 1) % INPUT_BUF_SIZE]
    <3>1. i + k - 1 \in Int
      <4> HIDE DEF Wrap
      <4> QED
        BY <2>1, ConsSizes
    <3>2. ((i + k - 1) % INDEX) % INPUT_BUF_SIZE = (i + k - 1) % INPUT_BUF_SIZE
      BY <3>1, ConsSizes, ModMod, Zenon
    <3> QED
      BY <3>2, Zenon DEF Char, Wrap
  <2> QED
    BY <2>2, Zenon DEF Span, InBuf, Ring
<1> QED
  BY <1>1, ConsFields, Zenon DEF Lines, Edits

\* The bytes that arrived and that are being edited.
LEMMA LinesTyped ==
  ASSUME ConsoleInv
  PROVE  arrived \in Seq(Chars) /\ editing \in Seq(Chars) /\ Len(editing) = Edits
<1>1. cons.buf \in [0 .. INPUT_BUF_SIZE - 1 -> Chars] /\ cons.r \in Int /\ cons.w \in Int
  BY ConsFields DEF ConsoleInv
<1>2. Lines \in Nat /\ Edits \in Nat
  BY ConsEnd, Zenon DEF ConsoleInv
<1>3. \A b \in [0 .. INPUT_BUF_SIZE - 1 -> Chars] : \A i \in Int : \A n \in Nat :
        Ring(b, i, n, INPUT_BUF_SIZE) \in Seq(Chars)
  BY ConsParts, Zenon
<1>4. arrived \in Seq(Chars) /\ editing \in Seq(Chars)
  BY <1>1, <1>2, <1>3, Zenon DEF ConsoleInv, InBuf
<1>5. Len(editing) = Edits
  BY <1>2, RingAt DEF ConsoleInv, InBuf
<1> QED
  BY <1>4, <1>5, Zenon

\* The invariant implies what the console promises.
LEMMA InvLines ==
  ASSUME ConsoleInv
  PROVE  LinesIntact
<1>1. Span(cons.r, cons.w) = arrived /\ Span(cons.w, cons.e) = editing
  BY SpanRing, Zenon DEF ConsoleInv
<1>2. Lines \in Nat /\ Edits \in Nat /\ Wrap(cons.e - cons.r) = Lines + Edits
  BY ConsEnd, Zenon DEF ConsoleInv
<1>3. Edits = 0 => editing = <<>>
  <2> HIDE DEF Edits
  <2> QED
    BY DEF ConsoleInv, InBuf, Ring
<1>4. Lines = 0 => arrived = <<>>
  BY DEF ConsoleInv, InBuf, Ring
<1> QED
  BY <1>1, <1>2, <1>3, <1>4, Zenon DEF LinesIntact, ConsoleInv

\* ^U takes back the whole line: nothing in it is a newline.
LEMMA EraseAll ==
  ASSUME ConsoleInv
  PROVE  Max(Erasable) = Edits
<1> DEFINE b == Edits
           w == cons.w
           e == cons.e
<1>1. /\ w \in 0 .. INDEX - 1 /\ b \in 0 .. INDEX - 1 /\ e = (w + b) % INDEX /\ b \in Nat
      /\ cons.buf \in [0 .. INPUT_BUF_SIZE - 1 -> Chars]
  BY ConsFields, ConsEnd, Zenon DEF ConsoleInv
<1>2. ASSUME NEW j \in 1 .. b PROVE Char(Wrap(e - j)) # "NL"
  <2> HIDE DEF b, w, e
  <2>1. /\ b \in Int /\ 0 - j \in Int /\ b + (0 - j) = (b - j + 1) - 1 /\ b - j + 1 \in 1 .. b
        /\ w + (b + (0 - j)) \in Int /\ w + (b + (0 - j)) = w + (b - j + 1) - 1
    BY <1>1
  <2>2. (e + (0 - j)) % INDEX = (w + (b + (0 - j))) % INDEX
    <3>1. (((w + b) % INDEX) + (0 - j)) % INDEX = (w + (b + (0 - j))) % INDEX
      BY <1>1, <2>1, Further, Zenon
    <3> QED
      BY <1>1, <3>1, Zenon
  <2>3. e + (0 - j) = e - j
    <3>1. e \in Int
      BY ConsFields DEF ConsoleInv, e
    <3> QED
      BY <3>1
  <2>4. ((w + (b + (0 - j))) % INDEX) % INPUT_BUF_SIZE = (w + (b + (0 - j))) % INPUT_BUF_SIZE
    BY <2>1, ConsSizes, ModMod, Zenon
  <2>5. Char(Wrap(e - j)) = cons.buf[(w + (b - j + 1) - 1) % INPUT_BUF_SIZE]
    BY <2>1, <2>2, <2>3, <2>4, Zenon DEF Char, Wrap
  <2>6. editing[b - j + 1] = cons.buf[(w + (b - j + 1) - 1) % INPUT_BUF_SIZE]
    <3>1. editing = Ring(cons.buf, w, b, INPUT_BUF_SIZE)
      BY Zenon DEF ConsoleInv, InBuf, b, w
    <3> QED
      BY <1>1, <2>1, <3>1, RingAt
  <2>7. editing[b - j + 1] # "NL"
    BY <2>1, Zenon DEF ConsoleInv, b
  <2> QED
    BY <2>5, <2>6, <2>7, Zenon
<1>3. Erasable \subseteq 0 .. b /\ b \in Erasable
  <2>1. b \in 0 .. Wrap(e - w)
    BY <1>1 DEF Edits
  <2> QED
    BY <1>2, <2>1, Zenon DEF Erasable, Edits
<1>4. \A y \in Erasable : b >= y
  BY <1>1, <1>3
<1>5. ASSUME NEW x \in Erasable, \A y \in Erasable : x >= y PROVE x = b
  BY <1>1, <1>3, <1>4, <1>5
<1> HIDE DEF b
<1>6. Max(Erasable) = b
  BY <1>3, <1>4, <1>5, Zenon DEF Max
<1> QED
  BY <1>6, Zenon DEF b

\* consoleintr() takes back k bytes of the line: the fields and the ways after it.
LEMMA EraseMoves ==
  ASSUME ConsoleInv, NEW k \in 0 .. Edits, cons' = [cons EXCEPT !.e = Wrap(@ - k)]
  PROVE  /\ cons' \in ConsType
         /\ cons'.buf = cons.buf /\ cons'.r = cons.r /\ cons'.w = cons.w
         /\ Lines' = Lines /\ Edits' = Edits - k
<1> DEFINE b == Edits
           w == cons.w
           e == cons.e
<1>1. /\ w \in 0 .. INDEX - 1 /\ b \in 0 .. INDEX - 1 /\ e = (w + b) % INDEX /\ b \in Nat /\ e \in 0 .. INDEX - 1
  BY ConsFields, ConsEnd, Zenon DEF ConsoleInv
<1>2. Wrap(e - k) = (w + (b - k)) % INDEX
  <2>1. b \in Int /\ 0 - k \in Int /\ b + (0 - k) = b - k /\ e + (0 - k) = e - k
    <3> HIDE DEF b, e
    <3> QED
      BY <1>1, ConsSizes DEF b
  <2>2. (((w + b) % INDEX) + (0 - k)) % INDEX = (w + (b + (0 - k))) % INDEX
    BY <1>1, <2>1, Further, Zenon
  <2> QED
    BY <1>1, <2>1, <2>2, Zenon DEF Wrap
<1>3. b - k \in 0 .. INDEX - 1
  <2> HIDE DEF b
  <2> QED
    BY <1>1, ConsSizes DEF b
<1>4. (w + (b - k)) % INDEX \in 0 .. INDEX - 1 /\ Wrap(((w + (b - k)) % INDEX) - w) = b - k
  BY <1>1, <1>3, Way, Zenon
<1> DEFINE f == Wrap(e - k)
<1>5. f \in 0 .. INDEX - 1 /\ Wrap(f - w) = b - k
  BY <1>2, <1>4, Zenon
<1>6. /\ cons'.buf = cons.buf /\ cons'.r = cons.r /\ cons'.w = cons.w /\ cons'.e = f
      /\ cons' = [cons EXCEPT !.e = f]
  BY Zenon DEF ConsoleInv, ConsType
<1> HIDE DEF f
<1>7. cons' \in ConsType
  BY <1>5, <1>6, Zenon DEF ConsoleInv, ConsType
<1>8. Lines' = Lines
  BY <1>6, Zenon DEF Lines, Wrap
<1>9. Edits' = Wrap(f - w)
  BY <1>6, Zenon DEF Edits, Wrap
<1> QED
  BY <1>5, <1>6, <1>7, <1>8, <1>9, Zenon

\* ^U and ^H keep the invariant.
LEMMA EraseStep ==
  ASSUME ConsoleInv, NEW c \in Chars, Erase(c)
  PROVE  ConsoleInv'
<1> DEFINE k == IF c = "U" THEN Edits ELSE IF cons.e = cons.w THEN 0 ELSE 1
           a == Lines
           b == Edits
           R(n) == Ring(cons.buf, cons.w, n, INPUT_BUF_SIZE)
<1>1. /\ a \in Nat /\ b \in Nat /\ a + b <= INPUT_BUF_SIZE /\ (a + b = INPUT_BUF_SIZE => b = 0)
      /\ cons.buf \in [0 .. INPUT_BUF_SIZE - 1 -> Chars] /\ cons.w \in Int
      /\ editing = R(b)
  BY ConsEnd, ConsFields DEF ConsoleInv, InBuf
<1>2. cons.e = cons.w <=> b = 0
  <2>0. cons.w \in 0 .. INDEX - 1 /\ cons.e = (cons.w + b) % INDEX
    BY ConsFields, Zenon DEF ConsoleInv
  <2>1. ASSUME cons.e = cons.w PROVE b = 0
    <3>1. cons.w - cons.w = 0 /\ 0 % INDEX = 0
      BY <2>0, ConsSizes, ModSmall
    <3> QED
      BY <2>1, <3>1, Zenon DEF Edits, Wrap
  <2>2. ASSUME b = 0 PROVE cons.e = cons.w
    <3>1. cons.w + 0 = cons.w /\ cons.w % INDEX = cons.w
      BY <2>0, ConsSizes, ModSmall
    <3> QED
      BY <2>0, <2>2, <3>1, Zenon
  <2> QED
    BY <2>1, <2>2, Zenon
<1>3. k \in 0 .. Edits /\ b - k \in Nat
  <2> HIDE DEF b
  <2>1. Edits = b
    BY Zenon DEF b
  <2> QED
    BY <1>1, <1>2, <2>1
<1>4. cons' = [cons EXCEPT !.e = Wrap(@ - k)]
  BY EraseAll, Zenon DEF Erase
<1> HIDE DEF k
<1>5. /\ cons' \in ConsType
      /\ cons'.buf = cons.buf /\ cons'.r = cons.r /\ cons'.w = cons.w
      /\ Lines' = Lines /\ Edits' = Edits - k
  BY <1>3, <1>4, EraseMoves, Zenon
<1>6. editing' = R(b - k)
  <2>1. CASE c = "U"
    <3>1. b - k = 0 /\ editing' = <<>>
      BY <1>1, <2>1 DEF k, Erase
    <3> QED
      BY <3>1 DEF Ring
  <2>2. CASE c # "U" /\ b = 0
    <3>0. R(0) = <<>>
      BY DEF Ring
    <3>1. k = 0 /\ b - k = 0 /\ editing = <<>>
      <4>1. k = 0
        BY <1>2, <2>2, Zenon DEF k
      <4>2. editing = <<>>
        BY <1>1, <2>2, <3>0, Zenon
      <4> QED
        BY <2>2, <4>1, <4>2
    <3>2. editing' = SubSeq(editing, 1, Len(editing) - 1)
      BY <2>2, Zenon DEF Erase
    <3>3. SubSeq(<<>>, 1, Len(<<>>) - 1) = <<>>
      OBVIOUS
    <3> QED
      BY <3>1, <3>2, <3>3 DEF Ring
  <2>3. CASE c # "U" /\ b # 0
    <3>1. k = 1 /\ b \in Nat \ {0} /\ Len(editing) = b
      BY <1>1, <1>2, <2>3, RingAt DEF k
    <3>2. editing' = SubSeq(editing, 1, Len(editing) - 1)
      BY <2>3, Zenon DEF Erase
    <3>3. R(b - 1) = SubSeq(R(b), 1, b - 1)
      <4>1. b \in Nat \ {0}
        BY <3>1, Zenon
      <4> QED
        BY <1>1, <4>1, ConsParts, Zenon
    <3> QED
      BY <1>1, <3>1, <3>2, <3>3, Zenon
  <2> QED
    BY <2>1, <2>2, <2>3, Zenon
<1>7. \A j \in 1 .. b - k : editing'[j] # "NL"
  <2> TAKE j \in 1 .. b - k
  <2>1. j \in 1 .. b
    <3>1. k \in 0 .. b
      BY <1>3, Zenon
    <3> HIDE DEF b
    <3> QED
      BY <1>1, <3>1
  <2>2. editing'[j] = editing[j]
    <3>1. R(b - k)[j] = cons.buf[(cons.w + j - 1) % INPUT_BUF_SIZE] /\ R(b)[j] = cons.buf[(cons.w + j - 1) % INPUT_BUF_SIZE]
      BY <2>1, Zenon DEF Ring
    <3> QED
      BY <1>1, <1>6, <3>1, Zenon
  <2> QED
    BY <2>1, <2>2, Zenon DEF ConsoleInv
<1>8. Lines' + Edits' <= INPUT_BUF_SIZE /\ (Lines' + Edits' = INPUT_BUF_SIZE => Edits' = 0)
  <2>1. Lines' = a /\ Edits' = b - k /\ k \in 0 .. b
    BY <1>3, <1>5, Zenon
  <2> HIDE DEF a, b
  <2> QED
    BY <1>1, <2>1, ConsSizes
<1>9. arrived' = InBuf(cons.r, Lines)' /\ editing' = InBuf(cons.w, Edits)'
  <2>1. arrived' = Ring(cons.buf, cons.r, Lines, INPUT_BUF_SIZE)
    BY Zenon DEF Erase, ConsoleInv, InBuf
  <2> QED
    BY <1>5, <1>6, <2>1, Zenon DEF InBuf
<1>10. reading' = reading
  BY Zenon DEF Erase
<1> QED
  BY <1>5, <1>7, <1>8, <1>9, <1>10, Zenon DEF ConsoleInv

\* consoleintr() stores a byte behind the last one: the buffer after it.
LEMMA StoreBuf ==
  ASSUME ConsoleInv, NEW c \in Chars, Store(c)
  PROVE  /\ Lines + Edits < INPUT_BUF_SIZE /\ Lines \in Nat /\ Edits \in Nat
         /\ cons'.buf \in [0 .. INPUT_BUF_SIZE - 1 -> Chars]
         /\ Ring(cons'.buf, cons.r, Lines, INPUT_BUF_SIZE) = arrived
         /\ Ring(cons'.buf, cons.w, Edits + 1, INPUT_BUF_SIZE) = Append(editing, c)
         /\ Ring(cons'.buf, cons.r, (Lines + Edits) + 1, INPUT_BUF_SIZE) = Append(arrived \o editing, c)
<1> DEFINE a == Lines
           b == Edits
           n == a + b
           S == INPUT_BUF_SIZE
           buf == cons.buf
           r == cons.r
           w == cons.w
           d == [buf EXCEPT ![cons.e % S] = c]
<1>1. /\ a \in Nat /\ b \in Nat /\ n < S /\ n \in Nat /\ r \in Int /\ w \in Int
      /\ r \in 0 .. INDEX - 1 /\ w \in 0 .. INDEX - 1 /\ w = (r + a) % INDEX
      /\ cons.e = (r + n) % INDEX /\ cons.e = (w + b) % INDEX
      /\ buf \in [0 .. S - 1 -> Chars] /\ S \in Nat \ {0}
  <2>1. /\ a \in Nat /\ b \in Nat /\ cons.e = (r + n) % INDEX /\ Wrap(cons.e - r) = n
    BY ConsEnd, Zenon DEF ConsoleInv
  <2>2. /\ r \in 0 .. INDEX - 1 /\ w \in 0 .. INDEX - 1 /\ w = (r + a) % INDEX
        /\ cons.e = (w + b) % INDEX /\ buf \in [0 .. S - 1 -> Chars]
    BY ConsFields, Zenon DEF ConsoleInv
  <2>3. n < S
    BY <2>1, Zenon DEF Store
  <2>4. n \in Nat /\ r \in Int /\ w \in Int
    <3>1. a \in Nat /\ b \in Nat /\ r \in 0 .. INDEX - 1 /\ w \in 0 .. INDEX - 1
      BY <2>1, <2>2, Zenon
    <3> HIDE DEF a, b, r, w
    <3> QED
      BY <3>1, ConsSizes
  <2> QED
    BY <2>1, <2>2, <2>3, <2>4, ConsSizes, Zenon
<1>1a. buf \in [0 .. S - 1 -> Chars]
  BY <1>1, Zenon
<1>1b. r \in Int
  BY <1>1, Zenon
<1>1c. w \in Int
  BY <1>1, Zenon
<1>1d. n \in Nat
  BY <1>1, Zenon
<1>1e. a \in Nat
  BY <1>1, Zenon
<1>1f. b \in Nat
  BY <1>1, Zenon
<1>2. cons'.buf = d
  BY Zenon DEF Store, ConsoleInv, ConsType
<1>3. cons.e % S = (r + n) % S /\ cons.e % S = (w + b) % S
  <2>1. r + n \in Int /\ w + b \in Int
    <3> HIDE DEF a, b, n, r, w
    <3> QED
      BY <1>1
  <2>2. ((r + n) % INDEX) % S = (r + n) % S
    BY <2>1, ConsSizes, ModMod, Zenon
  <2>3. ((w + b) % INDEX) % S = (w + b) % S
    BY <2>1, ConsSizes, ModMod, Zenon
  <2> QED
    BY <1>1, <2>2, <2>3, Zenon
<1>4. cons.e % S \in 0 .. S - 1
  <2>1. cons.e \in Int
    BY ConsFields DEF ConsoleInv
  <2> QED
    BY <1>1, <2>1, ModDiv, Zenon
<1>5. /\ d \in [0 .. S - 1 -> Chars] /\ d[cons.e % S] = c
      /\ Stored(buf, d, (r + n) % S) /\ Stored(buf, d, (w + b) % S)
  <2>1. d \in [0 .. S - 1 -> Chars] /\ d[cons.e % S] = c /\ Stored(buf, d, cons.e % S)
    <3> HIDE DEF S, buf
    <3> QED
      BY <1>1, <1>4, Zenon DEF Stored
  <2> QED
    BY <1>3, <2>1, Zenon
<1>6. b < S /\ a \in 0 .. n
  <2> HIDE DEF a, b, S
  <2> QED
    BY <1>1
<1> HIDE DEF d
<1>7. Ring(d, r, a, S) = arrived
  <2>1. Ring(d, r, a, S) = Ring(buf, r, a, S)
    <3>1. \A m \in 0 .. n : n < S => (Stored(buf, d, (r + n) % S) => Ring(d, r, m, S) = Ring(buf, r, m, S))
      <4>1. d \in [0 .. S - 1 -> Chars]
        BY <1>5, Zenon
      <4> QED
        BY <1>1a, <1>1b, <1>1d, <4>1, ConsKeep, Zenon
    <3> QED
      BY <1>1, <1>5, <1>6, <3>1, Zenon
  <2> QED
    BY <2>1, Zenon DEF ConsoleInv, InBuf
<1>8. Ring(d, w, b + 1, S) = Append(editing, c)
  <2>1. Ring(d, w, b + 1, S) = Append(Ring(buf, w, b, S), d[(w + b) % S])
    <3>1. b < S => (Stored(buf, d, (w + b) % S) => Ring(d, w, b + 1, S) = Append(Ring(buf, w, b, S), d[(w + b) % S]))
      <4>1. d \in [0 .. S - 1 -> Chars]
        BY <1>5, Zenon
      <4> QED
        BY <1>1a, <1>1c, <1>1f, <4>1, ConsStore, Zenon
    <3> QED
      BY <1>5, <1>6, <3>1, Zenon
  <2>2. d[(w + b) % S] = c
    BY <1>3, <1>5, Zenon
  <2> QED
    BY <2>1, <2>2, Zenon DEF ConsoleInv, InBuf
<1>9. Ring(d, r, n + 1, S) = Append(Ring(buf, r, n, S), c)
  <2>1. n < S => (Stored(buf, d, (r + n) % S) => Ring(d, r, n + 1, S) = Append(Ring(buf, r, n, S), d[(r + n) % S]))
    <3>1. d \in [0 .. S - 1 -> Chars]
      BY <1>5, Zenon
    <3> QED
      BY <1>1a, <1>1b, <1>1d, <3>1, ConsStore, Zenon
  <2>2. d[(r + n) % S] = c
    BY <1>3, <1>5, Zenon
  <2> QED
    BY <1>1, <1>5, <2>1, <2>2, Zenon
<1>10. Ring(buf, r, n, S) = arrived \o editing
  <2>1. Ring(buf, r, a + b, S) = Ring(buf, r, a, S) \o Ring(buf, r + a, b, S)
    <3>1. \A k \in [0 .. INPUT_BUF_SIZE - 1 -> Chars] : \A i \in Int : \A l \in Nat : \A m \in Nat :
            Ring(k, i, l + m, INPUT_BUF_SIZE) = Ring(k, i, l, INPUT_BUF_SIZE) \o Ring(k, i + l, m, INPUT_BUF_SIZE)
      BY ConsParts, Zenon
    <3> QED
      BY <1>1a, <1>1b, <1>1e, <1>1f, <3>1, Zenon
  <2>2. Ring(buf, (r + a) % INDEX, b, S) = Ring(buf, r + a, b, S)
    <3>1. r + a \in Int
      BY <1>1
    <3> QED
      BY <1>1, <3>1, ConsMod, Zenon
  <2>3. editing = Ring(buf, w, b, S) /\ arrived = Ring(buf, r, a, S)
    BY Zenon DEF ConsoleInv, InBuf
  <2> QED
    BY <1>1, <2>1, <2>2, <2>3, Zenon
<1> QED
  BY <1>1, <1>2, <1>5, <1>7, <1>8, <1>9, <1>10, Zenon

\* Another character keeps the invariant.
LEMMA StoreStep ==
  ASSUME ConsoleInv, NEW c \in Chars, Store(c)
  PROVE  ConsoleInv'
<1> DEFINE a == Lines
           b == Edits
           n == a + b
           r == cons.r
           w == cons.w
           f == Wrap(cons.e + 1)
           R(i, k) == Ring(cons'.buf, i, k, INPUT_BUF_SIZE)
<1>1. /\ n < INPUT_BUF_SIZE /\ a \in Nat /\ b \in Nat
      /\ cons'.buf \in [0 .. INPUT_BUF_SIZE - 1 -> Chars]
      /\ R(r, a) = arrived /\ R(w, b + 1) = Append(editing, c) /\ R(r, n + 1) = Append(arrived \o editing, c)
  BY StoreBuf, Zenon
<1>2. /\ r \in 0 .. INDEX - 1 /\ w \in 0 .. INDEX - 1 /\ w = (r + a) % INDEX
      /\ cons.e = (r + n) % INDEX /\ cons.e = (w + b) % INDEX
  BY ConsFields, ConsEnd, Zenon DEF ConsoleInv
<1>3. a \in Int /\ b \in Int /\ n \in Int /\ n + 1 \in 0 .. INDEX - 1 /\ b + 1 \in 0 .. INDEX - 1 /\ 0 \in 0 .. INDEX - 1
      /\ n + 1 <= INPUT_BUF_SIZE
  <2> HIDE DEF a, b
  <2> QED
    BY <1>1, ConsSizes
<1>4. f = (r + (n + 1)) % INDEX /\ f = (w + (b + 1)) % INDEX
  <2>0. 1 \in Int
    OBVIOUS
  <2>1. (((r + n) % INDEX) + 1) % INDEX = (r + (n + 1)) % INDEX
    BY <1>2, <1>3, <2>0, Further, Zenon
  <2>2. (((w + b) % INDEX) + 1) % INDEX = (w + (b + 1)) % INDEX
    BY <1>2, <1>3, <2>0, Further, Zenon
  <2> QED
    BY <1>2, <2>1, <2>2, Zenon DEF Wrap
<1>5. f \in 0 .. INDEX - 1 /\ Wrap(f - r) = n + 1 /\ Wrap(f - w) = b + 1
  BY <1>2, <1>3, <1>4, Way, ZenonT(60)
<1>6. Wrap(f - f) = 0
  <2>1. f - f = 0 /\ 0 % INDEX = 0
    <3> HIDE DEF f
    <3> QED
      BY <1>5, ConsSizes, ModSmall
  <2> QED
    BY <2>1, Zenon DEF Wrap
<1>7. cons'.r = r /\ cons'.e = f /\ cons'.w = IF EndsLine(c, f) THEN f ELSE w
  BY Zenon DEF Store, ConsoleInv, ConsType
<1>8. cons' \in ConsType
  <2>1. cons' = [cons EXCEPT !.buf = cons'.buf, !.e = cons'.e, !.w = cons'.w]
    BY Zenon DEF Store, ConsoleInv, ConsType
  <2>2. cons'.w \in 0 .. INDEX - 1 /\ cons'.e \in 0 .. INDEX - 1
    BY <1>2, <1>5, <1>7, Zenon
  <2> QED
    BY <1>1, <2>1, <2>2, Zenon DEF ConsoleInv, ConsType
<1>9. CASE EndsLine(c, f)
  <2>1. Lines' = n + 1 /\ Edits' = 0
    BY <1>5, <1>6, <1>7, <1>9, Zenon DEF Lines, Edits, Wrap
  <2>2. arrived' = R(r, n + 1)
    <3>1. arrived' = (arrived \o editing) \o <<c>>
      BY <1>9, Zenon DEF Store
    <3>2. arrived \in Seq(Chars) /\ editing \in Seq(Chars)
      BY LinesTyped, Zenon
    <3>3. (arrived \o editing) \o <<c>> = Append(arrived \o editing, c)
      BY <3>2
    <3> QED
      BY <1>1, <3>1, <3>3, Zenon
  <2>3. editing' = <<>>
    BY <1>9, Zenon DEF Store
  <2>4. arrived' = InBuf(cons.r, Lines)' /\ editing' = InBuf(cons.w, Edits)'
    <3>1. Ring(cons'.buf, cons'.w, 0, INPUT_BUF_SIZE) = <<>>
      BY DEF Ring
    <3> QED
      BY <1>7, <2>1, <2>2, <2>3, <3>1, Zenon DEF InBuf
  <2>5. reading' \in [LineReaders -> ReadType] /\ \A p \in LineReaders : reading'[p].pc # "sleep"
    <3>1. reading' = [p \in LineReaders |->
             IF reading[p].pc = "sleep" THEN [reading[p] EXCEPT !.pc = "start"] ELSE reading[p]]
      BY <1>9, Zenon DEF Store
    <3>2. ASSUME NEW p \in LineReaders
          PROVE  reading'[p] \in ReadType /\ reading'[p].pc # "sleep"
      BY <3>1, Zenon DEF ConsoleInv, ReadType
    <3> QED
      BY <3>1, <3>2, Zenon
  <2>6. Lines' + Edits' <= INPUT_BUF_SIZE
    <3> HIDE DEF a, b
    <3> QED
      BY <1>1, <1>3, <2>1
  <2>7. \A k \in 1 .. Edits' : editing'[k] # "NL"
    BY <2>1
  <2> QED
    BY <1>8, <2>1, <2>4, <2>5, <2>6, <2>7, Zenon DEF ConsoleInv
<1>10. CASE ~ EndsLine(c, f)
  <2>1. Lines' = a /\ Edits' = b + 1
    BY <1>5, <1>7, <1>10, Zenon DEF Lines, Edits, Wrap
  <2>2. c # "NL" /\ n + 1 # INPUT_BUF_SIZE
    BY <1>5, <1>10, Zenon DEF EndsLine
  <2>3. arrived' = arrived /\ editing' = Append(editing, c) /\ reading' = reading
    BY <1>10, Zenon DEF Store
  <2>4. arrived' = InBuf(cons.r, Lines)' /\ editing' = InBuf(cons.w, Edits)'
    BY <1>1, <1>7, <1>10, <2>1, <2>3, Zenon DEF InBuf
  <2>5. Lines' + Edits' <= INPUT_BUF_SIZE /\ Lines' + Edits' # INPUT_BUF_SIZE
    <3> HIDE DEF a, b
    <3> QED
      BY <1>1, <2>1, <2>2, ConsSizes
  <2>6. \A k \in 1 .. Edits' : editing'[k] # "NL"
    <3> TAKE k \in 1 .. Edits'
    <3>1. editing \in Seq(Chars) /\ Len(editing) = b
      BY LinesTyped, Zenon
    <3>2. \A j \in 1 .. b : editing[j] # "NL"
      BY Zenon DEF ConsoleInv
    <3> HIDE DEF b
    <3>3. k \in 1 .. b \/ k = b + 1
      BY <1>1, <2>1
    <3> QED
      BY <2>2, <2>3, <3>1, <3>2, <3>3
  <2> QED
    BY <1>8, <2>1, <2>3, <2>4, <2>5, <2>6, Zenon DEF ConsoleInv
<1> QED
  BY <1>9, <1>10, Zenon

\* consoleread() keeps the invariant when it takes a character or puts ^D back.
LEMMA ReadCharStep ==
  ASSUME ConsoleInv, NEW p \in LineReaders, NEW copied \in BOOLEAN, ReadChar(p, copied)
  PROVE  ConsoleInv'
<1> DEFINE a == Lines
           b == Edits
           r == cons.r
           s == Wrap(cons.r + 1)
           w == cons.w
<1>1. /\ a \in Nat /\ b \in Nat /\ a + b <= INPUT_BUF_SIZE /\ (a + b = INPUT_BUF_SIZE => b = 0)
      /\ cons.buf \in [0 .. INPUT_BUF_SIZE - 1 -> Chars] /\ r \in 0 .. INDEX - 1 /\ w \in 0 .. INDEX - 1
      /\ a \in 0 .. INDEX - 1 /\ w = (r + a) % INDEX
  BY ConsEnd, ConsFields, Zenon DEF ConsoleInv
<1>2. a # 0
  <2>1. ASSUME a = 0 PROVE r = w
    <3>1. r + 0 = r /\ r % INDEX = r
      <4>1. r \in 0 .. INDEX - 1
        BY <1>1, Zenon
      <4> HIDE DEF r
      <4> QED
        BY <4>1, ConsSizes, ModSmall
    <3> QED
      BY <1>1, <2>1, <3>1, Zenon
  <2> QED
    BY <2>1, Zenon DEF ReadChar
<1>3. \A q \in LineReaders : reading[q].pc # "sleep"
  BY <1>2, Zenon DEF ConsoleInv
<1>4. reading' \in [LineReaders -> ReadType] /\ \A q \in LineReaders : reading'[q].pc # "sleep"
  <2>1. PICK end \in BOOLEAN :
          reading' = [reading EXCEPT ![p] =
                        IF end THEN EndRead ELSE [reading[p] EXCEPT !.n = reading[p].n - 1, !.some = TRUE]]
    <3> DEFINE e == Char(cons.r) \in {"D", "NL"} \/ ~ copied \/ reading[p].n = 1
    <3>1. reading' = [reading EXCEPT ![p] =
                        IF e THEN EndRead ELSE [reading[p] EXCEPT !.n = reading[p].n - 1, !.some = TRUE]]
      BY Zenon DEF ReadChar
    <3>2. e \in BOOLEAN
      OBVIOUS
    <3> HIDE DEF e
    <3> QED
      BY <3>1, <3>2, Zenon
  <2>2. EndRead \in ReadType /\ EndRead.pc # "sleep"
    BY DEF EndRead, ReadType
  <2>3. /\ [reading[p] EXCEPT !.n = reading[p].n - 1, !.some = TRUE] \in ReadType
        /\ [reading[p] EXCEPT !.n = reading[p].n - 1, !.some = TRUE].pc # "sleep"
    <3>1. reading[p].n - 1 \in Int
      BY DEF ConsoleInv, ReadType
    <3> QED
      BY <1>3, <3>1, Zenon DEF ConsoleInv, ReadType
  <2> QED
    BY <1>3, <2>1, <2>2, <2>3, Zenon DEF ConsoleInv
<1>5. editing' = editing
  BY Zenon DEF ReadChar
<1>6. CASE cons' = cons /\ arrived' = arrived
  <2>1. Lines' = Lines /\ Edits' = Edits
    BY <1>6, Zenon DEF Lines, Edits
  <2> QED
    BY <1>4, <1>5, <1>6, <2>1, Zenon DEF ConsoleInv, InBuf
<1>7. CASE cons' = [cons EXCEPT !.r = Wrap(@ + 1)] /\ arrived' = Tail(arrived)
  <2>1. /\ a \in Nat \ {0} /\ a - 1 \in Nat /\ a - 1 \in 0 .. INDEX - 1 /\ a - 1 \in Int /\ 1 \in Int /\ r + 1 \in Int /\ r \in Int
    <3> HIDE DEF a, r
    <3> QED
      BY <1>1, <1>2, ConsSizes
  <2>2. s \in 0 .. INDEX - 1
    BY <2>1, ConsSizes, ModDiv, Zenon DEF Wrap
  <2>3. w = (s + (a - 1)) % INDEX
    <3>1. (((r + 1) % INDEX) + (a - 1)) % INDEX = (r + (1 + (a - 1))) % INDEX
      BY <1>1, <2>1, Further, Zenon
    <3>2. 1 + (a - 1) = a
      <4> HIDE DEF a
      <4> QED
        BY <2>1
    <3> QED
      BY <1>1, <3>1, <3>2, Zenon DEF Wrap
  <2>4. Wrap(w - s) = a - 1
    <3>1. a - 1 \in 0 .. INDEX - 1
      BY <2>1, Zenon
    <3>2. Wrap(((s + (a - 1)) % INDEX) - s) = a - 1
      <4> HIDE DEF s, a
      <4> QED
        BY <2>2, <3>1, Way, Zenon
    <3> QED
      BY <2>3, <3>2, Zenon
  <2>5. /\ cons'.buf = cons.buf /\ cons'.r = s /\ cons'.w = w /\ cons'.e = cons.e
        /\ cons' = [cons EXCEPT !.r = s]
    BY <1>7, Zenon DEF ConsoleInv, ConsType
  <2>6. cons' \in ConsType
    <3> HIDE DEF s
    <3> QED
      BY <2>2, <2>5, Zenon DEF ConsoleInv, ConsType
  <2>7. Lines' = a - 1 /\ Edits' = b
    BY <2>4, <2>5, Zenon DEF Lines, Edits, Wrap
  <2>8. arrived' = Ring(cons.buf, s, a - 1, INPUT_BUF_SIZE)
    <3>1. Ring(cons.buf, (r + 1) % INDEX, a - 1, INPUT_BUF_SIZE) = Ring(cons.buf, r + 1, a - 1, INPUT_BUF_SIZE)
      BY <1>1, <2>1, ConsMod, Zenon
    <3>2. Ring(cons.buf, r + 1, a - 1, INPUT_BUF_SIZE) = Tail(Ring(cons.buf, r, a, INPUT_BUF_SIZE))
      BY <1>1, <2>1, ConsParts, Zenon
    <3>3. arrived = Ring(cons.buf, r, a, INPUT_BUF_SIZE)
      BY Zenon DEF ConsoleInv, InBuf
    <3> QED
      BY <1>7, <3>1, <3>2, <3>3, Zenon DEF Wrap
  <2>9. arrived' = InBuf(cons.r, Lines)' /\ editing' = InBuf(cons.w, Edits)'
    BY <1>5, <2>5, <2>7, <2>8, Zenon DEF InBuf, ConsoleInv
  <2>10. Lines' + Edits' <= INPUT_BUF_SIZE /\ Lines' + Edits' # INPUT_BUF_SIZE
    <3> HIDE DEF a, b
    <3> QED
      BY <1>1, <2>1, <2>7, ConsSizes
  <2>11. \A k \in 1 .. Edits' : editing'[k] # "NL"
    BY <1>5, <2>7, Zenon DEF ConsoleInv
  <2> QED
    BY <1>4, <2>6, <2>9, <2>10, <2>11, Zenon DEF ConsoleInv
<1> QED
  BY <1>6, <1>7, Zenon DEF ReadChar

\* The steps of consoleread() that only move the process.
LEMMA ReaderStep ==
  ASSUME ConsoleInv, NEW p \in LineReaders, ReadLock(p) \/ ReadWait(p) \/ ReadKilled(p)
  PROVE  ConsoleInv'
<1>1. cons' = cons /\ arrived' = arrived /\ editing' = editing
  BY Zenon DEF ReadLock, ReadWait, ReadKilled
<1>2. Lines' = Lines /\ Edits' = Edits
  BY <1>1, Zenon DEF Lines, Edits
<1>3. reading' \in [LineReaders -> ReadType] /\ \A q \in LineReaders : reading'[q].pc = "sleep" => Lines = 0
  <2>1. CASE ReadLock(p)
    <3>1. PICK n \in ReadSizes :
            reading' = [reading EXCEPT ![p] = IF reading[p].pc = "start" THEN [@ EXCEPT !.pc = "loop"]
                                              ELSE [pc |-> "loop", n |-> n, some |-> FALSE]]
      BY <2>1, Zenon DEF ReadLock
    <3>2. n \in Int
      BY ConsoleAssumption
    <3>3. /\ [reading[p] EXCEPT !.pc = "loop"] \in ReadType /\ [reading[p] EXCEPT !.pc = "loop"].pc = "loop"
          /\ [pc |-> "loop", n |-> n, some |-> FALSE] \in ReadType
      BY <3>2, Zenon DEF ConsoleInv, ReadType
    <3>4. reading' \in [LineReaders -> ReadType]
      BY <3>1, <3>3, Zenon DEF ConsoleInv
    <3>5. reading'[p].pc # "sleep" /\ \A q \in LineReaders \ {p} : reading'[q] = reading[q]
      BY <3>1, <3>3, Zenon DEF ConsoleInv
    <3> QED
      BY <3>4, <3>5, Zenon DEF ConsoleInv
  <2>2. CASE ReadWait(p)
    <3>1. Lines = 0
      <4>1. cons.w - cons.r = 0 /\ 0 % INDEX = 0
        <5>1. cons.r \in 0 .. INDEX - 1 /\ cons.r = cons.w
          BY <2>2, ConsFields, Zenon DEF ReadWait, ConsoleInv
        <5> QED
          BY <5>1, ConsSizes, ModSmall
      <4> QED
        BY <4>1, Zenon DEF Lines, Wrap
    <3>2. [reading[p] EXCEPT !.pc = "sleep"] \in ReadType
      BY Zenon DEF ConsoleInv, ReadType
    <3>3. reading' = [reading EXCEPT ![p] = [reading[p] EXCEPT !.pc = "sleep"]]
      BY <2>2, Zenon DEF ReadWait
    <3> QED
      BY <3>1, <3>2, <3>3, Zenon DEF ConsoleInv
  <2>3. CASE ReadKilled(p)
    <3>1. EndRead \in ReadType /\ EndRead.pc # "sleep"
      BY DEF EndRead, ReadType
    <3>2. reading' = [reading EXCEPT ![p] = EndRead]
      BY <2>3, Zenon DEF ReadKilled
    <3> QED
      BY <3>1, <3>2, Zenon DEF ConsoleInv
  <2> QED
    BY <2>1, <2>2, <2>3, Zenon
<1> QED
  BY <1>1, <1>2, <1>3, Zenon DEF ConsoleInv, InBuf

\* consoleinit() establishes the invariant, and so does an empty buffer later.
LEMMA ConsoleStart ==
  ASSUME ConsoleInit
  PROVE  ConsoleInv
<1>1. PICK k \in {0, INDEX - 1} :
        cons = [buf |-> [i \in 0 .. INPUT_BUF_SIZE - 1 |-> "x"], r |-> k, w |-> k, e |-> k]
  BY Zenon DEF ConsoleInit
<1>2. k \in 0 .. INDEX - 1
  BY ConsSizes
<1>3. cons \in ConsType
  BY <1>1, <1>2, Zenon DEF ConsType, Chars
<1>4. Lines = 0 /\ Edits = 0
  <2>1. k - k = 0 /\ 0 % INDEX = 0
    BY <1>2, ConsSizes, ModSmall
  <2> QED
    BY <1>1, <2>1, Zenon DEF Lines, Edits, Wrap
<1>5. arrived = InBuf(cons.r, Lines) /\ editing = InBuf(cons.w, Edits)
  BY <1>4 DEF ConsoleInit, InBuf, Ring
<1>6. reading \in [LineReaders -> ReadType] /\ \A p \in LineReaders : reading[p].pc = "idle"
  BY DEF ConsoleInit, EndRead, ReadType
<1> QED
  BY <1>3, <1>4, <1>5, <1>6, ConsSizes DEF ConsoleInv

\* The console of kernel/console.c keeps the lines intact: consoleread() gets the bytes of
\* the lines that consoleintr() stored, without those that were erased, in order, a full
\* buffer is handed over, and no reader sleeps while a line is there; for any number of
\* readers and any size of the buffer and of the indices that are a multiple of it.
THEOREM ConsoleCorrect == ConsoleSpec => []LinesIntact
<1>1. ConsoleInit => ConsoleInv
  BY ConsoleStart
<1>2. ConsoleInv /\ [ConsoleNext]_consoleVars => ConsoleInv'
  <2> SUFFICES ASSUME ConsoleInv, [ConsoleNext]_consoleVars PROVE ConsoleInv'
    OBVIOUS
  <2>1. CASE \E c \in Chars : consoleintr(c)
    BY <2>1, EraseStep, StoreStep, Zenon DEF consoleintr
  <2>2. CASE \E p \in LineReaders :
               ReadLock(p) \/ ReadWait(p) \/ ReadKilled(p) \/ \E copied \in BOOLEAN : ReadChar(p, copied)
    BY <2>2, ReaderStep, ReadCharStep, Zenon
  <2>3. CASE UNCHANGED consoleVars
    BY <2>3, Zenon DEF consoleVars, ConsoleInv, InBuf, Lines, Edits, Wrap
  <2> QED
    BY <2>1, <2>2, <2>3, Zenon DEF ConsoleNext
<1>3. ConsoleInv => LinesIntact
  BY InvLines, Zenon
<1> QED
  BY <1>1, <1>2, <1>3, PTL DEF ConsoleSpec
=============================================================================
