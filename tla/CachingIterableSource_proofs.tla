-------------------- MODULE CachingIterableSource_proofs --------------------
EXTENDS CachingIterableSource, WellFoundedInduction, FiniteSetTheorems, SequenceTheorems,
        TLAPS

-----------------------------------------------------------------------------
(* The inductive invariant.                                                *)

Ids(c) == {c[k].id : k \in DOMAIN c}

TimedIn(S) == {i \in S : Timed(i)}

\* The block has all results of its time range.
Complete(b) == TimedIn(Held(b)) = TimedIn(Wanted(cachedTopics, b.start, b.end))

\* Results are kept under their time, problems under that of the result before, and
\* both orders agree.
InOrder(items) ==
  /\ \A m, n \in DOMAIN items : m < n => /\ items[m].pos < items[n].pos
                                         /\ items[m].at <= items[n].at
  /\ \A n \in DOMAIN items : Timed(items[n].pos) => items[n].at = Log[items[n].pos].time

Sound(b) ==
  /\ b.start <= b.end
  /\ \A n \in DOMAIN b.items : Holds(b, b.items[n].at)
  /\ InOrder(b.items)
  /\ b.size = Size(b.items)

Apart(c) ==
  /\ \A k, l \in DOMAIN c : k < l => c[k].end < c[l].start
  /\ \A k, l \in DOMAIN c : k # l => c[k].id # c[l].id

\* Each block was accessed, and has one place in the order of access.
Accessed(r, c) ==
  /\ {r[n] : n \in DOMAIN r} = Ids(c)
  /\ \A m, n \in DOMAIN r : m # n => r[m] # r[n]

Good(c) == \A k \in DOMAIN c : Sound(c[k]) /\ (Hollow(c[k]) \/ Complete(c[k]))

Sizes(c) == [k \in DOMAIN c |-> c[k].size]

CacheInv ==
  /\ Good(cache)
  /\ Apart(cache)
  /\ Accessed(recent, cache)
  /\ totalSize >= Size(pending) + Total(Sizes(cache))

\* What an iterator has when it does not read the source.
Idle ==
  /\ at \in {"ended", "loop"} => block = 0
  /\ at # "source" => pending = <<>>
  /\ yielded => at \in {"cached", "source"}
  /\ (outcome = "no") = (at # "ended")

\* While the source is read: the block in use has what was read before lastTime, pending
\* has what was read of that time, and no other block has any of the range.
Fresh(b) == b.start = lastTime /\ b.end = lastTime /\ b.items = <<>>

Written(b) == b.end = lastTime - 1 /\ Complete(b)

Parted(c, own) ==
  \A k \in DOMAIN c :
    IF c[k].id = own
    THEN /\ c[k].start = readHead
         /\ Fresh(c[k]) \/ Written(c[k])
         /\ \A i \in Held(c[k]) : /\ \A n \in DOMAIN pending : i < pending[n].pos
                                  /\ \A j \in ahead : i < j
    ELSE c[k].end < readHead \/ sourceEnd < c[k].start

Reading ==
  /\ readHead <= lastTime /\ lastTime <= sourceEnd /\ sourceEnd <= maxEnd
  /\ ahead \subseteq Wanted(cachedTopics, lastTime, sourceEnd)
  /\ \A n \in DOMAIN pending :
       /\ pending[n].at = lastTime
       /\ pending[n].pos \notin ahead
       /\ \A i \in ahead : pending[n].pos < i
  /\ InOrder(pending)
  /\ TimedIn({pending[n].pos : n \in DOMAIN pending} \cup ahead)
       = TimedIn(Wanted(cachedTopics, lastTime, sourceEnd))
  /\ block = 0 => lastTime = readHead
  /\ Parted(cache, block)

\* The last result that was yielded lies before t.
LastBefore(t) == last # 0 => Log[last].time < t

\* What is still to be yielded of the stream has not been passed, and what lies ahead
\* has not been yielded.
InLoop ==
  /\ LastBefore(readHead)
  /\ \A i \in stream : i > last => Log[i].time >= readHead

InCache ==
  \E k \in DOMAIN cache :
    LET b == cache[k]
    IN /\ b.id = block /\ Complete(b)
       /\ Holds(b, readHead)
       /\ LastBefore(b.end + 1)
       /\ idx \in 1..(Len(b.items) + 1)
       /\ \A i \in stream : i > last => Log[i].time >= readHead
       /\ \A n \in DOMAIN b.items :
            /\ n < idx /\ b.items[n].pos \in stream => b.items[n].pos <= last
            /\ n >= idx => b.items[n].at >= readHead
            /\ n >= idx /\ Timed(b.items[n].pos) => b.items[n].pos > last

InSource ==
  /\ LastBefore(sourceEnd + 1)
  /\ \A i \in ahead : i > last
  /\ \A i \in stream : i > last /\ Log[i].time <= sourceEnd => i \in ahead

\* The stream is what was asked for.
StreamKnown ==
  \E s \in 0..readHead : stream = TimedIn(Wanted(cachedTopics, s, maxEnd))

IteratorInv ==
  /\ Idle
  /\ at # "ended" => StreamKnown
  /\ at = "loop" => InLoop
  /\ at = "cached" => InCache
  /\ at = "source" => Reading /\ InSource

IInv == TypeOK /\ CacheInv /\ IteratorInv

-----------------------------------------------------------------------------
(* Induction.                                                              *)

\* A set of naturals has a smallest one.
LEMMA Smallest ==
  ASSUME NEW T, T \subseteq Nat, T # {}
  PROVE  \E n \in T : \A m \in T : n <= m
<1> DEFINE R == {ss \in Nat \X Nat : ss[1] < ss[2]}
<1>1. IsWellFoundedOn(R, Nat)
  BY NatLessThanWellFounded DEF OpToRel
<1> HIDE DEF R
<1>2. PICK n \in T : \A m \in T : <<m, n>> \notin R
  BY <1>1, WFMin
<1>3. \A m \in Nat : m < n => <<m, n>> \in R
  <2>1. n \in Nat
    OBVIOUS
  <2>2. \A m \in Nat : <<m, n>> \in Nat \X Nat /\ <<m, n>>[1] = m /\ <<m, n>>[2] = n
    BY <2>1
  <2> QED BY <2>2, Zenon DEF R
<1>4. ASSUME NEW m \in T PROVE n <= m
  <2>1. n \in Nat /\ m \in Nat
    OBVIOUS
  <2>2. ~ (m < n)
    BY <1>2, <1>3, <2>1
  <2> QED BY <2>1, <2>2
<1> QED BY <1>4

\* Induction over the naturals, for a set.
LEMMA Induction ==
  ASSUME NEW S, 0 \in S, \A n \in Nat : n \in S => n + 1 \in S
  PROVE  \A n \in Nat : n \in S
<1> SUFFICES ASSUME Nat \ S # {} PROVE FALSE
  OBVIOUS
<1>1. PICK n \in Nat \ S : \A m \in Nat \ S : n <= m
  BY Smallest
<1>2. n # 0 /\ n - 1 \in Nat
  BY <1>1
<1>3. n - 1 \in S
  BY <1>1, <1>2
<1> QED BY <1>1, <1>2, <1>3

LEMMA FirstIs ==
  ASSUME NEW S, S \subseteq Nat, S # {}
  PROVE  First(S) \in S /\ \A j \in S : First(S) <= j
<1>1. \E i \in S : \A j \in S : i <= j
  BY Smallest
<1> QED BY <1>1, Zenon DEF First

\* So has one that is bounded a largest one.
LEMMA Largest ==
  ASSUME NEW T, NEW b \in Nat, T \subseteq 0..b, T # {}
  PROVE  \E n \in T : \A m \in T : m <= n
<1> DEFINE D == {b - n : n \in T}
<1>1. PICK d \in D : \A e \in D : d <= e
  <2>0. \A n \in T : n \in 0..b /\ b - n \in Nat
    OBVIOUS
  <2>1. D \subseteq Nat /\ D # {}
    BY <2>0
  <2> HIDE DEF D
  <2> QED BY <2>1, Smallest
<1>2. PICK n \in T : d = b - n
  OBVIOUS
<1>3. ASSUME NEW m \in T PROVE m <= n
  <2>1. b - n <= b - m
    BY <1>1, <1>2
  <2> QED BY <2>1
<1> QED BY <1>3

-----------------------------------------------------------------------------
(* Totals.                                                                 *)

\* p[n] is the sum of the first n of the sizes w.
Sums(p, w) ==
  /\ p \in [0..Len(w) -> Nat]
  /\ p[0] = 0
  /\ \A n \in 1..Len(w) : p[n] = p[n - 1] + w[n]

\* What Total folds with, on the sets of indices up to m.
Folded(g, w, m) ==
  g = [s \in SUBSET (1..m) |-> IF s = {} THEN 0 ELSE g[s \ {Max(s)}] + w[Max(s)]]

LEMMA MaxIs ==
  ASSUME NEW m \in Nat, NEW s \in SUBSET (1..m)
  PROVE  /\ m \in s => Max(s) = m
         /\ s # {} => Max(s) \in s
<1>1. ASSUME s # {} PROVE Max(s) \in s /\ \A y \in s : Max(s) >= y
  <2>0. s \subseteq 0..m
    OBVIOUS
  <2>1. \E x \in s : \A y \in s : y <= x
    BY <1>1, <2>0, Largest
  <2>2. \E x \in s : \A y \in s : x >= y
    BY <2>1
  <2> QED BY <2>2, Zenon DEF Max
<1>2. ASSUME m \in s PROVE Max(s) = m
  <2>1. Max(s) \in s /\ Max(s) >= m
    BY <1>1, <1>2
  <2>2. Max(s) \in 1..m
    BY <2>1
  <2> QED BY <2>1, <2>2
<1> QED BY <1>1, <1>2

Foldable(w, m) == \E g \in [SUBSET (1..m) -> Nat] : Folded(g, w, m)

LEMMA FoldExists == ASSUME NEW w \in Seq(Nat) PROVE Foldable(w, Len(w))
<1> DEFINE N == {m \in Nat : m <= Len(w) => Foldable(w, m)}
<1>1. 0 \in N
  <2> DEFINE g == [s \in SUBSET (1..0) |-> 0]
  <2>1. 1..0 = {}
    OBVIOUS
  <2>2. \A s \in SUBSET (1..0) : g[s] = IF s = {} THEN 0 ELSE g[s \ {Max(s)}] + w[Max(s)]
    BY <2>1
  <2>3. g = [s \in SUBSET (1..0) |-> g[s]] /\ g \in [SUBSET (1..0) -> Nat]
    OBVIOUS
  <2>4. Folded(g, w, 0)
    <3> HIDE DEF g
    <3> QED BY <2>2, <2>3, Zenon DEF Folded
  <2>5. Foldable(w, 0)
    <3> HIDE DEF g
    <3> QED BY <2>3, <2>4, Zenon DEF Foldable
  <2> QED BY <2>5
<1>2. ASSUME NEW m \in Nat, m \in N PROVE m + 1 \in N
  <2> SUFFICES ASSUME m + 1 <= Len(w) PROVE Foldable(w, m + 1)
    OBVIOUS
  <2>0. Foldable(w, m)
    BY <1>2
  <2>1. PICK f \in [SUBSET (1..m) -> Nat] : Folded(f, w, m)
    BY <2>0, Zenon DEF Foldable
  <2> DEFINE S == SUBSET (1..(m + 1))
             g == [s \in S |-> IF m + 1 \in s THEN f[s \ {m + 1}] + w[m + 1] ELSE f[s]]
  <2>2. w[m + 1] \in Nat /\ m + 1 \in Nat
    OBVIOUS
  <2>3. ASSUME NEW s \in S PROVE s \ {m + 1} \in SUBSET (1..m) /\ (m + 1 \notin s => s \in SUBSET (1..m))
    OBVIOUS
  <2>4. g \in [S -> Nat]
    BY <2>2, <2>3
  <2>5. ASSUME NEW s \in S
        PROVE  g[s] = IF s = {} THEN 0 ELSE g[s \ {Max(s)}] + w[Max(s)]
    <3>1. CASE m + 1 \in s
      <4>1. Max(s) = m + 1
        BY <3>1, <2>2, MaxIs
      <4>2. g[s \ {m + 1}] = f[s \ {m + 1}]
        OBVIOUS
      <4> QED BY <4>1, <4>2, <3>1
    <3>2. CASE m + 1 \notin s
      <4>1. s \in SUBSET (1..m) /\ g[s] = f[s]
        BY <3>2, <2>3
      <4>2. f[s] = IF s = {} THEN 0 ELSE f[s \ {Max(s)}] + w[Max(s)]
        BY <4>1, <2>1, Zenon DEF Folded
      <4>3. g[s \ {Max(s)}] = f[s \ {Max(s)}]
        BY <3>2
      <4> QED BY <4>1, <4>2, <4>3
    <3> QED BY <3>1, <3>2
  <2>6. g = [s \in S |-> g[s]]
    OBVIOUS
  <2>7. Folded(g, w, m + 1)
    <3> HIDE DEF g
    <3> QED BY <2>5, <2>6, Zenon DEF Folded
  <2> QED BY <2>4, <2>7, Zenon DEF Foldable
<1>3. Len(w) \in N
  <2>1. Len(w) \in Nat
    OBVIOUS
  <2> HIDE DEF N
  <2> QED BY <1>1, <1>2, <2>1, Induction
<1> QED BY <1>3

LEMMA TotalIsFolded ==
  ASSUME NEW w \in Seq(Nat)
  PROVE  \E g : Folded(g, w, Len(w)) /\ Total(w) = g[1..Len(w)]
<1> DEFINE h == CHOOSE g : Folded(g, w, Len(w))
<1>1. DOMAIN w = 1..Len(w)
  OBVIOUS
<1>2. Total(w) = h[1..Len(w)]
  BY <1>1 DEF Total, FoldLeft, MapThenFoldSet, Folded
<1>3. \E g : Folded(g, w, Len(w))
  BY FoldExists DEF Foldable
<1> QED BY <1>2, <1>3, Zenon

LEMMA SumsAreTotal ==
  ASSUME NEW w \in Seq(Nat), NEW p, Sums(p, w)
  PROVE  Total(w) = p[Len(w)] /\ Total(w) \in Nat
<1>1. PICK g : Folded(g, w, Len(w)) /\ Total(w) = g[1..Len(w)]
  BY TotalIsFolded
<1> DEFINE N == {m \in Nat : m <= Len(w) => g[1..m] = p[m]}
<1>0. \A s \in SUBSET (1..Len(w)) : g[s] = IF s = {} THEN 0 ELSE g[s \ {Max(s)}] + w[Max(s)]
  BY <1>1 DEF Folded
<1>2. 0 \in N
  <2>1. 1..0 = {} /\ {} \in SUBSET (1..Len(w))
    OBVIOUS
  <2>2. g[{}] = 0
    BY <1>0, <2>1
  <2> QED BY <2>1, <2>2 DEF Sums
<1>3. ASSUME NEW m \in Nat, m \in N PROVE m + 1 \in N
  <2> SUFFICES ASSUME m + 1 <= Len(w) PROVE g[1..(m + 1)] = p[m + 1]
    OBVIOUS
  <2> DEFINE s == 1..(m + 1)
  <2>0. Len(w) \in Nat
    OBVIOUS
  <2>1. s \in SUBSET (1..Len(w)) /\ m + 1 \in s /\ s \in SUBSET (1..(m + 1))
    BY <2>0
  <2>2. Max(s) = m + 1
    <3> HIDE DEF s
    <3> QED BY <2>1, MaxIs
  <2>3. s \ {m + 1} = 1..m
    OBVIOUS
  <2>4. g[s] = g[1..m] + w[m + 1]
    <3>1. s # {}
      BY <2>1
    <3> HIDE DEF s
    <3> QED BY <1>0, <2>1, <2>2, <2>3, <3>1
  <2>5. g[1..m] = p[m]
    BY <1>3
  <2>6. p[m + 1] = p[m] + w[m + 1]
    BY DEF Sums
  <2> QED BY <2>4, <2>5, <2>6
<1>4. Len(w) \in N
  <2>1. Len(w) \in Nat
    OBVIOUS
  <2> HIDE DEF N
  <2> QED BY <1>2, <1>3, <2>1, Induction
<1> QED BY <1>1, <1>4 DEF Sums

LEMMA SumsExist == ASSUME NEW w \in Seq(Nat) PROVE \E p : Sums(p, w)
<1>1. PICK g \in [SUBSET (1..Len(w)) -> Nat] : Folded(g, w, Len(w))
  BY FoldExists DEF Foldable
<1>0. \A s \in SUBSET (1..Len(w)) : g[s] = IF s = {} THEN 0 ELSE g[s \ {Max(s)}] + w[Max(s)]
  BY <1>1 DEF Folded
<1> DEFINE p == [n \in 0..Len(w) |-> g[1..n]]
<1>2. p[0] = 0
  <2>1. 1..0 = {} /\ {} \in SUBSET (1..Len(w)) /\ 0 \in 0..Len(w)
    OBVIOUS
  <2>2. p[0] = g[{}]
    BY <2>1
  <2> QED BY <1>0, <2>1, <2>2
<1>3. ASSUME NEW n \in 1..Len(w) PROVE p[n] = p[n - 1] + w[n]
  <2> DEFINE s == 1..n
  <2>0. Len(w) \in Nat
    OBVIOUS
  <2>1. s \in SUBSET (1..Len(w)) /\ n \in s /\ s \in SUBSET (1..n) /\ n \in Nat
    BY <2>0
  <2>2. Max(s) = n
    <3> HIDE DEF s
    <3> QED BY <2>1, MaxIs
  <2>3. s \ {n} = 1..(n - 1) /\ n - 1 \in 0..Len(w) /\ n \in 0..Len(w)
    BY <2>0
  <2>4. g[s] = g[1..(n - 1)] + w[n]
    <3>1. s # {}
      BY <2>1
    <3> HIDE DEF s
    <3> QED BY <1>0, <2>1, <2>2, <2>3, <3>1
  <2> QED BY <2>3, <2>4
<1>4. p \in [0..Len(w) -> Nat]
  OBVIOUS
<1> QED BY <1>2, <1>3, <1>4 DEF Sums

LEMMA TotalType == ASSUME NEW w \in Seq(Nat) PROVE Total(w) \in Nat
BY SumsExist, SumsAreTotal

LEMMA TotalEmpty == Total(<<>>) = 0
<1>1. <<>> \in Seq(Nat) /\ Len(<<>>) = 0
  OBVIOUS
<1>2. PICK p : Sums(p, <<>>)
  BY <1>1, SumsExist
<1>3. Total(<<>>) = p[Len(<<>>)]
  BY <1>1, <1>2, SumsAreTotal
<1> QED BY <1>1, <1>2, <1>3 DEF Sums

LEMMA TotalConcat ==
  ASSUME NEW u \in Seq(Nat), NEW v \in Seq(Nat)
  PROVE  Total(u \o v) = Total(u) + Total(v)
<1>1. PICK p : Sums(p, u)
  BY SumsExist
<1>2. PICK q : Sums(q, v)
  BY SumsExist
<1> DEFINE m == Len(u)
           n == Len(v)
           w == u \o v
           r == [i \in 0..(m + n) |-> IF i <= m THEN p[i] ELSE p[m] + q[i - m]]
<1>3. w \in Seq(Nat) /\ Len(w) = m + n /\ m \in Nat /\ n \in Nat
      /\ \A i \in 1..(m + n) : w[i] = IF i <= m THEN u[i] ELSE v[i - m]
  BY ConcatProperties
<1>4. r \in [0..(m + n) -> Nat]
  <2>1. ASSUME NEW i \in 0..(m + n) PROVE i <= m => p[i] \in Nat
    BY <1>1, <1>3 DEF Sums
  <2>2. ASSUME NEW i \in 0..(m + n), ~ (i <= m) PROVE p[m] + q[i - m] \in Nat
    <3>1. m \in 0..m /\ i - m \in 0..n
      BY <1>3, <2>2
    <3>2. p[m] \in Nat /\ q[i - m] \in Nat
      BY <1>1, <1>2, <3>1 DEF Sums
    <3> QED BY <3>2
  <2> QED BY <2>1, <2>2
<1>5. r[0] = 0
  BY <1>1, <1>3 DEF Sums
<1>6. ASSUME NEW i \in 1..(m + n) PROVE r[i] = r[i - 1] + w[i]
  <2>1. CASE i <= m
    BY <1>1, <1>3, <2>1 DEF Sums
  <2>2. CASE ~ (i <= m)
    <3>1. i - m \in 1..n /\ i - 1 \in 0..(m + n) /\ i \in 0..(m + n)
      BY <1>3, <2>2
    <3>2. q[i - m] = q[(i - m) - 1] + v[i - m]
      BY <1>2, <3>1 DEF Sums
    <3>3. r[i] = p[m] + q[i - m] /\ w[i] = v[i - m]
      BY <1>3, <2>2, <3>1
    <3>4. r[i - 1] = p[m] + q[(i - m) - 1]
      <4>1. CASE i - 1 <= m
        <5>0. i \in Nat
          BY <1>3
        <5>1. i - 1 = m /\ (i - m) - 1 = 0
          BY <4>1, <2>2, <1>3, <5>0
        <5>2. q[0] = 0 /\ p[m] \in Nat
          BY <1>1, <1>2, <1>3 DEF Sums
        <5> QED BY <5>1, <5>2, <3>1
      <4>2. CASE ~ (i - 1 <= m)
        <5>1. (i - 1) - m = (i - m) - 1
          BY <1>3
        <5> QED BY <4>2, <3>1, <5>1
      <4> QED BY <4>1, <4>2
    <3>5. p[m] \in Nat /\ q[(i - m) - 1] \in Nat /\ v[i - m] \in Nat
      <4>1. (i - m) - 1 \in 0..n /\ m \in 0..m
        BY <3>1, <1>3
      <4>2. p[m] \in Nat /\ q[(i - m) - 1] \in Nat
        BY <4>1, <1>1, <1>2 DEF Sums
      <4>3. v[i - m] \in Nat
        BY <3>1
      <4> QED BY <4>2, <4>3
    <3> HIDE DEF r, w, m, n
    <3> QED BY <3>2, <3>3, <3>4, <3>5
  <2> QED BY <2>1, <2>2
<1>7. Sums(r, w)
  <2> HIDE DEF r, w
  <2> QED BY <1>3, <1>4, <1>5, <1>6 DEF Sums
<1>8. Total(w) = r[m + n] /\ Total(u) = p[m] /\ Total(v) = q[n]
  <2>1. Total(w) = r[Len(w)]
    <3> HIDE DEF r, w
    <3> QED BY <1>3, <1>7, SumsAreTotal
  <2>2. Total(u) = p[m] /\ Total(v) = q[n]
    BY <1>1, <1>2, SumsAreTotal
  <2> QED BY <2>1, <2>2, <1>3
<1>9. r[m + n] = p[m] + q[n]
  <2>1. CASE n = 0
    <3>1. q[0] = 0 /\ p[m] \in Nat /\ m + n = m
      BY <2>1, <1>1, <1>2, <1>3 DEF Sums
    <3>2. r[m] = p[m]
      BY <1>3
    <3> HIDE DEF r, n, m
    <3> QED BY <3>1, <3>2, <2>1
  <2>2. CASE n # 0
    BY <2>2, <1>3
  <2> QED BY <2>1, <2>2
<1> QED BY <1>8, <1>9

\* One size goes in between.
LEMMA TotalInsert ==
  ASSUME NEW w \in Seq(Nat), NEW v \in Seq(Nat), NEW k \in 1..(Len(w) + 1),
         Len(v) = Len(w) + 1,
         \A i \in 1..Len(v) : v[i] = IF i < k THEN w[i] ELSE IF i = k THEN v[k] ELSE w[i - 1]
  PROVE  Total(v) = Total(w) + v[k]
<1>1. PICK p : Sums(p, w)
  BY SumsExist
<1> DEFINE r == [i \in 0..Len(v) |-> IF i < k THEN p[i] ELSE p[i - 1] + v[k]]
<1>0. Len(w) \in Nat /\ k \in Nat /\ v[k] \in Nat
  OBVIOUS
<1>2. r \in [0..Len(v) -> Nat]
  <2>1. ASSUME NEW i \in 0..Len(v) PROVE r[i] \in Nat
    <3>1. CASE i < k
      <4>1. i \in 0..Len(w)
        BY <3>1, <1>0
      <4> QED BY <3>1, <4>1, <1>1 DEF Sums
    <3>2. CASE ~ (i < k)
      <4>1. i - 1 \in 0..Len(w)
        BY <3>2, <1>0
      <4>2. p[i - 1] \in Nat
        BY <4>1, <1>1 DEF Sums
      <4> QED BY <3>2, <4>2, <1>0
    <3> QED BY <3>1, <3>2
  <2> QED BY <2>1
<1>3. r[0] = 0
  BY <1>0, <1>1 DEF Sums
<1>4. ASSUME NEW i \in 1..Len(v) PROVE r[i] = r[i - 1] + v[i]
  <2>0. i \in 0..Len(v) /\ i - 1 \in 0..Len(v) /\ i \in Nat
    BY <1>0
  <2>1. CASE i < k
    <3>1. i \in 1..Len(w) /\ i - 1 < k
      BY <2>1, <1>0
    <3>2. p[i] = p[i - 1] + w[i]
      BY <3>1, <1>1 DEF Sums
    <3>3. v[i] = w[i]
      BY <2>1
    <3> QED BY <2>0, <2>1, <3>1, <3>2, <3>3
  <2>2. CASE i = k
    <3>1. i - 1 < k
      BY <2>2, <1>0
    <3> QED BY <2>0, <2>2, <3>1
  <2>3. CASE i > k
    <3>1. i - 1 \in 1..Len(w) /\ ~ (i - 1 < k) /\ ~ (i < k) /\ i # k
      BY <2>0, <2>3, <1>0
    <3>2. p[i - 1] = p[(i - 1) - 1] + w[i - 1] /\ p[i - 1] \in Nat /\ p[(i - 1) - 1] \in Nat
      <4>1. i - 1 \in 0..Len(w) /\ (i - 1) - 1 \in 0..Len(w)
        BY <3>1
      <4> QED BY <3>1, <4>1, <1>1 DEF Sums
    <3>3. v[i] = w[i - 1] /\ w[i - 1] \in Nat
      BY <3>1
    <3>4. r[i] = p[i - 1] + v[k] /\ r[i - 1] = p[(i - 1) - 1] + v[k]
      BY <2>0, <3>1
    <3> HIDE DEF r
    <3> QED BY <1>0, <3>2, <3>3, <3>4
  <2> QED BY <2>0, <2>1, <2>2, <2>3
<1>5. Sums(r, v)
  <2> HIDE DEF r
  <2> QED BY <1>2, <1>3, <1>4 DEF Sums
<1>6. Total(v) = r[Len(v)] /\ Total(w) = p[Len(w)]
  <2> HIDE DEF r
  <2> QED BY <1>1, <1>5, SumsAreTotal
<1>7. r[Len(v)] = p[Len(v) - 1] + v[k] /\ Len(v) - 1 = Len(w)
  BY <1>0
<1> QED BY <1>6, <1>7

\* One size grows.
LEMMA TotalChange ==
  ASSUME NEW w \in Seq(Nat), NEW v \in Seq(Nat), NEW k \in 1..Len(w), NEW d \in Nat,
         Len(v) = Len(w),
         \A i \in 1..Len(v) : v[i] = IF i = k THEN w[i] + d ELSE w[i]
  PROVE  Total(v) = Total(w) + d
<1>1. PICK p : Sums(p, w)
  BY SumsExist
<1> DEFINE r == [i \in 0..Len(v) |-> IF i < k THEN p[i] ELSE p[i] + d]
<1>0. Len(w) \in Nat /\ k \in Nat
  OBVIOUS
<1>2. r \in [0..Len(v) -> Nat]
  BY <1>1 DEF Sums
<1>3. r[0] = 0
  BY <1>0, <1>1 DEF Sums
<1>4. ASSUME NEW i \in 1..Len(v) PROVE r[i] = r[i - 1] + v[i]
  <2>0. i \in 0..Len(v) /\ i - 1 \in 0..Len(v) /\ i \in Nat
    BY <1>0
  <2>1. p[i] = p[i - 1] + w[i] /\ w[i] \in Nat
    BY <1>1, <2>0 DEF Sums
  <2>5. p[i] \in Nat /\ p[i - 1] \in Nat
    BY <1>1, <2>0 DEF Sums
  <2>2. CASE i < k
    BY <2>0, <2>1, <2>2, <1>0
  <2>3. CASE i = k
    <3>1. r[i] = p[i] + d /\ r[i - 1] = p[i - 1] /\ v[i] = w[i] + d
      BY <2>0, <2>3, <1>0
    <3> HIDE DEF r
    <3> QED BY <2>1, <2>5, <3>1
  <2>4. CASE i > k
    <3>1. r[i] = p[i] + d /\ r[i - 1] = p[i - 1] + d /\ v[i] = w[i]
      BY <2>0, <2>4, <1>0
    <3> HIDE DEF r
    <3> QED BY <2>1, <2>5, <3>1
  <2> QED BY <2>0, <2>2, <2>3, <2>4
<1>5. Sums(r, v)
  <2> HIDE DEF r
  <2> QED BY <1>2, <1>3, <1>4 DEF Sums
<1>6. Total(v) = r[Len(v)] /\ Total(w) = p[Len(w)]
  <2> HIDE DEF r
  <2> QED BY <1>1, <1>5, SumsAreTotal
<1>7. r[Len(v)] = p[Len(v)] + d
  BY <1>0
<1> QED BY <1>6, <1>7

-----------------------------------------------------------------------------
(* The log, and the sizes of what is kept of it.                           *)

LEMMA LogTypes ==
  /\ Len(Log) \in Nat
  /\ \A i \in 1..Len(Log) : /\ Log[i].kind \in Kinds /\ Log[i].time \in Nat
                            /\ Log[i].topic \in Topics /\ Log[i].size \in Nat
                            /\ Log[i].kind # "message" => Log[i].size = 0
  /\ \A i, j \in 1..Len(Log) : i <= j => Log[i].time <= Log[j].time
<1>1. Log \in Seq([kind : Kinds, time : Nat, topic : Topics, size : Nat])
  BY LogAssumption
<1>2. Len(Log) \in Nat
  BY <1>1
<1>3. ASSUME NEW i \in 1..Len(Log)
      PROVE  Log[i] \in [kind : Kinds, time : Nat, topic : Topics, size : Nat]
  BY <1>1, ElementOfSeq
<1> QED BY <1>2, <1>3, LogAssumption

\* What comes at a later time comes later.
LEMMA LaterIsAfter ==
  ASSUME NEW i \in 1..Len(Log), NEW j \in 1..Len(Log), Log[i].time < Log[j].time
  PROVE  i < j
<1>1. Log[i].time \in Nat /\ Log[j].time \in Nat /\ i \in Nat /\ j \in Nat
  BY LogTypes
<1>2. j <= i => Log[j].time <= Log[i].time
  BY LogTypes
<1> QED BY <1>1, <1>2

ItemSizes(items) == [n \in DOMAIN items |-> Log[items[n].pos].size]

LEMMA ItemSizesType ==
  ASSUME NEW items \in Seq(Items)
  PROVE  /\ ItemSizes(items) \in Seq(Nat) /\ Len(ItemSizes(items)) = Len(items)
         /\ \A n \in 1..Len(items) : ItemSizes(items)[n] = Log[items[n].pos].size
         /\ Size(items) = Total(ItemSizes(items))
<1>1. DOMAIN items = 1..Len(items) /\ Len(items) \in Nat
  OBVIOUS
<1>2. ASSUME NEW n \in 1..Len(items) PROVE Log[items[n].pos].size \in Nat
  <2>1. items[n] \in Items
    OBVIOUS
  <2>2. items[n].pos \in 1..Len(Log)
    BY <2>1 DEF Items
  <2> QED BY <2>2, LogTypes
<1>3. ItemSizes(items) = [n \in 1..Len(items) |-> Log[items[n].pos].size]
  BY <1>1 DEF ItemSizes
<1> QED BY <1>1, <1>2, <1>3 DEF Size, ItemSizes

LEMMA SizeType == ASSUME NEW items \in Seq(Items) PROVE Size(items) \in Nat
BY ItemSizesType, TotalType

LEMMA SizeEmpty == Size(<<>>) = 0
<1>1. <<>> \in Seq(Items) /\ Len(<<>>) = 0
  OBVIOUS
<1>2. ItemSizes(<<>>) \in Seq(Nat) /\ Len(ItemSizes(<<>>)) = 0 /\ Size(<<>>) = Total(ItemSizes(<<>>))
  BY <1>1, ItemSizesType
<1>3. ItemSizes(<<>>) = <<>>
  BY <1>2, EmptySeq
<1> QED BY <1>2, <1>3, TotalEmpty

LEMMA SizeConcat ==
  ASSUME NEW a \in Seq(Items), NEW b \in Seq(Items)
  PROVE  Size(a \o b) = Size(a) + Size(b)
<1> DEFINE u == ItemSizes(a)
           v == ItemSizes(b)
           w == ItemSizes(a \o b)
<1>1. a \o b \in Seq(Items) /\ Len(a \o b) = Len(a) + Len(b) /\ Len(a) \in Nat /\ Len(b) \in Nat
      /\ \A i \in 1..(Len(a) + Len(b)) : (a \o b)[i] = IF i <= Len(a) THEN a[i] ELSE b[i - Len(a)]
  BY ConcatProperties
<1>2. /\ u \in Seq(Nat) /\ Len(u) = Len(a) /\ \A n \in 1..Len(a) : u[n] = Log[a[n].pos].size
      /\ Size(a) = Total(u)
  BY ItemSizesType
<1>3. /\ v \in Seq(Nat) /\ Len(v) = Len(b) /\ \A n \in 1..Len(b) : v[n] = Log[b[n].pos].size
      /\ Size(b) = Total(v)
  BY ItemSizesType
<1>4. /\ w \in Seq(Nat) /\ Len(w) = Len(a) + Len(b)
      /\ \A n \in 1..(Len(a) + Len(b)) : w[n] = Log[(a \o b)[n].pos].size
      /\ Size(a \o b) = Total(w)
  BY <1>1, ItemSizesType
<1> HIDE DEF u, v, w
<1>5. u \o v \in Seq(Nat) /\ Len(u \o v) = Len(a) + Len(b)
      /\ \A i \in 1..(Len(a) + Len(b)) : (u \o v)[i] = IF i <= Len(a) THEN u[i] ELSE v[i - Len(a)]
  BY <1>2, <1>3, ConcatProperties
<1>6. ASSUME NEW i \in 1..(Len(a) + Len(b)) PROVE w[i] = (u \o v)[i]
  <2>1. CASE i <= Len(a)
    <3>1. i \in 1..Len(a)
      BY <1>1, <2>1
    <3> QED BY <1>1, <1>2, <1>4, <1>5, <2>1, <3>1
  <2>2. CASE ~ (i <= Len(a))
    <3>1. i - Len(a) \in 1..Len(b)
      BY <1>1, <2>2
    <3> QED BY <1>1, <1>3, <1>4, <1>5, <2>2, <3>1
  <2> QED BY <2>1, <2>2
<1>7. w = u \o v
  BY <1>4, <1>5, <1>6, SeqEqual
<1> QED BY <1>2, <1>3, <1>4, <1>7, TotalConcat

LEMMA TotalSingle == ASSUME NEW n \in Nat PROVE Total(<<n>>) = n
<1>1. <<>> \in Seq(Nat) /\ Len(<<>>) = 0 /\ <<n>> \in Seq(Nat) /\ Len(<<n>>) = 1 /\ <<n>>[1] = n
  OBVIOUS
<1> DEFINE w == <<>>
           v == <<n>>
<1>2. Len(v) = Len(w) + 1 /\ 1 \in 1..(Len(w) + 1) /\ w \in Seq(Nat) /\ v \in Seq(Nat)
  BY <1>1
<1>3. \A i \in 1..Len(v) : v[i] = IF i < 1 THEN w[i] ELSE IF i = 1 THEN v[1] ELSE w[i - 1]
  BY <1>1
<1>4. v[1] = n
  OBVIOUS
<1> HIDE DEF w, v
<1>5. Total(v) = Total(w) + v[1]
  BY <1>2, <1>3, TotalInsert
<1>6. Total(w) = 0
  BY TotalEmpty DEF w
<1> QED BY <1>4, <1>5, <1>6 DEF v

LEMMA SizeAppend ==
  ASSUME NEW a \in Seq(Items), NEW x \in Items
  PROVE  Size(Append(a, x)) = Size(a) + Log[x.pos].size
<1>1. <<x>> \in Seq(Items) /\ Len(<<x>>) = 1 /\ <<x>>[1] = x
  OBVIOUS
<1>2. Append(a, x) = a \o <<x>>
  BY AppendIsConcat
<1>3. Size(<<x>>) = Log[x.pos].size
  <2>1. Log[x.pos].size \in Nat
    BY LogTypes DEF Items
  <2>2. /\ ItemSizes(<<x>>) \in Seq(Nat) /\ Len(ItemSizes(<<x>>)) = 1
        /\ ItemSizes(<<x>>)[1] = Log[x.pos].size /\ Size(<<x>>) = Total(ItemSizes(<<x>>))
    <3> DEFINE y == <<x>>
    <3>1. y \in Seq(Items) /\ Len(y) = 1 /\ y[1] = x /\ 1 \in 1..1
      BY <1>1
    <3> HIDE DEF y
    <3>2. /\ ItemSizes(y) \in Seq(Nat) /\ Len(ItemSizes(y)) = 1
          /\ ItemSizes(y)[1] = Log[x.pos].size /\ Size(y) = Total(ItemSizes(y))
      BY <3>1, ItemSizesType
    <3> QED BY <3>2 DEF y
  <2>3. ItemSizes(<<x>>) = <<Log[x.pos].size>>
    <3> DEFINE s == ItemSizes(<<x>>)
               t == <<Log[x.pos].size>>
    <3>1. t \in Seq(Nat) /\ Len(t) = 1 /\ t[1] = Log[x.pos].size
      BY <2>1
    <3>2. \A i \in 1..1 : i = 1
      OBVIOUS
    <3> HIDE DEF s, t
    <3>3. s \in Seq(Nat) /\ Len(s) = 1 /\ s[1] = t[1]
      BY <2>2, <3>1 DEF s
    <3>4. s = t
      BY <3>1, <3>2, <3>3, SeqEqual
    <3> QED BY <3>4 DEF s, t
  <2> QED BY <2>1, <2>2, <2>3, TotalSingle
<1> QED BY <1>1, <1>2, <1>3, SizeConcat

-----------------------------------------------------------------------------
(* Blocks that are inserted, removed and extended.                         *)

\* b is the k-th element of d, the others are c.
Inserted(d, c, b, k) ==
  /\ k \in 1..(Len(c) + 1)
  /\ Len(d) = Len(c) + 1
  /\ \A j \in 1..Len(d) : d[j] = IF j < k THEN c[j] ELSE IF j = k THEN b ELSE c[j - 1]

LEMMA InsertAtIs ==
  ASSUME NEW S, NEW c \in Seq(S), NEW b \in S, NEW k \in 1..(Len(c) + 1)
  PROVE  InsertAt(c, k, b) \in Seq(S) /\ Inserted(InsertAt(c, k, b), c, b, k)
<1> DEFINE u == SubSeq(c, 1, k - 1)
           v == SubSeq(c, k, Len(c))
           s == <<b>>
<1>0. Len(c) \in Nat /\ k \in Nat
  OBVIOUS
<1>1. u \in Seq(S) /\ Len(u) = k - 1 /\ \A j \in 1..(k - 1) : u[j] = c[j]
  <2>1. \A i \in 1..(k - 1) : c[i] \in S
    BY <1>0
  <2>2. /\ u \in Seq(S)
        /\ Len(u) = (IF 1 <= k - 1 THEN (k - 1) - 1 + 1 ELSE 0)
        /\ \A i \in 1..((k - 1) - 1 + 1) : u[i] = c[1 + i - 1]
    BY <1>0, <2>1, SubSeqProperties
  <2> HIDE DEF u
  <2>3. Len(u) = k - 1
    BY <1>0, <2>2
  <2>4. ASSUME NEW j \in 1..(k - 1) PROVE u[j] = c[j]
    <3>1. j \in 1..((k - 1) - 1 + 1) /\ 1 + j - 1 = j
      BY <1>0
    <3> QED BY <2>2, <3>1
  <2> QED BY <2>2, <2>3, <2>4
<1>2. /\ v \in Seq(S) /\ Len(v) = Len(c) - k + 1
      /\ \A j \in 1..(Len(c) - k + 1) : v[j] = c[k + j - 1]
  <2>1. \A i \in k..Len(c) : c[i] \in S
    BY <1>0
  <2>2. /\ v \in Seq(S)
        /\ Len(v) = (IF k <= Len(c) THEN Len(c) - k + 1 ELSE 0)
        /\ \A i \in 1..(Len(c) - k + 1) : v[i] = c[k + i - 1]
    BY <1>0, <2>1, SubSeqProperties
  <2> HIDE DEF v
  <2> QED BY <1>0, <2>2
<1>3. s \in Seq(S) /\ Len(s) = 1 /\ s[1] = b
  OBVIOUS
<1> HIDE DEF u, v, s
<1>4. /\ u \o s \in Seq(S) /\ Len(u \o s) = k
      /\ \A j \in 1..k : (u \o s)[j] = IF j < k THEN c[j] ELSE b
  <2>1. /\ u \o s \in Seq(S) /\ Len(u \o s) = Len(u) + Len(s)
        /\ \A i \in 1..(Len(u) + Len(s)) : (u \o s)[i] = IF i <= Len(u) THEN u[i] ELSE s[i - Len(u)]
    BY <1>1, <1>3, ConcatProperties
  <2>2. Len(u) + Len(s) = k
    BY <1>0, <1>1, <1>3
  <2>3. ASSUME NEW j \in 1..k PROVE (u \o s)[j] = IF j < k THEN c[j] ELSE b
    <3>1. CASE j < k
      <4>1. j \in 1..(k - 1) /\ j <= Len(u)
        BY <3>1, <1>0, <1>1
      <4> QED BY <4>1, <3>1, <2>1, <2>2, <1>1
    <3>2. CASE ~ (j < k)
      <4>1. j - Len(u) = 1 /\ ~ (j <= Len(u))
        BY <3>2, <1>0, <1>1
      <4> QED BY <4>1, <3>2, <2>1, <2>2, <1>3
    <3> QED BY <3>1, <3>2
  <2> QED BY <2>1, <2>2, <2>3
<1>5. /\ (u \o s) \o v \in Seq(S) /\ Len((u \o s) \o v) = Len(c) + 1
      /\ \A j \in 1..(Len(c) + 1) :
           ((u \o s) \o v)[j] = IF j < k THEN c[j] ELSE IF j = k THEN b ELSE c[j - 1]
  <2> DEFINE x == u \o s
  <2>0. x \in Seq(S) /\ Len(x) = k /\ \A j \in 1..k : x[j] = IF j < k THEN c[j] ELSE b
    BY <1>4
  <2> HIDE DEF x
  <2>1. /\ x \o v \in Seq(S) /\ Len(x \o v) = Len(x) + Len(v)
        /\ \A i \in 1..(Len(x) + Len(v)) : (x \o v)[i] = IF i <= Len(x) THEN x[i] ELSE v[i - Len(x)]
    BY <2>0, <1>2, ConcatProperties
  <2>2. Len(x) + Len(v) = Len(c) + 1
    BY <1>0, <1>2, <2>0
  <2>3. ASSUME NEW j \in 1..(Len(c) + 1)
        PROVE  (x \o v)[j] = IF j < k THEN c[j] ELSE IF j = k THEN b ELSE c[j - 1]
    <3>1. CASE j <= k
      <4>1. j \in 1..k
        BY <3>1, <1>0
      <4> QED BY <4>1, <3>1, <2>0, <2>1, <2>2
    <3>2. CASE ~ (j <= k)
      <4>1. j - k \in 1..(Len(c) - k + 1) /\ k + (j - k) - 1 = j - 1 /\ ~ (j < k) /\ j # k
        BY <3>2, <1>0
      <4>2. v[j - k] = c[k + (j - k) - 1]
        BY <4>1, <1>2
      <4> QED BY <4>1, <4>2, <3>2, <2>0, <2>1, <2>2
    <3> QED BY <3>1, <3>2
  <2> QED BY <2>1, <2>2, <2>3 DEF x
<1> QED BY <1>0, <1>5, Zenon DEF InsertAt, Inserted, u, v, s

RemovedAt(d, c, k) ==
  /\ Len(d) = Len(c) - 1
  /\ \A j \in 1..Len(d) : d[j] = IF j < k THEN c[j] ELSE c[j + 1]

LEMMA RemoveAtIs ==
  ASSUME NEW S, NEW c \in Seq(S), NEW k \in 1..Len(c)
  PROVE  RemoveAt(c, k) \in Seq(S) /\ RemovedAt(RemoveAt(c, k), c, k)
<1> DEFINE u == SubSeq(c, 1, k - 1)
           v == SubSeq(c, k + 1, Len(c))
<1>0. Len(c) \in Nat /\ k \in Nat
  OBVIOUS
<1>1. u \in Seq(S) /\ Len(u) = k - 1 /\ \A j \in 1..(k - 1) : u[j] = c[j]
  <2>1. \A i \in 1..(k - 1) : c[i] \in S
    BY <1>0
  <2>2. /\ u \in Seq(S)
        /\ Len(u) = (IF 1 <= k - 1 THEN (k - 1) - 1 + 1 ELSE 0)
        /\ \A i \in 1..((k - 1) - 1 + 1) : u[i] = c[1 + i - 1]
    BY <1>0, <2>1, SubSeqProperties
  <2> HIDE DEF u
  <2>3. Len(u) = k - 1
    BY <1>0, <2>2
  <2>4. ASSUME NEW j \in 1..(k - 1) PROVE u[j] = c[j]
    <3>1. j \in 1..((k - 1) - 1 + 1) /\ 1 + j - 1 = j
      BY <1>0
    <3> QED BY <2>2, <3>1
  <2> QED BY <2>2, <2>3, <2>4
<1>2. v \in Seq(S) /\ Len(v) = Len(c) - k /\ \A j \in 1..(Len(c) - k) : v[j] = c[k + j]
  <2>1. \A i \in (k + 1)..Len(c) : c[i] \in S
    BY <1>0
  <2>2. /\ v \in Seq(S)
        /\ Len(v) = (IF k + 1 <= Len(c) THEN Len(c) - (k + 1) + 1 ELSE 0)
        /\ \A i \in 1..(Len(c) - (k + 1) + 1) : v[i] = c[(k + 1) + i - 1]
    BY <1>0, <2>1, SubSeqProperties
  <2> HIDE DEF v
  <2>3. Len(v) = Len(c) - k
    BY <1>0, <2>2
  <2>4. ASSUME NEW j \in 1..(Len(c) - k) PROVE v[j] = c[k + j]
    <3>1. j \in 1..(Len(c) - (k + 1) + 1) /\ (k + 1) + j - 1 = k + j
      BY <1>0
    <3> QED BY <2>2, <3>1
  <2> QED BY <2>2, <2>3, <2>4
<1> HIDE DEF u, v
<1>3. /\ u \o v \in Seq(S) /\ Len(u \o v) = Len(u) + Len(v)
      /\ \A i \in 1..(Len(u) + Len(v)) : (u \o v)[i] = IF i <= Len(u) THEN u[i] ELSE v[i - Len(u)]
  BY <1>1, <1>2, ConcatProperties
<1>4. Len(u) + Len(v) = Len(c) - 1
  BY <1>0, <1>1, <1>2
<1>5. ASSUME NEW j \in 1..(Len(c) - 1)
      PROVE  (u \o v)[j] = IF j < k THEN c[j] ELSE c[j + 1]
  <2>1. CASE j < k
    <3>1. j \in 1..(k - 1) /\ j <= Len(u)
      BY <2>1, <1>0, <1>1
    <3> QED BY <2>1, <3>1, <1>1, <1>3, <1>4
  <2>2. CASE ~ (j < k)
    <3>1. j - Len(u) \in 1..(Len(c) - k) /\ k + (j - Len(u)) = j + 1 /\ ~ (j <= Len(u))
      BY <2>2, <1>0, <1>1
    <3>2. v[j - Len(u)] = c[k + (j - Len(u))]
      BY <3>1, <1>2
    <3> QED BY <2>2, <3>1, <3>2, <1>3, <1>4
  <2> QED BY <2>1, <2>2
<1>6. RemoveAt(c, k) = u \o v
  BY DEF RemoveAt, u, v
<1> QED BY <1>3, <1>4, <1>5, <1>6 DEF RemovedAt

LEMMA SizesType ==
  ASSUME NEW c \in Seq(Blocks)
  PROVE  /\ Sizes(c) \in Seq(Nat) /\ Len(Sizes(c)) = Len(c)
         /\ \A k \in 1..Len(c) : Sizes(c)[k] = c[k].size
<1>1. DOMAIN c = 1..Len(c) /\ Len(c) \in Nat
  OBVIOUS
<1>2. ASSUME NEW k \in 1..Len(c) PROVE c[k].size \in Nat
  <2>1. c[k] \in Blocks
    OBVIOUS
  <2> QED BY <2>1 DEF Blocks
<1> QED BY <1>1, <1>2 DEF Sizes

LEMMA SizesInserted ==
  ASSUME NEW c \in Seq(Blocks), NEW d \in Seq(Blocks), NEW b \in Blocks, NEW k,
         Inserted(d, c, b, k)
  PROVE  Total(Sizes(d)) = Total(Sizes(c)) + b.size
<1> DEFINE w == Sizes(c)
           v == Sizes(d)
<1>0. Len(c) \in Nat /\ k \in 1..(Len(c) + 1) /\ k \in Nat /\ Len(d) = Len(c) + 1
  BY DEF Inserted
<1>1. /\ w \in Seq(Nat) /\ Len(w) = Len(c) /\ \A i \in 1..Len(c) : w[i] = c[i].size
      /\ v \in Seq(Nat) /\ Len(v) = Len(d) /\ \A i \in 1..Len(d) : v[i] = d[i].size
  BY SizesType
<1> HIDE DEF w, v
<1>2. ASSUME NEW i \in 1..Len(v)
      PROVE  v[i] = IF i < k THEN w[i] ELSE IF i = k THEN v[k] ELSE w[i - 1]
  <2>0. i \in 1..Len(d) /\ i \in Nat
    BY <1>1
  <2>1. CASE i < k
    <3>1. i \in 1..Len(c) /\ d[i] = c[i]
      BY <2>0, <2>1, <1>0 DEF Inserted
    <3> QED BY <3>1, <2>0, <2>1, <1>1
  <2>2. CASE i = k
    BY <2>2, <1>0
  <2>3. CASE i > k
    <3>1. i - 1 \in 1..Len(c) /\ d[i] = c[i - 1] /\ ~ (i < k) /\ i # k
      BY <2>0, <2>3, <1>0 DEF Inserted
    <3> QED BY <3>1, <2>0, <1>1
  <2> QED BY <2>0, <2>1, <2>2, <2>3, <1>0
<1>3. v[k] = b.size
  <2>1. k \in 1..Len(d) /\ d[k] = b
    BY <1>0 DEF Inserted
  <2> QED BY <2>1, <1>1
<1>4. Total(v) = Total(w) + v[k]
  BY <1>0, <1>1, <1>2, TotalInsert
<1> QED BY <1>3, <1>4 DEF w, v

LEMMA SizesRemoved ==
  ASSUME NEW c \in Seq(Blocks), NEW d \in Seq(Blocks), NEW k \in 1..Len(c), RemovedAt(d, c, k)
  PROVE  Total(Sizes(c)) = Total(Sizes(d)) + c[k].size
<1>0. Len(c) \in Nat /\ Len(d) \in Nat /\ k \in Nat /\ Len(d) = Len(c) - 1
  BY DEF RemovedAt
<1>1. c[k] \in Blocks
  OBVIOUS
<1>2. ASSUME NEW j \in 1..Len(c)
      PROVE  c[j] = IF j < k THEN d[j] ELSE IF j = k THEN c[k] ELSE d[j - 1]
  <2>1. CASE j < k
    <3>1. j \in 1..Len(d)
      BY <1>0, <2>1
    <3> QED BY <3>1, <2>1 DEF RemovedAt
  <2>2. CASE j = k
    BY <2>2, <1>0
  <2>3. CASE j > k
    <3>1. j - 1 \in 1..Len(d) /\ ~ (j - 1 < k) /\ (j - 1) + 1 = j /\ ~ (j < k) /\ j # k
      BY <1>0, <2>3
    <3> QED BY <3>1 DEF RemovedAt
  <2> QED BY <2>1, <2>2, <2>3, <1>0
<1>3. Inserted(c, d, c[k], k)
  BY <1>0, <1>2 DEF Inserted
<1> QED BY <1>1, <1>3, SizesInserted

\* The block goes where it keeps the order.
LEMMA InsertIs ==
  ASSUME NEW c \in Seq(Blocks), NEW b \in Blocks
  PROVE  /\ Insert(c, b) \in Seq(Blocks)
         /\ \E k : /\ Inserted(Insert(c, b), c, b, k)
                   /\ \A j \in 1..Len(c) : j < k => c[j].start < b.start
                   /\ k <= Len(c) => c[k].start >= b.start
<1> DEFINE S == {k \in 1..(Len(c) + 1) : k <= Len(c) => c[k].start >= b.start}
           k == First(S)
<1>0. Len(c) \in Nat /\ b.start \in Nat /\ \A j \in 1..Len(c) : c[j].start \in Nat
  <2>1. ASSUME NEW j \in 1..Len(c) PROVE c[j].start \in Nat
    <3>1. c[j] \in Blocks
      OBVIOUS
    <3> QED BY <3>1 DEF Blocks
  <2>2. b.start \in Nat
    BY DEF Blocks
  <2>3. Len(c) \in Nat
    OBVIOUS
  <2> QED BY <2>1, <2>2, <2>3
<1>1. S \subseteq Nat /\ Len(c) + 1 \in S
  BY <1>0
<1>2. k \in S /\ \A j \in S : k <= j
  <2> HIDE DEF S
  <2> QED BY <1>1, FirstIs
<1>3. k \in 1..(Len(c) + 1) /\ (k <= Len(c) => c[k].start >= b.start)
  <2> HIDE DEF k
  <2> QED BY <1>2
<1>4. ASSUME NEW j \in 1..Len(c), j < k PROVE c[j].start < b.start
  <2>1. j \notin S
    <3> HIDE DEF S
    <3>1. j \in Nat /\ k \in Nat
      BY <1>3
    <3> QED BY <1>2, <1>4, <3>1
  <2>2. j \in 1..(Len(c) + 1)
    BY <1>0
  <2>3. ~ (c[j].start >= b.start)
    <3> HIDE DEF k
    <3> QED BY <2>1, <2>2
  <2> QED BY <2>3, <1>0
<1>5. Insert(c, b) = InsertAt(c, k, b)
  BY DEF Insert
<1> HIDE DEF k
<1>6. Insert(c, b) \in Seq(Blocks) /\ Inserted(Insert(c, b), c, b, k)
  BY <1>3, <1>5, InsertAtIs
<1> QED BY <1>3, <1>4, <1>6

LEMMA WithoutIs ==
  ASSUME NEW c \in Seq(Blocks), NEW id \in Ids(c)
  PROVE  \E k \in 1..Len(c) : c[k].id = id /\ Without(c, id) = RemoveAt(c, k)
<1> DEFINE I == {i \in 1..Len(c) : c[i].id = id}
           m == Min(I)
<1>1. DOMAIN c = 1..Len(c)
  OBVIOUS
<1>2. I # {} /\ I \subseteq Nat
  BY <1>1 DEF Ids
<1>3. m \in I
  <2> HIDE DEF I
  <2>1. \E x \in I : \A y \in I : x <= y
    BY <1>2, Smallest
  <2> QED BY <2>1, Zenon DEF Min
<1>4. Without(c, id) = RemoveAt(c, m)
  <2>1. \E i \in 1..Len(c) : c[i].id = id
    BY <1>2
  <2>2. SelectInSeq(c, LAMBDA b : b.id = id) = m
    BY <1>2, Zenon DEF SelectInSeq
  <2> HIDE DEF m
  <2> QED BY <2>1, <2>2, Zenon DEF Without, RemoveFirstMatch
<1> HIDE DEF m
<1> QED BY <1>3, <1>4

LEMMA RemoveFirstIs ==
  ASSUME NEW S, NEW r \in Seq(S), NEW x
  PROVE  IF x \in {r[n] : n \in DOMAIN r}
         THEN \E k \in 1..Len(r) : r[k] = x /\ RemoveFirst(r, x) = RemoveAt(r, k)
         ELSE RemoveFirst(r, x) = r
<1> DEFINE I == {i \in 1..Len(r) : r[i] = x}
           m == Min(I)
<1>1. DOMAIN r = 1..Len(r)
  OBVIOUS
<1>2. CASE x \in {r[n] : n \in DOMAIN r}
  <2>1. I # {} /\ I \subseteq Nat
    BY <1>1, <1>2
  <2>2. m \in I
    <3> HIDE DEF I
    <3>1. \E y \in I : \A z \in I : y <= z
      BY <2>1, Smallest
    <3> QED BY <3>1, Zenon DEF Min
  <2>3. RemoveFirst(r, x) = RemoveAt(r, m)
    <3>1. \E i \in 1..Len(r) : r[i] = x
      BY <2>1
    <3>2. SelectInSeq(r, LAMBDA v : v = x) = m
      BY <2>1, Zenon DEF SelectInSeq
    <3> HIDE DEF m
    <3> QED BY <3>1, <3>2, Zenon DEF RemoveFirst
  <2> HIDE DEF m
  <2>4. \E k \in 1..Len(r) : r[k] = x /\ RemoveFirst(r, x) = RemoveAt(r, k)
    BY <2>2, <2>3
  <2> QED BY <1>2, <2>4
<1>3. CASE x \notin {r[n] : n \in DOMAIN r}
  <2>1. ~ \E i \in 1..Len(r) : r[i] = x
    BY <1>1, <1>3
  <2>2. RemoveFirst(r, x) = r
    BY <2>1, Zenon DEF RemoveFirst
  <2> QED BY <1>3, <2>2
<1> QED BY <1>2, <1>3

LEMMA FreshIdIs ==
  ASSUME NEW c \in Seq(Blocks)
  PROVE  FreshId(c) \in Nat \ {0} /\ FreshId(c) \notin Ids(c)
<1> DEFINE D == 1..Len(c)
           R == 1..(Len(c) + 1)
           I == {c[k].id : k \in D}
<1>1. DOMAIN c = D /\ Len(c) \in Nat
  OBVIOUS
<1>2. IsFiniteSet(D) /\ Cardinality(D) = Len(c) /\ IsFiniteSet(R) /\ Cardinality(R) = Len(c) + 1
  <2>1. /\ IsFiniteSet(1..Len(c))
        /\ Cardinality(1..Len(c)) = IF 1 > Len(c) THEN 0 ELSE Len(c) - 1 + 1
    BY <1>1, FS_Interval
  <2>2. /\ IsFiniteSet(1..(Len(c) + 1))
        /\ Cardinality(1..(Len(c) + 1)) = IF 1 > Len(c) + 1 THEN 0 ELSE (Len(c) + 1) - 1 + 1
    BY <1>1, FS_Interval
  <2> QED BY <1>1, <2>1, <2>2
<1>3. IsFiniteSet(I) /\ Cardinality(I) <= Len(c)
  <2> DEFINE f == [k \in D |-> c[k].id]
  <2>1. f \in Surjection(D, I)
    BY DEF Surjection
  <2> HIDE DEF D, I, f
  <2> QED BY <1>2, <2>1, FS_Surjection
<1>4. \E n \in R : n \notin I
  <2> SUFFICES ASSUME R \subseteq I PROVE FALSE
    OBVIOUS
  <2>1. Cardinality(R) <= Cardinality(I) /\ Cardinality(I) \in Nat
    <3> HIDE DEF R, I
    <3> QED BY <1>3, FS_Subset, FS_CardinalityType
  <2> QED BY <1>1, <1>2, <1>3, <2>1
<1>5. \E n \in R : \A k \in DOMAIN c : c[k].id # n
  BY <1>1, <1>4
<1>6. FreshId(c) \in R /\ \A k \in DOMAIN c : c[k].id # FreshId(c)
  BY <1>5, Zenon DEF FreshId
<1> QED BY <1>6, <1>1 DEF Ids

LEMMA BlockOfIs ==
  ASSUME NEW c, Apart(c), NEW k \in DOMAIN c
  PROVE  BlockOf(c, c[k].id) = c[k]
<1> DEFINE m == CHOOSE l \in DOMAIN c : c[l].id = c[k].id
<1>1. m \in DOMAIN c /\ c[m].id = c[k].id
  BY Zenon
<1> HIDE DEF m
<1>2. m = k
  BY <1>1 DEF Apart
<1> QED BY <1>2 DEF BlockOf, m

\* Where a sequence of blocks has a block, and what ids it has.
LEMMA IdsOf == ASSUME NEW c \in Seq(Blocks)
               PROVE  DOMAIN c = 1..Len(c) /\ Len(c) \in Nat /\ Ids(c) = {c[k].id : k \in 1..Len(c)}
<1>1. DOMAIN c = 1..Len(c) /\ Len(c) \in Nat
  OBVIOUS
<1> QED BY <1>1 DEF Ids

LEMMA BlockTypes ==
  ASSUME NEW c \in Seq(Blocks), NEW k \in DOMAIN c
  PROVE  /\ c[k] \in Blocks
         /\ c[k].id \in Nat \ {0} /\ c[k].start \in Nat /\ c[k].end \in Nat
         /\ c[k].items \in Seq(Items) /\ c[k].size \in Nat
<1>1. k \in 1..Len(c)
  BY IdsOf
<1>2. c[k] \in Blocks
  BY <1>1, ElementOfSeq
<1> QED BY <1>2 DEF Blocks

LEMMA RemovedIs ==
  ASSUME NEW c \in Seq(Blocks), NEW d \in Seq(Blocks), NEW k \in 1..Len(c), RemovedAt(d, c, k),
         Apart(c)
  PROVE  /\ Apart(d)
         /\ Ids(d) = Ids(c) \ {c[k].id}
         /\ \A j \in DOMAIN d : \E i \in DOMAIN c : i # k /\ d[j] = c[i]
         /\ \A i \in DOMAIN c : i # k => \E j \in DOMAIN d : d[j] = c[i]
<1>0. /\ DOMAIN c = 1..Len(c) /\ DOMAIN d = 1..Len(d) /\ Len(c) \in Nat /\ Len(d) = Len(c) - 1
      /\ k \in Nat /\ Len(d) \in Nat
  BY IdsOf DEF RemovedAt
<1> DEFINE from(j) == IF j < k THEN j ELSE j + 1
<1>1. ASSUME NEW j \in DOMAIN d
      PROVE  from(j) \in DOMAIN c /\ from(j) # k /\ d[j] = c[from(j)]
  <2>1. j \in 1..Len(d) /\ j \in Nat
    BY <1>0
  <2>2. d[j] = IF j < k THEN c[j] ELSE c[j + 1]
    BY <2>1 DEF RemovedAt
  <2> QED BY <2>1, <2>2, <1>0
<1>2. ASSUME NEW i, NEW j, i \in DOMAIN d, j \in DOMAIN d, i < j PROVE from(i) < from(j)
  <2>1. i \in Nat /\ j \in Nat
    BY <1>0, <1>2
  <2> QED BY <2>1, <1>0, <1>2
<1>3. ASSUME NEW i \in DOMAIN c, i # k
      PROVE  \E j \in DOMAIN d : d[j] = c[i]
  <2>1. CASE i < k
    <3>1. i \in DOMAIN d /\ from(i) = i
      BY <2>1, <1>0
    <3> QED BY <3>1, <1>1
  <2>2. CASE i > k
    <3>1. i - 1 \in DOMAIN d /\ from(i - 1) = i
      BY <2>2, <1>0
    <3> QED BY <3>1, <1>1
  <2> QED BY <2>1, <2>2, <1>0, <1>3
<1>5. \A i, j \in DOMAIN d : i # j => from(i) # from(j)
  <2>1. \A i, j \in DOMAIN d : i # j => i < j \/ j < i
    BY <1>0
  <2>2. \A i \in DOMAIN d : from(i) \in Nat
    BY <1>0
  <2> QED BY <2>1, <2>2, <1>2
<1> HIDE DEF from
<1>4. Apart(d)
  <2>1. ASSUME NEW i \in DOMAIN d, NEW j \in DOMAIN d, i < j PROVE d[i].end < d[j].start
    <3>1. from(i) < from(j)
      BY <1>2, <2>1
    <3> QED BY <3>1, <1>1 DEF Apart
  <2>2. ASSUME NEW i \in DOMAIN d, NEW j \in DOMAIN d, i # j PROVE d[i].id # d[j].id
    <3>1. from(i) # from(j)
      BY <1>5, <2>2
    <3> QED BY <3>1, <1>1 DEF Apart
  <2> QED BY <2>1, <2>2 DEF Apart
<1>6. Ids(d) = Ids(c) \ {c[k].id}
  <2>1. ASSUME NEW x \in Ids(d) PROVE x \in Ids(c) /\ x # c[k].id
    <3>1. PICK j \in DOMAIN d : x = d[j].id
      BY DEF Ids
    <3>2. x = c[from(j)].id /\ from(j) \in DOMAIN c /\ from(j) # k /\ k \in DOMAIN c
      BY <3>1, <1>1, <1>0
    <3> QED BY <3>2 DEF Ids, Apart
  <2>2. ASSUME NEW x \in Ids(c), x # c[k].id PROVE x \in Ids(d)
    <3>1. PICK i \in DOMAIN c : x = c[i].id
      BY DEF Ids
    <3>2. PICK j \in DOMAIN d : d[j] = c[i]
      BY <1>3, <2>2, <3>1
    <3> QED BY <3>1, <3>2 DEF Ids
  <2> QED BY <2>1, <2>2
<1> QED BY <1>1, <1>3, <1>4, <1>6

LEMMA InsertedIs ==
  ASSUME NEW c \in Seq(Blocks), NEW d \in Seq(Blocks), NEW b \in Blocks, NEW k,
         Inserted(d, c, b, k),
         \A j \in 1..Len(c) : j < k => c[j].start < b.start,
         k <= Len(c) => c[k].start >= b.start,
         Apart(c), b.id \notin Ids(c), b.start <= b.end,
         \A j \in DOMAIN c : /\ c[j].start <= c[j].end
                             /\ c[j].end < b.start \/ b.end < c[j].start
  PROVE  /\ Apart(d)
         /\ Ids(d) = Ids(c) \cup {b.id}
         /\ \A j \in DOMAIN d : d[j] = b \/ \E i \in DOMAIN c : d[j] = c[i]
         /\ \E j \in DOMAIN d : d[j] = b
         /\ \A i \in DOMAIN c : \E j \in DOMAIN d : d[j] = c[i]
<1>0. /\ DOMAIN c = 1..Len(c) /\ DOMAIN d = 1..Len(d) /\ Len(c) \in Nat /\ Len(d) = Len(c) + 1
      /\ k \in 1..(Len(c) + 1) /\ k \in Nat /\ Len(d) \in Nat
  BY IdsOf DEF Inserted
<1>1. b.start \in Nat /\ b.end \in Nat
  BY DEF Blocks
<1>2. \A j \in DOMAIN c : c[j].start \in Nat /\ c[j].end \in Nat
  BY BlockTypes
<1> DEFINE from(j) == IF j < k THEN j ELSE j - 1
<1>3. ASSUME NEW j \in DOMAIN d, j # k
      PROVE  from(j) \in DOMAIN c /\ d[j] = c[from(j)]
  <2>1. j \in 1..Len(d) /\ j \in Nat
    BY <1>0
  <2>2. d[j] = IF j < k THEN c[j] ELSE c[j - 1]
    BY <2>1, <1>3 DEF Inserted
  <2> QED BY <2>1, <2>2, <1>0, <1>3
<1>4. k \in DOMAIN d /\ d[k] = b
  <2>1. k \in 1..Len(d)
    BY <1>0
  <2> QED BY <2>1, <1>0 DEF Inserted
<1>5. ASSUME NEW i \in DOMAIN d, NEW j \in DOMAIN d, i < j, i # k, j # k PROVE from(i) < from(j)
  <2>1. i \in Nat /\ j \in Nat
    BY <1>0, <1>5
  <2> QED BY <2>1, <1>0, <1>5
<1>6. ASSUME NEW i \in DOMAIN c PROVE \E j \in DOMAIN d : j # k /\ from(j) = i
  <2>1. CASE i < k
    <3>1. i \in DOMAIN d /\ from(i) = i /\ i # k
      BY <2>1, <1>0
    <3> QED BY <3>1
  <2>2. CASE i >= k
    <3>1. i + 1 \in DOMAIN d /\ from(i + 1) = i /\ i + 1 # k
      BY <2>2, <1>0
    <3> QED BY <3>1
  <2> QED BY <2>1, <2>2, <1>0
<1>7. ASSUME NEW j \in DOMAIN d, j < k PROVE d[j].end < b.start
  <2>1. from(j) = j /\ j # k /\ j \in Nat
    BY <1>0, <1>7
  <2>2. j \in DOMAIN c /\ d[j] = c[j]
    BY <1>3, <2>1
  <2>3. c[j].start < b.start
    BY <2>2, <1>0, <1>7
  <2>4. c[j].end < b.start \/ b.end < c[j].start
    BY <2>2
  <2> QED BY <2>2, <2>3, <2>4, <1>1, <1>2
<1>8. ASSUME NEW j \in DOMAIN d, k < j PROVE b.end < d[j].start
  <2>1. from(j) = j - 1 /\ j # k /\ j \in Nat
    BY <1>0, <1>8
  <2>2. j - 1 \in DOMAIN c /\ d[j] = c[j - 1]
    BY <1>3, <2>1
  <2>3. k \in DOMAIN c /\ k <= j - 1 /\ k <= Len(c)
    BY <2>1, <2>2, <1>0, <1>8
  <2>4. c[k].end < b.start \/ b.end < c[k].start
    BY <2>3
  <2>5. c[k].start >= b.start /\ c[k].start <= c[k].end
    BY <2>3
  <2>6. b.end < c[k].start
    BY <2>3, <2>4, <2>5, <1>1, <1>2
  <2>7. c[k].start <= c[j - 1].start
    <3>1. CASE k = j - 1
      <4>1. c[k].start \in Nat
        BY <2>3, <1>2
      <4> QED BY <3>1, <4>1
    <3>2. CASE k < j - 1
      <4>1. c[k].end < c[j - 1].start
        BY <3>2, <2>2, <2>3 DEF Apart
      <4> QED BY <4>1, <2>2, <2>3, <2>5, <1>2
    <3> QED BY <3>1, <3>2, <2>3, <2>1, <1>0
  <2> QED BY <2>2, <2>3, <2>6, <2>7, <1>1, <1>2
<1>12. \A i, j \in DOMAIN d : i # k /\ j # k /\ i # j => from(i) # from(j)
  <2>1. \A i, j \in DOMAIN d : i # j => i < j \/ j < i
    BY <1>0
  <2>2. \A i \in DOMAIN d : from(i) \in Int
    BY <1>0
  <2> QED BY <2>1, <2>2, <1>5
<1> HIDE DEF from
<1>9. Apart(d)
  <2>1. ASSUME NEW i \in DOMAIN d, NEW j \in DOMAIN d, i < j PROVE d[i].end < d[j].start
    <3>1. CASE i = k
      BY <2>1, <3>1, <1>4, <1>8
    <3>2. CASE j = k
      BY <2>1, <3>2, <1>4, <1>7
    <3>3. CASE i # k /\ j # k
      <4>1. from(i) < from(j)
        BY <2>1, <3>3, <1>5
      <4> QED BY <3>3, <4>1, <1>3 DEF Apart
    <3> QED BY <3>1, <3>2, <3>3
  <2>2. ASSUME NEW i \in DOMAIN d, NEW j \in DOMAIN d, i # j PROVE d[i].id # d[j].id
    <3>0. ASSUME NEW l \in DOMAIN d, l # k PROVE d[l].id # b.id
      BY <3>0, <1>3 DEF Ids
    <3>1. CASE i = k
      BY <2>2, <3>0, <3>1, <1>4
    <3>2. CASE j = k
      BY <2>2, <3>0, <3>2, <1>4
    <3>3. CASE i # k /\ j # k
      <4>1. from(i) # from(j)
        BY <2>2, <3>3, <1>12
      <4> QED BY <3>3, <4>1, <1>3 DEF Apart
    <3> QED BY <3>1, <3>2, <3>3
  <2> QED BY <2>1, <2>2 DEF Apart
<1>10. Ids(d) = Ids(c) \cup {b.id}
  <2>1. ASSUME NEW x \in Ids(d) PROVE x \in Ids(c) \/ x = b.id
    <3>1. PICK j \in DOMAIN d : x = d[j].id
      BY DEF Ids
    <3> QED BY <3>1, <1>3, <1>4 DEF Ids
  <2>2. ASSUME NEW x \in Ids(c) PROVE x \in Ids(d)
    <3>1. PICK i \in DOMAIN c : x = c[i].id
      BY DEF Ids
    <3>2. PICK j \in DOMAIN d : j # k /\ from(j) = i
      BY <1>6
    <3> QED BY <3>1, <3>2, <1>3 DEF Ids
  <2>3. b.id \in Ids(d)
    BY <1>4 DEF Ids
  <2> QED BY <2>1, <2>2, <2>3
<1>11. ASSUME NEW i \in DOMAIN c PROVE \E j \in DOMAIN d : d[j] = c[i]
  BY <1>3, <1>6
<1> QED BY <1>3, <1>4, <1>9, <1>10, <1>11

LEMMA ExtendIs ==
  ASSUME NEW c \in Seq(Blocks), Apart(c), NEW k \in DOMAIN c, NEW items \in Seq(Items),
         NEW e \in Nat, NEW d, d = Extend(c, c[k].id, items, e)
  PROVE  /\ d \in Seq(Blocks) /\ DOMAIN d = DOMAIN c
         /\ \A j \in DOMAIN c : j # k => d[j] = c[j]
         /\ d[k].id = c[k].id /\ d[k].start = c[k].start /\ d[k].end = e
         /\ d[k].items = c[k].items \o items /\ d[k].size = c[k].size + Size(items)
         /\ Ids(d) = Ids(c)
         /\ Total(Sizes(d)) = Total(Sizes(c)) + Size(items)
<1> DEFINE b == [c[k] EXCEPT !.end = e, !.items = @ \o items, !.size = @ + Size(items)]
<1>0. DOMAIN c = 1..Len(c) /\ Len(c) \in Nat
  BY IdsOf
<1>1. /\ c[k] \in Blocks /\ c[k].items \in Seq(Items) /\ c[k].size \in Nat /\ Size(items) \in Nat
  BY BlockTypes, SizeType
<1>2. c[k].items \o items \in Seq(Items) /\ c[k].size + Size(items) \in Nat
  BY <1>1, ConcatProperties
<1>3. /\ b \in Blocks /\ b.id = c[k].id /\ b.start = c[k].start /\ b.end = e
      /\ b.items = c[k].items \o items /\ b.size = c[k].size + Size(items)
  <2> DEFINE old == c[k]
             all == c[k].items \o items
             size == c[k].size + Size(items)
  <2>1. old \in Blocks /\ all \in Seq(Items) /\ size \in Nat
    BY <1>1, <1>2
  <2>2. b = [old EXCEPT !.end = e, !.items = all, !.size = size]
    BY <1>1 DEF Blocks
  <2> HIDE DEF old, all, size, b
  <2>3. /\ b \in Blocks /\ b.id = old.id /\ b.start = old.start /\ b.end = e
        /\ b.items = all /\ b.size = size
    BY <2>1, <2>2 DEF Blocks
  <2> QED BY <2>3 DEF old, all, size
<1>4. d = [j \in DOMAIN c |-> IF c[j].id = c[k].id THEN [c[j] EXCEPT !.end = e, !.items = @ \o items, !.size = @ + Size(items)] ELSE c[j]]
  BY Zenon DEF Extend
<1>5. DOMAIN d = DOMAIN c /\ d[k] = b
  BY <1>4
<1> HIDE DEF b
<1>6. ASSUME NEW j \in DOMAIN c, j # k PROVE d[j] = c[j]
  <2>1. c[j].id # c[k].id
    BY <1>6 DEF Apart
  <2> QED BY <2>1, <1>4
<1>7. d \in Seq(Blocks)
  <2>1. ASSUME NEW j \in 1..Len(c) PROVE d[j] \in Blocks
    BY <1>0, <1>3, <1>5, <1>6, BlockTypes
  <2>2. d = [j \in 1..Len(c) |-> d[j]]
    BY <1>0, <1>4
  <2> QED BY <2>1, <2>2, <1>0
<1>8. Len(d) = Len(c) /\ k \in 1..Len(c)
  BY <1>0, <1>5, <1>7
<1>9. Ids(d) = Ids(c)
  <2>1. \A j \in DOMAIN c : d[j].id = c[j].id
    BY <1>3, <1>5, <1>6
  <2> QED BY <2>1, <1>5 DEF Ids
<1>10. Total(Sizes(d)) = Total(Sizes(c)) + Size(items)
  <2> DEFINE w == Sizes(c)
             v == Sizes(d)
             n == Size(items)
  <2>1. /\ w \in Seq(Nat) /\ Len(w) = Len(c) /\ \A i \in 1..Len(c) : w[i] = c[i].size
        /\ v \in Seq(Nat) /\ Len(v) = Len(c) /\ \A i \in 1..Len(c) : v[i] = d[i].size
    BY <1>7, <1>8, SizesType
  <2>2. n \in Nat
    BY <1>1
  <2>3. \A i \in 1..Len(c) : v[i] = IF i = k THEN w[i] + n ELSE w[i]
    BY <2>1, <1>0, <1>3, <1>5, <1>6
  <2> HIDE DEF w, v, n
  <2>5. /\ w \in Seq(Nat) /\ v \in Seq(Nat) /\ Len(v) = Len(w) /\ k \in 1..Len(w)
        /\ \A i \in 1..Len(v) : v[i] = IF i = k THEN w[i] + n ELSE w[i]
    BY <2>1, <2>3, <1>8
  <2>4. Total(v) = Total(w) + n
    BY <2>2, <2>5, TotalChange
  <2> QED BY <2>4 DEF w, v, n
<1> QED BY <1>3, <1>5, <1>6, <1>7, <1>9, <1>10

-----------------------------------------------------------------------------
(* The order of access, and of eviction.                                   *)

Elements(r) == {r[n] : n \in DOMAIN r}

Distinct(r) == \A m, n \in DOMAIN r : m # n => r[m] # r[n]

LEMMA DropIs ==
  ASSUME NEW S, NEW r \in Seq(S), NEW x, Distinct(r)
  PROVE  /\ RemoveFirst(r, x) \in Seq(S)
         /\ Elements(RemoveFirst(r, x)) = Elements(r) \ {x}
         /\ Distinct(RemoveFirst(r, x))
<1>1. CASE x \notin Elements(r)
  <2>1. RemoveFirst(r, x) = r
    BY <1>1, RemoveFirstIs DEF Elements
  <2> QED BY <2>1, <1>1
<1>2. CASE x \in Elements(r)
  <2>1. PICK k \in 1..Len(r) : r[k] = x /\ RemoveFirst(r, x) = RemoveAt(r, k)
    BY <1>2, RemoveFirstIs DEF Elements
  <2> DEFINE d == RemoveAt(r, k)
  <2>2. d \in Seq(S) /\ Len(d) = Len(r) - 1
        /\ \A j \in 1..Len(d) : d[j] = IF j < k THEN r[j] ELSE r[j + 1]
    BY RemoveAtIs DEF RemovedAt
  <2> HIDE DEF d
  <2>3. /\ DOMAIN r = 1..Len(r) /\ DOMAIN d = 1..Len(d) /\ Len(r) \in Nat /\ k \in Nat
        /\ Len(d) \in Nat
    BY <2>2
  <2> DEFINE from(j) == IF j < k THEN j ELSE j + 1
  <2>4. ASSUME NEW j \in DOMAIN d PROVE from(j) \in DOMAIN r /\ from(j) # k /\ d[j] = r[from(j)]
    BY <2>2, <2>3
  <2>5. ASSUME NEW i \in DOMAIN d, NEW j \in DOMAIN d, i # j PROVE from(i) # from(j)
    BY <2>3, <2>5
  <2>6. ASSUME NEW i \in DOMAIN r, i # k PROVE \E j \in DOMAIN d : from(j) = i
    <3>1. CASE i < k
      <4>1. i \in DOMAIN d /\ from(i) = i
        BY <2>2, <2>3, <3>1
      <4> QED BY <4>1
    <3>2. CASE i > k
      <4>1. i - 1 \in DOMAIN d /\ from(i - 1) = i
        BY <2>2, <2>3, <3>2
      <4> QED BY <4>1
    <3> QED BY <3>1, <3>2, <2>3, <2>6
  <2> HIDE DEF from
  <2>7. Elements(d) = Elements(r) \ {x}
    <3>1. ASSUME NEW y \in Elements(d) PROVE y \in Elements(r) \ {x}
      <4>1. PICK j \in DOMAIN d : y = d[j]
        BY DEF Elements
      <4> QED BY <4>1, <2>1, <2>3, <2>4 DEF Elements, Distinct
    <3>2. ASSUME NEW y \in Elements(r) \ {x} PROVE y \in Elements(d)
      <4>1. PICK i \in DOMAIN r : y = r[i]
        BY DEF Elements
      <4>2. PICK j \in DOMAIN d : from(j) = i
        BY <4>1, <2>1, <2>6
      <4> QED BY <4>1, <4>2, <2>4 DEF Elements
    <3> QED BY <3>1, <3>2
  <2>8. Distinct(d)
    BY <2>4, <2>5 DEF Distinct
  <2> QED BY <2>1, <2>2, <2>7, <2>8 DEF d
<1> QED BY <1>1, <1>2

LEMMA TouchIs ==
  ASSUME NEW S, NEW r \in Seq(S), NEW x \in S, Distinct(r)
  PROVE  /\ Touch(r, x) \in Seq(S)
         /\ Elements(Touch(r, x)) = Elements(r) \cup {x}
         /\ Distinct(Touch(r, x))
<1> DEFINE q == RemoveFirst(r, x)
           d == Append(q, x)
<1>1. q \in Seq(S) /\ Elements(q) = Elements(r) \ {x} /\ Distinct(q)
  BY DropIs
<1> HIDE DEF q
<1>2. /\ d \in Seq(S) /\ Len(d) = Len(q) + 1 /\ d[Len(q) + 1] = x
      /\ \A i \in 1..Len(q) : d[i] = q[i]
  BY <1>1, AppendProperties
<1> HIDE DEF d
<1>3. DOMAIN q = 1..Len(q) /\ DOMAIN d = 1..(Len(q) + 1) /\ Len(q) \in Nat
  BY <1>1, <1>2
<1>4. Elements(d) = Elements(q) \cup {x}
  <2>1. ASSUME NEW y \in Elements(d) PROVE y \in Elements(q) \cup {x}
    <3>1. PICK j \in DOMAIN d : y = d[j]
      BY DEF Elements
    <3>2. CASE j = Len(q) + 1
      BY <3>1, <3>2, <1>2
    <3>3. CASE j # Len(q) + 1
      <4>1. j \in DOMAIN q /\ d[j] = q[j]
        BY <3>1, <3>3, <1>2, <1>3
      <4> QED BY <3>1, <4>1 DEF Elements
    <3> QED BY <3>2, <3>3
  <2>2. ASSUME NEW y \in Elements(q) PROVE y \in Elements(d)
    <3>1. PICK j \in DOMAIN q : y = q[j]
      BY DEF Elements
    <3>2. j \in DOMAIN d /\ d[j] = q[j]
      BY <3>1, <1>2, <1>3
    <3> QED BY <3>1, <3>2 DEF Elements
  <2>3. x \in Elements(d)
    <3>1. Len(q) + 1 \in DOMAIN d
      BY <1>3
    <3> QED BY <3>1, <1>2 DEF Elements
  <2> QED BY <2>1, <2>2, <2>3
<1>5. Distinct(d)
  <2> SUFFICES ASSUME NEW m \in DOMAIN d, NEW n \in DOMAIN d, m # n PROVE d[m] # d[n]
    BY DEF Distinct
  <2>1. \A i \in DOMAIN q : q[i] # x
    BY <1>1 DEF Elements
  <2>2. \A i \in DOMAIN d : i # Len(q) + 1 => i \in DOMAIN q /\ d[i] = q[i]
    BY <1>2, <1>3
  <2> QED BY <2>1, <2>2, <1>1, <1>2 DEF Distinct
<1>6. x \in Elements(r) => Elements(q) \cup {x} = Elements(r) \cup {x}
  BY <1>1
<1> QED BY <1>1, <1>2, <1>4, <1>5 DEF Touch, q, d

LEMMA ReverseType == ASSUME NEW S, NEW s \in Seq(S) PROVE Reverse(s) \in Seq(S)
<1>1. Len(s) \in Nat /\ \A i \in 1..Len(s) : s[i] \in S
  OBVIOUS
<1>2. \A i \in 1..Len(s) : (Len(s) - i) + 1 \in 1..Len(s)
  BY <1>1
<1>3. \A i \in 1..Len(s) : s[(Len(s) - i) + 1] \in S
  BY <1>1, <1>2
<1> QED BY <1>1, <1>3 DEF Reverse

\* Whichever block was not used for longest, it is one of the cache.
LEMMA OldestIs ==
  ASSUME NEW c \in Seq(Blocks), NEW r \in Seq(Nat \ {0}), Elements(r) = Ids(c)
  PROVE  Oldest(c, r) \subseteq Ids(c)
<1> SUFFICES ASSUME NEW n \in DOMAIN r
             PROVE  c[First({k \in DOMAIN c : \E m \in 1..n : r[m] = c[k].id})].id \in Ids(c)
  BY DEF Oldest
<1> DEFINE tied == {k \in DOMAIN c : \E m \in 1..n : r[m] = c[k].id}
<1>1. DOMAIN c = 1..Len(c) /\ Len(c) \in Nat
  BY IdsOf
<1>2. r[n] \in Ids(c) /\ n \in 1..n
  BY DEF Elements
<1>3. PICK k \in DOMAIN c : c[k].id = r[n]
  BY <1>2 DEF Ids
<1>4. k \in tied /\ tied \subseteq DOMAIN c /\ tied \subseteq Nat
  BY <1>1, <1>2, <1>3
<1> HIDE DEF tied
<1>5. First(tied) \in DOMAIN c
  BY <1>4, FirstIs
<1>6. c[First(tied)].id \in Ids(c)
  BY <1>5 DEF Ids
<1> QED BY <1>6 DEF tied

\* Only blocks of the cache are evicted.
LEMMA EvictionOrdersIs ==
  ASSUME NEW c \in Seq(Blocks), NEW r \in Seq(Nat \ {0}), Elements(r) = Ids(c), NEW head
  PROVE  EvictionOrders(c, r, head) \subseteq Seq(Ids(c))
<1> DEFINE at_head == {k \in DOMAIN c : Holds(c[k], head)}
           k == First(at_head)
           gaps == {j \in (k + 1)..Len(c) : ~Adjacent(c[j - 1], c[j])}
           beyond == IF gaps = {} THEN <<>> ELSE SubSeq(c, First(gaps), Len(c))
           ids(s) == [j \in DOMAIN s |-> s[j].id]
<1>0. DOMAIN c = 1..Len(c) /\ Len(c) \in Nat
  BY IdsOf
<1>1. CASE c = <<>>
  <2>1. EvictionOrders(c, r, head) = {<<>>}
    BY <1>1 DEF EvictionOrders
  <2> QED BY <2>1
<1>2. CASE c # <<>> /\ at_head = {}
  <2>1. EvictionOrders(c, r, head) = {<<id>> : id \in Oldest(c, r)}
    BY <1>2 DEF EvictionOrders
  <2>2. Oldest(c, r) \subseteq Ids(c)
    BY OldestIs
  <2>3. \A id \in Ids(c) : <<id>> \in Seq(Ids(c))
    OBVIOUS
  <2> QED BY <2>1, <2>2, <2>3
<1>3. CASE c # <<>> /\ at_head # {}
  <2>1. EvictionOrders(c, r, head) = {ids(SubSeq(c, 1, k - 1)) \o Reverse(ids(beyond))}
    BY <1>3 DEF EvictionOrders
  <2>2. k \in 1..Len(c)
    <3>1. at_head \subseteq Nat
      BY <1>0
    <3> HIDE DEF at_head
    <3>2. k \in at_head
      BY <3>1, <1>3, FirstIs
    <3> QED BY <3>2, <1>0 DEF at_head
  <2>3. ASSUME NEW m \in Nat \ {0}, NEW n \in Nat, n <= Len(c)
        PROVE  ids(SubSeq(c, m, n)) \in Seq(Ids(c))
    <3> DEFINE s == SubSeq(c, m, n)
    <3>1. \A i \in m..n : c[i] \in Blocks /\ i \in DOMAIN c
      BY <1>0, <2>3
    <3>2. /\ s \in Seq(Blocks)
          /\ Len(s) = (IF m <= n THEN n - m + 1 ELSE 0)
          /\ \A i \in 1..(n - m + 1) : s[i] = c[m + i - 1]
      BY <2>3, <3>1, SubSeqProperties
    <3> HIDE DEF s
    <3>3. DOMAIN s = 1..Len(s) /\ Len(s) \in Nat
      BY <3>2
    <3>4. ASSUME NEW i \in 1..Len(s) PROVE s[i].id \in Ids(c)
      <4>1. m <= n /\ i \in 1..(n - m + 1) /\ m + i - 1 \in m..n
        BY <3>2, <3>3
      <4>2. m + i - 1 \in DOMAIN c /\ s[i] = c[m + i - 1]
        BY <4>1, <3>1, <3>2
      <4> QED BY <4>2 DEF Ids
    <3>5. ids(s) \in Seq(Ids(c))
      BY <3>3, <3>4
    <3> QED BY <3>5 DEF s
  <2>4. ids(SubSeq(c, 1, k - 1)) \in Seq(Ids(c))
    <3>1. k - 1 \in Nat /\ k - 1 <= Len(c) /\ 1 \in Nat \ {0}
      BY <1>0, <2>2
    <3> HIDE DEF ids, k
    <3> QED BY <2>3, <3>1
  <2>5. ids(beyond) \in Seq(Ids(c))
    <3>1. CASE gaps = {}
      <4>1. beyond = <<>>
        BY <3>1
      <4>2. ids(<<>>) = <<>> /\ <<>> \in Seq(Ids(c))
        OBVIOUS
      <4> HIDE DEF ids, beyond
      <4> QED BY <4>1, <4>2
    <3>2. CASE gaps # {}
      <4>1. gaps \subseteq (k + 1)..Len(c)
        OBVIOUS
      <4> HIDE DEF gaps, ids, k
      <4>2. gaps \subseteq Nat
        BY <4>1, <2>2, <1>0
      <4>3. First(gaps) \in gaps
        BY <3>2, <4>2, FirstIs
      <4>4. First(gaps) \in Nat \ {0}
        <5> DEFINE f == First(gaps)
        <5>1. f \in (k + 1)..Len(c)
          BY <4>1, <4>3
        <5> HIDE DEF f
        <5>2. f \in Nat \ {0}
          BY <5>1, <2>2, <1>0
        <5> QED BY <5>2 DEF f
      <4>5. beyond = SubSeq(c, First(gaps), Len(c))
        BY <3>2
      <4>6. Len(c) <= Len(c)
        BY <1>0
      <4> HIDE DEF beyond
      <4> QED BY <2>3, <4>4, <4>5, <4>6, <1>0
    <3> QED BY <3>1, <3>2
  <2> HIDE DEF ids, beyond, k
  <2>6. Reverse(ids(beyond)) \in Seq(Ids(c))
    BY <2>5, ReverseType
  <2> QED BY <2>1, <2>4, <2>6, ConcatProperties
<1> QED BY <1>1, <1>2, <1>3

LEMMA OrderHead ==
  ASSUME NEW c \in Seq(Blocks), NEW r \in Seq(Nat \ {0}), Elements(r) = Ids(c), NEW head,
         NEW order \in EvictionOrders(c, r, head)
  PROVE  /\ Len(order) \in Nat
         /\ order # <<>> => Head(order) \in Ids(c) /\ Len(order) - 1 \in Nat
<1>1. order \in Seq(Ids(c))
  BY EvictionOrdersIs
<1> QED BY <1>1

-----------------------------------------------------------------------------
(* What a block that is written to has.                                    *)

Poses(items) == {items[n].pos : n \in DOMAIN items}

LEMMA PosesConcat ==
  ASSUME NEW a \in Seq(Items), NEW b \in Seq(Items)
  PROVE  Poses(a \o b) = Poses(a) \cup Poses(b)
<1>1. /\ a \o b \in Seq(Items) /\ Len(a \o b) = Len(a) + Len(b) /\ Len(a) \in Nat /\ Len(b) \in Nat
      /\ \A i \in 1..(Len(a) + Len(b)) : (a \o b)[i] = IF i <= Len(a) THEN a[i] ELSE b[i - Len(a)]
  BY ConcatProperties
<1> DEFINE c == a \o b
<1> HIDE DEF c
<1>2. /\ DOMAIN a = 1..Len(a) /\ DOMAIN b = 1..Len(b) /\ DOMAIN c = 1..(Len(a) + Len(b))
      /\ \A i \in 1..(Len(a) + Len(b)) : c[i] = IF i <= Len(a) THEN a[i] ELSE b[i - Len(a)]
  BY <1>1 DEF c
<1>3. ASSUME NEW x \in Poses(c) PROVE x \in Poses(a) \cup Poses(b)
  <2>1. PICK i \in DOMAIN c : x = c[i].pos
    BY DEF Poses
  <2>2. CASE i <= Len(a)
    <3>1. i \in DOMAIN a /\ c[i] = a[i]
      BY <1>1, <1>2, <2>2
    <3> QED BY <3>1, <2>1 DEF Poses
  <2>3. CASE ~ (i <= Len(a))
    <3>1. i - Len(a) \in DOMAIN b /\ c[i] = b[i - Len(a)]
      BY <1>1, <1>2, <2>3
    <3> QED BY <3>1, <2>1 DEF Poses
  <2> QED BY <2>2, <2>3
<1>4. ASSUME NEW x \in Poses(a) PROVE x \in Poses(c)
  <2>1. PICK i \in DOMAIN a : x = a[i].pos
    BY DEF Poses
  <2>2. i \in DOMAIN c /\ c[i] = a[i]
    BY <1>1, <1>2
  <2> QED BY <2>1, <2>2 DEF Poses
<1>5. ASSUME NEW x \in Poses(b) PROVE x \in Poses(c)
  <2>1. PICK i \in DOMAIN b : x = b[i].pos
    BY DEF Poses
  <2>2. Len(a) + i \in DOMAIN c /\ c[Len(a) + i] = b[i]
    <3>1. Len(a) + i \in 1..(Len(a) + Len(b)) /\ ~ (Len(a) + i <= Len(a)) /\ (Len(a) + i) - Len(a) = i
      BY <1>1, <1>2
    <3> QED BY <3>1, <1>2
  <2> QED BY <2>1, <2>2 DEF Poses
<1> QED BY <1>3, <1>4, <1>5 DEF c

\* The results written to a block follow those it has.
LEMMA InOrderConcat ==
  ASSUME NEW a \in Seq(Items), NEW b \in Seq(Items), InOrder(a), InOrder(b),
         \A m \in DOMAIN a, n \in DOMAIN b : a[m].pos < b[n].pos /\ a[m].at <= b[n].at
  PROVE  InOrder(a \o b)
<1>1. /\ a \o b \in Seq(Items) /\ Len(a \o b) = Len(a) + Len(b) /\ Len(a) \in Nat /\ Len(b) \in Nat
      /\ \A i \in 1..(Len(a) + Len(b)) : (a \o b)[i] = IF i <= Len(a) THEN a[i] ELSE b[i - Len(a)]
  BY ConcatProperties
<1> DEFINE c == a \o b
<1> HIDE DEF c
<1>2. /\ DOMAIN a = 1..Len(a) /\ DOMAIN b = 1..Len(b) /\ DOMAIN c = 1..(Len(a) + Len(b))
      /\ \A i \in 1..(Len(a) + Len(b)) : c[i] = IF i <= Len(a) THEN a[i] ELSE b[i - Len(a)]
  BY <1>1 DEF c
<1>3. ASSUME NEW i \in DOMAIN c
      PROVE  \/ i <= Len(a) /\ i \in DOMAIN a /\ c[i] = a[i]
             \/ ~ (i <= Len(a)) /\ i - Len(a) \in DOMAIN b /\ c[i] = b[i - Len(a)]
  BY <1>1, <1>2
<1>4. ASSUME NEW m \in DOMAIN c, NEW n \in DOMAIN c, m < n
      PROVE  c[m].pos < c[n].pos /\ c[m].at <= c[n].at
  <2>0. m \in Nat /\ n \in Nat
    BY <1>1, <1>2
  <2>1. CASE n <= Len(a)
    <3>1. m <= Len(a)
      BY <2>0, <2>1, <1>1, <1>4
    <3> QED BY <3>1, <2>1, <1>3, <1>4 DEF InOrder
  <2>2. CASE ~ (n <= Len(a)) /\ m <= Len(a)
    BY <2>2, <1>3
  <2>3. CASE ~ (n <= Len(a)) /\ ~ (m <= Len(a))
    <3>1. m - Len(a) < n - Len(a)
      BY <2>0, <1>1, <1>4
    <3> QED BY <3>1, <2>3, <1>3 DEF InOrder
  <2> QED BY <2>1, <2>2, <2>3
<1>5. ASSUME NEW n \in DOMAIN c, Timed(c[n].pos) PROVE c[n].at = Log[c[n].pos].time
  BY <1>3, <1>5 DEF InOrder
<1>6. InOrder(c)
  BY <1>4, <1>5, Zenon DEF InOrder
<1> QED BY <1>6 DEF c

\* Pending results are written to the block `own`, which then has all up to e.
LEMMA ExtendKeeps ==
  ASSUME NEW c \in Seq(Blocks), Good(c), Apart(c), NEW own \in Ids(c), Parted(c, own),
         readHead \in Nat, lastTime \in Nat, sourceEnd \in Nat, pending \in Seq(Items),
         readHead <= lastTime, InOrder(pending),
         \A n \in DOMAIN pending : pending[n].at = lastTime,
         NEW e \in lastTime..sourceEnd,
         TimedIn(Poses(pending)) = TimedIn(Wanted(cachedTopics, lastTime, e)),
         NEW d, d = Extend(c, own, pending, e)
  PROVE  /\ d \in Seq(Blocks) /\ Good(d) /\ Apart(d) /\ Ids(d) = Ids(c)
         /\ Total(Sizes(d)) = Total(Sizes(c)) + Size(pending)
         /\ \A k \in DOMAIN d :
              IF d[k].id = own
              THEN /\ d[k].start = readHead /\ d[k].end = e /\ Complete(d[k])
                   /\ \A i \in Held(d[k]) : i \in Poses(pending) \/ \E l \in DOMAIN c : c[l].id = own /\ i \in Held(c[l])
              ELSE d[k].end < readHead \/ sourceEnd < d[k].start
<1>1. PICK k \in DOMAIN c : c[k].id = own
  BY DEF Ids
<1>2. e \in Nat /\ lastTime <= e /\ e <= sourceEnd
  OBVIOUS
<1>3. /\ d \in Seq(Blocks) /\ DOMAIN d = DOMAIN c
      /\ \A j \in DOMAIN c : j # k => d[j] = c[j]
      /\ d[k].id = c[k].id /\ d[k].start = c[k].start /\ d[k].end = e
      /\ d[k].items = c[k].items \o pending /\ d[k].size = c[k].size + Size(pending)
      /\ Ids(d) = Ids(c)
      /\ Total(Sizes(d)) = Total(Sizes(c)) + Size(pending)
  BY <1>1, <1>2, ExtendIs
<1> DEFINE b == c[k]
           x == d[k]
<1>4. /\ b \in Blocks /\ b.start \in Nat /\ b.end \in Nat /\ b.items \in Seq(Items)
      /\ b.size \in Nat
  BY BlockTypes
<1>5. /\ b.id = own /\ b.start = readHead /\ (Fresh(b) \/ Written(b))
      /\ \A i \in Held(b) : \A n \in DOMAIN pending : i < pending[n].pos
  BY <1>1 DEF Parted
<1>6. Sound(b)
  BY DEF Good
<1>7. x.id = own /\ x.start = b.start /\ x.end = e /\ x.items = b.items \o pending
      /\ x.size = b.size + Size(pending)
  BY <1>1, <1>3
<1>8. \A j \in DOMAIN c : j # k => c[j].id # own
  BY <1>1 DEF Apart
<1> HIDE DEF b, x
<1>9. Held(b) = Poses(b.items) /\ Held(x) = Poses(b.items) \cup Poses(pending)
  <2>1. Held(b) = Poses(b.items) /\ Held(x) = Poses(x.items)
    BY Zenon DEF Held, Poses
  <2>2. Poses(x.items) = Poses(b.items \o pending)
    BY <1>7, Zenon
  <2>3. Poses(b.items \o pending) = Poses(b.items) \cup Poses(pending)
    BY <1>4, PosesConcat
  <2> QED BY <2>1, <2>2, <2>3
<1>10. \A m \in DOMAIN b.items :
         b.items[m].at \in Nat /\ b.items[m].at < lastTime /\ b.items[m].at >= b.start
  <2> SUFFICES ASSUME NEW m \in DOMAIN b.items
               PROVE  b.items[m].at \in Nat /\ b.items[m].at < lastTime /\ b.items[m].at >= b.start
    OBVIOUS
  <2>1. b.items[m].at \in Nat
    <3>1. DOMAIN b.items = 1..Len(b.items)
      BY <1>4
    <3>2. b.items[m] \in Items
      BY <3>1, <1>4, ElementOfSeq
    <3> QED BY <3>2 DEF Items
  <2>2. b.start <= b.items[m].at /\ b.items[m].at <= b.end
    BY <1>6 DEF Sound, Holds
  <2>3. CASE Fresh(b)
    BY <2>3 DEF Fresh
  <2>4. CASE Written(b)
    BY <2>1, <2>2, <2>4, <1>4 DEF Written
  <2> QED BY <2>1, <2>2, <2>3, <2>4, <1>4, <1>5
<1>11. InOrder(x.items)
  <2>1. \A m \in DOMAIN b.items, n \in DOMAIN pending :
          b.items[m].pos < pending[n].pos /\ b.items[m].at <= pending[n].at
    <3> SUFFICES ASSUME NEW m \in DOMAIN b.items, NEW n \in DOMAIN pending
                 PROVE  b.items[m].pos < pending[n].pos /\ b.items[m].at <= pending[n].at
      OBVIOUS
    <3>1. b.items[m].pos \in Held(b)
      BY <1>9 DEF Poses
    <3>2. pending[n].at = lastTime /\ b.items[m].at \in Nat /\ b.items[m].at < lastTime
      BY <1>10
    <3> QED BY <3>1, <3>2, <1>5
  <2>2. InOrder(b.items)
    BY <1>6 DEF Sound
  <2> QED BY <2>1, <2>2, <1>4, <1>7, InOrderConcat
<1>12. ASSUME NEW n \in DOMAIN x.items PROVE Holds(x, x.items[n].at)
  <2>1. /\ x.items \in Seq(Items) /\ Len(x.items) = Len(b.items) + Len(pending)
        /\ Len(b.items) \in Nat /\ Len(pending) \in Nat
        /\ \A i \in 1..(Len(b.items) + Len(pending)) :
             x.items[i] = IF i <= Len(b.items) THEN b.items[i] ELSE pending[i - Len(b.items)]
    BY <1>4, <1>7, ConcatProperties
  <2>2. /\ DOMAIN x.items = 1..(Len(b.items) + Len(pending)) /\ DOMAIN pending = 1..Len(pending)
        /\ DOMAIN b.items = 1..Len(b.items)
    BY <2>1, <1>4
  <2>3. CASE n <= Len(b.items)
    <3>1. n \in DOMAIN b.items /\ x.items[n] = b.items[n]
      BY <2>1, <2>2, <2>3
    <3> QED BY <3>1, <1>2, <1>4, <1>5, <1>7, <1>10 DEF Holds
  <2>4. CASE ~ (n <= Len(b.items))
    <3>0. n \in 1..(Len(b.items) + Len(pending)) /\ n \in Nat
      BY <2>1, <2>2
    <3>3. n - Len(b.items) \in 1..Len(pending)
      BY <3>0, <2>1, <2>4
    <3>1. n - Len(b.items) \in DOMAIN pending /\ x.items[n] = pending[n - Len(b.items)]
      BY <3>0, <3>3, <2>1, <2>2, <2>4
    <3>2. x.items[n].at = lastTime
      BY <3>1
    <3> QED BY <3>2, <1>2, <1>5, <1>7 DEF Holds
  <2> QED BY <2>3, <2>4
<1>13. Sound(x)
  <2>1. x.start <= x.end
    BY <1>2, <1>5, <1>7
  <2>2. x.size = Size(x.items)
    BY <1>4, <1>6, <1>7, SizeConcat DEF Sound
  <2> QED BY <2>1, <2>2, <1>11, <1>12 DEF Sound
<1>14. Complete(x)
  <2>1. CASE Fresh(b)
    <3>1. b.items = <<>> /\ b.start = lastTime
      BY <2>1 DEF Fresh
    <3>2. DOMAIN <<>> = {}
      OBVIOUS
    <3>3. Poses(b.items) = {}
      BY <3>1, <3>2 DEF Poses
    <3>4. Held(x) = Poses(pending) /\ x.start = lastTime /\ x.end = e
      BY <3>1, <3>3, <1>7, <1>9
    <3> QED BY <3>4 DEF Complete
  <2>2. CASE Written(b)
    <3>1. b.end = lastTime - 1 /\ TimedIn(Held(b)) = TimedIn(Wanted(cachedTopics, b.start, b.end))
      BY <2>2 DEF Written, Complete
    <3>2. TimedIn(Held(x)) = TimedIn(Held(b)) \cup TimedIn(Poses(pending))
      BY <1>9 DEF TimedIn
    <3>3. ASSUME NEW i
          PROVE  i \in Wanted(cachedTopics, b.start, e) <=>
                   \/ i \in Wanted(cachedTopics, b.start, lastTime - 1)
                   \/ i \in Wanted(cachedTopics, lastTime, e)
      <4>1. \A u \in Nat : u \in b.start..e <=> u \in b.start..(lastTime - 1) \/ u \in lastTime..e
        BY <1>2, <1>4, <1>5
      <4> QED BY <4>1, LogTypes DEF Wanted
    <3>4. TimedIn(Wanted(cachedTopics, b.start, e)) =
            TimedIn(Wanted(cachedTopics, b.start, lastTime - 1)) \cup TimedIn(Wanted(cachedTopics, lastTime, e))
      BY <3>3 DEF TimedIn
    <3> QED BY <3>1, <3>2, <3>4, <1>7 DEF Complete
  <2> QED BY <2>1, <2>2, <1>5
<1>15. ASSUME NEW j \in DOMAIN c, k < j PROVE e < c[j].start
  <2>0. j # k /\ c[j].start \in Nat /\ c[j].end \in Nat
    <3>1. DOMAIN c = 1..Len(c)
      BY IdsOf
    <3>2. j # k
      BY <3>1, <1>15
    <3> QED BY <3>2, BlockTypes
  <2>1. c[j].end < readHead \/ sourceEnd < c[j].start
    BY <2>0, <1>8 DEF Parted
  <2>2. b.end < c[j].start /\ b.start <= b.end /\ c[j].start <= c[j].end
    BY <1>15, <1>6 DEF Apart, b, Sound, Good
  <2> QED BY <2>0, <2>1, <2>2, <1>2, <1>4, <1>5
<1>16. Apart(d)
  <2>1. ASSUME NEW i \in DOMAIN d, NEW j \in DOMAIN d, i < j PROVE d[i].end < d[j].start
    <3>0. i # j
      <4>1. DOMAIN c = 1..Len(c)
        BY IdsOf
      <4> QED BY <4>1, <2>1, <1>3
    <3>1. CASE i = k
      BY <3>0, <3>1, <2>1, <1>3, <1>15
    <3>2. CASE j = k
      BY <3>0, <3>2, <2>1, <1>3 DEF Apart
    <3>3. CASE i # k /\ j # k
      BY <3>3, <2>1, <1>3 DEF Apart
    <3> QED BY <3>1, <3>2, <3>3
  <2>2. \A i \in DOMAIN d : d[i].id = c[i].id
    BY <1>3
  <2>3. \A i, j \in DOMAIN d : i # j => d[i].id # d[j].id
    BY <2>2, <1>3 DEF Apart
  <2> QED BY <2>1, <2>3 DEF Apart
<1>17. Good(d)
  <2> SUFFICES ASSUME NEW j \in DOMAIN d PROVE Sound(d[j]) /\ (Hollow(d[j]) \/ Complete(d[j]))
    BY DEF Good
  <2>1. CASE j = k
    BY <2>1, <1>13, <1>14 DEF x
  <2>2. CASE j # k
    BY <2>2, <1>3 DEF Good
  <2> QED BY <2>1, <2>2
<1>18. ASSUME NEW j \in DOMAIN d
       PROVE  IF d[j].id = own
              THEN /\ d[j].start = readHead /\ d[j].end = e /\ Complete(d[j])
                   /\ \A i \in Held(d[j]) : i \in Poses(pending) \/ \E l \in DOMAIN c : c[l].id = own /\ i \in Held(c[l])
              ELSE d[j].end < readHead \/ sourceEnd < d[j].start
  <2>1. CASE j = k
    <3>1. d[j] = x /\ d[j].id = own /\ d[j].start = readHead /\ d[j].end = e /\ Complete(d[j])
      BY <2>1, <1>5, <1>7, <1>14 DEF x
    <3>2. \A i \in Held(x) : i \in Poses(pending) \/ i \in Held(b)
      BY <1>9
    <3> QED BY <3>1, <3>2, <1>1 DEF b
  <2>2. CASE j # k
    BY <2>2, <1>3, <1>8 DEF Parted
  <2> QED BY <2>1, <2>2
<1> QED BY <1>3, <1>16, <1>17, <1>18

-----------------------------------------------------------------------------
(* Reading the source.                                                     *)

\* What the invariant says of the cache, in terms of the lemmas above.
LEMMA CacheFacts ==
  ASSUME IInv
  PROVE  /\ cache \in Seq(Blocks) /\ recent \in Seq(Nat \ {0})
         /\ Good(cache) /\ Apart(cache)
         /\ Elements(recent) = Ids(cache) /\ Distinct(recent)
         /\ totalSize \in Nat /\ Size(pending) \in Nat /\ Total(Sizes(cache)) \in Nat
         /\ totalSize >= Size(pending) + Total(Sizes(cache))
         /\ block \in Ids(cache) \cup {0}
<1>1. /\ cache \in Seq(Blocks) /\ recent \in Seq(Nat \ {0}) /\ totalSize \in Nat
      /\ pending \in Seq(Items) /\ block \in Ids(cache) \cup {0}
  BY DEF IInv, TypeOK, Ids
<1>2. Size(pending) \in Nat /\ Total(Sizes(cache)) \in Nat
  BY <1>1, SizeType, SizesType, TotalType
<1>3. /\ Good(cache) /\ Apart(cache) /\ Accessed(recent, cache)
      /\ totalSize >= Size(pending) + Total(Sizes(cache))
  BY DEF IInv, CacheInv
<1> QED BY <1>1, <1>2, <1>3, Zenon DEF Accessed, Elements, Distinct

LEMMA ReadingTypes ==
  ASSUME IInv
  PROVE  /\ readHead \in Nat /\ lastTime \in Nat /\ sourceEnd \in Nat /\ maxEnd \in Nat
         /\ pending \in Seq(Items) /\ ahead \subseteq 1..Len(Log) /\ last \in 0..Len(Log)
         /\ stream \subseteq 1..Len(Log) /\ DOMAIN pending = 1..Len(pending)
         /\ \A n \in DOMAIN pending : pending[n].pos \in 1..Len(Log)
<1>1. /\ readHead \in Nat /\ lastTime \in Nat /\ sourceEnd \in Nat /\ maxEnd \in Nat
      /\ pending \in Seq(Items) /\ ahead \subseteq 1..Len(Log) /\ last \in 0..Len(Log)
      /\ stream \subseteq 1..Len(Log)
  BY DEF IInv, TypeOK
<1>2. DOMAIN pending = 1..Len(pending)
  BY <1>1
<1>3. \A n \in DOMAIN pending : pending[n].pos \in 1..Len(Log)
  <2> SUFFICES ASSUME NEW n \in DOMAIN pending PROVE pending[n].pos \in 1..Len(Log)
    OBVIOUS
  <2>1. pending[n] \in Items
    BY <1>1, <1>2, ElementOfSeq
  <2> QED BY <2>1 DEF Items
<1> QED BY <1>1, <1>2, <1>3

\* A block that is inserted has nothing of the other blocks' time ranges.
LEMMA NewBlockIs ==
  ASSUME NEW c \in Seq(Blocks), Good(c), Apart(c), NEW b \in Blocks, b.id \notin Ids(c),
         Sound(b), Hollow(b) \/ Complete(b),
         \A k \in DOMAIN c : c[k].end < b.start \/ b.end < c[k].start,
         NEW d, d = Insert(c, b)
  PROVE  /\ d \in Seq(Blocks) /\ Good(d) /\ Apart(d) /\ Ids(d) = Ids(c) \cup {b.id}
         /\ Total(Sizes(d)) = Total(Sizes(c)) + b.size
         /\ \A j \in DOMAIN d : d[j] = b \/ \E i \in DOMAIN c : d[j] = c[i]
<1>1. PICK k : /\ Inserted(d, c, b, k)
               /\ \A j \in 1..Len(c) : j < k => c[j].start < b.start
               /\ k <= Len(c) => c[k].start >= b.start
  BY InsertIs
<1>2. d \in Seq(Blocks)
  BY InsertIs
<1>3. b.start <= b.end /\ \A j \in DOMAIN c : c[j].start <= c[j].end
  BY DEF Good, Sound
<1>4. /\ Apart(d) /\ Ids(d) = Ids(c) \cup {b.id}
      /\ \A j \in DOMAIN d : d[j] = b \/ \E i \in DOMAIN c : d[j] = c[i]
  BY <1>1, <1>2, <1>3, InsertedIs
<1>5. Good(d)
  BY <1>4 DEF Good
<1>6. Total(Sizes(d)) = Total(Sizes(c)) + b.size
  BY <1>1, <1>2, SizesInserted
<1> QED BY <1>2, <1>4, <1>5, <1>6

\* Before there is a block to write to, no block has any of what is read.
LEMMA NothingRead ==
  ASSUME IInv, at = "source", block = 0
  PROVE  /\ lastTime = readHead
         /\ \A k \in DOMAIN cache : cache[k].end < readHead \/ sourceEnd < cache[k].start
<1>1. lastTime = readHead /\ Parted(cache, 0)
  BY DEF IInv, IteratorInv, Reading
<1>2. \A k \in DOMAIN cache : cache[k].id # 0
  BY CacheFacts, BlockTypes
<1> QED BY <1>1, <1>2 DEF Parted

LEMMA WithBlockIs ==
  ASSUME IInv, at = "source",
         NEW own, own = IF block = 0 THEN FreshId(cache) ELSE block,
         NEW c, c = WithBlock(own)
  PROVE  /\ c \in Seq(Blocks) /\ Good(c) /\ Apart(c) /\ Parted(c, own)
         /\ own \in Nat \ {0} /\ own \in Ids(c) /\ Ids(c) = Ids(cache) \cup {own}
         /\ Total(Sizes(c)) = Total(Sizes(cache))
<1>0. /\ readHead <= lastTime /\ lastTime <= sourceEnd /\ Parted(cache, block)
  BY DEF IInv, IteratorInv, Reading
<1>1. CASE block # 0
  <2>1. own = block /\ c = cache /\ block \in Ids(cache)
    BY <1>1, CacheFacts DEF WithBlock
  <2>2. block \in Nat \ {0}
    BY <2>1, CacheFacts, BlockTypes DEF Ids
  <2>3. Ids(cache) \cup {own} = Ids(cache)
    BY <2>1
  <2> QED BY <2>1, <2>2, <2>3, <1>0, CacheFacts
<1>2. CASE block = 0
  <2> DEFINE b == NewBlock(own, readHead, readHead, <<>>)
  <2>1. own \in Nat \ {0} /\ own \notin Ids(cache) /\ c = Insert(cache, b)
    BY <1>2, CacheFacts, FreshIdIs DEF WithBlock
  <2>2. /\ b \in Blocks /\ b.id = own /\ b.start = readHead /\ b.end = readHead
        /\ b.items = <<>> /\ b.size = 0 /\ Size(<<>>) = 0
    <3>1. <<>> \in Seq(Items)
      OBVIOUS
    <3>2. b = [id |-> own, start |-> readHead, end |-> readHead, items |-> <<>>, size |-> 0]
      BY SizeEmpty DEF NewBlock
    <3> HIDE DEF b
    <3> QED BY <2>1, <3>1, <3>2, SizeEmpty, ReadingTypes DEF Blocks
  <2> HIDE DEF b
  <2>3. DOMAIN b.items = {} /\ Held(b) = {}
    BY <2>2 DEF Held
  <2>4. Sound(b) /\ Hollow(b) /\ Fresh(b)
    <3>1. lastTime = readHead /\ readHead <= readHead
      BY <1>2, NothingRead, ReadingTypes
    <3> QED BY <3>1, <2>2, <2>3 DEF Sound, Hollow, Fresh, InOrder
  <2>5. \A k \in DOMAIN cache : cache[k].end < readHead \/ sourceEnd < cache[k].start
    BY <1>2, NothingRead
  <2>6. \A k \in DOMAIN cache : cache[k].end < b.start \/ b.end < cache[k].start
    <3> SUFFICES ASSUME NEW k \in DOMAIN cache
                 PROVE  cache[k].end < b.start \/ b.end < cache[k].start
      OBVIOUS
    <3>1. cache[k].start \in Nat /\ cache[k].end \in Nat
      BY CacheFacts, BlockTypes
    <3> QED BY <3>1, <2>2, <2>5, <1>0, ReadingTypes
  <2>7. /\ c \in Seq(Blocks) /\ Good(c) /\ Apart(c) /\ Ids(c) = Ids(cache) \cup {own}
        /\ Total(Sizes(c)) = Total(Sizes(cache)) + 0
        /\ \A j \in DOMAIN c : c[j] = b \/ \E i \in DOMAIN cache : c[j] = cache[i]
    BY <2>1, <2>2, <2>4, <2>6, CacheFacts, NewBlockIs
  <2>8. Parted(c, own)
    <3> SUFFICES ASSUME NEW k \in DOMAIN c
                 PROVE  IF c[k].id = own
                        THEN /\ c[k].start = readHead
                             /\ Fresh(c[k]) \/ Written(c[k])
                             /\ \A i \in Held(c[k]) : /\ \A n \in DOMAIN pending : i < pending[n].pos
                                                      /\ \A j \in ahead : i < j
                        ELSE c[k].end < readHead \/ sourceEnd < c[k].start
      BY DEF Parted
    <3>1. CASE c[k] = b
      BY <3>1, <2>2, <2>3, <2>4
    <3>2. CASE \E i \in DOMAIN cache : c[k] = cache[i]
      <4>1. c[k].id # own
        BY <3>2, <2>1 DEF Ids
      <4> QED BY <4>1, <3>2, <2>5
    <3> QED BY <3>1, <3>2, <2>7
  <2>9. Total(Sizes(c)) = Total(Sizes(cache))
    BY <2>7, CacheFacts
  <2> QED BY <2>1, <2>7, <2>8, <2>9
<1> QED BY <1>1, <1>2

\* The next result of the source, and the time it is kept under.
LEMMA NextIs ==
  ASSUME IInv, at = "source", ahead # {},
         NEW i, i = First(ahead), NEW t, t = IF Timed(i) THEN Log[i].time ELSE lastTime
  PROVE  /\ i \in ahead /\ i \in 1..Len(Log) /\ \A j \in ahead : i <= j
         /\ t \in Nat /\ lastTime <= t /\ t <= sourceEnd
         /\ t > lastTime => Timed(i)
         /\ Log[i].size \in Nat
         /\ \A j \in ahead : j \in 1..Len(Log) /\ Log[j].time \in Nat
                             /\ t <= Log[j].time /\ Log[j].time <= sourceEnd
<1>1. ahead \subseteq Nat
  BY ReadingTypes
<1>2. i \in ahead /\ \A j \in ahead : i <= j
  BY <1>1, FirstIs
<1>3. /\ readHead <= lastTime /\ lastTime <= sourceEnd
      /\ ahead \subseteq Wanted(cachedTopics, lastTime, sourceEnd)
  BY DEF IInv, IteratorInv, Reading
<1>4. \A j \in ahead : /\ j \in 1..Len(Log) /\ Log[j].time \in Nat
                       /\ lastTime <= Log[j].time /\ Log[j].time <= sourceEnd
  <2> SUFFICES ASSUME NEW j \in ahead
               PROVE  /\ j \in 1..Len(Log) /\ Log[j].time \in Nat
                      /\ lastTime <= Log[j].time /\ Log[j].time <= sourceEnd
    OBVIOUS
  <2>1. j \in 1..Len(Log) /\ Log[j].time \in lastTime..sourceEnd
    BY <1>3 DEF Wanted
  <2> QED BY <2>1, ReadingTypes, LogTypes
<1>5. i \in 1..Len(Log) /\ Log[i].size \in Nat
  BY <1>2, <1>4, LogTypes
<1>6. \A j \in ahead : Log[i].time <= Log[j].time
  BY <1>2, <1>4, <1>5, LogTypes
<1>7. t \in Nat /\ lastTime <= t /\ t <= sourceEnd /\ (t > lastTime => Timed(i))
  BY <1>2, <1>3, <1>4, ReadingTypes
<1>8. \A j \in ahead : t <= Log[j].time
  BY <1>4, <1>6
<1> QED BY <1>2, <1>4, <1>5, <1>7, <1>8

\* What was read before time moves on to t is all there is before t.
LEMMA PendingIs ==
  ASSUME IInv, at = "source", NEW t \in Nat, lastTime < t, t <= sourceEnd + 1,
         \A j \in ahead : t <= Log[j].time
  PROVE  /\ TimedIn(Poses(pending)) = TimedIn(Wanted(cachedTopics, lastTime, t - 1))
         /\ TimedIn(ahead) = TimedIn(Wanted(cachedTopics, t, sourceEnd))
<1>1. /\ TimedIn({pending[n].pos : n \in DOMAIN pending} \cup ahead)
           = TimedIn(Wanted(cachedTopics, lastTime, sourceEnd))
      /\ \A n \in DOMAIN pending : pending[n].at = lastTime
      /\ InOrder(pending)
  BY DEF IInv, IteratorInv, Reading
<1>2. \A x : x \in TimedIn(Wanted(cachedTopics, lastTime, sourceEnd)) <=>
               Timed(x) /\ (x \in Poses(pending) \/ x \in ahead)
  BY <1>1 DEF TimedIn, Poses
<1>3. ASSUME NEW x \in Poses(pending), Timed(x) PROVE Log[x].time = lastTime
  <2>1. PICK n \in DOMAIN pending : x = pending[n].pos
    BY DEF Poses
  <2> QED BY <2>1, <1>1, <1>3 DEF InOrder
<1>4. ASSUME NEW x, NEW from \in Nat, NEW to \in Nat
      PROVE  x \in Wanted(cachedTopics, from, to) <=>
               /\ x \in 1..Len(Log) /\ from <= Log[x].time /\ Log[x].time <= to
               /\ Log[x].kind = "message" => Log[x].topic \in cachedTopics
  BY LogTypes DEF Wanted
<1>5. lastTime \in Nat /\ sourceEnd \in Nat /\ t - 1 \in Nat
  BY ReadingTypes
<1>6. \A x \in 1..Len(Log) : Log[x].time \in Nat
  BY LogTypes
<1>7. ASSUME NEW x \in TimedIn(Poses(pending))
      PROVE  x \in TimedIn(Wanted(cachedTopics, lastTime, t - 1))
  <2>1. x \in Wanted(cachedTopics, lastTime, sourceEnd) /\ Timed(x) /\ Log[x].time = lastTime
    BY <1>2, <1>3 DEF TimedIn
  <2>2. lastTime <= t - 1
    BY <1>5
  <2> QED BY <2>1, <2>2, <1>4, <1>5, <1>6 DEF TimedIn
<1>8. ASSUME NEW x \in TimedIn(Wanted(cachedTopics, lastTime, t - 1))
      PROVE  x \in TimedIn(Poses(pending))
  <2>1. x \in Wanted(cachedTopics, lastTime, t - 1) /\ Timed(x)
    BY DEF TimedIn
  <2>2. x \in 1..Len(Log) /\ lastTime <= Log[x].time /\ Log[x].time <= t - 1
        /\ (Log[x].kind = "message" => Log[x].topic \in cachedTopics)
    BY <2>1, <1>4, <1>5
  <2>3. Log[x].time <= sourceEnd /\ ~ (t <= Log[x].time)
    BY <2>2, <1>5, <1>6
  <2>4. x \in Wanted(cachedTopics, lastTime, sourceEnd)
    BY <2>2, <2>3, <1>4, <1>5
  <2> QED BY <2>1, <2>3, <2>4, <1>2 DEF TimedIn
<1>9. ASSUME NEW x \in TimedIn(ahead)
      PROVE  x \in TimedIn(Wanted(cachedTopics, t, sourceEnd))
  <2>1. x \in Wanted(cachedTopics, lastTime, sourceEnd) /\ Timed(x) /\ t <= Log[x].time
    BY <1>2 DEF TimedIn
  <2> QED BY <2>1, <1>4, <1>5 DEF TimedIn
<1>10. ASSUME NEW x \in TimedIn(Wanted(cachedTopics, t, sourceEnd))
       PROVE  x \in TimedIn(ahead)
  <2>1. x \in Wanted(cachedTopics, t, sourceEnd) /\ Timed(x)
    BY DEF TimedIn
  <2>2. x \in 1..Len(Log) /\ t <= Log[x].time /\ Log[x].time <= sourceEnd
        /\ (Log[x].kind = "message" => Log[x].topic \in cachedTopics)
    BY <2>1, <1>4, <1>5
  <2>3. lastTime <= Log[x].time /\ Log[x].time # lastTime
    BY <2>2, <1>5, <1>6
  <2>4. x \in Wanted(cachedTopics, lastTime, sourceEnd)
    BY <2>2, <2>3, <1>4, <1>5
  <2> QED BY <2>1, <2>3, <2>4, <1>2, <1>3 DEF TimedIn
<1> QED BY <1>7, <1>8, <1>9, <1>10

\* What the cache c and the order of access r are after a result at t was taken, `own`
\* being the block in use.
Updated(t, own, c, r) ==
  /\ c \in Seq(Blocks) /\ Good(c) /\ Apart(c)
  /\ own \in Nat \ {0} /\ own \in Ids(c)
  /\ r \in Seq(Nat \ {0}) /\ Elements(r) = Ids(c) /\ Distinct(r)
  /\ Total(Sizes(c)) \in Nat
  /\ totalSize >= (IF t > lastTime THEN 0 ELSE Size(pending)) + Total(Sizes(c))
  /\ \A k \in DOMAIN c :
       IF c[k].id = own
       THEN /\ c[k].start = readHead
            /\ IF t > lastTime THEN c[k].end = t - 1 /\ Complete(c[k])
               ELSE Fresh(c[k]) \/ Written(c[k])
            /\ \A x \in Held(c[k]) :
                 /\ \A j \in ahead : x < j
                 /\ ~ (t > lastTime) => \A n \in DOMAIN pending : x < pending[n].pos
       ELSE c[k].end < readHead \/ sourceEnd < c[k].start

\* The cache after a result at t: the results before t are written, and the block in
\* use was accessed if it was written to.
LEMMA WrittenIs ==
  ASSUME IInv, at = "source",
         NEW t \in Nat, lastTime <= t, t <= sourceEnd, \A j \in ahead : t <= Log[j].time,
         NEW own, own = IF block = 0 THEN FreshId(cache) ELSE block,
         NEW c, c = IF t > lastTime THEN Extend(WithBlock(own), own, pending, t - 1)
                    ELSE WithBlock(own),
         NEW r, r = IF block = 0 \/ (t > lastTime) THEN Touch(recent, own) ELSE recent
  PROVE  Updated(t, own, c, r)
<1> DEFINE c0 == WithBlock(own)
<1>1. /\ c0 \in Seq(Blocks) /\ Good(c0) /\ Apart(c0) /\ Parted(c0, own)
      /\ own \in Nat \ {0} /\ own \in Ids(c0) /\ Ids(c0) = Ids(cache) \cup {own}
      /\ Total(Sizes(c0)) = Total(Sizes(cache))
  BY WithBlockIs
<1>2. c = IF t > lastTime THEN Extend(c0, own, pending, t - 1) ELSE c0
  OBVIOUS
<1> HIDE DEF c0
<1>3. r \in Seq(Nat \ {0}) /\ Elements(r) = Ids(c0) /\ Distinct(r)
  <2>1. CASE block = 0 \/ (t > lastTime)
    <3>1. r = Touch(recent, own)
      BY <2>1
    <3>2. recent \in Seq(Nat \ {0}) /\ Elements(recent) = Ids(cache) /\ Distinct(recent)
      BY CacheFacts
    <3> QED BY <3>1, <3>2, <1>1, TouchIs
  <2>2. CASE ~ (block = 0 \/ (t > lastTime))
    <3>1. r = recent /\ own = block /\ block # 0
      BY <2>2
    <3>2. own \in Ids(cache)
      BY <3>1, CacheFacts
    <3> QED BY <3>1, <3>2, <1>1, CacheFacts
  <2> QED BY <2>1, <2>2
<1>4. Total(Sizes(c0)) \in Nat /\ Size(pending) \in Nat
      /\ totalSize \in Nat /\ totalSize >= Size(pending) + Total(Sizes(c0))
  BY <1>1, CacheFacts
<1>5. CASE t > lastTime
  <2>1. lastTime < t /\ t <= sourceEnd + 1
    BY <1>5, ReadingTypes
  <2>2. TimedIn(Poses(pending)) = TimedIn(Wanted(cachedTopics, lastTime, t - 1))
    BY <2>1, PendingIs
  <2>3. /\ readHead <= lastTime /\ InOrder(pending)
        /\ \A n \in DOMAIN pending : pending[n].at = lastTime
        /\ \A n \in DOMAIN pending : \A j \in ahead : pending[n].pos < j
    BY DEF IInv, IteratorInv, Reading
  <2>4. t - 1 \in lastTime..sourceEnd /\ t - 1 \in Nat
    BY <2>1, ReadingTypes
  <2>5. readHead \in Nat /\ lastTime \in Nat /\ sourceEnd \in Nat /\ pending \in Seq(Items)
    BY ReadingTypes
  <2>6. /\ c \in Seq(Blocks) /\ Good(c) /\ Apart(c) /\ Ids(c) = Ids(c0)
        /\ Total(Sizes(c)) = Total(Sizes(c0)) + Size(pending)
        /\ \A k \in DOMAIN c :
              IF c[k].id = own
              THEN /\ c[k].start = readHead /\ c[k].end = t - 1 /\ Complete(c[k])
                   /\ \A i \in Held(c[k]) : i \in Poses(pending) \/ \E l \in DOMAIN c0 : c0[l].id = own /\ i \in Held(c0[l])
              ELSE c[k].end < readHead \/ sourceEnd < c[k].start
    <3>1. c = Extend(c0, own, pending, t - 1)
      BY <1>2, <1>5
    <3> DEFINE e == t - 1
    <3> HIDE DEF e
    <3>2. e \in lastTime..sourceEnd /\ c = Extend(c0, own, pending, e)
          /\ TimedIn(Poses(pending)) = TimedIn(Wanted(cachedTopics, lastTime, e))
      BY <3>1, <2>2, <2>4 DEF e
    <3>3. /\ c \in Seq(Blocks) /\ Good(c) /\ Apart(c) /\ Ids(c) = Ids(c0)
          /\ Total(Sizes(c)) = Total(Sizes(c0)) + Size(pending)
          /\ \A k \in DOMAIN c :
              IF c[k].id = own
              THEN /\ c[k].start = readHead /\ c[k].end = e /\ Complete(c[k])
                   /\ \A i \in Held(c[k]) : i \in Poses(pending) \/ \E l \in DOMAIN c0 : c0[l].id = own /\ i \in Held(c0[l])
              ELSE c[k].end < readHead \/ sourceEnd < c[k].start
      <4>1. \A n \in DOMAIN pending : pending[n].at = lastTime
        BY <2>3
      <4>2. readHead <= lastTime /\ InOrder(pending)
        BY <2>3
      <4>3. c0 \in Seq(Blocks) /\ Good(c0) /\ Apart(c0) /\ own \in Ids(c0) /\ Parted(c0, own)
        BY <1>1
      <4> QED BY <3>2, <2>5, <4>1, <4>2, <4>3, ExtendKeeps
    <3> QED BY <3>3 DEF e
  <2>7. ASSUME NEW k \in DOMAIN c, c[k].id = own, NEW x \in Held(c[k]), NEW j \in ahead
        PROVE  x < j
    <3>1. CASE x \in Poses(pending)
      BY <3>1, <2>3 DEF Poses
    <3>2. CASE \E l \in DOMAIN c0 : c0[l].id = own /\ x \in Held(c0[l])
      BY <3>2, <1>1 DEF Parted
    <3> QED BY <3>1, <3>2, <2>6, <2>7
  <2>8. Total(Sizes(c)) \in Nat /\ totalSize >= 0 + Total(Sizes(c))
    BY <2>6, <1>4
  <2>9. \A k \in DOMAIN c :
          IF c[k].id = own
          THEN /\ c[k].start = readHead /\ c[k].end = t - 1 /\ Complete(c[k])
               /\ \A x \in Held(c[k]) : \A j \in ahead : x < j
          ELSE c[k].end < readHead \/ sourceEnd < c[k].start
    <3> SUFFICES ASSUME NEW k \in DOMAIN c
                 PROVE  IF c[k].id = own
                        THEN /\ c[k].start = readHead /\ c[k].end = t - 1 /\ Complete(c[k])
                             /\ \A x \in Held(c[k]) : \A j \in ahead : x < j
                        ELSE c[k].end < readHead \/ sourceEnd < c[k].start
      OBVIOUS
    <3>1. CASE c[k].id = own
      BY <3>1, <2>6, <2>7
    <3>2. CASE c[k].id # own
      BY <3>2, <2>6
    <3> QED BY <3>1, <3>2
  <2>10. own \in Ids(c) /\ Elements(r) = Ids(c) /\ c \in Seq(Blocks) /\ Good(c) /\ Apart(c)
    BY <2>6, <1>1, <1>3
  <2>11. (IF t > lastTime THEN 0 ELSE Size(pending)) = 0
    BY <1>5, Zenon
  <2>12. totalSize >= (IF t > lastTime THEN 0 ELSE Size(pending)) + Total(Sizes(c))
    BY <2>8, <2>11, Zenon
  <2>13. \A k \in DOMAIN c :
          IF c[k].id = own
          THEN /\ c[k].start = readHead
               /\ IF t > lastTime THEN c[k].end = t - 1 /\ Complete(c[k])
                  ELSE Fresh(c[k]) \/ Written(c[k])
               /\ \A x \in Held(c[k]) :
                    /\ \A j \in ahead : x < j
                    /\ ~ (t > lastTime) => \A n \in DOMAIN pending : x < pending[n].pos
          ELSE c[k].end < readHead \/ sourceEnd < c[k].start
    BY <2>9, <1>5, Zenon
  <2> QED BY <2>8, <2>10, <2>12, <2>13, <1>1, <1>3, Zenon DEF Updated
<1>6. CASE ~ (t > lastTime)
  <2>1. c = c0
    BY <1>2, <1>6
  <2>2. \A k \in DOMAIN c :
          IF c[k].id = own
          THEN /\ c[k].start = readHead
               /\ Fresh(c[k]) \/ Written(c[k])
               /\ \A i \in Held(c[k]) : /\ \A n \in DOMAIN pending : i < pending[n].pos
                                        /\ \A j \in ahead : i < j
          ELSE c[k].end < readHead \/ sourceEnd < c[k].start
    BY <2>1, <1>1 DEF Parted
  <2> QED BY <2>1, <2>2, <1>1, <1>3, <1>4, <1>6 DEF Updated
<1> QED BY <1>5, <1>6

\* A block is taken out of the cache and of the order of access.
LEMMA EvictedIs ==
  ASSUME NEW c \in Seq(Blocks), Good(c), Apart(c),
         NEW r \in Seq(Nat \ {0}), Elements(r) = Ids(c), Distinct(r),
         NEW id \in Ids(c), NEW d, d = Without(c, id)
  PROVE  /\ d \in Seq(Blocks) /\ Good(d) /\ Apart(d) /\ Ids(d) = Ids(c) \ {id}
         /\ RemoveFirst(r, id) \in Seq(Nat \ {0})
         /\ Elements(RemoveFirst(r, id)) = Ids(d) /\ Distinct(RemoveFirst(r, id))
         /\ BlockOf(c, id).size \in Nat /\ Total(Sizes(d)) \in Nat
         /\ Total(Sizes(c)) = Total(Sizes(d)) + BlockOf(c, id).size
         /\ \A j \in DOMAIN d : \E i \in DOMAIN c : d[j] = c[i]
<1>1. PICK k \in 1..Len(c) : c[k].id = id /\ d = RemoveAt(c, k)
  BY WithoutIs
<1>2. d \in Seq(Blocks) /\ RemovedAt(d, c, k)
  BY <1>1, RemoveAtIs
<1>3. /\ Apart(d) /\ Ids(d) = Ids(c) \ {id}
      /\ \A j \in DOMAIN d : \E i \in DOMAIN c : d[j] = c[i]
  BY <1>1, <1>2, RemovedIs
<1>4. Good(d)
  BY <1>3 DEF Good
<1>5. k \in DOMAIN c
  BY IdsOf
<1>6. BlockOf(c, id) = c[k]
  BY <1>1, <1>5, BlockOfIs
<1>7. BlockOf(c, id).size \in Nat
  BY <1>5, <1>6, BlockTypes
<1>8. Total(Sizes(c)) = Total(Sizes(d)) + BlockOf(c, id).size
  BY <1>1, <1>2, <1>6, SizesRemoved
<1>9. Total(Sizes(d)) \in Nat
  BY <1>2, SizesType, TotalType
<1>10. /\ RemoveFirst(r, id) \in Seq(Nat \ {0})
       /\ Elements(RemoveFirst(r, id)) = Elements(r) \ {id} /\ Distinct(RemoveFirst(r, id))
  BY DropIs
<1> QED BY <1>2, <1>3, <1>4, <1>7, <1>8, <1>9, <1>10

\* A result of the source is pending and yielded: what is still to be read remains in
\* step with what was.
LEMMA YieldReads ==
  ASSUME IInv, at = "source",
         NEW i \in ahead, i \in 1..Len(Log), \A j \in ahead : i <= j,
         NEW t \in Nat, t = (IF Timed(i) THEN Log[i].time ELSE lastTime),
         lastTime <= t, t <= sourceEnd,
         t > lastTime => Timed(i),
         \A j \in ahead : /\ j \in 1..Len(Log) /\ Log[j].time \in Nat
                          /\ t <= Log[j].time /\ Log[j].time <= sourceEnd,
         ahead' = ahead \ {i}, lastTime' = t, sourceEnd' = sourceEnd, maxEnd' = maxEnd,
         cachedTopics' = cachedTopics, stream' = stream,
         pending' = Append(IF t > lastTime THEN <<>> ELSE pending, [at |-> t, pos |-> i]),
         last' = IF Timed(i) THEN i ELSE last
  PROVE  /\ InSource'
         /\ pending' \in Seq(Items)
         /\ sourceEnd' <= maxEnd'
         /\ ahead' \subseteq Wanted(cachedTopics', lastTime', sourceEnd')
         /\ \A n \in DOMAIN pending' :
              /\ pending'[n].at = lastTime'
              /\ pending'[n].pos \notin ahead'
              /\ \A j \in ahead' : pending'[n].pos < j
         /\ InOrder(pending)'
         /\ TimedIn({pending'[n].pos : n \in DOMAIN pending'} \cup ahead')
              = TimedIn(Wanted(cachedTopics', lastTime', sourceEnd'))
         /\ \A n \in DOMAIN pending' :
              pending'[n].pos = i \/ (~ (t > lastTime) /\ \E m \in DOMAIN pending : pending'[n] = pending[m])
         /\ Size(pending)' = (IF t > lastTime THEN 0 ELSE Size(pending)) + Log[i].size
<1> DEFINE old == IF t > lastTime THEN <<>> ELSE pending
           x == [at |-> t, pos |-> i]
           q == Append(old, x)
<1>0. /\ ahead \subseteq Wanted(cachedTopics, lastTime, sourceEnd) /\ sourceEnd <= maxEnd
      /\ \A n \in DOMAIN pending :
           /\ pending[n].at = lastTime
           /\ pending[n].pos \notin ahead
           /\ \A j \in ahead : pending[n].pos < j
      /\ InOrder(pending)
      /\ TimedIn({pending[n].pos : n \in DOMAIN pending} \cup ahead)
           = TimedIn(Wanted(cachedTopics, lastTime, sourceEnd))
      /\ InSource
  BY DEF IInv, IteratorInv, Reading
<1>1. x \in Items /\ x.at = t /\ x.pos = i
  BY DEF Items
<1>2. old \in Seq(Items) /\ pending' = q
  BY ReadingTypes
<1> HIDE DEF x
<1>3. \A n \in DOMAIN old : /\ ~ (t > lastTime) /\ n \in DOMAIN pending /\ old[n] = pending[n]
                            /\ t = lastTime /\ old[n].at = t
                            /\ \A j \in ahead : old[n].pos < j
  <2>1. CASE t > lastTime
    <3>1. old = <<>> /\ DOMAIN old = {}
      BY <2>1
    <3> QED BY <3>1
  <2>2. CASE ~ (t > lastTime)
    <3>1. old = pending /\ t = lastTime
      BY <2>2, ReadingTypes
    <3> QED BY <3>1, <2>2, <1>0
  <2> QED BY <2>1, <2>2
<1>4. InOrder(old)
  <2>1. CASE t > lastTime
    <3>1. old = <<>> /\ DOMAIN old = {}
      BY <2>1
    <3> QED BY <3>1 DEF InOrder
  <2>2. CASE ~ (t > lastTime)
    <3>1. old = pending
      BY <2>2
    <3> QED BY <3>1, <1>0
  <2> QED BY <2>1, <2>2
<1>5. Size(old) = IF t > lastTime THEN 0 ELSE Size(pending)
  BY SizeEmpty
<1>6. TimedIn(Poses(old) \cup ahead) = TimedIn(Wanted(cachedTopics, t, sourceEnd))
  <2>1. CASE t > lastTime
    <3>1. old = <<>> /\ DOMAIN old = {}
      BY <2>1
    <3>2. Poses(old) \cup ahead = ahead
      BY <3>1 DEF Poses
    <3>3. lastTime < t /\ t <= sourceEnd + 1
      BY <2>1, ReadingTypes
    <3>4. TimedIn(ahead) = TimedIn(Wanted(cachedTopics, t, sourceEnd))
      BY <3>3, PendingIs
    <3> HIDE DEF old
    <3> QED BY <3>2, <3>4
  <2>2. CASE ~ (t > lastTime)
    <3>1. old = pending /\ t = lastTime
      BY <2>2, ReadingTypes
    <3> HIDE DEF old
    <3> QED BY <3>1, <1>0 DEF Poses
  <2> QED BY <2>1, <2>2
<1> HIDE DEF old
<1>7. /\ q \in Seq(Items) /\ Len(q) = Len(old) + 1 /\ q[Len(old) + 1] = x
      /\ \A n \in 1..Len(old) : q[n] = old[n]
  BY <1>1, <1>2, AppendProperties
<1>8. Size(q) = Size(old) + Log[i].size
  BY <1>1, <1>2, SizeAppend
<1> HIDE DEF q
<1>9. DOMAIN old = 1..Len(old) /\ DOMAIN q = 1..(Len(old) + 1) /\ Len(old) \in Nat
  BY <1>2, <1>7
<1>10. ASSUME NEW n \in DOMAIN q
       PROVE  \/ n = Len(old) + 1 /\ q[n] = x
              \/ n <= Len(old) /\ n \in DOMAIN old /\ q[n] = old[n]
  BY <1>7, <1>9
<1>11. Poses(q) = Poses(old) \cup {i}
  <2>1. ASSUME NEW y \in Poses(q) PROVE y \in Poses(old) \cup {i}
    BY <1>1, <1>10 DEF Poses
  <2>2. ASSUME NEW y \in Poses(old) PROVE y \in Poses(q)
    <3>1. PICK n \in DOMAIN old : y = old[n].pos
      BY DEF Poses
    <3>2. n \in DOMAIN q /\ q[n] = old[n]
      BY <1>7, <1>9
    <3> QED BY <3>1, <3>2 DEF Poses
  <2>3. i \in Poses(q)
    <3>1. Len(old) + 1 \in DOMAIN q
      BY <1>9
    <3> QED BY <3>1, <1>1, <1>7 DEF Poses
  <2> QED BY <2>1, <2>2, <2>3
<1>12. InOrder(q)
  <2>1. ASSUME NEW m \in DOMAIN q, NEW n \in DOMAIN q, m < n
        PROVE  q[m].pos < q[n].pos /\ q[m].at <= q[n].at
    <3>1. m <= Len(old) /\ m \in DOMAIN old /\ q[m] = old[m]
      BY <2>1, <1>9, <1>10
    <3>2. CASE n = Len(old) + 1 /\ q[n] = x
      BY <3>1, <3>2, <1>1, <1>3
    <3>3. CASE n <= Len(old) /\ n \in DOMAIN old /\ q[n] = old[n]
      BY <3>1, <3>3, <2>1, <1>4 DEF InOrder
    <3> QED BY <3>2, <3>3, <1>10
  <2>2. ASSUME NEW n \in DOMAIN q, Timed(q[n].pos) PROVE q[n].at = Log[q[n].pos].time
    <3>1. CASE n = Len(old) + 1 /\ q[n] = x
      BY <3>1, <2>2, <1>1
    <3>2. CASE n <= Len(old) /\ n \in DOMAIN old /\ q[n] = old[n]
      BY <3>2, <2>2, <1>4 DEF InOrder
    <3> QED BY <3>1, <3>2, <1>10
  <2> QED BY <2>1, <2>2, Zenon DEF InOrder
<1>13. \A n \in DOMAIN q : /\ q[n].at = t
                           /\ \A j \in ahead \ {i} : q[n].pos < j
                           /\ q[n].pos = i \/ (~ (t > lastTime) /\ \E m \in DOMAIN pending : q[n] = pending[m])
  <2> SUFFICES ASSUME NEW n \in DOMAIN q
               PROVE  /\ q[n].at = t
                      /\ \A j \in ahead \ {i} : q[n].pos < j
                      /\ q[n].pos = i \/ (~ (t > lastTime) /\ \E m \in DOMAIN pending : q[n] = pending[m])
    OBVIOUS
  <2>1. CASE n = Len(old) + 1 /\ q[n] = x
    <3>1. \A j \in ahead \ {i} : i < j
      BY ReadingTypes
    <3> QED BY <3>1, <2>1, <1>1
  <2>2. CASE n <= Len(old) /\ n \in DOMAIN old /\ q[n] = old[n]
    BY <2>2, <1>3
  <2> QED BY <2>1, <2>2, <1>10
<1>14. \A n \in DOMAIN q : q[n].pos \notin ahead \ {i}
  <2> SUFFICES ASSUME NEW n \in DOMAIN q, q[n].pos \in ahead \ {i} PROVE FALSE
    OBVIOUS
  <2>1. q[n].pos < q[n].pos /\ q[n].pos \in Nat
    BY <1>13, ReadingTypes
  <2> QED BY <2>1
<1>15. TimedIn(Poses(q) \cup (ahead \ {i})) = TimedIn(Wanted(cachedTopics, t, sourceEnd))
  <2>1. Poses(q) \cup (ahead \ {i}) = Poses(old) \cup ahead
    BY <1>11
  <2> QED BY <2>1, <1>6
<1>16. ahead \ {i} \subseteq Wanted(cachedTopics, t, sourceEnd)
  <2> SUFFICES ASSUME NEW j \in ahead PROVE j \in Wanted(cachedTopics, t, sourceEnd)
    OBVIOUS
  <2>1. j \in 1..Len(Log) /\ (Log[j].kind = "message" => Log[j].topic \in cachedTopics)
    BY <1>0 DEF Wanted
  <2>2. Log[j].time \in t..sourceEnd
    <3>1. Log[j].time \in Nat /\ t <= Log[j].time /\ Log[j].time <= sourceEnd
      OBVIOUS
    <3> QED BY <3>1, ReadingTypes
  <2> QED BY <2>1, <2>2 DEF Wanted
<1>17. InSource'
  <2>0. i > last /\ \A j \in stream : Timed(j)
    <3>1. i > last
      BY <1>0 DEF InSource
    <3>2. PICK s \in 0..readHead : stream = TimedIn(Wanted(cachedTopics, s, maxEnd))
      BY DEF IInv, IteratorInv, StreamKnown
    <3> QED BY <3>1, <3>2 DEF TimedIn
  <2>1. last' # 0 => Log[last'].time < sourceEnd' + 1
    <3>1. CASE Timed(i)
      <4>1. Log[i].time \in Nat /\ Log[i].time <= sourceEnd
        OBVIOUS
      <4>2. Log[i].time < sourceEnd + 1
        BY <4>1, ReadingTypes
      <4> QED BY <3>1, <4>2
    <3>2. CASE ~ Timed(i)
      BY <3>2, <1>0 DEF InSource, LastBefore
    <3> QED BY <3>1, <3>2
  <2>2. \A j \in ahead' : j > last'
    <3> SUFFICES ASSUME NEW j \in ahead, j # i PROVE j > last'
      OBVIOUS
    <3>1. j > i /\ j > last
      <4>1. j > last /\ i <= j /\ i \in Nat /\ j \in Nat
        BY <1>0, ReadingTypes DEF InSource
      <4> QED BY <4>1
    <3> QED BY <3>1
  <2>3. ASSUME NEW j \in stream', j > last', Log[j].time <= sourceEnd' PROVE j \in ahead'
    <3>1. j \in stream /\ j # i /\ j > last
      <4>1. CASE Timed(i)
        <5>1. j > i /\ i > last /\ j \in Nat /\ i \in Nat /\ last \in Nat
          BY <4>1, <2>0, <2>3, ReadingTypes
        <5> QED BY <5>1
      <4>2. CASE ~ Timed(i)
        BY <4>2, <2>0, <2>3
      <4> QED BY <4>1, <4>2
    <3>2. j \in ahead
      BY <3>1, <2>3, <1>0 DEF InSource
    <3> QED BY <3>1, <3>2
  <2> QED BY <2>1, <2>2, <2>3 DEF InSource, LastBefore
<1>18. InOrder(pending)'
  <2>1. InOrder(pending')
    BY <1>2, <1>12, Zenon
  <2> QED BY <2>1 DEF InOrder, Timed
<1>19. Size(pending)' = Size(old) + Log[i].size
  <2>1. Size(pending') = Size(old) + Log[i].size
    BY <1>2, <1>8
  <2> QED BY <2>1 DEF Size
<1>20. TimedIn({pending'[n].pos : n \in DOMAIN pending'} \cup ahead')
         = TimedIn(Wanted(cachedTopics', lastTime', sourceEnd'))
  BY <1>2, <1>15, Zenon DEF Poses
<1> QED BY <1>0, <1>2, <1>5, <1>7, <1>13, <1>14, <1>16, <1>17, <1>18, <1>19, <1>20

\* The cache tells the truth after a step that leaves the topics as they are.
LEMMA CacheInvPrimed ==
  ASSUME NEW c, c = cache', cachedTopics' = cachedTopics, Good(c), Apart(c),
         Elements(recent') = Ids(c), Distinct(recent'),
         totalSize' >= Size(pending)' + Total(Sizes(c))
  PROVE  CacheInv'
<1>1. Good(cache)'
  <2>1. \A k \in DOMAIN c : Sound(c[k]) /\ (Hollow(c[k]) \/ Complete(c[k]))
    BY DEF Good
  <2>2. \A k \in DOMAIN cache' : /\ Sound(cache'[k])
                                 /\ Hollow(cache'[k]) \/ Complete(cache'[k])
    BY <2>1
  <2> QED BY <2>2 DEF Good, Complete, Sound, Hollow, TimedIn, Held, Wanted, Timed, Holds, InOrder, Size
<1>2. Apart(cache)'
  BY DEF Apart
<1>3. Accessed(recent, cache)'
  <2>1. {recent'[n] : n \in DOMAIN recent'} = {cache'[k].id : k \in DOMAIN cache'}
    BY DEF Elements, Ids
  <2>2. \A m, n \in DOMAIN recent' : m # n => recent'[m] # recent'[n]
    BY DEF Distinct
  <2> QED BY <2>1, <2>2 DEF Accessed, Ids
<1>4. (totalSize >= Size(pending) + Total(Sizes(cache)))'
  OBVIOUS
<1> QED BY <1>1, <1>2, <1>3, <1>4 DEF CacheInv

\* The iterator ends: nothing is kept of what it read.
LEMMA EndIs ==
  ASSUME NEW how, End(how)
  PROVE  /\ at' = "ended" /\ yielded' = FALSE /\ outcome' = how /\ block' = 0 /\ idx' = 0
         /\ ahead' = {} /\ sourceEnd' = 0 /\ lastTime' = 0 /\ pending' = <<>>
         /\ Size(pending)' = 0
         /\ how \in {"done", "failed", "returned"} => IteratorInv'
<1>1. /\ at' = "ended" /\ yielded' = FALSE /\ outcome' = how /\ block' = 0 /\ idx' = 0
      /\ ahead' = {} /\ sourceEnd' = 0 /\ lastTime' = 0 /\ pending' = <<>>
  BY DEF End
<1>2. Size(pending)' = 0
  <2>1. Size(pending') = 0
    BY <1>1, SizeEmpty
  <2> QED BY <2>1 DEF Size
<1>3. ASSUME how \in {"done", "failed", "returned"} PROVE IteratorInv'
  BY <1>1, <1>3 DEF IteratorInv, Idle
<1> QED BY <1>1, <1>2, <1>3

LEMMA SourceYieldsKeeps == ASSUME IInv, SourceYields PROVE IInv'
<1> DEFINE i == First(ahead)
           own == IF block = 0 THEN FreshId(cache) ELSE block
           t == IF Timed(i) THEN Log[i].time ELSE lastTime
           c == IF t > lastTime THEN Extend(WithBlock(own), own, pending, t - 1)
                ELSE WithBlock(own)
           r == IF block = 0 \/ (t > lastTime) THEN Touch(recent, own) ELSE recent
           full == BlockOf(c, own).size >= MaxBlockSize
           active == IF full THEN 0 ELSE own
           purge == totalSize + Log[i].size > MaxTotalSize
<1>0. PICK order \in EvictionOrders(c, r, currentReadHead) :
        /\ candidates' = IF purge /\ order # <<>> THEN Len(order) - 1
                         ELSE IF purge THEN 0 ELSE candidates
        /\ readHead' = IF full THEN After(BlockOf(c, own)) ELSE readHead
        /\ IF purge /\ order # <<>> /\ Head(order) = active
           THEN /\ cache' = c /\ recent' = r
                /\ End("failed")
                /\ UNCHANGED <<totalSize, last>>
           ELSE /\ cache' = IF purge /\ order # <<>> THEN Without(c, Head(order)) ELSE c
                /\ recent' = IF purge /\ order # <<>> THEN RemoveFirst(r, Head(order)) ELSE r
                /\ totalSize' = totalSize + Log[i].size
                     - (IF purge /\ order # <<>> THEN BlockOf(c, Head(order)).size ELSE 0)
                /\ block' = active
                /\ ahead' = ahead \ {i}
                /\ lastTime' = t
                /\ pending' = Append(IF t > lastTime THEN <<>> ELSE pending,
                                     [at |-> t, pos |-> i])
                /\ Yield(i)
                /\ UNCHANGED <<at, idx, sourceEnd, outcome>>
  BY Zenon DEF SourceYields
<1> DEFINE evicts == purge /\ order # <<>>
<1>1. /\ at = "source" /\ ahead # {}
      /\ candidates' = IF evicts THEN Len(order) - 1 ELSE IF purge THEN 0 ELSE candidates
      /\ readHead' = IF full THEN After(BlockOf(c, own)) ELSE readHead
      /\ cachedTopics' = cachedTopics /\ currentReadHead' = currentReadHead
      /\ maxEnd' = maxEnd /\ stream' = stream /\ opened' = opened /\ closed' = closed
  <2>1. /\ at = "source" /\ ahead # {}
        /\ cachedTopics' = cachedTopics /\ currentReadHead' = currentReadHead
        /\ UNCHANGED asked
    BY DEF SourceYields
  <2> HIDE DEF i, own, t, c, r, full, active, purge
  <2> QED BY <1>0, <2>1 DEF asked
<1>2. \/ /\ evicts /\ Head(order) = active
         /\ cache' = c /\ recent' = r
         /\ End("failed")
         /\ totalSize' = totalSize /\ last' = last
      \/ /\ ~ (evicts /\ Head(order) = active)
         /\ cache' = IF evicts THEN Without(c, Head(order)) ELSE c
         /\ recent' = IF evicts THEN RemoveFirst(r, Head(order)) ELSE r
         /\ totalSize' = totalSize + Log[i].size
                     - (IF evicts THEN BlockOf(c, Head(order)).size ELSE 0)
         /\ block' = active
         /\ ahead' = ahead \ {i}
         /\ lastTime' = t
         /\ pending' = Append(IF t > lastTime THEN <<>> ELSE pending, [at |-> t, pos |-> i])
         /\ Yield(i)
         /\ at' = at /\ idx' = idx /\ sourceEnd' = sourceEnd /\ outcome' = outcome
  <2> HIDE DEF i, own, t, c, r, full, active, purge
  <2> QED BY <1>0
<1>3. /\ i \in ahead /\ i \in 1..Len(Log) /\ \A j \in ahead : i <= j
      /\ t \in Nat /\ lastTime <= t /\ t <= sourceEnd
      /\ t > lastTime => Timed(i)
      /\ Log[i].size \in Nat
      /\ \A j \in ahead : j \in 1..Len(Log) /\ Log[j].time \in Nat
                          /\ t <= Log[j].time /\ Log[j].time <= sourceEnd
  BY <1>1, NextIs
<1>4. /\ t = (IF Timed(i) THEN Log[i].time ELSE lastTime)
      /\ own = IF block = 0 THEN FreshId(cache) ELSE block
      /\ c = IF t > lastTime THEN Extend(WithBlock(own), own, pending, t - 1) ELSE WithBlock(own)
      /\ r = IF block = 0 \/ (t > lastTime) THEN Touch(recent, own) ELSE recent
  OBVIOUS
<1>5. /\ active = (IF full THEN 0 ELSE own)
      /\ full <=> BlockOf(c, own).size >= MaxBlockSize
      /\ order \in EvictionOrders(c, r, currentReadHead)
      /\ evicts => order # <<>>
  OBVIOUS
<1> HIDE DEF i, own, t, c, r, full, active, purge, evicts
<1>6. /\ c \in Seq(Blocks) /\ Good(c) /\ Apart(c)
      /\ own \in Nat \ {0} /\ own \in Ids(c)
      /\ r \in Seq(Nat \ {0}) /\ Elements(r) = Ids(c) /\ Distinct(r)
      /\ Total(Sizes(c)) \in Nat
      /\ totalSize >= (IF t > lastTime THEN 0 ELSE Size(pending)) + Total(Sizes(c))
      /\ \A k \in DOMAIN c :
           IF c[k].id = own
           THEN /\ c[k].start = readHead
                /\ IF t > lastTime THEN c[k].end = t - 1 /\ Complete(c[k])
                   ELSE Fresh(c[k]) \/ Written(c[k])
                /\ \A x \in Held(c[k]) :
                     /\ \A j \in ahead : x < j
                     /\ ~ (t > lastTime) => \A n \in DOMAIN pending : x < pending[n].pos
           ELSE c[k].end < readHead \/ sourceEnd < c[k].start
  <2>1. \A j \in ahead : t <= Log[j].time
    BY <1>3
  <2>2. at = "source" /\ t \in Nat /\ lastTime <= t /\ t <= sourceEnd
    BY <1>1, <1>3
  <2>3. own = IF block = 0 THEN FreshId(cache) ELSE block
    BY <1>4
  <2>5. c = IF t > lastTime THEN Extend(WithBlock(own), own, pending, t - 1) ELSE WithBlock(own)
    BY <1>4, Zenon
  <2>6. r = IF block = 0 \/ (t > lastTime) THEN Touch(recent, own) ELSE recent
    BY <1>4, Zenon
  <2>7. Updated(t, own, c, r)
    BY <2>1, <2>2, <2>3, <2>5, <2>6, WrittenIs
  <2> QED BY <2>7, Zenon DEF Updated
<1>7. /\ Len(order) \in Nat
      /\ order # <<>> => Head(order) \in Ids(c) /\ Len(order) - 1 \in Nat
  BY <1>5, <1>6, OrderHead
<1>8. candidates' \in Nat
  <2>1. candidates \in Nat
    BY DEF IInv, TypeOK
  <2> QED BY <2>1, <1>1, <1>5, <1>7
<1>9. full => BlockOf(c, own).end + 1 = t
  <2> SUFFICES ASSUME full PROVE BlockOf(c, own).end + 1 = t
    OBVIOUS
  <2>1. PICK k \in DOMAIN c : c[k].id = own
    BY <1>6 DEF Ids
  <2>2. BlockOf(c, own) = c[k]
    BY <2>1, <1>6, BlockOfIs
  <2>3. CASE t > lastTime
    BY <2>1, <2>2, <2>3, <1>3, <1>6
  <2>4. CASE ~ (t > lastTime)
    <3>1. t = lastTime
      BY <2>4, <1>3, <1>5, ReadingTypes
    <3>2. CASE Fresh(c[k])
      <4>1. c[k].size = 0
        BY <3>2, <1>6, SizeEmpty DEF Fresh, Good, Sound
      <4>2. MaxBlockSize \in Nat \ {0} /\ c[k].size >= MaxBlockSize
        BY <2>2, <1>5, BoundsAssumption
      <4> QED BY <4>1, <4>2
    <3>3. CASE Written(c[k])
      <4>1. c[k].end = lastTime - 1 /\ lastTime \in Nat
        BY <3>3, ReadingTypes DEF Written
      <4> QED BY <4>1, <3>1, <2>2
    <3> QED BY <3>2, <3>3, <2>1, <2>4, <1>6
  <2> QED BY <2>3, <2>4
<1>10. /\ readHead' \in Nat /\ readHead <= readHead' /\ readHead' <= t
       /\ full => readHead' = t
       /\ ~ full => readHead' = readHead
  <2>1. readHead \in Nat /\ lastTime \in Nat /\ readHead <= lastTime
    BY <1>1, ReadingTypes DEF IInv, IteratorInv, Reading
  <2>2. CASE full
    BY <2>1, <2>2, <1>1, <1>3, <1>9 DEF After
  <2>3. CASE ~ full
    BY <2>1, <2>3, <1>1, <1>3
  <2> QED BY <2>2, <2>3
<1>11. /\ cachedTopics' \in SUBSET Topics /\ currentReadHead' \in Nat
       /\ maxEnd' \in Nat /\ stream' \subseteq 1..Len(Log)
       /\ opened' \in 0..MaxIterators /\ closed' \in BOOLEAN /\ outcome \in {"no", "done", "failed", "returned"}
       /\ idx \in Nat /\ totalSize \in Nat /\ Size(pending) \in Nat
  BY <1>1, CacheFacts DEF IInv, TypeOK
<1>12. CASE /\ evicts /\ Head(order) = active
            /\ cache' = c /\ recent' = r
            /\ End("failed")
            /\ totalSize' = totalSize /\ last' = last
  <2>1. /\ at' = "ended" /\ yielded' = FALSE /\ outcome' = "failed" /\ block' = 0 /\ idx' = 0
        /\ ahead' = {} /\ sourceEnd' = 0 /\ lastTime' = 0 /\ pending' = <<>>
        /\ Size(pending)' = 0 /\ IteratorInv'
    BY <1>12, EndIs
  <2>2. CacheInv'
    <3>1. totalSize' >= Size(pending)' + Total(Sizes(c))
      <4>1. totalSize >= Total(Sizes(c))
        BY <1>6, <1>11
      <4> QED BY <4>1, <2>1, <1>6, <1>12
    <3> QED BY <3>1, <1>1, <1>6, <1>12, CacheInvPrimed
  <2>3. TypeOK'
    <3>1. <<>> \in Seq(Items)
      OBVIOUS
    <3>2. last' \in 0..Len(Log)
      BY <1>12, ReadingTypes
    <3> QED BY <3>1, <3>2, <2>1, <1>6, <1>8, <1>10, <1>11, <1>12 DEF TypeOK, Items
  <2> QED BY <2>1, <2>2, <2>3 DEF IInv
<1>13. CASE /\ ~ (evicts /\ Head(order) = active)
            /\ cache' = IF evicts THEN Without(c, Head(order)) ELSE c
            /\ recent' = IF evicts THEN RemoveFirst(r, Head(order)) ELSE r
            /\ totalSize' = totalSize + Log[i].size
                        - (IF evicts THEN BlockOf(c, Head(order)).size ELSE 0)
            /\ block' = active
            /\ ahead' = ahead \ {i}
            /\ lastTime' = t
            /\ pending' = Append(IF t > lastTime THEN <<>> ELSE pending, [at |-> t, pos |-> i])
            /\ Yield(i)
            /\ at' = at /\ idx' = idx /\ sourceEnd' = sourceEnd /\ outcome' = outcome
  <2> DEFINE d == cache'
  <2>0. yielded' = TRUE /\ last' = IF Timed(i) THEN i ELSE last
    BY <1>13 DEF Yield
  <2>1. /\ InSource'
        /\ pending' \in Seq(Items)
        /\ sourceEnd' <= maxEnd'
        /\ ahead' \subseteq Wanted(cachedTopics', lastTime', sourceEnd')
        /\ \A n \in DOMAIN pending' :
             /\ pending'[n].at = lastTime'
             /\ pending'[n].pos \notin ahead'
             /\ \A j \in ahead' : pending'[n].pos < j
        /\ InOrder(pending)'
        /\ TimedIn({pending'[n].pos : n \in DOMAIN pending'} \cup ahead')
             = TimedIn(Wanted(cachedTopics', lastTime', sourceEnd'))
        /\ \A n \in DOMAIN pending' :
             pending'[n].pos = i \/ (~ (t > lastTime) /\ \E m \in DOMAIN pending : pending'[n] = pending[m])
        /\ Size(pending)' = (IF t > lastTime THEN 0 ELSE Size(pending)) + Log[i].size
    <3>1. pending' = Append(IF t > lastTime THEN <<>> ELSE pending, [at |-> t, pos |-> i])
      BY <1>5, <1>13
    <3>2. t = (IF Timed(i) THEN Log[i].time ELSE lastTime)
      BY <1>4
    <3>3. i \in ahead /\ i \in 1..Len(Log) /\ \A j \in ahead : i <= j
      BY <1>3
    <3>4. t \in Nat /\ lastTime <= t /\ t <= sourceEnd /\ (t > lastTime => Timed(i))
      BY <1>3
    <3>5. \A j \in ahead : /\ j \in 1..Len(Log) /\ Log[j].time \in Nat
                           /\ t <= Log[j].time /\ Log[j].time <= sourceEnd
      BY <1>3
    <3>6. /\ ahead' = ahead \ {i} /\ lastTime' = t /\ sourceEnd' = sourceEnd /\ maxEnd' = maxEnd
          /\ cachedTopics' = cachedTopics /\ stream' = stream /\ at = "source"
      BY <1>1, <1>13
    <3> QED BY <3>1, <3>2, <3>3, <3>4, <3>5, <3>6, <2>0, YieldReads
  <2>2. /\ d \in Seq(Blocks) /\ Good(d) /\ Apart(d)
        /\ recent' \in Seq(Nat \ {0}) /\ Elements(recent') = Ids(d) /\ Distinct(recent')
        /\ \A j \in DOMAIN d : \E k \in DOMAIN c : d[j] = c[k]
        /\ totalSize' \in Nat /\ totalSize' >= Size(pending)' + Total(Sizes(d))
        /\ active \in Ids(d) \cup {0}
    <3> DEFINE old == IF t > lastTime THEN 0 ELSE Size(pending)
               new == Log[i].size
    <3>1. /\ old \in Nat /\ new \in Nat /\ totalSize \in Nat /\ Total(Sizes(c)) \in Nat
          /\ totalSize >= old + Total(Sizes(c)) /\ Size(pending)' = old + new
      BY <2>1, <1>3, <1>5, <1>6, <1>11
    <3> HIDE DEF old
    <3>2. CASE ~ evicts
      <4>1. d = c /\ recent' = r /\ totalSize' = totalSize + new - 0
        BY <3>2, <1>13
      <4> HIDE DEF d, new
      <4>2. totalSize' \in Nat /\ totalSize' >= Size(pending)' + Total(Sizes(d))
        BY <4>1, <3>1
      <4>3. active \in Ids(d) \cup {0}
        BY <4>1, <1>5, <1>6
      <4> QED BY <4>1, <4>2, <4>3, <1>6
    <3>3. CASE evicts
      <4> DEFINE id == Head(order)
      <4>1. id \in Ids(c) /\ id # active
        BY <3>3, <1>5, <1>7, <1>13
      <4>2. /\ d = Without(c, id) /\ recent' = RemoveFirst(r, id)
            /\ totalSize' = totalSize + new - BlockOf(c, id).size
        BY <3>3, <1>13
      <4> HIDE DEF id, d, new
      <4>3. /\ d \in Seq(Blocks) /\ Good(d) /\ Apart(d) /\ Ids(d) = Ids(c) \ {id}
            /\ RemoveFirst(r, id) \in Seq(Nat \ {0})
            /\ Elements(RemoveFirst(r, id)) = Ids(d) /\ Distinct(RemoveFirst(r, id))
            /\ BlockOf(c, id).size \in Nat /\ Total(Sizes(d)) \in Nat
            /\ Total(Sizes(c)) = Total(Sizes(d)) + BlockOf(c, id).size
            /\ \A j \in DOMAIN d : \E k \in DOMAIN c : d[j] = c[k]
        <5>1. id \in Ids(c) /\ d = Without(c, id)
          BY <4>1, <4>2
        <5>2. c \in Seq(Blocks) /\ Good(c) /\ Apart(c)
          BY <1>6
        <5>3. r \in Seq(Nat \ {0}) /\ Elements(r) = Ids(c) /\ Distinct(r)
          BY <1>6
        <5> DEFINE w == Without(c, id)
        <5>4. w = Without(c, id)
          OBVIOUS
        <5> HIDE DEF w
        <5>5. /\ w \in Seq(Blocks) /\ Good(w) /\ Apart(w) /\ Ids(w) = Ids(c) \ {id}
              /\ RemoveFirst(r, id) \in Seq(Nat \ {0})
              /\ Elements(RemoveFirst(r, id)) = Ids(w) /\ Distinct(RemoveFirst(r, id))
              /\ BlockOf(c, id).size \in Nat /\ Total(Sizes(w)) \in Nat
              /\ Total(Sizes(c)) = Total(Sizes(w)) + BlockOf(c, id).size
              /\ \A j \in DOMAIN w : \E k \in DOMAIN c : w[j] = c[k]
          BY <5>1, <5>2, <5>3, <5>4, EvictedIs
        <5>6. d = w
          BY <5>1, <5>4
        <5> QED BY <5>5, <5>6, Zenon
      <4>4. totalSize' \in Nat /\ totalSize' >= Size(pending)' + Total(Sizes(d))
        BY <4>2, <4>3, <3>1
      <4>5. active \in Ids(d) \cup {0}
        BY <4>1, <4>3, <1>5, <1>6
      <4> QED BY <4>2, <4>3, <4>4, <4>5
    <3> QED BY <3>2, <3>3
  <2>3. CacheInv'
    BY <2>2, <1>1, CacheInvPrimed
  <2>4. TypeOK'
    <3>1. last' \in 0..Len(Log)
      BY <2>0, <1>3, ReadingTypes
    <3>2. block' \in {cache'[k].id : k \in DOMAIN cache'} \cup {0}
      BY <2>2, <1>13 DEF Ids
    <3>3. ahead' \subseteq 1..Len(Log) /\ sourceEnd' \in Nat /\ lastTime' \in Nat
      BY <1>3, <1>13, ReadingTypes
    <3>4. at' \in {"ended", "loop", "cached", "source"} /\ yielded' \in BOOLEAN
      BY <2>0, <1>1, <1>13
    <3> HIDE DEF d
    <3>5. cache' \in Seq(Blocks) /\ recent' \in Seq(Nat \ {0}) /\ totalSize' \in Nat
      BY <2>2 DEF d
    <3> QED BY <3>1, <3>2, <3>3, <3>4, <3>5, <2>1, <1>8, <1>10, <1>11, <1>13 DEF TypeOK, Items, Blocks
  <2>5. Parted(cache, block)'
    <3> SUFFICES ASSUME NEW k \in DOMAIN cache'
                 PROVE  IF cache'[k].id = active
                        THEN /\ cache'[k].start = readHead'
                             /\ Fresh(cache[k])' \/ Written(cache[k])'
                             /\ \A x \in Held(cache'[k]) :
                                  /\ \A n \in DOMAIN pending' : x < pending'[n].pos
                                  /\ \A j \in ahead' : x < j
                        ELSE cache'[k].end < readHead' \/ sourceEnd' < cache'[k].start
      BY <1>13 DEF Parted, Held, Fresh, Written, Complete, TimedIn, Wanted, Timed
    <3>1. PICK l \in DOMAIN c : cache'[k] = c[l]
      BY <2>2
    <3>2. c[l].id \in Nat \ {0} /\ c[l].start \in Nat /\ c[l].end \in Nat
      BY <1>6, BlockTypes
    <3>3. CASE c[l].id # own
      <4>1. c[l].end < readHead \/ sourceEnd < c[l].start
        BY <3>3, <1>6
      <4>2. cache'[k].id # active
        BY <3>1, <3>2, <3>3, <1>5
      <4>3. c[l].end < readHead' \/ sourceEnd' < c[l].start
        BY <4>1, <3>2, <1>10, <1>13, ReadingTypes
      <4> QED BY <4>2, <4>3, <3>1
    <3>4. CASE c[l].id = own /\ full
      <4>1. active = 0 /\ readHead' = t /\ c[l].end + 1 = t
        <5>1. BlockOf(c, own) = c[l]
          BY <3>4, <1>6, BlockOfIs
        <5> QED BY <5>1, <3>4, <1>5, <1>9, <1>10
      <4>2. cache'[k].id # active /\ c[l].end < readHead'
        BY <4>1, <3>1, <3>2
      <4> QED BY <4>2, <3>1
    <3>5. CASE c[l].id = own /\ ~ full
      <4>1. active = own /\ readHead' = readHead
        BY <3>5, <1>5, <1>10
      <4>2. /\ c[l].start = readHead
            /\ IF t > lastTime THEN c[l].end = t - 1 /\ Complete(c[l]) ELSE Fresh(c[l]) \/ Written(c[l])
            /\ \A x \in Held(c[l]) :
                 /\ \A j \in ahead : x < j
                 /\ ~ (t > lastTime) => \A n \in DOMAIN pending : x < pending[n].pos
        BY <3>5, <1>6
      <4>3. Complete(c[l]) => Complete(cache[k])'
        BY <3>1, <1>1 DEF Complete, TimedIn, Wanted, Timed, Held
      <4>4. Fresh(cache[k])' \/ Written(cache[k])'
        <5>1. CASE t > lastTime
          <6>1. cache'[k].end = lastTime' - 1
            BY <5>1, <4>2, <3>1, <1>13
          <6> QED BY <6>1, <5>1, <4>2, <4>3 DEF Written
        <5>2. CASE ~ (t > lastTime)
          <6>1. lastTime' = lastTime
            BY <5>2, <1>3, <1>5, <1>13, ReadingTypes
          <6>2. CASE Fresh(c[l])
            BY <6>1, <6>2, <3>1 DEF Fresh
          <6>3. CASE Written(c[l])
            BY <6>1, <6>3, <4>3, <3>1 DEF Written
          <6> QED BY <6>2, <6>3, <5>2, <4>2
        <5> QED BY <5>1, <5>2
      <4>5. ASSUME NEW x \in Held(cache'[k])
            PROVE  /\ \A n \in DOMAIN pending' : x < pending'[n].pos
                   /\ \A j \in ahead' : x < j
        <5>1. x \in Held(c[l])
          BY <3>1
        <5>2. \A j \in ahead' : x < j
          BY <5>1, <4>2, <1>13
        <5>3. ASSUME NEW n \in DOMAIN pending' PROVE x < pending'[n].pos
          <6>1. CASE pending'[n].pos = i
            BY <6>1, <5>1, <4>2, <1>3
          <6>2. CASE ~ (t > lastTime) /\ \E m \in DOMAIN pending : pending'[n] = pending[m]
            <7>1. ~ (t > lastTime)
              BY <6>2, <1>5
            <7> QED BY <7>1, <6>2, <5>1, <4>2
          <6> QED BY <6>1, <6>2, <2>1
        <5> QED BY <5>2, <5>3
      <4> QED BY <4>1, <4>2, <4>4, <4>5, <3>1, <3>5
    <3> QED BY <3>3, <3>4, <3>5
  <2>6. (block = 0 => lastTime = readHead)'
    <3>1. block' = 0 => full
      BY <1>5, <1>6, <1>13
    <3> QED BY <3>1, <1>10, <1>13
  <2>7. Reading'
    <3>1. readHead' <= lastTime' /\ lastTime' <= sourceEnd'
      BY <1>3, <1>10, <1>13
    <3>2. (ahead \subseteq Wanted(cachedTopics, lastTime, sourceEnd))'
      BY <2>1 DEF Wanted
    <3>3. (TimedIn({pending[n].pos : n \in DOMAIN pending} \cup ahead)
             = TimedIn(Wanted(cachedTopics, lastTime, sourceEnd)))'
      BY <2>1 DEF TimedIn, Wanted, Timed
    <3>4. (\A n \in DOMAIN pending :
             /\ pending[n].at = lastTime
             /\ pending[n].pos \notin ahead
             /\ \A j \in ahead : pending[n].pos < j)'
      BY <2>1
    <3> QED BY <3>1, <3>2, <3>3, <3>4, <2>1, <2>5, <2>6 DEF Reading
  <2>8. StreamKnown'
    <3>1. PICK s \in 0..readHead : stream = TimedIn(Wanted(cachedTopics, s, maxEnd))
      BY <1>1 DEF IInv, IteratorInv, StreamKnown
    <3>2. s \in 0..readHead'
      BY <1>10, ReadingTypes
    <3>3. (stream' = TimedIn(Wanted(cachedTopics', s, maxEnd')))
      BY <3>1, <1>1
    <3> QED BY <3>2, <3>3 DEF StreamKnown, TimedIn, Wanted, Timed
  <2>9. IteratorInv'
    <3>1. at' = "source" /\ outcome' = "no" /\ yielded' = TRUE
      BY <2>0, <1>1, <1>13 DEF IInv, IteratorInv, Idle
    <3>2. Idle'
      BY <3>1 DEF Idle
    <3> QED BY <3>1, <3>2, <2>1, <2>7, <2>8 DEF IteratorInv
  <2> QED BY <2>3, <2>4, <2>9 DEF IInv
<1> QED BY <1>2, <1>12, <1>13

-----------------------------------------------------------------------------
(* The other steps of the iterator.                                        *)

\* What is pending when the source has nothing more are the results of the rest of
\* what was read.
LEMMA RestIsPending ==
  ASSUME IInv, at = "source", ahead = {}
  PROVE  /\ TimedIn(Poses(pending)) = TimedIn(Wanted(cachedTopics, lastTime, sourceEnd))
         /\ readHead <= lastTime /\ lastTime <= sourceEnd /\ InOrder(pending)
         /\ \A n \in DOMAIN pending : pending[n].at = lastTime
<1>1. /\ TimedIn({pending[n].pos : n \in DOMAIN pending} \cup ahead)
           = TimedIn(Wanted(cachedTopics, lastTime, sourceEnd))
      /\ readHead <= lastTime /\ lastTime <= sourceEnd /\ InOrder(pending)
      /\ \A n \in DOMAIN pending : pending[n].at = lastTime
  BY DEF IInv, IteratorInv, Reading
<1>2. {pending[n].pos : n \in DOMAIN pending} \cup ahead = Poses(pending)
  BY DEF Poses
<1> QED BY <1>1, <1>2

\* The cache once the source has nothing more.
LEMMA DoneIs ==
  ASSUME IInv, SourceDone
  PROVE  /\ cache' \in Seq(Blocks) /\ Good(cache') /\ Apart(cache')
         /\ recent' \in Seq(Nat \ {0}) /\ Elements(recent') = Ids(cache') /\ Distinct(recent')
         /\ totalSize >= Total(Sizes(cache')) /\ Total(Sizes(cache')) \in Nat
<1>0. at = "source" /\ ahead = {}
  BY DEF SourceDone
<1>1. /\ TimedIn(Poses(pending)) = TimedIn(Wanted(cachedTopics, lastTime, sourceEnd))
      /\ readHead <= lastTime /\ lastTime <= sourceEnd /\ InOrder(pending)
      /\ \A n \in DOMAIN pending : pending[n].at = lastTime
  BY <1>0, RestIsPending
<1>2. /\ readHead \in Nat /\ lastTime \in Nat /\ sourceEnd \in Nat /\ pending \in Seq(Items)
  BY ReadingTypes
<1>3. CASE block # 0
  <2> DEFINE d == Extend(cache, block, pending, sourceEnd)
             r == Touch(recent, block)
  <2>1. cache' = d /\ recent' = r
    BY <1>3 DEF SourceDone
  <2>2. block \in Ids(cache) /\ block \in Nat \ {0}
    <3>1. block \in Ids(cache)
      BY <1>3, CacheFacts
    <3> QED BY <3>1, CacheFacts, BlockTypes DEF Ids
  <2>3. r \in Seq(Nat \ {0}) /\ Elements(r) = Ids(cache) /\ Distinct(r)
    <3>1. Elements(recent) \cup {block} = Ids(cache)
      BY <2>2, CacheFacts
    <3>2. recent \in Seq(Nat \ {0}) /\ Distinct(recent) /\ block \in Nat \ {0}
      BY <2>2, CacheFacts
    <3>3. /\ Touch(recent, block) \in Seq(Nat \ {0})
          /\ Elements(Touch(recent, block)) = Elements(recent) \cup {block}
          /\ Distinct(Touch(recent, block))
      BY <3>2, TouchIs, Zenon
    <3> QED BY <3>1, <3>3
  <2>4. /\ d \in Seq(Blocks) /\ Good(d) /\ Apart(d) /\ Ids(d) = Ids(cache)
        /\ Total(Sizes(d)) = Total(Sizes(cache)) + Size(pending)
    <3>1. Parted(cache, block)
      BY <1>0 DEF IInv, IteratorInv, Reading
    <3>2. sourceEnd \in lastTime..sourceEnd
      BY <1>1, <1>2
    <3>3. d = Extend(cache, block, pending, sourceEnd)
      OBVIOUS
    <3> HIDE DEF d
    <3> QED BY <3>1, <3>2, <3>3, <2>2, <1>1, <1>2, CacheFacts, ExtendKeeps
  <2> HIDE DEF d, r
  <2>5. totalSize >= Total(Sizes(d)) /\ Total(Sizes(d)) \in Nat
    BY <2>4, CacheFacts
  <2> QED BY <2>1, <2>3, <2>4, <2>5, Zenon
<1>4. CASE block = 0
  <2> DEFINE id == FreshId(cache)
             b == NewBlock(id, readHead, sourceEnd, pending)
             d == Insert(cache, b)
             r == Touch(recent, id)
  <2>1. cache' = d /\ recent' = r
    BY <1>4 DEF SourceDone
  <2>2. id \in Nat \ {0} /\ id \notin Ids(cache)
    BY CacheFacts, FreshIdIs
  <2>3. r \in Seq(Nat \ {0}) /\ Elements(r) = Ids(cache) \cup {id} /\ Distinct(r)
    <3> HIDE DEF id
    <3>1. /\ recent \in Seq(Nat \ {0}) /\ Distinct(recent) /\ id \in Nat \ {0}
          /\ Elements(recent) = Ids(cache)
      BY <2>2, CacheFacts
    <3>2. /\ Touch(recent, id) \in Seq(Nat \ {0})
          /\ Elements(Touch(recent, id)) = Elements(recent) \cup {id}
          /\ Distinct(Touch(recent, id))
      BY <3>1, TouchIs, Zenon
    <3> QED BY <3>1, <3>2
  <2>4. d = Insert(cache, b)
    OBVIOUS
  <2> HIDE DEF id, r, d
  <2>5. /\ b \in Blocks /\ b.id = id /\ b.start = readHead /\ b.end = sourceEnd
        /\ b.items = pending /\ b.size = Size(pending)
    <3>1. b = [id |-> id, start |-> readHead, end |-> sourceEnd, items |-> pending, size |-> Size(pending)]
      BY DEF NewBlock
    <3>2. Size(pending) \in Nat
      BY CacheFacts
    <3> HIDE DEF b
    <3> QED BY <3>1, <3>2, <2>2, <1>2 DEF Blocks
  <2> HIDE DEF b
  <2>6. /\ lastTime = readHead
        /\ \A k \in DOMAIN cache : cache[k].end < readHead \/ sourceEnd < cache[k].start
    BY <1>0, <1>4, NothingRead
  <2>7. Sound(b)
    <3>1. b.start <= b.end
      BY <2>5, <2>6, <1>1
    <3>2. \A n \in DOMAIN b.items : Holds(b, b.items[n].at)
      BY <2>5, <2>6, <1>1, <1>2 DEF Holds
    <3> QED BY <3>1, <3>2, <2>5, <1>1 DEF Sound
  <2>8. Complete(b)
    <3>1. Held(b) = Poses(pending)
      BY <2>5 DEF Held, Poses
    <3> QED BY <3>1, <2>5, <2>6, <1>1 DEF Complete
  <2>9. \A k \in DOMAIN cache : cache[k].end < b.start \/ b.end < cache[k].start
    BY <2>5, <2>6
  <2>10. /\ d \in Seq(Blocks) /\ Good(d) /\ Apart(d) /\ Ids(d) = Ids(cache) \cup {id}
         /\ Total(Sizes(d)) = Total(Sizes(cache)) + Size(pending)
    <3>1. b.id \notin Ids(cache)
      BY <2>2, <2>5
    <3>2. b \in Blocks
      BY <2>5
    <3>3. /\ d \in Seq(Blocks) /\ Good(d) /\ Apart(d) /\ Ids(d) = Ids(cache) \cup {b.id}
          /\ Total(Sizes(d)) = Total(Sizes(cache)) + b.size
      BY <3>1, <3>2, <2>4, <2>7, <2>8, <2>9, CacheFacts, NewBlockIs
    <3> QED BY <3>3, <2>5
  <2>11. totalSize >= Total(Sizes(d)) /\ Total(Sizes(d)) \in Nat
    BY <2>10, CacheFacts
  <2> QED BY <2>1, <2>3, <2>10, <2>11, Zenon
<1> QED BY <1>3, <1>4

LEMMA SourceDoneKeeps == ASSUME IInv, SourceDone PROVE IInv'
<1>0. /\ at = "source" /\ ahead = {}
      /\ readHead' = sourceEnd + 1 /\ at' = "loop" /\ yielded' = FALSE /\ block' = 0
      /\ ahead' = {} /\ sourceEnd' = 0 /\ lastTime' = 0 /\ pending' = <<>>
      /\ cachedTopics' = cachedTopics /\ totalSize' = totalSize /\ candidates' = candidates
      /\ currentReadHead' = currentReadHead /\ idx' = idx /\ last' = last /\ outcome' = outcome
      /\ maxEnd' = maxEnd /\ stream' = stream /\ opened' = opened /\ closed' = closed
  BY DEF SourceDone, asked
<1>1. /\ cache' \in Seq(Blocks) /\ Good(cache') /\ Apart(cache')
      /\ recent' \in Seq(Nat \ {0}) /\ Elements(recent') = Ids(cache') /\ Distinct(recent')
      /\ totalSize >= Total(Sizes(cache')) /\ Total(Sizes(cache')) \in Nat
  BY DoneIs
<1>2. readHead <= lastTime /\ lastTime <= sourceEnd
  BY <1>0, RestIsPending
<1>3. CacheInv'
  <2>1. Size(pending)' = 0
    <3>1. Size(pending') = 0
      BY <1>0, SizeEmpty
    <3> QED BY <3>1 DEF Size
  <2>2. totalSize' >= Size(pending)' + Total(Sizes(cache'))
    BY <2>1, <1>0, <1>1
  <2> QED BY <2>2, <1>0, <1>1, CacheInvPrimed
<1>4. TypeOK'
  <2>1. <<>> \in Seq(Items)
    OBVIOUS
  <2>2. readHead' \in Nat
    BY <1>0, ReadingTypes
  <2>3. TypeOK
    BY DEF IInv
  <2> QED BY <2>1, <2>2, <2>3, <1>0, <1>1 DEF TypeOK, Items
<1>5. InLoop'
  <2>1. /\ last # 0 => Log[last].time < sourceEnd + 1
        /\ \A i \in stream : ~ (i > last /\ Log[i].time <= sourceEnd)
    BY <1>0 DEF IInv, IteratorInv, InSource, LastBefore
  <2>2. \A i \in stream : Log[i].time \in Nat
    BY ReadingTypes, LogTypes
  <2>3. \A i \in stream : i > last => Log[i].time >= sourceEnd + 1
    BY <2>1, <2>2, ReadingTypes
  <2> QED BY <2>1, <2>3, <1>0 DEF InLoop, LastBefore
<1>6. StreamKnown'
  <2>1. PICK s \in 0..readHead : stream = TimedIn(Wanted(cachedTopics, s, maxEnd))
    BY <1>0 DEF IInv, IteratorInv, StreamKnown
  <2>2. s \in 0..readHead'
    BY <1>0, <1>2, ReadingTypes
  <2>3. stream' = TimedIn(Wanted(cachedTopics', s, maxEnd'))
    BY <2>1, <1>0
  <2> QED BY <2>2, <2>3 DEF StreamKnown, TimedIn, Wanted, Timed
<1>7. Idle'
  <2>1. outcome = "no"
    BY <1>0 DEF IInv, IteratorInv, Idle
  <2> QED BY <2>1, <1>0 DEF Idle
<1> QED BY <1>0, <1>3, <1>4, <1>5, <1>6, <1>7 DEF IInv, IteratorInv

\* The iterator ends and leaves the cache as it is.
LEMMA EndKeeps ==
  ASSUME IInv, NEW how \in {"done", "failed", "returned"}, End(how),
         UNCHANGED <<shared, currentReadHead, readHead, last, asked>>
  PROVE  IInv'
<1>1. /\ at' = "ended" /\ yielded' = FALSE /\ outcome' = how /\ block' = 0 /\ idx' = 0
      /\ ahead' = {} /\ sourceEnd' = 0 /\ lastTime' = 0 /\ pending' = <<>>
      /\ Size(pending)' = 0 /\ IteratorInv'
  BY EndIs
<1>2. /\ cachedTopics' = cachedTopics /\ cache' = cache /\ recent' = recent
      /\ totalSize' = totalSize /\ candidates' = candidates
      /\ currentReadHead' = currentReadHead /\ readHead' = readHead /\ last' = last
      /\ maxEnd' = maxEnd /\ stream' = stream /\ opened' = opened /\ closed' = closed
  BY DEF shared, asked
<1>3. CacheInv'
  <2>1. totalSize' >= Size(pending)' + Total(Sizes(cache))
    BY <1>1, <1>2, CacheFacts
  <2>2. Elements(recent') = Ids(cache) /\ Distinct(recent')
    BY <1>2, CacheFacts
  <2> QED BY <2>1, <2>2, <1>2, CacheFacts, CacheInvPrimed
<1>4. TypeOK'
  <2>1. TypeOK /\ <<>> \in Seq(Items)
    BY DEF IInv
  <2> QED BY <2>1, <1>1, <1>2 DEF TypeOK, Items
<1> QED BY <1>1, <1>3, <1>4 DEF IInv

LEMMA DropHollowKeeps == ASSUME IInv, DropHollow PROVE IInv'
<1> DEFINE k == First(AtHead)
           d == RemoveAt(cache, k)
           r == RemoveFirst(recent, cache[k].id)
<1>0. /\ at = "loop" /\ AtHead # {}
      /\ cache' = d /\ recent' = r
      /\ cachedTopics' = cachedTopics /\ totalSize' = totalSize /\ candidates' = candidates
      /\ currentReadHead' = currentReadHead /\ at' = at /\ yielded' = yielded
      /\ readHead' = readHead /\ block' = block /\ idx' = idx /\ ahead' = ahead
      /\ sourceEnd' = sourceEnd /\ lastTime' = lastTime /\ pending' = pending
      /\ last' = last /\ outcome' = outcome /\ maxEnd' = maxEnd /\ stream' = stream
      /\ opened' = opened /\ closed' = closed
  BY DEF DropHollow, reading, asked
<1>1. k \in DOMAIN cache /\ k \in 1..Len(cache)
  <2>1. AtHead \subseteq DOMAIN cache /\ DOMAIN cache = 1..Len(cache) /\ Len(cache) \in Nat
    BY CacheFacts, IdsOf DEF AtHead
  <2>2. AtHead \subseteq Nat
    BY <2>1
  <2> QED BY <2>1, <2>2, <1>0, FirstIs
<1> HIDE DEF k
<1>2. d \in Seq(Blocks) /\ RemovedAt(d, cache, k)
  BY <1>1, CacheFacts, RemoveAtIs
<1>3. r \in Seq(Nat \ {0}) /\ Elements(r) = Ids(cache) \ {cache[k].id} /\ Distinct(r)
  BY CacheFacts, DropIs
<1> HIDE DEF d, r
<1>4. /\ Apart(d) /\ Ids(d) = Ids(cache) \ {cache[k].id}
      /\ \A j \in DOMAIN d : \E i \in DOMAIN cache : d[j] = cache[i]
  BY <1>1, <1>2, CacheFacts, RemovedIs
<1>5. Good(d)
  BY <1>4, CacheFacts DEF Good
<1>6. /\ Total(Sizes(cache)) = Total(Sizes(d)) + cache[k].size
      /\ cache[k].size \in Nat /\ Total(Sizes(d)) \in Nat
  BY <1>1, <1>2, CacheFacts, SizesRemoved, SizesType, TotalType, BlockTypes
<1>7. pending = <<>> /\ Size(pending)' = Size(pending)
  <2>1. pending = <<>>
    BY <1>0 DEF IInv, IteratorInv, Idle
  <2>2. Size(pending') = Size(pending)
    BY <1>0
  <2> QED BY <2>1, <2>2 DEF Size
<1>8. CacheInv'
  <2>1. totalSize' >= Size(pending)' + Total(Sizes(d))
    BY <1>0, <1>6, <1>7, CacheFacts
  <2>2. Elements(recent') = Ids(d) /\ Distinct(recent') /\ d = cache'
    BY <1>0, <1>3, <1>4
  <2> QED BY <2>1, <2>2, <1>0, <1>4, <1>5, CacheInvPrimed
<1>9. TypeOK'
  <2>1. TypeOK /\ block = 0
    BY <1>0 DEF IInv, IteratorInv, Idle
  <2> QED BY <2>1, <1>0, <1>2, <1>3 DEF TypeOK
<1>10. IteratorInv'
  <2>1. Idle /\ StreamKnown /\ InLoop
    BY <1>0 DEF IInv, IteratorInv
  <2>2. Idle'
    BY <2>1, <1>0 DEF Idle
  <2>3. StreamKnown'
    BY <2>1, <1>0 DEF StreamKnown, TimedIn, Wanted, Timed
  <2>4. InLoop'
    BY <2>1, <1>0 DEF InLoop, LastBefore
  <2> QED BY <2>2, <2>3, <2>4, <1>0 DEF IteratorInv
<1> QED BY <1>8, <1>9, <1>10 DEF IInv

\* What the items of a block in the cache are.
LEMMA ItemsOf ==
  ASSUME IInv, NEW k \in DOMAIN cache, NEW b, b = cache[k]
  PROVE  /\ b.start \in Nat /\ b.end \in Nat /\ Len(b.items) \in Nat
         /\ DOMAIN b.items = 1..Len(b.items)
         /\ \A n \in DOMAIN b.items :
              /\ b.items[n].at \in Nat /\ b.items[n].pos \in 1..Len(Log)
              /\ b.start <= b.items[n].at /\ b.items[n].at <= b.end
              /\ Timed(b.items[n].pos) => b.items[n].at = Log[b.items[n].pos].time
         /\ \A m, n \in DOMAIN b.items : m < n => /\ b.items[m].pos < b.items[n].pos
                                                  /\ b.items[m].at <= b.items[n].at
<1>1. b.start \in Nat /\ b.end \in Nat /\ b.items \in Seq(Items) /\ Sound(b)
  BY CacheFacts, BlockTypes DEF Good
<1>2. DOMAIN b.items = 1..Len(b.items) /\ Len(b.items) \in Nat
  BY <1>1
<1>3. ASSUME NEW n \in DOMAIN b.items
      PROVE  /\ b.items[n].at \in Nat /\ b.items[n].pos \in 1..Len(Log)
             /\ b.start <= b.items[n].at /\ b.items[n].at <= b.end
             /\ Timed(b.items[n].pos) => b.items[n].at = Log[b.items[n].pos].time
  <2>1. b.items[n] \in Items
    BY <1>1, <1>2, ElementOfSeq
  <2>2. Holds(b, b.items[n].at)
    BY <1>1 DEF Sound
  <2>3. Timed(b.items[n].pos) => b.items[n].at = Log[b.items[n].pos].time
    BY <1>1 DEF Sound, InOrder
  <2> QED BY <2>1, <2>2, <2>3 DEF Items, Holds
<1>4. \A m, n \in DOMAIN b.items : m < n => /\ b.items[m].pos < b.items[n].pos
                                            /\ b.items[m].at <= b.items[n].at
  BY <1>1 DEF Sound, InOrder
<1> QED BY <1>1, <1>2, <1>3, <1>4

\* A block that is complete has what the iterator was asked for of its time range.
LEMMA HeldHas ==
  ASSUME IInv, at # "ended", NEW k \in DOMAIN cache, NEW b, b = cache[k], Complete(b)
  PROVE  /\ \A j \in stream : b.start <= Log[j].time /\ Log[j].time <= b.end
                                => \E n \in DOMAIN b.items : b.items[n].pos = j
         /\ \A n \in DOMAIN b.items :
              Timed(b.items[n].pos) /\ readHead <= b.items[n].at /\ b.items[n].at <= maxEnd
                => b.items[n].pos \in stream
         /\ \A j \in stream : j \in 1..Len(Log) /\ Timed(j) /\ Log[j].time \in Nat /\ Log[j].time <= maxEnd
<1>1. PICK s \in 0..readHead : stream = TimedIn(Wanted(cachedTopics, s, maxEnd))
  BY DEF IInv, IteratorInv, StreamKnown
<1>2. /\ b.start \in Nat /\ b.end \in Nat /\ s \in Nat /\ maxEnd \in Nat /\ readHead \in Nat
      /\ s <= readHead
  BY ItemsOf, ReadingTypes
<1>3. ASSUME NEW x, NEW from \in Nat, NEW to \in Nat
      PROVE  x \in TimedIn(Wanted(cachedTopics, from, to)) <=>
               /\ x \in 1..Len(Log) /\ Timed(x) /\ from <= Log[x].time /\ Log[x].time <= to
               /\ Log[x].kind = "message" => Log[x].topic \in cachedTopics
  BY LogTypes DEF Wanted, TimedIn
<1>4. \A x : x \in stream <=> /\ x \in 1..Len(Log) /\ Timed(x) /\ s <= Log[x].time /\ Log[x].time <= maxEnd
                              /\ Log[x].kind = "message" => Log[x].topic \in cachedTopics
  BY <1>1, <1>2, <1>3
<1>5. \A x : x \in TimedIn(Held(b)) <=>
               /\ x \in 1..Len(Log) /\ Timed(x) /\ b.start <= Log[x].time /\ Log[x].time <= b.end
               /\ Log[x].kind = "message" => Log[x].topic \in cachedTopics
  BY <1>2, <1>3 DEF Complete
<1>6. ASSUME NEW j \in stream, b.start <= Log[j].time, Log[j].time <= b.end
      PROVE  \E n \in DOMAIN b.items : b.items[n].pos = j
  <2>1. j \in TimedIn(Held(b))
    BY <1>4, <1>5, <1>6
  <2> QED BY <2>1 DEF TimedIn, Held
<1>7. ASSUME NEW n \in DOMAIN b.items, Timed(b.items[n].pos),
             readHead <= b.items[n].at, b.items[n].at <= maxEnd
      PROVE  b.items[n].pos \in stream
  <2>1. /\ b.items[n].at = Log[b.items[n].pos].time /\ b.items[n].at \in Nat
    BY <1>7, ItemsOf
  <2>2. b.items[n].pos \in TimedIn(Held(b))
    BY <1>7 DEF TimedIn, Held
  <2>3. s <= b.items[n].at
    BY <2>1, <1>2, <1>7
  <2> QED BY <2>1, <2>2, <2>3, <1>4, <1>5, <1>7
<1>8. \A j \in stream : j \in 1..Len(Log) /\ Timed(j) /\ Log[j].time \in Nat /\ Log[j].time <= maxEnd
  BY <1>4, LogTypes
<1> QED BY <1>6, <1>7, <1>8

\* The item a block is entered at.
LEMMA StartIs ==
  ASSUME IInv, NEW k \in DOMAIN cache, NEW b, b = cache[k], NEW t \in Nat,
         NEW i, i = StartIndex(b.items, t)
  PROVE  /\ i \in 1..(Len(b.items) + 1)
         /\ \A n \in DOMAIN b.items : n < i => b.items[n].at < t
         /\ \A n \in DOMAIN b.items : n >= i => b.items[n].at >= t
<1> DEFINE S == {n \in 1..(Len(b.items) + 1) : n <= Len(b.items) => b.items[n].at >= t}
<1>1. /\ Len(b.items) \in Nat /\ DOMAIN b.items = 1..Len(b.items)
      /\ \A n \in DOMAIN b.items : b.items[n].at \in Nat
      /\ \A m, n \in DOMAIN b.items : m < n => b.items[m].at <= b.items[n].at
  BY ItemsOf
<1>2. i = First(S)
  BY DEF StartIndex
<1>3. S \subseteq Nat /\ Len(b.items) + 1 \in S
  BY <1>1
<1>4. i \in S /\ \A j \in S : i <= j
  <2> HIDE DEF S
  <2> QED BY <1>2, <1>3, FirstIs
<1>5. i \in 1..(Len(b.items) + 1) /\ i \in Nat
  BY <1>1, <1>4
<1>6. ASSUME NEW n \in DOMAIN b.items, n < i PROVE b.items[n].at < t
  <2>1. n \in 1..(Len(b.items) + 1) /\ n <= Len(b.items) /\ n \in Nat
    BY <1>1
  <2>2. n \notin S
    BY <2>1, <1>4, <1>5, <1>6
  <2> QED BY <2>1, <2>2, <1>1
<1>7. ASSUME NEW n \in DOMAIN b.items, n >= i PROVE b.items[n].at >= t
  <2>1. n \in Nat /\ n <= Len(b.items)
    BY <1>1
  <2>2. i \in DOMAIN b.items /\ i <= Len(b.items)
    BY <2>1, <1>1, <1>5, <1>7
  <2>3. b.items[i].at >= t
    BY <2>2, <1>4
  <2>4. CASE i = n
    BY <2>3, <2>4
  <2>5. CASE i < n
    <3>1. b.items[i].at <= b.items[n].at /\ b.items[i].at \in Nat /\ b.items[n].at \in Nat
      BY <2>2, <2>5, <1>1
    <3> QED BY <3>1, <2>3
  <2> QED BY <2>1, <2>4, <2>5, <1>5, <1>7
<1> QED BY <1>5, <1>6, <1>7

\* A step that leaves the cache, what was read and what was asked for alone.
LEMMA CacheAlone ==
  ASSUME IInv, cache' = cache, cachedTopics' = cachedTopics, totalSize' = totalSize,
         pending' = pending, Elements(recent') = Elements(recent), Distinct(recent')
  PROVE  CacheInv'
<1>1. Size(pending)' = Size(pending)
  <2>1. Size(pending') = Size(pending)
    OBVIOUS
  <2> QED BY <2>1 DEF Size
<1>2. totalSize' >= Size(pending)' + Total(Sizes(cache))
  BY <1>1, CacheFacts
<1>3. Elements(recent') = Ids(cache)
  BY CacheFacts
<1> QED BY <1>2, <1>3, CacheFacts, CacheInvPrimed

LEMMA StreamAlone ==
  ASSUME IInv, at # "ended", cachedTopics' = cachedTopics, stream' = stream, maxEnd' = maxEnd,
         readHead' \in Nat, readHead <= readHead'
  PROVE  StreamKnown'
<1>1. PICK s \in 0..readHead : stream = TimedIn(Wanted(cachedTopics, s, maxEnd))
  BY DEF IInv, IteratorInv, StreamKnown
<1>2. s \in 0..readHead'
  BY ReadingTypes
<1>3. stream' = TimedIn(Wanted(cachedTopics', s, maxEnd'))
  BY <1>1
<1> QED BY <1>2, <1>3 DEF StreamKnown, TimedIn, Wanted, Timed

LEMMA EnterBlockKeeps == ASSUME IInv, EnterBlock PROVE IInv'
<1>a. PICK k : k = First(AtHead)
  OBVIOUS
<1>2. PICK b : b = cache[k]
  OBVIOUS
<1>0. /\ at = "loop" /\ AtHead # {} /\ ~ Hollow(b)
      /\ block' = b.id /\ idx' = StartIndex(b.items, readHead) /\ at' = "cached"
      /\ cachedTopics' = cachedTopics /\ cache' = cache /\ recent' = recent
      /\ totalSize' = totalSize /\ candidates' = candidates
      /\ currentReadHead' = currentReadHead /\ yielded' = yielded
      /\ readHead' = readHead /\ ahead' = ahead
      /\ sourceEnd' = sourceEnd /\ lastTime' = lastTime /\ pending' = pending
      /\ last' = last /\ outcome' = outcome /\ maxEnd' = maxEnd /\ stream' = stream
      /\ opened' = opened /\ closed' = closed
  BY <1>a, <1>2 DEF EnterBlock, shared, reading, asked
<1>1. k \in DOMAIN cache /\ Holds(b, readHead)
  <2>1. AtHead \subseteq DOMAIN cache /\ DOMAIN cache = 1..Len(cache) /\ Len(cache) \in Nat
    BY CacheFacts, IdsOf DEF AtHead
  <2>2. AtHead \subseteq Nat
    BY <2>1
  <2>3. k \in AtHead
    BY <2>1, <2>2, <1>0, <1>a, FirstIs
  <2> QED BY <2>3, <1>2 DEF AtHead
<1>3. /\ b.start \in Nat /\ b.end \in Nat /\ Len(b.items) \in Nat
      /\ DOMAIN b.items = 1..Len(b.items)
      /\ \A n \in DOMAIN b.items :
           /\ b.items[n].at \in Nat /\ b.items[n].pos \in 1..Len(Log)
           /\ b.start <= b.items[n].at /\ b.items[n].at <= b.end
           /\ Timed(b.items[n].pos) => b.items[n].at = Log[b.items[n].pos].time
      /\ \A m, n \in DOMAIN b.items : m < n => /\ b.items[m].pos < b.items[n].pos
                                               /\ b.items[m].at <= b.items[n].at
  BY <1>1, <1>2, ItemsOf
<1>4. Complete(b)
  BY <1>0, <1>1, <1>2, CacheFacts DEF Good
<1>5. /\ idx' \in 1..(Len(b.items) + 1)
      /\ \A n \in DOMAIN b.items : n < idx' => b.items[n].at < readHead
      /\ \A n \in DOMAIN b.items : n >= idx' => b.items[n].at >= readHead
  BY <1>0, <1>1, <1>2, ReadingTypes, StartIs
<1>6. /\ last # 0 => Log[last].time < readHead
      /\ \A i \in stream : i > last => Log[i].time >= readHead
  BY <1>0 DEF IInv, IteratorInv, InLoop, LastBefore
<1>7. CacheInv'
  BY <1>0, CacheFacts, CacheAlone
<1>8. TypeOK'
  <2>1. idx' \in Nat
    BY <1>3, <1>5
  <2>2. block' \in {cache'[l].id : l \in DOMAIN cache'}
    BY <1>0, <1>1, <1>2
  <2>3. TypeOK
    BY DEF IInv
  <2> QED BY <2>1, <2>2, <2>3, <1>0 DEF TypeOK
<1>9. InCache'
  <2>1. last # 0 => Log[last].time < b.end + 1
    <3>1. last # 0 => Log[last].time \in Nat
      BY ReadingTypes, LogTypes
    <3>2. readHead <= b.end
      BY <1>1 DEF Holds
    <3> QED BY <3>1, <3>2, <1>3, <1>6, ReadingTypes
  <2>2. ASSUME NEW n \in DOMAIN b.items, n < idx', b.items[n].pos \in stream
        PROVE  b.items[n].pos <= last
    <3> DEFINE i == b.items[n].pos
    <3>1. i \in stream /\ Timed(i) /\ Log[i].time \in Nat /\ i \in 1..Len(Log)
      BY <2>2, <1>0, <1>1, <1>2, <1>4, HeldHas
    <3>2. Log[i].time < readHead
      BY <3>1, <2>2, <1>3, <1>5
    <3>3. ~ (i > last)
      BY <3>1, <3>2, <1>6, ReadingTypes
    <3> QED BY <3>1, <3>3, ReadingTypes
  <2>3. ASSUME NEW n \in DOMAIN b.items, n >= idx', Timed(b.items[n].pos)
        PROVE  b.items[n].pos > last
    <3> DEFINE i == b.items[n].pos
    <3>1. i \in 1..Len(Log) /\ Log[i].time >= readHead /\ Log[i].time \in Nat
      BY <2>3, <1>3, <1>5
    <3>2. CASE last = 0
      BY <3>1, <3>2
    <3>3. CASE last # 0
      <4>1. last \in 1..Len(Log) /\ Log[last].time \in Nat
        BY <3>3, ReadingTypes, LogTypes
      <4>2. Log[last].time < Log[i].time
        BY <4>1, <3>1, <3>3, <1>6, ReadingTypes
      <4>3. last < i
        BY <4>1, <4>2, <3>1, LaterIsAfter
      <4> QED BY <4>1, <4>3, <3>1
    <3> QED BY <3>2, <3>3
  <2>4. /\ b.id = block' /\ Complete(b)' /\ Holds(b, readHead)'
        /\ idx' \in 1..(Len(b.items) + 1)
        /\ \A i \in stream' : i > last' => Log[i].time >= readHead'
    BY <1>0, <1>1, <1>4, <1>5, <1>6 DEF Complete, TimedIn, Wanted, Timed, Held, Holds
  <2>5. \A n \in DOMAIN b.items :
          /\ n < idx' /\ b.items[n].pos \in stream' => b.items[n].pos <= last'
          /\ n >= idx' => b.items[n].at >= readHead'
          /\ n >= idx' /\ Timed(b.items[n].pos) => b.items[n].pos > last'
    BY <2>2, <2>3, <1>0, <1>5
  <2>6. cache'[k] = b
    BY <1>0, <1>2
  <2>7. \E l \in DOMAIN cache' :
          /\ cache'[l].id = block' /\ Complete(cache[l])'
          /\ Holds(cache[l], readHead)'
          /\ last' # 0 => Log[last'].time < cache'[l].end + 1
          /\ idx' \in 1..(Len(cache'[l].items) + 1)
          /\ \A i \in stream' : i > last' => Log[i].time >= readHead'
          /\ \A n \in DOMAIN cache'[l].items :
               /\ n < idx' /\ cache'[l].items[n].pos \in stream' => cache'[l].items[n].pos <= last'
               /\ n >= idx' => cache'[l].items[n].at >= readHead'
               /\ n >= idx' /\ Timed(cache'[l].items[n].pos) => cache'[l].items[n].pos > last'
    <3> k \in DOMAIN cache'
      BY <1>0, <1>1
    <3> WITNESS k \in DOMAIN cache'
    <3> QED BY <2>1, <2>4, <2>5, <2>6, <1>0, <1>1 DEF Complete, TimedIn, Wanted, Timed, Held, Holds
  <2> QED BY <2>7 DEF InCache, LastBefore, Timed
<1>10. IteratorInv'
  <2>1. Idle'
    BY <1>0 DEF IInv, IteratorInv, Idle
  <2>2. StreamKnown'
    <3>1. readHead \in Nat /\ readHead <= readHead
      BY ReadingTypes
    <3> QED BY <3>1, <1>0, StreamAlone
  <2> QED BY <2>1, <2>2, <1>0, <1>9 DEF IteratorInv
<1> QED BY <1>7, <1>8, <1>10 DEF IInv

\* The block an iterator reads, and what it has of the stream.
LEMMA CachedIs ==
  ASSUME IInv, at = "cached"
  PROVE  \E k \in DOMAIN cache :
           /\ cache[k].id = block /\ BlockOf(cache, block) = cache[k] /\ block \in Nat \ {0}
           /\ Complete(cache[k]) /\ Holds(cache[k], readHead)
           /\ LastBefore(cache[k].end + 1)
           /\ idx \in 1..(Len(cache[k].items) + 1)
           /\ \A i \in stream : i > last => Log[i].time >= readHead
           /\ \A n \in DOMAIN cache[k].items :
                /\ n < idx /\ cache[k].items[n].pos \in stream => cache[k].items[n].pos <= last
                /\ n >= idx => cache[k].items[n].at >= readHead
                /\ n >= idx /\ Timed(cache[k].items[n].pos) => cache[k].items[n].pos > last
<1>1. PICK k \in DOMAIN cache :
        /\ cache[k].id = block
        /\ Complete(cache[k]) /\ Holds(cache[k], readHead)
        /\ LastBefore(cache[k].end + 1)
        /\ idx \in 1..(Len(cache[k].items) + 1)
        /\ \A i \in stream : i > last => Log[i].time >= readHead
        /\ \A n \in DOMAIN cache[k].items :
             /\ n < idx /\ cache[k].items[n].pos \in stream => cache[k].items[n].pos <= last
             /\ n >= idx => cache[k].items[n].at >= readHead
             /\ n >= idx /\ Timed(cache[k].items[n].pos) => cache[k].items[n].pos > last
  BY DEF IInv, IteratorInv, InCache
<1>2. BlockOf(cache, block) = cache[k]
  BY <1>1, CacheFacts, BlockOfIs
<1>3. block \in Nat \ {0}
  BY <1>1, CacheFacts, BlockTypes
<1> QED BY <1>1, <1>2, <1>3

LEMMA YieldCachedKeeps == ASSUME IInv, YieldCached PROVE IInv'
<1>1. PICK k \in DOMAIN cache :
        /\ cache[k].id = block /\ BlockOf(cache, block) = cache[k] /\ block \in Nat \ {0}
        /\ Complete(cache[k]) /\ Holds(cache[k], readHead)
        /\ LastBefore(cache[k].end + 1)
        /\ idx \in 1..(Len(cache[k].items) + 1)
        /\ \A i \in stream : i > last => Log[i].time >= readHead
        /\ \A n \in DOMAIN cache[k].items :
             /\ n < idx /\ cache[k].items[n].pos \in stream => cache[k].items[n].pos <= last
             /\ n >= idx => cache[k].items[n].at >= readHead
             /\ n >= idx /\ Timed(cache[k].items[n].pos) => cache[k].items[n].pos > last
  BY CachedIs DEF YieldCached
<1>2. PICK b : b = cache[k]
  OBVIOUS
<1>3. PICK i : i = b.items[idx].pos
  OBVIOUS
<1>0. /\ at = "cached" /\ idx <= Len(b.items) /\ b.items[idx].at <= maxEnd
      /\ yielded' = TRUE /\ last' = IF Timed(i) THEN i ELSE last
      /\ idx' = idx + 1 /\ recent' = Touch(recent, block)
      /\ cachedTopics' = cachedTopics /\ cache' = cache
      /\ totalSize' = totalSize /\ candidates' = candidates
      /\ currentReadHead' = currentReadHead /\ at' = at /\ block' = block
      /\ readHead' = readHead /\ ahead' = ahead
      /\ sourceEnd' = sourceEnd /\ lastTime' = lastTime /\ pending' = pending
      /\ outcome' = outcome /\ maxEnd' = maxEnd /\ stream' = stream
      /\ opened' = opened /\ closed' = closed
  BY <1>1, <1>2, <1>3 DEF YieldCached, Yield, reading, asked
<1>4. /\ b.start \in Nat /\ b.end \in Nat /\ Len(b.items) \in Nat
      /\ DOMAIN b.items = 1..Len(b.items)
      /\ \A n \in DOMAIN b.items :
           /\ b.items[n].at \in Nat /\ b.items[n].pos \in 1..Len(Log)
           /\ b.start <= b.items[n].at /\ b.items[n].at <= b.end
           /\ Timed(b.items[n].pos) => b.items[n].at = Log[b.items[n].pos].time
      /\ \A m, n \in DOMAIN b.items : m < n => /\ b.items[m].pos < b.items[n].pos
                                               /\ b.items[m].at <= b.items[n].at
  BY <1>2, ItemsOf
<1>5. idx \in DOMAIN b.items /\ idx \in Nat /\ idx + 1 \in 1..(Len(b.items) + 1)
  BY <1>0, <1>1, <1>2, <1>4
<1>6. /\ i \in 1..Len(Log) /\ i \in Nat
      /\ Timed(i) => i > last /\ Log[i].time <= b.end /\ Log[i].time \in Nat
  <2>1. i \in 1..Len(Log) /\ b.items[idx].at \in Nat
    BY <1>3, <1>4, <1>5
  <2>2. idx >= idx
    BY <1>5
  <2>3. Timed(i) => i > last
    BY <2>2, <1>1, <1>2, <1>3, <1>5
  <2>4. Timed(i) => Log[i].time <= b.end
    BY <1>3, <1>4, <1>5
  <2> QED BY <2>1, <2>3, <2>4, LogTypes
<1>7. last' \in 0..Len(Log) /\ last <= last'
  BY <1>0, <1>6, ReadingTypes
<1>8. /\ recent' \in Seq(Nat \ {0}) /\ Distinct(recent') /\ Elements(recent') = Elements(recent)
  <2>1. recent \in Seq(Nat \ {0}) /\ Distinct(recent) /\ block \in Nat \ {0} /\ block \in Elements(recent)
    BY <1>1, CacheFacts DEF Ids
  <2>2. /\ Touch(recent, block) \in Seq(Nat \ {0})
        /\ Elements(Touch(recent, block)) = Elements(recent) \cup {block}
        /\ Distinct(Touch(recent, block))
    BY <2>1, TouchIs, Zenon
  <2> QED BY <2>1, <2>2, <1>0
<1>9. CacheInv'
  BY <1>0, <1>8, CacheAlone
<1>10. TypeOK'
  <2>1. TypeOK
    BY DEF IInv
  <2>2. idx' \in Nat
    BY <1>0, <1>5
  <2> QED BY <2>1, <2>2, <1>0, <1>7, <1>8 DEF TypeOK
<1>11. last' # 0 => Log[last'].time < b.end + 1
  <2>1. CASE Timed(i)
    BY <2>1, <1>0, <1>4, <1>6
  <2>2. CASE ~ Timed(i)
    BY <2>2, <1>0, <1>1, <1>2 DEF LastBefore
  <2> QED BY <2>1, <2>2
<1>12. \A j \in stream : j > last' => Log[j].time >= readHead
  BY <1>1, <1>7, ReadingTypes
<1>13. ASSUME NEW n \in DOMAIN b.items
       PROVE  /\ n < idx' /\ b.items[n].pos \in stream => b.items[n].pos <= last'
              /\ n >= idx' => b.items[n].at >= readHead
              /\ n >= idx' /\ Timed(b.items[n].pos) => b.items[n].pos > last'
  <2>0. n \in Nat /\ b.items[n].pos \in Nat
    BY <1>4
  <2>1. ASSUME n < idx', b.items[n].pos \in stream PROVE b.items[n].pos <= last'
    <3>1. CASE n = idx
      <4>1. PICK s \in 0..readHead : stream = TimedIn(Wanted(cachedTopics, s, maxEnd))
        BY <1>0 DEF IInv, IteratorInv, StreamKnown
      <4>2. Timed(i)
        BY <4>1, <3>1, <2>1, <1>3 DEF TimedIn
      <4> QED BY <4>2, <3>1, <1>0, <1>3, <1>6
    <3>2. CASE n < idx
      <4>1. b.items[n].pos <= last
        BY <3>2, <2>1, <1>1, <1>2
      <4> QED BY <4>1, <2>0, <1>7, ReadingTypes
    <3> QED BY <3>1, <3>2, <2>0, <2>1, <1>0, <1>5
  <2>2. ASSUME n >= idx' PROVE n >= idx /\ idx < n
    BY <2>0, <2>2, <1>0, <1>5
  <2>3. n >= idx' => b.items[n].at >= readHead
    BY <2>2, <1>1, <1>2
  <2>4. ASSUME n >= idx', Timed(b.items[n].pos) PROVE b.items[n].pos > last'
    <3>1. b.items[n].pos > last
      BY <2>2, <2>4, <1>1, <1>2
    <3>2. b.items[n].pos > i
      <4>1. b.items[idx].pos < b.items[n].pos
        BY <2>2, <2>4, <1>4, <1>5
      <4> QED BY <4>1, <2>0, <1>3, <1>6
    <3> QED BY <3>1, <3>2, <1>0
  <2> QED BY <2>1, <2>3, <2>4
<1>14. InCache'
  <2>1. cache'[k] = b
    BY <1>0, <1>2
  <2>2. \E l \in DOMAIN cache' :
          /\ cache'[l].id = block' /\ Complete(cache[l])'
          /\ Holds(cache[l], readHead)'
          /\ last' # 0 => Log[last'].time < cache'[l].end + 1
          /\ idx' \in 1..(Len(cache'[l].items) + 1)
          /\ \A j \in stream' : j > last' => Log[j].time >= readHead'
          /\ \A n \in DOMAIN cache'[l].items :
               /\ n < idx' /\ cache'[l].items[n].pos \in stream' => cache'[l].items[n].pos <= last'
               /\ n >= idx' => cache'[l].items[n].at >= readHead'
               /\ n >= idx' /\ Timed(cache'[l].items[n].pos) => cache'[l].items[n].pos > last'
    <3> k \in DOMAIN cache'
      BY <1>0
    <3> WITNESS k \in DOMAIN cache'
    <3>1. Complete(cache[k])' /\ Holds(cache[k], readHead)' /\ cache'[k].id = block'
      BY <1>0, <1>1 DEF Complete, TimedIn, Wanted, Timed, Held, Holds
    <3> QED BY <3>1, <2>1, <1>0, <1>5, <1>11, <1>12, <1>13
  <2> QED BY <2>2 DEF InCache, LastBefore, Timed
<1>15. IteratorInv'
  <2>1. Idle'
    BY <1>0 DEF IInv, IteratorInv, Idle
  <2>2. StreamKnown'
    <3>1. readHead \in Nat /\ readHead <= readHead
      BY ReadingTypes
    <3> QED BY <3>1, <1>0, StreamAlone
  <2> QED BY <2>1, <2>2, <1>0, <1>14 DEF IteratorInv
<1> QED BY <1>9, <1>10, <1>15 DEF IInv

LEMMA LeaveBlockKeeps == ASSUME IInv, LeaveBlock PROVE IInv'
<1>1. PICK k \in DOMAIN cache :
        /\ cache[k].id = block /\ BlockOf(cache, block) = cache[k] /\ block \in Nat \ {0}
        /\ Complete(cache[k]) /\ Holds(cache[k], readHead)
        /\ LastBefore(cache[k].end + 1)
        /\ idx \in 1..(Len(cache[k].items) + 1)
        /\ \A i \in stream : i > last => Log[i].time >= readHead
        /\ \A n \in DOMAIN cache[k].items :
             /\ n < idx /\ cache[k].items[n].pos \in stream => cache[k].items[n].pos <= last
             /\ n >= idx => cache[k].items[n].at >= readHead
             /\ n >= idx /\ Timed(cache[k].items[n].pos) => cache[k].items[n].pos > last
  BY CachedIs DEF LeaveBlock
<1>2. PICK b : b = cache[k]
  OBVIOUS
<1>0. /\ at = "cached" /\ idx > Len(b.items) /\ readHead' = b.end + 1
      /\ at' = "loop" /\ yielded' = FALSE /\ block' = 0 /\ idx' = 0
      /\ recent' = recent
      /\ cachedTopics' = cachedTopics /\ cache' = cache
      /\ totalSize' = totalSize /\ candidates' = candidates
      /\ currentReadHead' = currentReadHead /\ ahead' = ahead
      /\ sourceEnd' = sourceEnd /\ lastTime' = lastTime /\ pending' = pending
      /\ last' = last /\ outcome' = outcome /\ maxEnd' = maxEnd /\ stream' = stream
      /\ opened' = opened /\ closed' = closed
  BY <1>1, <1>2 DEF LeaveBlock, After, shared, reading, asked
<1>3. /\ b.start \in Nat /\ b.end \in Nat /\ Len(b.items) \in Nat
      /\ DOMAIN b.items = 1..Len(b.items)
  BY <1>2, ItemsOf
<1>4. /\ \A j \in stream : b.start <= Log[j].time /\ Log[j].time <= b.end
                             => \E n \in DOMAIN b.items : b.items[n].pos = j
      /\ \A j \in stream : j \in 1..Len(Log) /\ Timed(j) /\ Log[j].time \in Nat /\ Log[j].time <= maxEnd
  BY <1>0, <1>1, <1>2, HeldHas
<1>5. CacheInv'
  BY <1>0, CacheFacts, CacheAlone
<1>6. TypeOK'
  <2>1. TypeOK
    BY DEF IInv
  <2>2. readHead' \in Nat
    BY <1>0, <1>3
  <2> QED BY <2>1, <2>2, <1>0 DEF TypeOK
<1>7. b.start <= readHead /\ readHead <= b.end
  BY <1>1, <1>2 DEF Holds
<1>8. ASSUME NEW j \in stream, j > last PROVE Log[j].time >= b.end + 1
  <2> SUFFICES ASSUME Log[j].time <= b.end PROVE FALSE
    BY <1>3, <1>4
  <2>1. b.start <= Log[j].time
    <3>1. Log[j].time >= readHead
      BY <1>1, <1>8
    <3> QED BY <3>1, <1>3, <1>4, <1>7, ReadingTypes
  <2>2. PICK n \in DOMAIN b.items : b.items[n].pos = j
    BY <2>1, <1>4
  <2>3. n < idx
    BY <1>0, <1>1, <1>2, <1>3
  <2>4. j <= last /\ j \in Nat
    BY <2>2, <2>3, <1>1, <1>2, <1>4
  <2> QED BY <2>4, <1>8, ReadingTypes
<1>9. InLoop'
  BY <1>0, <1>1, <1>2, <1>8 DEF InLoop, LastBefore
<1>10. IteratorInv'
  <2>1. Idle'
    BY <1>0 DEF IInv, IteratorInv, Idle
  <2>2. StreamKnown'
    <3>1. readHead' \in Nat /\ readHead <= readHead'
      BY <1>0, <1>3, <1>7, ReadingTypes
    <3> QED BY <3>1, <1>0, StreamAlone
  <2> QED BY <2>1, <2>2, <1>0, <1>9 DEF IteratorInv
<1> QED BY <1>5, <1>6, <1>10 DEF IInv

\* The source is read up to the next block at most.
LEMMA ReadUntilIs ==
  ASSUME IInv, readHead <= maxEnd
  PROVE  /\ ReadUntil \in Nat /\ readHead <= ReadUntil /\ ReadUntil <= maxEnd
         /\ \A k \in DOMAIN cache : readHead < cache[k].start => ReadUntil < cache[k].start
<1> DEFINE next == {k \in DOMAIN cache : readHead < cache[k].start}
           f == First(next)
<1>1. /\ DOMAIN cache = 1..Len(cache) /\ Len(cache) \in Nat /\ next \subseteq Nat
      /\ readHead \in Nat /\ maxEnd \in Nat
      /\ \A k \in DOMAIN cache : cache[k].start \in Nat /\ cache[k].end \in Nat
                                 /\ cache[k].start <= cache[k].end
  BY CacheFacts, IdsOf, ReadingTypes, BlockTypes DEF Good, Sound
<1>2. ReadUntil = IF next # {} /\ cache[f].start - 1 < maxEnd THEN cache[f].start - 1 ELSE maxEnd
  BY DEF ReadUntil
<1>3. next # {} => /\ f \in DOMAIN cache /\ readHead < cache[f].start
                   /\ \A k \in next : f <= k
  <2> SUFFICES ASSUME next # {}
               PROVE  /\ f \in DOMAIN cache /\ readHead < cache[f].start
                      /\ \A k \in next : f <= k
    OBVIOUS
  <2>1. f \in next /\ \A k \in next : f <= k
    <3> HIDE DEF next
    <3> QED BY <1>1, FirstIs
  <2> QED BY <2>1
<1>4. \A k \in next : k \in DOMAIN cache
  OBVIOUS
<1>5. \A k \in DOMAIN cache : readHead < cache[k].start => k \in next
  OBVIOUS
<1> HIDE DEF next, f
<1>6. ReadUntil \in Nat /\ readHead <= ReadUntil /\ ReadUntil <= maxEnd
  <2>1. CASE next # {} /\ cache[f].start - 1 < maxEnd
    BY <2>1, <1>1, <1>2, <1>3
  <2>2. CASE ~ (next # {} /\ cache[f].start - 1 < maxEnd)
    BY <2>2, <1>1, <1>2
  <2> QED BY <2>1, <2>2
<1>7. ASSUME NEW k \in DOMAIN cache, readHead < cache[k].start PROVE ReadUntil < cache[k].start
  <2>1. k \in next /\ next # {} /\ f <= k /\ f \in DOMAIN cache
    BY <1>3, <1>5, <1>7
  <2>2. cache[f].start <= cache[k].start
    <3>1. CASE f = k
      BY <3>1, <1>1
    <3>2. CASE f < k
      <4>1. cache[f].end < cache[k].start
        BY <3>2, <2>1, CacheFacts DEF Apart
      <4> QED BY <4>1, <2>1, <1>1
    <3> QED BY <3>1, <3>2, <2>1, <1>1
  <2>3. ReadUntil < cache[f].start
    BY <2>1, <1>1, <1>2
  <2> QED BY <2>1, <2>2, <2>3, <1>1, <1>6
<1> QED BY <1>6, <1>7

LEMMA OpenSourceKeeps == ASSUME IInv, OpenSource PROVE IInv'
<1>0. /\ at = "loop" /\ readHead <= maxEnd /\ AtHead = {} /\ at' = "source"
      /\ ahead' = Wanted(cachedTopics, readHead, ReadUntil) /\ sourceEnd' = ReadUntil
      /\ lastTime' = readHead
      /\ cachedTopics' = cachedTopics /\ cache' = cache /\ recent' = recent
      /\ totalSize' = totalSize /\ candidates' = candidates
      /\ currentReadHead' = currentReadHead /\ yielded' = yielded
      /\ readHead' = readHead /\ block' = block /\ idx' = idx /\ pending' = pending
      /\ last' = last /\ outcome' = outcome /\ maxEnd' = maxEnd /\ stream' = stream
      /\ opened' = opened /\ closed' = closed
  BY DEF OpenSource, shared, asked
<1>1. /\ ReadUntil \in Nat /\ readHead <= ReadUntil /\ ReadUntil <= maxEnd
      /\ \A k \in DOMAIN cache : readHead < cache[k].start => ReadUntil < cache[k].start
  BY <1>0, ReadUntilIs
<1>2. block = 0 /\ pending = <<>> /\ ~ yielded /\ outcome = "no"
  BY <1>0 DEF IInv, IteratorInv, Idle
<1>3. /\ last # 0 => Log[last].time < readHead
      /\ \A i \in stream : i > last => Log[i].time >= readHead
  BY <1>0 DEF IInv, IteratorInv, InLoop, LastBefore
<1>4. CacheInv'
  BY <1>0, CacheFacts, CacheAlone
<1>5. ASSUME NEW x
      PROVE  x \in ahead' <=> /\ x \in 1..Len(Log) /\ readHead <= Log[x].time /\ Log[x].time <= ReadUntil
                              /\ Log[x].kind = "message" => Log[x].topic \in cachedTopics
  BY <1>0, <1>1, LogTypes, ReadingTypes DEF Wanted
<1>6. TypeOK'
  <2>1. TypeOK
    BY DEF IInv
  <2>2. ahead' \subseteq 1..Len(Log)
    BY <1>5
  <2> QED BY <2>1, <2>2, <1>0, <1>1, ReadingTypes DEF TypeOK
<1>7. Parted(cache, block)'
  <2> SUFFICES ASSUME NEW k \in DOMAIN cache
               PROVE  cache[k].id # 0 /\ (cache[k].end < readHead \/ ReadUntil < cache[k].start)
    BY <1>0, <1>2 DEF Parted
  <2>1. cache[k].id # 0 /\ cache[k].start \in Nat /\ cache[k].end \in Nat
    BY CacheFacts, BlockTypes
  <2>2. ~ (cache[k].start <= readHead /\ readHead <= cache[k].end)
    BY <1>0 DEF AtHead, Holds
  <2> QED BY <2>1, <2>2, <1>1, ReadingTypes
<1>8. Reading'
  <2>1. readHead' <= lastTime' /\ lastTime' <= sourceEnd' /\ sourceEnd' <= maxEnd'
        /\ (block' = 0 => lastTime' = readHead')
    BY <1>0, <1>1, ReadingTypes
  <2>2. (ahead \subseteq Wanted(cachedTopics, lastTime, sourceEnd))'
    BY <1>0 DEF Wanted
  <2>3. DOMAIN pending' = {}
    BY <1>0, <1>2
  <2>4. InOrder(pending)'
    BY <2>3 DEF InOrder
  <2>5. (TimedIn({pending[n].pos : n \in DOMAIN pending} \cup ahead)
           = TimedIn(Wanted(cachedTopics, lastTime, sourceEnd)))'
    <3>1. {pending'[n].pos : n \in DOMAIN pending'} \cup ahead' = ahead'
      BY <2>3
    <3>2. ahead' = Wanted(cachedTopics', lastTime', sourceEnd')
      BY <1>0
    <3>3. TimedIn({pending'[n].pos : n \in DOMAIN pending'} \cup ahead')
            = TimedIn(Wanted(cachedTopics', lastTime', sourceEnd'))
      BY <3>1, <3>2
    <3> QED BY <3>3 DEF TimedIn, Wanted, Timed
  <2> QED BY <2>1, <2>2, <2>3, <2>4, <2>5, <1>7 DEF Reading
<1>9. InSource'
  <2>1. last' # 0 => Log[last'].time < sourceEnd' + 1
    <3>1. last # 0 => Log[last].time \in Nat
      BY ReadingTypes, LogTypes
    <3> QED BY <3>1, <1>0, <1>1, <1>3, ReadingTypes
  <2>2. ASSUME NEW i \in ahead' PROVE i > last'
    <3>1. i \in 1..Len(Log) /\ readHead <= Log[i].time /\ Log[i].time \in Nat
      BY <1>5, LogTypes
    <3>2. CASE last = 0
      BY <3>1, <3>2, <1>0
    <3>3. CASE last # 0
      <4>1. last \in 1..Len(Log) /\ Log[last].time \in Nat
        BY <3>3, ReadingTypes, LogTypes
      <4>2. Log[last].time < Log[i].time
        BY <4>1, <3>1, <3>3, <1>3, ReadingTypes
      <4>3. last < i
        BY <4>1, <4>2, <3>1, LaterIsAfter
      <4> QED BY <4>1, <4>3, <3>1, <1>0
    <3> QED BY <3>2, <3>3
  <2>3. ASSUME NEW i \in stream', i > last', Log[i].time <= sourceEnd' PROVE i \in ahead'
    <3>1. PICK s \in 0..readHead : stream = TimedIn(Wanted(cachedTopics, s, maxEnd))
      BY <1>0 DEF IInv, IteratorInv, StreamKnown
    <3>2. i \in 1..Len(Log) /\ (Log[i].kind = "message" => Log[i].topic \in cachedTopics)
      BY <3>1, <2>3, <1>0 DEF TimedIn, Wanted
    <3>3. readHead <= Log[i].time /\ Log[i].time <= ReadUntil
      <4>1. Log[i].time >= readHead /\ Log[i].time \in Nat
        BY <3>2, <2>3, <1>0, <1>3, LogTypes
      <4> QED BY <4>1, <2>3, <1>0, ReadingTypes
    <3> QED BY <3>2, <3>3, <1>5
  <2> QED BY <2>1, <2>2, <2>3 DEF InSource, LastBefore
<1>10. IteratorInv'
  <2>1. Idle'
    BY <1>0, <1>2 DEF Idle
  <2>2. StreamKnown'
    <3>1. readHead \in Nat /\ readHead <= readHead
      BY ReadingTypes
    <3> QED BY <3>1, <1>0, StreamAlone
  <2> QED BY <2>1, <2>2, <1>0, <1>8, <1>9 DEF IteratorInv
<1> QED BY <1>4, <1>6, <1>10 DEF IInv

-----------------------------------------------------------------------------
(* The calls, and the invariant.                                           *)

LEMMA MessageIteratorKeeps ==
  ASSUME IInv, NEW topics \in Selections, NEW start \in Starts, NEW end \in Ends,
         MessageIterator(topics, start, end)
  PROVE  IInv'
<1>0. /\ at = "ended" /\ opened < MaxIterators /\ opened' = opened + 1
      /\ cachedTopics' = topics /\ Purge(topics)
      /\ maxEnd' = end /\ readHead' = start /\ currentReadHead' = start
      /\ \E order \in EvictionOrders(cache', recent', start) : candidates' = Len(order)
      /\ at' = "loop" /\ stream' = {i \in Wanted(topics, start, end) : Timed(i)}
      /\ last' = 0 /\ outcome' = "no"
      /\ yielded' = yielded /\ block' = block /\ idx' = idx
      /\ ahead' = ahead /\ sourceEnd' = sourceEnd /\ lastTime' = lastTime
      /\ pending' = pending /\ closed' = closed
  BY DEF MessageIterator, reading
<1>1. topics \in SUBSET Topics /\ start \in Nat /\ end \in Nat /\ MaxIterators \in Nat
  BY BoundsAssumption
<1>2. block = 0 /\ pending = <<>> /\ ~ yielded
  BY <1>0 DEF IInv, IteratorInv, Idle
<1>3. Size(pending)' = 0 /\ Size(pending) = 0
  <2>1. Size(pending') = 0 /\ Size(pending) = 0
    BY <1>0, <1>2, SizeEmpty
  <2> QED BY <2>1 DEF Size
<1>4. /\ cache' \in Seq(Blocks) /\ recent' \in Seq(Nat \ {0}) /\ totalSize' \in Nat
      /\ Elements(recent') = Ids(cache') /\ CacheInv'
  <2>1. CASE topics # cachedTopics
    <3>1. cache' = <<>> /\ recent' = <<>> /\ totalSize' = 0
      BY <2>1, <1>0 DEF Purge
    <3>2. DOMAIN cache' = {} /\ DOMAIN recent' = {}
      BY <3>1
    <3>3. Elements(recent') = Ids(cache') /\ Elements(recent') = {}
      BY <3>2 DEF Elements, Ids
    <3>4. Total(Sizes(cache')) = 0
      <4>1. Sizes(<<>>) = <<>>
        BY DEF Sizes
      <4> QED BY <4>1, <3>1, TotalEmpty
    <3>5. totalSize' >= Size(pending)' + Total(Sizes(cache'))
      BY <3>1, <3>4, <1>3
    <3>6. CacheInv'
      <4>1. Good(cache)'
        BY <3>2 DEF Good
      <4>2. Apart(cache)'
        BY <3>2 DEF Apart
      <4>3. Accessed(recent, cache)'
        BY <3>2, <3>3 DEF Accessed, Elements, Ids
      <4> QED BY <4>1, <4>2, <4>3, <3>5 DEF CacheInv
    <3> QED BY <3>1, <3>3, <3>6
  <2>2. CASE topics = cachedTopics
    <3>1. cache' = cache /\ recent' = recent /\ totalSize' = totalSize
      BY <2>2, <1>0 DEF Purge
    <3>2. Elements(recent') = Elements(recent) /\ Distinct(recent')
      BY <3>1, CacheFacts
    <3>3. CacheInv'
      BY <3>1, <3>2, <2>2, <1>0, CacheAlone
    <3> QED BY <3>1, <3>3, CacheFacts
  <2> QED BY <2>1, <2>2
<1>5. candidates' \in Nat
  <2> DEFINE c == cache'
             r == recent'
  <2>1. c \in Seq(Blocks) /\ r \in Seq(Nat \ {0}) /\ Elements(r) = Ids(c)
    BY <1>4
  <2> HIDE DEF c, r
  <2>2. \A order \in EvictionOrders(c, r, start) : Len(order) \in Nat
    BY <2>1, OrderHead
  <2> QED BY <2>2, <1>0 DEF c, r
<1>6. stream' = TimedIn(Wanted(cachedTopics', start, maxEnd'))
  BY <1>0 DEF TimedIn
<1>7. TypeOK'
  <2>1. TypeOK
    BY DEF IInv
  <2>2. stream' \subseteq 1..Len(Log)
    BY <1>0 DEF Wanted
  <2>3. opened' \in 0..MaxIterators
    <3>1. opened \in 0..MaxIterators
      BY <2>1 DEF TypeOK
    <3> QED BY <3>1, <1>0, <1>1
  <2>4. last' \in 0..Len(Log)
    BY <1>0, LogTypes
  <2> QED BY <2>1, <2>2, <2>3, <2>4, <1>0, <1>1, <1>2, <1>4, <1>5 DEF TypeOK
<1>8. IteratorInv'
  <2>1. Idle'
    BY <1>0, <1>2 DEF Idle
  <2>2. StreamKnown'
    <3>1. start \in 0..readHead'
      BY <1>0, <1>1
    <3> QED BY <3>1, <1>6 DEF StreamKnown, TimedIn, Wanted, Timed
  <2>3. InLoop'
    <3>1. \A i \in stream' : Log[i].time >= start
      <4>1. \A i \in stream' : Log[i].time \in start..end
        BY <1>0 DEF Wanted
      <4> QED BY <4>1, <1>1
    <3> QED BY <3>1, <1>0 DEF InLoop, LastBefore
  <2> QED BY <2>1, <2>2, <2>3, <1>0 DEF IteratorInv
<1> QED BY <1>4, <1>7, <1>8 DEF IInv

\* The iterator is where it was.
LEMMA IteratorAlone ==
  ASSUME IteratorInv, cachedTopics' = cachedTopics, cache' = cache,
         at' = at, yielded' = yielded, readHead' = readHead, block' = block, idx' = idx,
         ahead' = ahead, sourceEnd' = sourceEnd, lastTime' = lastTime, pending' = pending,
         last' = last, outcome' = outcome, maxEnd' = maxEnd, stream' = stream
  PROVE  IteratorInv'
<1>1. Idle'
  BY DEF IteratorInv, Idle
<1>2. StreamKnown => StreamKnown'
  BY DEF StreamKnown, TimedIn, Wanted, Timed
<1>3. InLoop => InLoop'
  BY DEF InLoop, LastBefore
<1>4. InCache => InCache'
  BY DEF InCache, LastBefore, Complete, TimedIn, Wanted, Timed, Held, Holds
<1>5. InSource => InSource'
  BY DEF InSource, LastBefore
<1>6. Parted(cache, block) => Parted(cache, block)'
  BY DEF Parted, Fresh, Written, Complete, TimedIn, Wanted, Timed, Held
<1>7. Reading => Reading'
  BY <1>6 DEF Reading, TimedIn, Wanted, Timed, InOrder
<1> QED BY <1>1, <1>2, <1>3, <1>4, <1>5, <1>7 DEF IteratorInv

LEMMA SetCurrentReadHeadKeeps ==
  ASSUME IInv, NEW t \in {Log[i].time : i \in 1..Len(Log)}, SetCurrentReadHead(t)
  PROVE  IInv'
<1>1. t \in Nat
  BY LogTypes
<1>2. /\ currentReadHead' = t
      /\ cachedTopics' = cachedTopics /\ cache' = cache /\ recent' = recent
      /\ totalSize' = totalSize /\ candidates' = candidates
      /\ at' = at /\ yielded' = yielded /\ readHead' = readHead /\ block' = block /\ idx' = idx
      /\ ahead' = ahead /\ sourceEnd' = sourceEnd /\ lastTime' = lastTime /\ pending' = pending
      /\ last' = last /\ outcome' = outcome /\ maxEnd' = maxEnd /\ stream' = stream
      /\ opened' = opened /\ closed' = closed
  BY DEF SetCurrentReadHead, shared, reading, asked
<1>3. TypeOK'
  BY <1>1, <1>2 DEF IInv, TypeOK
<1>4. CacheInv'
  BY <1>2, CacheFacts, CacheAlone
<1>5. IteratorInv'
  BY <1>2, IteratorAlone DEF IInv
<1> QED BY <1>3, <1>4, <1>5 DEF IInv

LEMMA StutterKeeps == ASSUME IInv, UNCHANGED vars PROVE IInv'
<1>2. /\ currentReadHead' = currentReadHead
      /\ cachedTopics' = cachedTopics /\ cache' = cache /\ recent' = recent
      /\ totalSize' = totalSize /\ candidates' = candidates
      /\ at' = at /\ yielded' = yielded /\ readHead' = readHead /\ block' = block /\ idx' = idx
      /\ ahead' = ahead /\ sourceEnd' = sourceEnd /\ lastTime' = lastTime /\ pending' = pending
      /\ last' = last /\ outcome' = outcome /\ maxEnd' = maxEnd /\ stream' = stream
      /\ opened' = opened /\ closed' = closed
  BY DEF vars, shared, reading, asked
<1>3. TypeOK'
  BY <1>2 DEF IInv, TypeOK
<1>4. CacheInv'
  BY <1>2, CacheFacts, CacheAlone
<1>5. IteratorInv'
  BY <1>2, IteratorAlone DEF IInv
<1> QED BY <1>3, <1>4, <1>5 DEF IInv

LEMMA TerminateKeeps == ASSUME IInv, Terminate PROVE IInv'
<1>0. /\ at = "ended" /\ closed' = TRUE /\ cache' = <<>> /\ recent' = <<>> /\ cachedTopics' = {}
      /\ totalSize' = totalSize /\ candidates' = candidates /\ currentReadHead' = currentReadHead
      /\ at' = at /\ yielded' = yielded /\ readHead' = readHead /\ block' = block /\ idx' = idx
      /\ ahead' = ahead /\ sourceEnd' = sourceEnd /\ lastTime' = lastTime /\ pending' = pending
      /\ last' = last /\ outcome' = outcome /\ maxEnd' = maxEnd /\ stream' = stream
      /\ opened' = opened
  BY DEF Terminate, reading
<1>1. block = 0 /\ pending = <<>> /\ Idle
  BY <1>0 DEF IInv, IteratorInv, Idle
<1>2. Size(pending)' = 0
  <2>1. Size(pending') = 0
    BY <1>0, <1>1, SizeEmpty
  <2> QED BY <2>1 DEF Size
<1>3. DOMAIN cache' = {} /\ DOMAIN recent' = {}
  BY <1>0
<1>4. CacheInv'
  <2>1. Total(Sizes(cache')) = 0
    <3>1. Sizes(<<>>) = <<>>
      BY DEF Sizes
    <3> QED BY <3>1, <1>0, TotalEmpty
  <2>2. totalSize' >= Size(pending)' + Total(Sizes(cache'))
    BY <2>1, <1>0, <1>2, CacheFacts
  <2>3. Good(cache)'
    BY <1>3 DEF Good
  <2>4. Apart(cache)'
    BY <1>3 DEF Apart
  <2>5. Accessed(recent, cache)'
    BY <1>3 DEF Accessed, Ids
  <2> QED BY <2>2, <2>3, <2>4, <2>5 DEF CacheInv
<1>5. TypeOK'
  <2>1. TypeOK /\ <<>> \in Seq(Blocks) /\ <<>> \in Seq(Nat \ {0})
    BY DEF IInv
  <2> QED BY <2>1, <1>0, <1>1 DEF TypeOK
<1>6. IteratorInv'
  BY <1>0, <1>1 DEF IteratorInv, Idle
<1> QED BY <1>4, <1>5, <1>6 DEF IInv

LEMMA InitHolds == Init => IInv
<1> SUFFICES ASSUME Init PROVE IInv
  OBVIOUS
<1>0. /\ <<>> \in Seq(Blocks) /\ <<>> \in Seq(Nat \ {0}) /\ <<>> \in Seq(Items)
      /\ DOMAIN <<>> = {}
  OBVIOUS
<1>1. TypeOK
  <2>1. 0 \in 0..MaxIterators /\ 0 \in 0..Len(Log)
    BY LogTypes, BoundsAssumption
  <2> QED BY <2>1, <1>0 DEF Init, TypeOK
<1>2. CacheInv
  <2>1. cache = <<>> /\ recent = <<>> /\ pending = <<>> /\ totalSize = 0
    BY DEF Init
  <2>2. DOMAIN cache = {} /\ DOMAIN recent = {}
    BY <2>1
  <2>3. Total(Sizes(cache)) = 0
    <3>1. Sizes(<<>>) = <<>>
      BY DEF Sizes
    <3> QED BY <3>1, <2>1, TotalEmpty
  <2>4. totalSize >= Size(pending) + Total(Sizes(cache))
    BY <2>1, <2>3, SizeEmpty
  <2> QED BY <2>2, <2>4 DEF CacheInv, Good, Apart, Accessed, Ids
<1>3. IteratorInv
  BY DEF Init, IteratorInv, Idle
<1> QED BY <1>1, <1>2, <1>3 DEF IInv

LEMMA NextKeeps == IInv /\ [Next]_vars => IInv'
<1> SUFFICES ASSUME IInv, [Next]_vars PROVE IInv'
  OBVIOUS
<1>1. CASE Finish
  BY <1>1, EndKeeps DEF Finish
<1>2. CASE DropHollow
  BY <1>2, DropHollowKeeps
<1>3. CASE EnterBlock
  BY <1>3, EnterBlockKeeps
<1>4. CASE YieldCached
  BY <1>4, YieldCachedKeeps
<1>5. CASE FinishCached
  BY <1>5, EndKeeps DEF FinishCached
<1>6. CASE LeaveBlock
  BY <1>6, LeaveBlockKeeps
<1>7. CASE OpenSource
  BY <1>7, OpenSourceKeeps
<1>8. CASE SourceYields
  BY <1>8, SourceYieldsKeeps
<1>9. CASE SourceDone
  BY <1>9, SourceDoneKeeps
<1>10. CASE SourceRejects
  BY <1>10, EndKeeps DEF SourceRejects
<1>11. CASE \E topics \in Selections, start \in Starts, end \in Ends :
              MessageIterator(topics, start, end)
  BY <1>11, MessageIteratorKeeps
<1>12. CASE Return
  BY <1>12, EndKeeps DEF Return
<1>13. CASE \E t \in {Log[i].time : i \in 1..Len(Log)} : SetCurrentReadHead(t)
  BY <1>13, SetCurrentReadHeadKeeps
<1>14. CASE Terminate
  BY <1>14, TerminateKeeps
<1>15. CASE UNCHANGED vars
  BY <1>15, StutterKeeps
<1> QED BY <1>1, <1>2, <1>3, <1>4, <1>5, <1>6, <1>7, <1>8, <1>9, <1>10, <1>11, <1>12,
           <1>13, <1>14, <1>15 DEF Next, Advance, Calls

LEMMA Invariance == Spec => []IInv
<1> QED BY InitHolds, NextKeeps, PTL DEF Spec

-----------------------------------------------------------------------------
(* The blocks.                                                             *)

LEMMA InvTellsTheTruth == IInv => BlocksTellTheTruth
<1> SUFFICES ASSUME IInv PROVE BlocksTellTheTruth
  OBVIOUS
<1>1. TypeOK
  BY DEF IInv
<1>2. ASSUME NEW k \in DOMAIN cache
      PROVE  LET b == cache[k]
             IN /\ b.start <= b.end
                /\ \A n \in DOMAIN b.items : Holds(b, b.items[n].at)
                /\ Hollow(b) \/ {i \in Held(b) : Timed(i)} =
                                  {i \in Wanted(cachedTopics, b.start, b.end) : Timed(i)}
                /\ \A m, n \in DOMAIN b.items : m < n => b.items[m].pos < b.items[n].pos
                /\ b.size = Size(b.items)
  BY CacheFacts DEF Good, Sound, Complete, TimedIn, InOrder
<1>3. \A k, l \in DOMAIN cache : k < l => cache[k].end < cache[l].start
  BY CacheFacts DEF Apart
<1>4. totalSize >= Size(pending) + Total([k \in DOMAIN cache |-> cache[k].size])
  BY CacheFacts DEF Sizes
<1> QED BY <1>1, <1>2, <1>3, <1>4 DEF BlocksTellTheTruth

\* Every variable always has its type; an iterator never works on a block that is not in
\* the cache, though any of them may be evicted at any result.
THEOREM TypeCorrect == Spec => []TypeOK
<1>1. IInv => TypeOK
  BY DEF IInv
<1> QED BY <1>1, Invariance, PTL

\* No history of iterators that are given up, fail, evict or skip blocks makes a block
\* claim a time range of which it lacks a result, overlap another, or escape the size that
\* eviction goes by.
THEOREM BlocksHoldWhatTheyClaim == Spec => []BlocksTellTheTruth
<1> QED BY InvTellsTheTruth, Invariance, PTL

-----------------------------------------------------------------------------
(* Backfills.                                                              *)

\* Blocks that follow one another without a gap cover every time between.
LEMMA ChainCovers ==
  ASSUME IInv, NEW k \in DOMAIN cache, NEW top \in DOMAIN cache, k <= top,
         \A j \in (k + 1)..top : Adjacent(cache[j - 1], cache[j]),
         NEW u \in Nat, cache[k].start <= u, u <= cache[top].end
  PROVE  \E l \in k..top : Holds(cache[l], u)
<1> DEFINE T == {l \in k..top : cache[l].start <= u}
<1>1. /\ DOMAIN cache = 1..Len(cache) /\ Len(cache) \in Nat /\ k \in Nat /\ top \in Nat
      /\ \A l \in DOMAIN cache : cache[l].start \in Nat /\ cache[l].end \in Nat
  BY CacheFacts, IdsOf, BlockTypes
<1>2. T \subseteq 0..top /\ k \in T
  BY <1>1
<1>3. PICK l \in T : \A m \in T : m <= l
  <2> HIDE DEF T
  <2> QED BY <1>1, <1>2, Largest
<1>4. l \in k..top /\ cache[l].start <= u /\ l \in DOMAIN cache
  BY <1>1, <1>3
<1>5. u <= cache[l].end
  <2>1. CASE l = top
    BY <2>1
  <2>2. CASE l # top
    <3>1. l + 1 \in (k + 1)..top /\ l + 1 \in k..top /\ (l + 1) - 1 = l /\ ~ (l + 1 <= l) /\ l + 1 \in DOMAIN cache
      BY <2>2, <1>1, <1>4
    <3>2. Adjacent(cache[l], cache[l + 1])
      BY <3>1
    <3>3. l + 1 \notin T
      BY <3>1, <1>3
    <3>4. ~ (cache[l + 1].start <= u)
      BY <3>1, <3>3
    <3> QED BY <3>1, <3>2, <3>4, <1>1, <1>4 DEF Adjacent
  <2> QED BY <2>1, <2>2
<1> QED BY <1>4, <1>5 DEF Holds

\* The last message of a topic in the blocks is the last there is.
LEMMA HeldIsLatest ==
  ASSUME IInv, NEW topics, NEW t \in Nat, \A k \in Chain(t) : ~ Hollow(cache[k]),
         NEW held, held = UNION {Held(cache[k]) : k \in Chain(t)},
         NEW i \in Latest(held, topics, t)
  PROVE  i \in Latest(1..Len(Log), topics, t)
<1>1. /\ i \in held /\ Log[i].kind = "message" /\ Log[i].topic \in topics /\ Log[i].time <= t
      /\ \A j \in held : /\ Log[j].kind = "message"
                         /\ Log[j].topic = Log[i].topic
                         /\ Log[j].time <= t
                         => j <= i
  BY DEF Latest
<1>2. PICK k \in Chain(t) : i \in Held(cache[k])
  BY <1>1
<1>3. PICK top \in DOMAIN cache :
        /\ Holds(cache[top], t) /\ k <= top /\ k \in DOMAIN cache
        /\ \A j \in (k + 1)..top : Adjacent(cache[j - 1], cache[j])
  BY DEF Chain
<1>4. /\ DOMAIN cache = 1..Len(cache) /\ Len(cache) \in Nat /\ k \in Nat /\ top \in Nat
      /\ \A l \in DOMAIN cache : cache[l].start \in Nat /\ cache[l].end \in Nat
  BY <1>3, CacheFacts, IdsOf, BlockTypes
<1>5. \A l \in k..top : l \in Chain(t) /\ l \in DOMAIN cache
  <2> SUFFICES ASSUME NEW l \in k..top PROVE l \in Chain(t) /\ l \in DOMAIN cache
    OBVIOUS
  <2>1. l \in DOMAIN cache /\ l <= top
    BY <1>3, <1>4
  <2>2. \A j \in (l + 1)..top : j \in (k + 1)..top
    BY <1>4
  <2> QED BY <2>1, <2>2, <1>3 DEF Chain
<1>6. \A l \in k..top : TimedIn(Held(cache[l])) = TimedIn(Wanted(cachedTopics, cache[l].start, cache[l].end))
  BY <1>5, CacheFacts DEF Good, Complete
<1>7. Timed(i)
  BY <1>1 DEF Timed
<1>8. k \in k..top
  BY <1>3, <1>4
<1>9. /\ i \in 1..Len(Log) /\ Log[i].topic \in cachedTopics /\ Log[i].time \in Nat
      /\ cache[k].start <= Log[i].time
  <2>1. i \in Wanted(cachedTopics, cache[k].start, cache[k].end)
    BY <1>2, <1>6, <1>7, <1>8 DEF TimedIn
  <2> QED BY <2>1, <1>1, <1>3, <1>4, LogTypes DEF Wanted
<1>10. ASSUME NEW j \in 1..Len(Log), Log[j].kind = "message", Log[j].topic = Log[i].topic,
              Log[j].time <= t
       PROVE  j <= i
  <2> SUFFICES ASSUME ~ (j <= i) PROVE FALSE
    OBVIOUS
  <2>1. i <= j
    BY <1>9
  <2>2. Log[i].time <= Log[j].time /\ Log[j].time \in Nat
    BY <2>1, <1>9, LogTypes
  <2>3. cache[k].start <= Log[j].time /\ Log[j].time <= cache[top].end
    BY <2>2, <1>3, <1>4, <1>9, <1>10 DEF Holds
  <2>4. PICK l \in k..top : Holds(cache[l], Log[j].time)
    BY <2>2, <2>3, <1>3, ChainCovers
  <2>5. j \in Wanted(cachedTopics, cache[l].start, cache[l].end)
    <3>1. Log[j].time \in cache[l].start..cache[l].end
      BY <2>2, <2>4, <1>4, <1>5 DEF Holds
    <3> QED BY <3>1, <1>9, <1>10 DEF Wanted
  <2>6. Timed(j)
    BY <1>10 DEF Timed
  <2>7. j \in Held(cache[l])
    BY <2>5, <2>6, <1>6 DEF TimedIn
  <2>8. j \in held
    BY <2>7, <1>5
  <2> QED BY <2>8, <1>1, <1>10
<1> QED BY <1>1, <1>9, <1>10 DEF Latest

LEMMA BackfillIs ==
  ASSUME IInv, NEW topics, NEW t \in Nat, \A k \in Chain(t) : ~ Hollow(cache[k])
  PROVE  Backfill(topics, t) = Latest(1..Len(Log), topics, t)
<1> DEFINE held == UNION {Held(cache[k]) : k \in Chain(t)}
           found == Latest(held, topics, t)
           missing == topics \ {Log[i].topic : i \in found}
           all == 1..Len(Log)
<1>1. Backfill(topics, t) = found \cup Latest(all, missing, t)
  BY DEF Backfill
<1>2. \A i \in found : i \in Latest(all, topics, t)
  <2>1. held = UNION {Held(cache[k]) : k \in Chain(t)}
    OBVIOUS
  <2> HIDE DEF held, all
  <2> QED BY <2>1, HeldIsLatest DEF all
<1>3. missing \subseteq topics
  OBVIOUS
<1>4. \A p \in topics : p \notin missing => \E i \in found : Log[i].topic = p
  OBVIOUS
<1> HIDE DEF held, found, missing
<1>5. ASSUME NEW i \in Latest(all, missing, t) PROVE i \in Latest(all, topics, t)
  BY <1>3 DEF Latest
<1>6. ASSUME NEW i \in Latest(all, topics, t) PROVE i \in found \cup Latest(all, missing, t)
  <2>1. CASE Log[i].topic \in missing
    BY <2>1 DEF Latest
  <2>2. CASE Log[i].topic \notin missing
    <3>1. PICK j \in found : Log[j].topic = Log[i].topic
      BY <2>2, <1>4 DEF Latest
    <3>2. j \in Latest(all, topics, t)
      BY <1>2
    <3>3. j <= i /\ i <= j /\ i \in Nat /\ j \in Nat
      BY <3>1, <3>2, LogTypes DEF Latest
    <3> QED BY <3>1, <3>3
  <2> QED BY <2>1, <2>2
<1> QED BY <1>1, <1>2, <1>5, <1>6

\* Whatever the blocks were read for, a backfill that takes messages from them answers
\* what the source would have answered, unless one of them was only started.
THEOREM BackfillsAreLatest == Spec => []BackfillIsLatest
<1>1. IInv => BackfillIsLatest
  <2> SUFFICES ASSUME IInv, NEW topics \in Selections, NEW t \in Starts \cup Ends
               PROVE  \/ \E k \in Chain(t) : Hollow(cache[k])
                      \/ Backfill(topics, t) = Latest(1..Len(Log), topics, t)
    BY DEF BackfillIsLatest
  <2>1. t \in Nat
    BY BoundsAssumption
  <2> QED BY <2>1, BackfillIs
<1> QED BY <1>1, Invariance, PTL

-----------------------------------------------------------------------------
(* The promise to the caller.                                              *)

\* A step of the promise that yields the result i.
LEMMA YieldIs ==
  ASSUME outcome = "no", NEW i \in stream, i > last, i \in Nat, stream \subseteq Nat,
         \A j \in stream : j > last => i <= j,
         last' = i, stream' = stream, outcome' = outcome
  PROVE  Promised!Yield
<1>1. i \in Promised!After(last)
  BY DEF Promised!After
<1>2. \A j \in Promised!After(last) : i <= j
  BY DEF Promised!After
<1> QED BY <1>1, <1>2 DEF Promised!Yield

\* The iterator is done when all of the stream was yielded.
LEMMA DoneIsDone ==
  ASSUME outcome = "no", \A j \in stream : ~ (j > last), stream' = stream, last' = last,
         outcome' = "done"
  PROVE  Promised!Done
<1>1. Promised!After(last) = {}
  BY DEF Promised!After
<1> QED BY <1>1 DEF Promised!Done

LEMMA FinishIsDone == ASSUME IInv, Finish PROVE Promised!Done
<1>1. /\ at = "loop" /\ readHead > maxEnd /\ stream' = stream /\ last' = last /\ outcome' = "done"
  BY DEF Finish, End, asked
<1>2. outcome = "no" /\ \A i \in stream : i > last => Log[i].time >= readHead
  BY <1>1 DEF IInv, IteratorInv, Idle, InLoop
<1>3. PICK s \in 0..readHead : stream = TimedIn(Wanted(cachedTopics, s, maxEnd))
  BY <1>1 DEF IInv, IteratorInv, StreamKnown
<1>4. \A i \in stream : Log[i].time \in Nat /\ Log[i].time <= maxEnd
  <2> SUFFICES ASSUME NEW i \in stream PROVE Log[i].time \in Nat /\ Log[i].time <= maxEnd
    OBVIOUS
  <2>1. i \in 1..Len(Log) /\ Log[i].time \in s..maxEnd
    BY <1>3 DEF TimedIn, Wanted
  <2> QED BY <2>1, ReadingTypes, LogTypes
<1>5. \A j \in stream : ~ (j > last)
  BY <1>1, <1>2, <1>4, ReadingTypes
<1> QED BY <1>1, <1>2, <1>5, DoneIsDone

LEMMA FinishCachedIsDone == ASSUME IInv, FinishCached PROVE Promised!Done
<1>1. PICK k \in DOMAIN cache :
        /\ cache[k].id = block /\ BlockOf(cache, block) = cache[k] /\ block \in Nat \ {0}
        /\ Complete(cache[k]) /\ Holds(cache[k], readHead)
        /\ LastBefore(cache[k].end + 1)
        /\ idx \in 1..(Len(cache[k].items) + 1)
        /\ \A i \in stream : i > last => Log[i].time >= readHead
        /\ \A n \in DOMAIN cache[k].items :
             /\ n < idx /\ cache[k].items[n].pos \in stream => cache[k].items[n].pos <= last
             /\ n >= idx => cache[k].items[n].at >= readHead
             /\ n >= idx /\ Timed(cache[k].items[n].pos) => cache[k].items[n].pos > last
  BY CachedIs DEF FinishCached
<1>2. PICK b : b = cache[k]
  OBVIOUS
<1>3. /\ at = "cached" /\ idx <= Len(b.items) /\ b.items[idx].at > maxEnd
      /\ stream' = stream /\ last' = last /\ outcome' = "done"
  BY <1>1, <1>2 DEF FinishCached, End, asked
<1>4. /\ b.start \in Nat /\ b.end \in Nat /\ Len(b.items) \in Nat
      /\ DOMAIN b.items = 1..Len(b.items)
      /\ \A n \in DOMAIN b.items :
           /\ b.items[n].at \in Nat /\ b.items[n].pos \in 1..Len(Log)
           /\ b.start <= b.items[n].at /\ b.items[n].at <= b.end
           /\ Timed(b.items[n].pos) => b.items[n].at = Log[b.items[n].pos].time
      /\ \A m, n \in DOMAIN b.items : m < n => /\ b.items[m].pos < b.items[n].pos
                                               /\ b.items[m].at <= b.items[n].at
  BY <1>2, ItemsOf
<1>5. /\ \A j \in stream : b.start <= Log[j].time /\ Log[j].time <= b.end
                             => \E n \in DOMAIN b.items : b.items[n].pos = j
      /\ \A j \in stream : j \in 1..Len(Log) /\ Timed(j) /\ Log[j].time \in Nat /\ Log[j].time <= maxEnd
  BY <1>1, <1>2, <1>3, HeldHas
<1>6. idx \in DOMAIN b.items /\ b.items[idx].at \in Nat /\ b.items[idx].at <= b.end /\ idx \in Nat
  BY <1>1, <1>2, <1>3, <1>4
<1>7. ASSUME NEW j \in stream, j > last PROVE FALSE
  <2>1. b.start <= Log[j].time /\ Log[j].time <= b.end
    <3>1. b.start <= readHead /\ readHead <= Log[j].time
      BY <1>1, <1>2, <1>7 DEF Holds
    <3> QED BY <3>1, <1>3, <1>4, <1>5, <1>6, ReadingTypes
  <2>2. PICK n \in DOMAIN b.items : b.items[n].pos = j
    BY <2>1, <1>5
  <2>3. b.items[n].at <= maxEnd /\ n \in Nat /\ b.items[n].at \in Nat
    BY <2>2, <1>4, <1>5
  <2>4. n < idx
    <3>1. CASE n = idx
      BY <3>1, <2>3, <1>3, ReadingTypes
    <3>2. CASE n > idx
      <4>1. b.items[idx].at <= b.items[n].at
        BY <3>2, <1>4, <1>6
      <4> QED BY <4>1, <2>3, <1>3, <1>6, ReadingTypes
    <3> QED BY <3>1, <3>2, <2>3, <1>6
  <2>5. j <= last /\ j \in Nat
    BY <2>2, <2>4, <1>1, <1>2, <1>5
  <2> QED BY <2>5, <1>7, ReadingTypes
<1>8. outcome = "no"
  BY <1>3 DEF IInv, IteratorInv, Idle
<1> QED BY <1>3, <1>7, <1>8, DoneIsDone

LEMMA YieldCachedIsYield ==
  ASSUME IInv, YieldCached
  PROVE  Promised!Yield \/ UNCHANGED <<stream, last, outcome>>
<1>1. PICK k \in DOMAIN cache :
        /\ cache[k].id = block /\ BlockOf(cache, block) = cache[k] /\ block \in Nat \ {0}
        /\ Complete(cache[k]) /\ Holds(cache[k], readHead)
        /\ LastBefore(cache[k].end + 1)
        /\ idx \in 1..(Len(cache[k].items) + 1)
        /\ \A i \in stream : i > last => Log[i].time >= readHead
        /\ \A n \in DOMAIN cache[k].items :
             /\ n < idx /\ cache[k].items[n].pos \in stream => cache[k].items[n].pos <= last
             /\ n >= idx => cache[k].items[n].at >= readHead
             /\ n >= idx /\ Timed(cache[k].items[n].pos) => cache[k].items[n].pos > last
  BY CachedIs DEF YieldCached
<1>2. PICK b : b = cache[k]
  OBVIOUS
<1>3. PICK i : i = b.items[idx].pos
  OBVIOUS
<1>4. /\ at = "cached" /\ idx <= Len(b.items) /\ b.items[idx].at <= maxEnd
      /\ last' = IF Timed(i) THEN i ELSE last
      /\ outcome' = outcome /\ stream' = stream
  BY <1>1, <1>2, <1>3 DEF YieldCached, Yield, asked
<1>5. /\ b.start \in Nat /\ b.end \in Nat /\ Len(b.items) \in Nat
      /\ DOMAIN b.items = 1..Len(b.items)
      /\ \A n \in DOMAIN b.items :
           /\ b.items[n].at \in Nat /\ b.items[n].pos \in 1..Len(Log)
           /\ b.start <= b.items[n].at /\ b.items[n].at <= b.end
           /\ Timed(b.items[n].pos) => b.items[n].at = Log[b.items[n].pos].time
      /\ \A m, n \in DOMAIN b.items : m < n => /\ b.items[m].pos < b.items[n].pos
                                               /\ b.items[m].at <= b.items[n].at
  BY <1>2, ItemsOf
<1>6. /\ \A j \in stream : b.start <= Log[j].time /\ Log[j].time <= b.end
                             => \E n \in DOMAIN b.items : b.items[n].pos = j
      /\ \A n \in DOMAIN b.items :
           Timed(b.items[n].pos) /\ readHead <= b.items[n].at /\ b.items[n].at <= maxEnd
             => b.items[n].pos \in stream
      /\ \A j \in stream : j \in 1..Len(Log) /\ Timed(j) /\ Log[j].time \in Nat /\ Log[j].time <= maxEnd
  BY <1>1, <1>2, <1>4, HeldHas
<1>7. idx \in DOMAIN b.items /\ idx \in Nat
  BY <1>1, <1>2, <1>4, <1>5
<1>8. CASE ~ Timed(i)
  BY <1>4, <1>8
<1>9. CASE Timed(i)
  <2>1. i \in 1..Len(Log) /\ b.items[idx].at = Log[i].time /\ Log[i].time \in Nat /\ Log[i].time <= b.end
    BY <1>3, <1>5, <1>7, <1>9
  <2>2. i > last /\ b.items[idx].at >= readHead
    BY <1>1, <1>2, <1>3, <1>7, <1>9
  <2>3. i \in stream
    BY <2>2, <1>3, <1>4, <1>6, <1>7, <1>9, ReadingTypes, <2>1
  <2>4. ASSUME NEW j \in stream, j > last PROVE i <= j
    <3> SUFFICES ASSUME j < i PROVE FALSE
      BY <2>1, <1>6
    <3>0. j \in 1..Len(Log) /\ Log[j].time \in Nat /\ Log[j].time >= readHead
      BY <2>4, <1>1, <1>6
    <3>1. Log[j].time <= Log[i].time
      BY <3>0, <2>1, LogTypes
    <3>2. b.start <= Log[j].time /\ Log[j].time <= b.end
      <4>1. b.start <= readHead
        BY <1>1, <1>2 DEF Holds
      <4> QED BY <4>1, <3>0, <3>1, <2>1, <1>5, ReadingTypes
    <3>3. PICK n \in DOMAIN b.items : b.items[n].pos = j
      BY <3>2, <1>6
    <3>4. n < idx
      <4>1. n \in Nat
        BY <1>5
      <4>2. CASE n > idx
        BY <4>2, <3>0, <3>3, <2>1, <1>3, <1>5, <1>7
      <4>3. CASE n = idx
        BY <4>3, <3>0, <3>3, <2>1, <1>3
      <4> QED BY <4>1, <4>2, <4>3, <1>7
    <3>5. j <= last
      BY <3>3, <3>4, <1>1, <1>2
    <3> QED BY <3>0, <3>5, <2>4, ReadingTypes
  <2>5. outcome = "no"
    BY <1>4 DEF IInv, IteratorInv, Idle
  <2>6. stream \subseteq Nat /\ i \in Nat /\ last' = i
    BY <2>1, <1>4, <1>9, ReadingTypes
  <2> QED BY <2>2, <2>3, <2>4, <2>5, <2>6, <1>4, YieldIs
<1> QED BY <1>8, <1>9

LEMMA SourceYieldsIsYield ==
  ASSUME IInv, SourceYields
  PROVE  Promised!Yield \/ Promised!Failed \/ UNCHANGED <<stream, last, outcome>>
<1>1. PICK i : i = First(ahead)
  OBVIOUS
<1>2. /\ at = "source" /\ ahead # {} /\ stream' = stream
      /\ \/ End("failed") /\ last' = last
         \/ Yield(i) /\ outcome' = outcome
  BY <1>1 DEF SourceYields, asked
<1>3. outcome = "no"
  BY <1>2 DEF IInv, IteratorInv, Idle
<1>4. CASE End("failed") /\ last' = last
  BY <1>2, <1>3, <1>4 DEF End, Promised!Failed
<1>5. CASE Yield(i) /\ outcome' = outcome /\ ~ Timed(i)
  BY <1>2, <1>5 DEF Yield
<1>6. CASE Yield(i) /\ outcome' = outcome /\ Timed(i)
  <2>1. /\ i \in ahead /\ i \in 1..Len(Log) /\ \A j \in ahead : i <= j
        /\ \A j \in ahead : j \in 1..Len(Log) /\ Log[j].time \in Nat /\ Log[j].time <= sourceEnd
    <3>1. PICK t : t = IF Timed(i) THEN Log[i].time ELSE lastTime
      OBVIOUS
    <3> QED BY <3>1, <1>1, <1>2, NextIs
  <2>2. i > last /\ \A j \in stream : j > last /\ Log[j].time <= sourceEnd => j \in ahead
    BY <2>1, <1>2 DEF IInv, IteratorInv, InSource
  <2>3. PICK s \in 0..readHead : stream = TimedIn(Wanted(cachedTopics, s, maxEnd))
    BY <1>2 DEF IInv, IteratorInv, StreamKnown
  <2>4. i \in stream
    <3>1. i \in Wanted(cachedTopics, lastTime, sourceEnd) /\ readHead <= lastTime /\ sourceEnd <= maxEnd
      BY <2>1, <1>2 DEF IInv, IteratorInv, Reading
    <3>2. Log[i].time \in s..maxEnd
      <4>1. Log[i].time \in lastTime..sourceEnd
        BY <3>1 DEF Wanted
      <4>2. s <= readHead /\ s \in Int
        BY ReadingTypes
      <4> QED BY <4>1, <4>2, <3>1, ReadingTypes
    <3>3. i \in Wanted(cachedTopics, s, maxEnd)
      BY <3>1, <3>2 DEF Wanted
    <3> QED BY <3>3, <2>3, <1>6 DEF TimedIn
  <2>5. ASSUME NEW j \in stream, j > last PROVE i <= j
    <3> SUFFICES ASSUME j < i PROVE FALSE
      BY <2>1, ReadingTypes
    <3>1. j \in 1..Len(Log) /\ Log[j].time \in Nat
      BY ReadingTypes, LogTypes
    <3>2. Log[j].time <= Log[i].time
      BY <3>1, <2>1, LogTypes
    <3>3. j \in ahead
      BY <3>1, <3>2, <2>1, <2>2, <2>5, ReadingTypes
    <3> QED BY <3>1, <3>3, <2>1
  <2>6. stream \subseteq Nat /\ i \in Nat /\ last' = i
    BY <2>1, <1>6, ReadingTypes DEF Yield
  <2> QED BY <2>2, <2>4, <2>5, <2>6, <1>2, <1>3, <1>6, YieldIs
<1> QED BY <1>2, <1>4, <1>5, <1>6

LEMMA StepsKeepPromise == IInv /\ [Next]_vars => [Promised!Next]_(Promised!vars)
<1> SUFFICES ASSUME IInv, [Next]_vars PROVE Promised!Next \/ UNCHANGED <<stream, last, outcome>>
  BY DEF Promised!vars
<1> USE DEF Promised!Next
<1>1. CASE Finish
  BY <1>1, FinishIsDone
<1>2. CASE DropHollow
  BY <1>2 DEF DropHollow, asked
<1>3. CASE EnterBlock
  BY <1>3 DEF EnterBlock, asked
<1>4. CASE YieldCached
  BY <1>4, YieldCachedIsYield
<1>5. CASE FinishCached
  BY <1>5, FinishCachedIsDone
<1>6. CASE LeaveBlock
  BY <1>6 DEF LeaveBlock, asked
<1>7. CASE OpenSource
  BY <1>7 DEF OpenSource, asked
<1>8. CASE SourceYields
  BY <1>8, SourceYieldsIsYield
<1>9. CASE SourceDone
  BY <1>9 DEF SourceDone, asked
<1>10. CASE SourceRejects
  <2>1. outcome = "no"
    BY <1>10 DEF SourceRejects, IInv, IteratorInv, Idle
  <2> QED BY <2>1, <1>10 DEF SourceRejects, End, asked, Promised!Failed
<1>11. CASE \E topics \in Selections, start \in Starts, end \in Ends :
              MessageIterator(topics, start, end)
  <2>1. PICK topics \in Selections, start \in Starts, end \in Ends :
           MessageIterator(topics, start, end)
    BY <1>11
  <2>2. /\ at = "ended" /\ last' = 0 /\ outcome' = "no"
        /\ stream' = {i \in Wanted(topics, start, end) : Timed(i)}
    BY <2>1 DEF MessageIterator
  <2>3. outcome # "no"
    BY <2>2 DEF IInv, IteratorInv, Idle
  <2> QED BY <2>2, <2>3 DEF Promised!Start
<1>12. CASE Return
  <2>1. outcome = "no"
    BY <1>12 DEF Return, IInv, IteratorInv, Idle
  <2> QED BY <2>1, <1>12 DEF Return, End, asked, Promised!Return
<1>13. CASE \E t \in {Log[i].time : i \in 1..Len(Log)} : SetCurrentReadHead(t)
  BY <1>13 DEF SetCurrentReadHead, asked
<1>14. CASE Terminate
  BY <1>14 DEF Terminate
<1>15. CASE UNCHANGED vars
  BY <1>15 DEF vars, asked
<1> QED BY <1>1, <1>2, <1>3, <1>4, <1>5, <1>6, <1>7, <1>8, <1>9, <1>10, <1>11, <1>12,
           <1>13, <1>14, <1>15 DEF Next, Advance, Calls

\* Mixing blocks and source, an iterator yields what the source alone would have yielded:
\* every result with a time once and in order, and it is done only after the last.  A
\* step is the yield of the next result of the stream, an end, or none of the caller's
\* concern.
THEOREM StreamsAreTheSources == Spec => IteratorKeepsPromise
<1>1. Init => Promised!Init
  BY DEF Init, Promised!Init
<1> QED BY <1>1, StepsKeepPromise, Invariance, PTL DEF Spec, IteratorKeepsPromise, Promised!Spec

=============================================================================
