-------------------------- MODULE FileBlocksProofs --------------------------
(***************************************************************************)
(* The block format, for blocks of any length and files of any size: what  *)
(* a read returns, and what a write or a truncate leaves.                  *)
(***************************************************************************)
EXTENDS FileBlocks, SequenceTheorems, WellFoundedInduction, TLAPS

-----------------------------------------------------------------------------
(* Numbers and blocks *)

\* Induction over the natural numbers, for a set.
LEMMA Induction ==
    ASSUME NEW S, 0 \in S, \A n \in Nat : n \in S => n + 1 \in S
    PROVE  \A n \in Nat : n \in S
<1> DEFINE R == {ss \in Nat \X Nat : ss[1] < ss[2]}
           T == Nat \ S
<1>1. IsWellFoundedOn(R, Nat)
  BY NatLessThanWellFounded, Zenon DEF OpToRel
<1>2. SUFFICES ASSUME T # {} PROVE FALSE
  OBVIOUS
<1>3. PICK x \in T : \A y \in T : ~(<<y, x>> \in R)
  BY <1>1, <1>2, WFMin
<1>4. x \in Nat /\ x \notin S
  OBVIOUS
<1>5. x # 0
  BY <1>4
<1>6. x - 1 \in Nat /\ (x - 1) + 1 = x /\ x - 1 < x
  BY <1>4, <1>5
<1>7. x - 1 \notin S
  BY <1>4, <1>6
<1>8. <<x - 1, x>> \in R
  BY <1>4, <1>6
<1> QED BY <1>3, <1>6, <1>7, <1>8

\* Division finds the block of a position.
LEMMA Division ==
    ASSUME NEW a \in Nat
    PROVE  /\ a \div B \in Nat
           /\ (a \div B) * B <= a
           /\ a < (a \div B) * B + B
<1>1. B \in Nat /\ B > 0
  BY BAssumption
<1> QED BY <1>1, Z3

\* Multiples of B are ordered as what they are multiples of.
LEMMA Multiples ==
    ASSUME NEW i \in Nat, NEW j \in Nat, i < j
    PROVE  /\ i * B \in Nat
           /\ j * B \in Nat
           /\ i * B + B <= j * B
           /\ (i + 1) * B = i * B + B
<1>1. B \in Nat /\ B > 0
  BY BAssumption
<1> QED BY <1>1, Z3

\* A multiple of B, and the next one.
LEMMA Multiple ==
    ASSUME NEW i \in Nat
    PROVE  i * B \in Nat /\ (i + 1) * B = i * B + B /\ B \in Nat /\ B > 0
<1>1. B \in Nat /\ B > 0
  BY BAssumption
<1> QED BY <1>1, Z3

\* A position lies in one block.
LEMMA BlockOf ==
    ASSUME NEW a \in Nat, NEW i \in Nat, i * B <= a, a < i * B + B
    PROVE  a \div B = i
<1> DEFINE q == a \div B
<1>1. q \in Nat /\ q * B <= a /\ a < q * B + B
  BY Division
<1>2. B \in Nat /\ i * B \in Nat /\ q * B \in Nat
  BY <1>1, Multiple
<1> HIDE DEF q
<1>3. ~(q < i)
  BY <1>1, <1>2, Multiples
<1>4. ~(i < q)
  BY <1>1, <1>2, Multiples
<1> QED BY <1>1, <1>3, <1>4 DEF q

\* The blocks of a file are those that start before its end.
LEMMA BlockCount ==
    ASSUME NEW size \in Nat
    PROVE  /\ block_count(size) \in Nat
           /\ \A i \in Nat : i < block_count(size) <=> i * B < size
<1> DEFINE a == size + B - 1
           n == a \div B
<1>1. B \in Nat /\ B > 0
  BY BAssumption
<1>2. a \in Nat
  BY <1>1
<1>3. n \in Nat /\ n * B <= a /\ a < n * B + B /\ n * B \in Nat
  BY <1>2, Division, Multiple
<1>4. block_count(size) = n
  BY DEF block_count
<1> HIDE DEF n
<1>5. ASSUME NEW i \in Nat, i < n PROVE i * B < size
  BY <1>5, <1>1, <1>3, Multiples
<1>6. ASSUME NEW i \in Nat, ~(i < n) PROVE ~(i * B < size)
  <2>1. i * B \in Nat
    BY Multiple
  <2>2. n * B <= i * B
    <3>1. CASE i = n
      BY <3>1, <2>1
    <3>2. CASE n < i
      BY <3>2, <1>1, <1>3, <2>1, Multiples
    <3> QED BY <3>1, <3>2, <1>3, <1>6
  <2>3. size <= n * B
    BY <1>1, <1>3
  <2> QED BY <2>1, <2>2, <2>3, <1>3
<1> QED BY <1>3, <1>4, <1>5, <1>6

\* A block holds the positions of the file from its start on, at most B.
LEMMA PlaintextLen ==
    ASSUME NEW size \in Nat, NEW i \in Nat
    PROVE  /\ plaintext_len(size, i) \in 0 .. B
           /\ \A p \in 1 .. B : p <= plaintext_len(size, i) <=> i * B + p <= size
           /\ i * B < size => plaintext_len(size, i) > 0
           /\ i * B >= size => plaintext_len(size, i) = 0
           /\ i * B + B <= size => plaintext_len(size, i) = B
           /\ i * B < size /\ size <= i * B + B => plaintext_len(size, i) = size - i * B
<1>1. B \in Nat /\ B > 0 /\ i * B \in Nat
  BY Multiple
<1> DEFINE m == i * B
<1>2. m \in Nat
  BY <1>1
<1>3. plaintext_len(size, i) = IF m >= size THEN 0 ELSE IF size - m <= B THEN size - m ELSE B
  BY DEF plaintext_len, Least
<1> HIDE DEF m
<1>4. /\ plaintext_len(size, i) \in 0 .. B
      /\ \A p \in 1 .. B : p <= plaintext_len(size, i) <=> m + p <= size
      /\ m < size => plaintext_len(size, i) > 0
      /\ m >= size => plaintext_len(size, i) = 0
      /\ m + B <= size => plaintext_len(size, i) = B
      /\ m < size /\ size <= m + B => plaintext_len(size, i) = size - m
  BY <1>1, <1>2, <1>3
<1> QED BY <1>4 DEF m

-----------------------------------------------------------------------------
(* Reading *)

\* The running concatenation of the first n sequences of s.
Runs(F, s, n) == F = [i \in 1 .. n |-> IF i = 1 THEN s[i] ELSE F[i - 1] \o s[i]]

\* The running concatenation that FlattenSeq folds is well defined at every length.
LEMMA RunsExist ==
    ASSUME NEW s
    PROVE  \A n \in Nat : \E F : Runs(F, s, n)
<1> DEFINE S == {n \in Nat : \E F : Runs(F, s, n)}
<1>1. 0 \in S
  <2>1. \E F : F = [i \in 1 .. 0 |-> s[i]]
    OBVIOUS
  <2>2. PICK F : F = [i \in 1 .. 0 |-> s[i]]
    BY <2>1
  <2>3. Runs(F, s, 0)
    BY <2>2 DEF Runs
  <2> QED BY <2>3
<1>2. ASSUME NEW n \in Nat, n \in S PROVE n + 1 \in S
  <2>1. PICK F : Runs(F, s, n)
    BY <1>2
  <2> DEFINE G == [i \in 1 .. n + 1 |-> IF i = n + 1 THEN IF i = 1 THEN s[i] ELSE F[n] \o s[i] ELSE F[i]]
  <2>2. ASSUME NEW i \in 1 .. n + 1
        PROVE  G[i] = IF i = 1 THEN s[i] ELSE G[i - 1] \o s[i]
    <3>1. CASE i = n + 1
      BY <3>1
    <3>2. CASE i # n + 1
      <4>1. i \in 1 .. n
        BY <3>2
      <4>2. G[i] = F[i]
        BY <3>2
      <4>3. F[i] = IF i = 1 THEN s[i] ELSE F[i - 1] \o s[i]
        BY <2>1, <4>1 DEF Runs
      <4>4. i # 1 => G[i - 1] = F[i - 1]
        BY <4>1
      <4> QED BY <4>2, <4>3, <4>4
    <3> QED BY <3>1, <3>2
  <2>3. G = [i \in 1 .. n + 1 |-> G[i]]
    OBVIOUS
  <2> HIDE DEF G
  <2>4. G = [i \in 1 .. n + 1 |-> IF i = 1 THEN s[i] ELSE G[i - 1] \o s[i]]
    BY <2>2, <2>3
  <2>5. Runs(G, s, n + 1)
    BY <2>4 DEF Runs
  <2> QED BY <2>5
<1> HIDE DEF S
<1>3. \A n \in Nat : n \in S
  BY <1>1, <1>2, Induction
<1> QED BY <1>3 DEF S

\* FlattenSeq is the last of the running concatenations.
LEMMA Flatten ==
    ASSUME NEW s, Len(s) \in Nat, Len(s) # 0
    PROVE  \E F : Runs(F, s, Len(s)) /\ FlattenSeq(s) = F[Len(s)]
<1> DEFINE G == CHOOSE F : F = [i \in 1 .. Len(s) |-> IF i = 1 THEN s[i] ELSE F[i - 1] \o s[i]]
<1>1. \E F : F = [i \in 1 .. Len(s) |-> IF i = 1 THEN s[i] ELSE F[i - 1] \o s[i]]
  BY RunsExist DEF Runs
<1>2. G = [i \in 1 .. Len(s) |-> IF i = 1 THEN s[i] ELSE G[i - 1] \o s[i]]
  BY <1>1, Zenon
<1>3. FlattenSeq(s) = G[Len(s)]
  BY Zenon DEF FlattenSeq
<1> QED BY <1>2, <1>3 DEF Runs

\* The values of g from position a up to, not including, position b.
Slice(g, a, b) == [q \in 1 .. b - a |-> g[a + q - 1]]

LEMMA SliceIsSeq ==
    ASSUME NEW g, NEW a \in Nat, NEW b \in Nat, a <= b
    PROVE  /\ Slice(g, a, b) \in Seq({g[p] : p \in Nat})
           /\ Len(Slice(g, a, b)) = b - a
<1>1. b - a \in Nat
  OBVIOUS
<1>2. \A q \in 1 .. b - a : a + q - 1 \in Nat
  OBVIOUS
<1>3. Slice(g, a, b) \in [1 .. b - a -> {g[p] : p \in Nat}]
  BY <1>2 DEF Slice
<1> QED BY <1>1, <1>3

\* Slices that meet concatenate to a slice.
LEMMA Glue ==
    ASSUME NEW g, NEW a \in Nat, NEW b \in Nat, NEW c \in Nat, a <= b, b <= c
    PROVE  Slice(g, a, b) \o Slice(g, b, c) = Slice(g, a, c)
<1> DEFINE V == {g[p] : p \in Nat}
           x == Slice(g, a, b)
           y == Slice(g, b, c)
           z == Slice(g, a, c)
<1>1. x \in Seq(V) /\ Len(x) = b - a
  BY SliceIsSeq
<1>2. y \in Seq(V) /\ Len(y) = c - b
  BY SliceIsSeq
<1>3. z \in Seq(V) /\ Len(z) = c - a
  <2>1. a <= c
    OBVIOUS
  <2> QED BY <2>1, SliceIsSeq
<1>4. \A q \in 1 .. b - a : x[q] = g[a + q - 1]
  BY DEF Slice
<1>5. \A q \in 1 .. c - b : y[q] = g[b + q - 1]
  BY DEF Slice
<1>6. \A q \in 1 .. c - a : z[q] = g[a + q - 1]
  BY DEF Slice
<1> HIDE DEF V, x, y, z
<1>7. x \o y \in Seq(V) /\ Len(x \o y) = c - a
  BY <1>1, <1>2
<1>8. ASSUME NEW q \in 1 .. c - a PROVE (x \o y)[q] = z[q]
  <2>1. CASE q <= b - a
    <3>1. (x \o y)[q] = x[q]
      BY <2>1, <1>1, <1>2
    <3> QED BY <3>1, <2>1, <1>4, <1>6
  <2>2. CASE ~(q <= b - a)
    <3>1. (x \o y)[q] = y[q - (b - a)]
      BY <2>2, <1>1, <1>2
    <3>2. q - (b - a) \in 1 .. c - b
      BY <2>2
    <3>3. b + (q - (b - a)) - 1 = a + q - 1
      OBVIOUS
    <3> QED BY <3>1, <3>2, <3>3, <1>5, <1>6
  <2> QED BY <2>1, <2>2
<1>9. x \o y = z
  BY <1>3, <1>7, <1>8, SeqEqual
<1> QED BY <1>9 DEF x, y, z

\* A chain of slices that meet flattens to a slice.
LEMMA FlattenSlices ==
    ASSUME NEW g, NEW N \in Nat \ {0}, NEW cut \in [0 .. N -> Nat],
           \A n \in 1 .. N : cut[n - 1] <= cut[n],
           NEW s, s = [n \in 1 .. N |-> Slice(g, cut[n - 1], cut[n])]
    PROVE  /\ cut[0] <= cut[N]
           /\ FlattenSeq(s) = Slice(g, cut[0], cut[N])
<1>1. Len(s) = N
  <2>1. s \in [1 .. N -> {s[n] : n \in 1 .. N}]
    OBVIOUS
  <2> QED BY <2>1
<1>2. PICK F : Runs(F, s, N) /\ FlattenSeq(s) = F[N]
  BY <1>1, Flatten
<1> DEFINE S == {n \in Nat : n + 1 \in 1 .. N =>
                    cut[0] <= cut[n + 1] /\ F[n + 1] = Slice(g, cut[0], cut[n + 1])}
<1>3. 0 \in S
  <2>1. F[1] = s[1]
    BY <1>2 DEF Runs
  <2>2. s[1] = Slice(g, cut[0], cut[1])
    <3>1. 1 \in 1 .. N /\ 1 - 1 = 0
      OBVIOUS
    <3> QED BY <3>1
  <2>3. cut[0] <= cut[1]
    <3>1. 1 \in 1 .. N /\ 1 - 1 = 0
      OBVIOUS
    <3> QED BY <3>1
  <2> QED BY <2>1, <2>2, <2>3
<1>4. ASSUME NEW n \in Nat, n \in S PROVE n + 1 \in S
  <2>1. SUFFICES ASSUME (n + 1) + 1 \in 1 .. N
                 PROVE  cut[0] <= cut[n + 1 + 1] /\ F[n + 1 + 1] = Slice(g, cut[0], cut[n + 1 + 1])
    OBVIOUS
  <2>2. n + 1 \in 1 .. N /\ n + 2 \in 1 .. N /\ n + 1 + 1 = n + 2 /\ n + 2 # 1
    BY <2>1
  <2>3. cut[0] <= cut[n + 1] /\ F[n + 1] = Slice(g, cut[0], cut[n + 1])
    BY <1>4, <2>2
  <2>4. F[n + 2] = F[n + 1] \o s[n + 2]
    <3>1. (n + 2) - 1 = n + 1
      OBVIOUS
    <3> QED BY <1>2, <2>2, <3>1 DEF Runs
  <2>5. s[n + 2] = Slice(g, cut[n + 1], cut[n + 2]) /\ cut[n + 1] <= cut[n + 2]
    <3>1. (n + 2) - 1 = n + 1
      OBVIOUS
    <3> QED BY <2>2, <3>1
  <2>6. cut[0] \in Nat /\ cut[n + 1] \in Nat /\ cut[n + 2] \in Nat
    BY <2>2
  <2>7. Slice(g, cut[0], cut[n + 1]) \o Slice(g, cut[n + 1], cut[n + 2]) = Slice(g, cut[0], cut[n + 2])
    <3>1. PICK x, y, z : x = cut[0] /\ y = cut[n + 1] /\ z = cut[n + 2]
      OBVIOUS
    <3>2. x \in Nat /\ y \in Nat /\ z \in Nat /\ x <= y /\ y <= z
      BY <2>3, <2>5, <2>6, <3>1
    <3>3. Slice(g, x, y) \o Slice(g, y, z) = Slice(g, x, z)
      BY ONLY <3>2, Glue
    <3> QED BY <3>1, <3>3
  <2>8. F[n + 2] = Slice(g, cut[0], cut[n + 2])
    BY <2>3, <2>4, <2>5, <2>7
  <2>9. cut[0] <= cut[n + 2]
    BY <2>3, <2>5, <2>6
  <2> QED BY <2>2, <2>8, <2>9
<1>5. \A n \in Nat : n \in S
  <2> HIDE DEF S
  <2> QED BY <1>3, <1>4, Induction
<1>6. N - 1 \in Nat /\ N - 1 + 1 = N /\ N \in 1 .. N
  OBVIOUS
<1>7. cut[0] <= cut[N] /\ F[N] = Slice(g, cut[0], cut[N])
  BY <1>5, <1>6
<1> QED BY <1>2, <1>7

\* The plaintext of a data file, position by position.
Plain(f) == [p \in Nat |-> f[p \div B].plain[p - (p \div B) * B + 1]]

\* The blocks that the range [offset, end) meets.
LEMMA BlocksMet ==
    ASSUME NEW offset \in Nat, NEW end \in Nat, offset < end
    PROVE  /\ offset \div B \in Nat
           /\ (end - 1) \div B \in Nat
           /\ offset \div B <= (end - 1) \div B
           /\ \A i \in Nat : i \in offset \div B .. (end - 1) \div B
                                <=> i * B < end /\ offset < i * B + B
<1> DEFINE first == offset \div B
           last == (end - 1) \div B
<1>0. B \in Nat /\ B > 0 /\ end - 1 \in Nat
  BY BAssumption
<1>1. first \in Nat /\ first * B <= offset /\ offset < first * B + B /\ first * B \in Nat
  BY Division, Multiple
<1>2. last \in Nat /\ last * B <= end - 1 /\ end - 1 < last * B + B /\ last * B \in Nat
  BY <1>0, Division, Multiple
<1> HIDE DEF first, last
<1>3. ASSUME NEW i \in Nat
      PROVE  i \in first .. last <=> i * B < end /\ offset < i * B + B
  <2>1. i * B \in Nat
    BY Multiple
  <2>2. i < first => i * B + B <= first * B
    BY <1>1, Multiples
  <2>3. first < i => first * B + B <= i * B
    BY <1>1, Multiples
  <2>4. i < last => i * B + B <= last * B
    BY <1>2, Multiples
  <2>5. last < i => last * B + B <= i * B
    BY <1>2, Multiples
  <2>6. (i = first => i * B = first * B) /\ (i = last => i * B = last * B)
    OBVIOUS
  <2>7. \A m, x, y \in Nat :
          /\ (i < first => m + B <= x) /\ (first < i => x + B <= m) /\ (i = first => m = x)
          /\ (i < last => m + B <= y) /\ (last < i => y + B <= m) /\ (i = last => m = y)
          /\ x <= offset /\ offset < x + B /\ y <= end - 1 /\ end - 1 < y + B
          => (i \in first .. last <=> m < end /\ offset < m + B)
    BY <1>0, <1>1, <1>2
  <2> QED BY <2>1, <2>2, <2>3, <2>4, <2>5, <2>6, <2>7, <1>1, <1>2
<1>4. first <= last
  <2>1. last < first => last * B + B <= first * B
    BY <1>1, <1>2, Multiples
  <2> QED BY <2>1, <1>0, <1>1, <1>2
<1> QED BY <1>1, <1>2, <1>3, <1>4 DEF first, last

\* The part of block i that a read of [offset, end) returns.
BlockSlice(f, offset, end, i) ==
    SubSeq(f[i].plain, Most(offset - i * B, 0) + 1, Least(end - i * B, Len(f[i].plain)))

LEMMA ReadSlice ==
    ASSUME NEW V, NEW f, NEW size \in Nat, NEW offset \in Nat, NEW end \in Nat,
           offset < end, end <= size,
           NEW i \in Nat, i * B < end, offset < i * B + B,
           f[i].plain \in Seq(V), Len(f[i].plain) = plaintext_len(size, i)
    PROVE  BlockSlice(f, offset, end, i) = Slice(Plain(f), Most(offset, i * B), Least(end, i * B + B))
<1> DEFINE m == i * B
           plain == f[i].plain
           from == Most(offset - m, 0)
           to == Least(end - m, Len(plain))
           lo == Most(offset, m)
           hi == Least(end, m + B)
           W == {Plain(f)[p] : p \in Nat}
<1>1. B \in Nat /\ B > 0 /\ m \in Nat
  BY Multiple
<1>2. /\ Len(plain) \in 0 .. B
      /\ m + B <= size => Len(plain) = B
      /\ m < size /\ size <= m + B => Len(plain) = size - m
  BY PlaintextLen
<1>3. m < end /\ offset < m + B
  OBVIOUS
<1>4. plain \in Seq(V)
  OBVIOUS
<1>5. BlockSlice(f, offset, end, i) = SubSeq(plain, from + 1, to)
  BY DEF BlockSlice
<1>6. \A p \in Nat : m <= p /\ p < m + B => Plain(f)[p] = plain[p - m + 1]
  <2> TAKE p \in Nat
  <2> HAVE m <= p /\ p < m + B
  <2>1. p \div B = i
    BY BlockOf
  <2> QED BY <2>1 DEF Plain
<1> HIDE DEF m, plain
<1>7. /\ from \in Nat /\ to \in Nat /\ from < to /\ to <= Len(plain)
      /\ lo = m + from /\ hi = m + to /\ to <= B
      /\ lo \in Nat /\ hi \in Nat /\ lo <= hi
  BY <1>1, <1>2, <1>3 DEF Most, Least
<1> HIDE DEF from, to, lo, hi
<1>8. /\ SubSeq(plain, from + 1, to) \in Seq(V)
      /\ Len(SubSeq(plain, from + 1, to)) = to - from
      /\ \A q \in 1 .. to - from : SubSeq(plain, from + 1, to)[q] = plain[from + q]
  BY <1>2, <1>4, <1>7
<1>9. Slice(Plain(f), lo, hi) = [q \in 1 .. hi - lo |-> Plain(f)[lo + q - 1]]
  BY DEF Slice
<1>10. ASSUME NEW q \in 1 .. to - from
       PROVE  Plain(f)[lo + q - 1] = plain[from + q]
  <2>1. lo + q - 1 \in Nat /\ m <= lo + q - 1 /\ lo + q - 1 < m + B /\ (lo + q - 1) - m + 1 = from + q
    BY <1>1, <1>7
  <2> QED BY <2>1, <1>6
<1>11. hi - lo = to - from
  BY <1>1, <1>7
<1>12. SubSeq(plain, from + 1, to) = [q \in 1 .. to - from |-> SubSeq(plain, from + 1, to)[q]]
  BY <1>8, <1>7
<1>13. SubSeq(plain, from + 1, to) = Slice(Plain(f), lo, hi)
  BY <1>8, <1>9, <1>10, <1>11, <1>12
<1> QED BY <1>13, <1>5 DEF m, lo, hi

\* A read that meets only readable blocks returns the plaintext of its range.
LEMMA ReadRange ==
    ASSUME NEW V, NEW f, NEW key, NEW size \in Nat, NEW offset \in Nat, NEW len \in Nat,
           offset < size, len # 0,
           NEW end, end = Least(offset + len, size),
           \A i \in offset \div B .. (end - 1) \div B :
              Readable(f, key, size, i) /\ f[i].plain \in Seq(V)
    PROVE  read_range(f, key, size, offset, len) = Bytes(Slice(Plain(f), offset, end))
<1>1. end \in Nat /\ offset < end /\ end <= size
  BY DEF Least
<1>0. ASSUME NEW j \in Nat, j * B < end, offset < j * B + B,
             f[j].plain \in Seq(V), Len(f[j].plain) = plaintext_len(size, j)
      PROVE  BlockSlice(f, offset, end, j) = Slice(Plain(f), Most(offset, j * B), Least(end, j * B + B))
  BY <1>0, <1>1, ReadSlice
<1> DEFINE first == offset \div B
           last == (end - 1) \div B
           N == last - first + 1
           s == [n \in 1 .. N |-> BlockSlice(f, offset, end, first + n - 1)]
           cut == [n \in 0 .. N |-> IF n = 0 THEN offset ELSE Least(end, (first + n) * B)]
<1>2. /\ first \in Nat /\ last \in Nat /\ first <= last
      /\ \A i \in Nat : i \in first .. last <=> i * B < end /\ offset < i * B + B
  BY <1>1, BlocksMet
<1>3. read_range(f, key, size, offset, len) = Bytes(FlattenSeq(s))
  <2>1. ~(offset >= size \/ len = 0)
    OBVIOUS
  <2>2. \A i \in first .. last : Readable(f, key, size, i)
    OBVIOUS
  <2> QED BY <2>1, <2>2 DEF read_range, BlockSlice
<1>4. \A i \in first .. last : f[i].plain \in Seq(V) /\ Len(f[i].plain) = plaintext_len(size, i)
  BY DEF Readable
<1> HIDE DEF first, last
<1>5. N \in Nat \ {0}
  BY <1>2
<1>6. B \in Nat /\ B > 0
  BY BAssumption
<1>7. cut \in [0 .. N -> Nat]
  <2>1. ASSUME NEW n \in 0 .. N, n # 0 PROVE Least(end, (first + n) * B) \in Nat
    <3>1. first + n \in Nat
      BY <1>2
    <3>2. (first + n) * B \in Nat
      BY <3>1, Multiple
    <3> QED BY <3>2, <1>1 DEF Least
  <2> QED BY <2>1
<1>8. ASSUME NEW n \in 1 .. N
      PROVE  /\ cut[n - 1] <= cut[n]
             /\ s[n] = Slice(Plain(f), cut[n - 1], cut[n])
  <2> DEFINE i == first + n - 1
  <2>1. i \in Nat /\ i \in first .. last /\ i + 1 = first + n /\ n - 1 \in 0 .. N /\ n \in 0 .. N /\ n # 0
    BY <1>2, <1>5
  <2>2. i * B \in Nat /\ (i + 1) * B = i * B + B
    BY <2>1, Multiple
  <2>3. i * B < end /\ offset < i * B + B
    BY <1>2, <2>1
  <2>4. cut[n] = Least(end, i * B + B)
    BY <2>1, <2>2
  <2>5. cut[n - 1] = Most(offset, i * B)
    <3>1. CASE n = 1
      <4>1. i = first
        BY <3>1, <1>2
      <4>2. first * B <= offset
        BY Division DEF first
      <4>3. cut[n - 1] = offset
        BY <3>1, <1>5
      <4> QED BY <4>1, <4>2, <4>3, <2>2 DEF Most
    <3>2. CASE n # 1
      <4>1. n - 1 # 0 /\ first + (n - 1) = i /\ first < i
        BY <3>2, <1>2
      <4>2. cut[n - 1] = Least(end, i * B)
        BY <4>1, <2>1
      <4>3. offset < first * B + B /\ first * B + B <= i * B
        BY <4>1, <1>2, <2>1, Division, Multiples DEF first
      <4>4. first * B \in Nat
        BY <1>2, Multiple
      <4> QED BY <4>2, <4>3, <4>4, <2>2, <2>3, <1>1, <1>6 DEF Most, Least
    <3> QED BY <3>1, <3>2
  <2>6. BlockSlice(f, offset, end, i) = Slice(Plain(f), Most(offset, i * B), Least(end, i * B + B))
    <3>1. f[i].plain \in Seq(V) /\ Len(f[i].plain) = plaintext_len(size, i)
      BY <1>4, <2>1
    <3> HIDE DEF i
    <3> QED BY <1>0, <2>1, <2>3, <3>1
  <2>7. s[n] = BlockSlice(f, offset, end, i)
    OBVIOUS
  <2>8. Most(offset, i * B) <= Least(end, i * B + B)
    BY <2>2, <2>3, <1>1, <1>6 DEF Most, Least
  <2> HIDE DEF i, s, cut
  <2> QED BY <2>4, <2>5, <2>6, <2>7, <2>8
<1>9. cut[0] = offset
  BY <1>5
<1>10. cut[N] = end
  <2>1. first + N = last + 1 /\ N \in 0 .. N /\ N # 0
    BY <1>2, <1>5
  <2>2. last * B \in Nat /\ (last + 1) * B = last * B + B
    BY <1>2, Multiple
  <2>3. end - 1 < last * B + B
    BY <1>1, Division DEF last
  <2>4. cut[N] = Least(end, last * B + B)
    BY <2>1, <2>2
  <2> QED BY <2>2, <2>3, <2>4, <1>1, <1>6 DEF Least
<1>11. s = [n \in 1 .. N |-> Slice(Plain(f), cut[n - 1], cut[n])]
  <2>1. s = [n \in 1 .. N |-> s[n]]
    OBVIOUS
  <2> HIDE DEF s, cut
  <2> QED BY <1>8, <2>1
<1> HIDE DEF s, cut, N
<1>12. FlattenSeq(s) = Slice(Plain(f), cut[0], cut[N])
  BY <1>5, <1>7, <1>8, <1>11, FlattenSlices
<1> QED BY <1>3, <1>9, <1>10, <1>12

-----------------------------------------------------------------------------
(* Writing and truncating *)

Opens(plan) == plan.opens = TRUE

\* What the block loop relies on in a plan: the blocks before the first one it
\* re-seals keep their length and lie before the bytes of the write; a plan that
\* does not open the file changes nothing.
SoundPlan(plan, V) ==
    /\ plan.old \in Nat /\ plan.new \in Nat /\ plan.offset \in Nat
    /\ plan.data \in Seq(V)
    /\ plan.from \in Nat
    /\ plan.until = block_count(plan.new)
    /\ plan.opens \in BOOLEAN
    /\ plan.from <= plan.until
    /\ \A i \in Nat : i < plan.from =>
        /\ i * B + B <= plan.offset
        /\ i * B + B <= plan.old
        /\ i * B + B <= plan.new
    /\ plan.offset <= plan.new
    /\ plan.offset + Len(plan.data) <= plan.new
    /\ plan.new > plan.old => plan.offset + Len(plan.data) = plan.new
    /\ ~plan.opens => plan.new = plan.old /\ plan.offset = plan.new /\ plan.data = <<>>

\* write_range and truncate make sound plans.
LEMMA WritePlan ==
    ASSUME NEW V, NEW size \in Nat, NEW offset \in Nat, NEW data \in Seq(V)
    PROVE  /\ SoundPlan(write_range(size, offset, data), V)
           /\ write_range(size, offset, data).old = size
           /\ write_range(size, offset, data).new = Most(size, offset + Len(data))
           /\ write_range(size, offset, data).data = data
           /\ write_range(size, offset, data).offset = offset
<1> DEFINE plan == write_range(size, offset, data)
           new == Most(size, offset + Len(data))
           n == block_count(size)
           q == offset \div B
<1>1. /\ plan.old = size /\ plan.new = new /\ plan.offset = offset /\ plan.data = data
      /\ plan.opens = (block_count(new) # 0)
      /\ plan.from = Least(q, saturating_pred(n))
      /\ plan.until = block_count(new)
  BY DEF write_range
<1>2. B \in Nat /\ B > 0
  BY BAssumption
<1>3. Len(data) \in Nat
  OBVIOUS
<1>4. new \in Nat /\ size <= new /\ offset + Len(data) <= new /\ offset <= new
      /\ (new > size => offset + Len(data) = new)
  BY <1>3 DEF Most
<1>5. n \in Nat /\ \A i \in Nat : i < n <=> i * B < size
  BY BlockCount
<1>6. block_count(new) \in Nat /\ \A i \in Nat : i < block_count(new) <=> i * B < new
  BY <1>4, BlockCount
<1>7. q \in Nat /\ q * B <= offset /\ q * B \in Nat
  BY Division, Multiple
<1> HIDE DEF plan, new, n, q
<1>8. plan.from \in Nat /\ plan.from <= q /\ (plan.from # 0 => n > 0 /\ plan.from <= n - 1)
  BY <1>1, <1>5, <1>7 DEF Least, saturating_pred
<1>9. ASSUME NEW i \in Nat, i < plan.from
      PROVE  i * B + B <= offset /\ i * B + B <= size
  <2>1. i < q /\ i + 1 \in Nat /\ i + 1 < n
    BY <1>9, <1>8, <1>5, <1>7
  <2>2. i * B + B <= q * B
    BY <2>1, <1>7, Multiples
  <2>3. (i + 1) * B < size
    BY <2>1, <1>5
  <2>4. i * B \in Nat /\ (i + 1) * B = i * B + B
    BY Multiple
  <2> QED BY <2>2, <2>3, <2>4, <1>2, <1>7
<1>10. plan.from <= plan.until
  <2>1. CASE plan.from = 0
    BY <2>1, <1>1, <1>6
  <2>2. CASE plan.from # 0
    <3>1. plan.from - 1 \in Nat /\ plan.from - 1 < plan.from
      BY <2>2, <1>8
    <3>2. (plan.from - 1) * B + B <= size
      BY <3>1, <1>9
    <3>3. (plan.from - 1) * B \in Nat
      BY <3>1, Multiple
    <3>4. (plan.from - 1) * B < new
      BY <3>2, <3>3, <1>2, <1>4
    <3>5. plan.from - 1 < block_count(new)
      BY <3>1, <3>4, <1>6
    <3> QED BY <3>5, <1>1, <1>6, <1>8
  <2> QED BY <2>1, <2>2
<1>11. ASSUME ~plan.opens PROVE new = size /\ offset = new /\ data = <<>>
  <2>1. block_count(new) = 0
    BY <1>11, <1>1
  <2>2. ~(0 * B < new)
    BY <2>1, <1>6
  <2>3. 0 * B = 0
    BY <1>2
  <2>4. new = 0
    BY <2>2, <2>3, <1>4
  <2>5. Len(data) = 0 /\ offset = 0 /\ size = 0
    BY <2>4, <1>3, <1>4
  <2> QED BY <2>4, <2>5
<1>12. \A i \in Nat : i < plan.from => i * B + B <= new
  <2> TAKE i \in Nat
  <2> HAVE i < plan.from
  <2>1. i * B + B <= size /\ i * B \in Nat
    BY <1>9, Multiple
  <2> QED BY <2>1, <1>2, <1>4
<1>13. SoundPlan(plan, V)
  BY <1>1, <1>4, <1>8, <1>9, <1>10, <1>11, <1>12 DEF SoundPlan
<1> QED BY <1>1, <1>13 DEF plan, new

LEMMA ShrinkPlan ==
    ASSUME NEW V, NEW size \in Nat, NEW new \in Nat, new <= size
    PROVE  /\ SoundPlan(shrink(size, new), V)
           /\ shrink(size, new).old = size
           /\ shrink(size, new).new = new
           /\ shrink(size, new).data = <<>>
           /\ shrink(size, new).offset = new
<1> DEFINE plan == shrink(size, new)
           n == block_count(new)
<1>1. /\ plan.old = size /\ plan.new = new /\ plan.offset = new /\ plan.data = <<>>
      /\ plan.opens = (new # size)
      /\ plan.from = saturating_pred(n)
      /\ plan.until = n
  BY DEF shrink
<1>2. B \in Nat /\ B > 0
  BY BAssumption
<1>3. n \in Nat /\ \A i \in Nat : i < n <=> i * B < new
  BY BlockCount
<1> HIDE DEF plan
<1>4. plan.from \in Nat /\ plan.from <= n /\ (plan.from # 0 => plan.from = n - 1)
  <2> HIDE DEF n
  <2> QED BY <1>1, <1>3 DEF saturating_pred
<1>5. ASSUME NEW i \in Nat, i < plan.from
      PROVE  i * B + B <= new /\ i * B + B <= size
  <2>1. i + 1 \in Nat /\ i + 1 < n
    BY <1>5, <1>3, <1>4
  <2>2. (i + 1) * B < new
    BY <2>1, <1>3
  <2>3. i * B \in Nat /\ (i + 1) * B = i * B + B
    BY Multiple
  <2> QED BY <2>2, <2>3, <1>2
<1>6. plan.data \in Seq(V) /\ Len(plan.data) = 0
  BY <1>1
<1>7. plan.offset + Len(plan.data) <= plan.new /\ ~(plan.new > plan.old)
  BY <1>1, <1>6
<1>8. SoundPlan(plan, V)
  <2> HIDE DEF n
  <2>1. plan.until = block_count(plan.new)
    BY <1>1 DEF n
  <2>2. plan.opens \in BOOLEAN /\ (~plan.opens => plan.new = plan.old)
    BY <1>1
  <2> QED BY <1>1, <1>3, <1>4, <1>5, <1>6, <1>7, <2>1, <2>2 DEF SoundPlan
<1> QED BY <1>1, <1>8 DEF plan

LEMMA TruncatePlan ==
    ASSUME NEW V, NEW size \in Nat, NEW new \in Nat
    PROVE  /\ SoundPlan(truncate(size, new), V)
           /\ truncate(size, new).old = size
           /\ truncate(size, new).new = new
           /\ truncate(size, new).data = <<>>
           /\ truncate(size, new).offset = new
<1>1. CASE new > size
  <2>1. truncate(size, new) = write_range(size, new, <<>>)
    BY <1>1 DEF truncate
  <2>2. <<>> \in Seq(V) /\ Len(<<>>) = 0
    OBVIOUS
  <2> DEFINE none == <<>>
             plan == write_range(size, new, none)
  <2>3. Most(size, new + Len(none)) = new
    BY <1>1, <2>2 DEF Most
  <2>4. none \in Seq(V)
    OBVIOUS
  <2> HIDE DEF none
  <2>5. /\ SoundPlan(plan, V)
        /\ plan.old = size
        /\ plan.new = Most(size, new + Len(none))
        /\ plan.data = none
        /\ plan.offset = new
    BY <2>4, WritePlan
  <2> QED BY <2>1, <2>3, <2>5 DEF none
<1>2. CASE ~(new > size)
  <2>1. truncate(size, new) = shrink(size, new)
    BY <1>2 DEF truncate
  <2>2. new <= size
    BY <1>2
  <2> QED BY <2>1, <2>2, ShrinkPlan
<1> QED BY <1>1, <1>2

\* Position q of the file, counted from 1, is one that the plan writes.
Covers(plan, q) == plan.offset < q /\ q <= plan.offset + Len(plan.data)

\* The loop seals in a block the bytes of the write, else the old bytes, else
\* zeros.
EditedBlock(e, f, plan, i, V) ==
    /\ e \in Seq(V)
    /\ Len(e) = plaintext_len(plan.new, i)
    /\ \A p \in 1 .. plaintext_len(plan.new, i) :
        e[p] = IF Covers(plan, i * B + p) THEN plan.data[(i * B + p) - plan.offset]
               ELSE IF i * B + p <= plan.old THEN f[i].plain[p] ELSE 0

LEMMA Edited ==
    ASSUME NEW V, 0 \in V, NEW f, NEW plan, SoundPlan(plan, V), NEW i \in Nat,
           i * B < plan.old => /\ f[i].plain \in Seq(V)
                               /\ Len(f[i].plain) = plaintext_len(plan.old, i)
    PROVE  EditedBlock(edited(f, plan, i), f, plan, i, V)
<1> DEFINE m == i * B
           n == plaintext_len(plan.new, i)
           old == IF i < block_count(plan.old) THEN f[i].plain ELSE <<>>
           in(p) == /\ plan.offset <= m + p - 1
                    /\ m + p - 1 < plan.offset + Len(plan.data)
           e(p) == IF Covers(plan, m + p) THEN plan.data[(m + p) - plan.offset]
                   ELSE IF m + p <= plan.old THEN f[i].plain[p] ELSE 0
<1>1. /\ plan.old \in Nat /\ plan.new \in Nat /\ plan.offset \in Nat
      /\ plan.data \in Seq(V) /\ Len(plan.data) \in Nat
  BY DEF SoundPlan
<1>2. B \in Nat /\ B > 0 /\ m \in Nat
  BY Multiple
<1>3. n \in 0 .. B
  BY <1>1, PlaintextLen
<1>4. i < block_count(plan.old) <=> m < plan.old
  BY <1>1, BlockCount
<1>5. edited(f, plan, i) = [p \in 1 .. n |->
            CASE in(p) -> plan.data[m + p - plan.offset]
              [] ~in(p) /\ p <= Len(old) -> old[p]
              [] OTHER -> 0]
  BY DEF edited
<1>6. ASSUME NEW p \in 1 .. n
      PROVE  p <= Len(old) <=> m + p <= plan.old
  <2>1. p \in 1 .. B
    BY <1>2, <1>3
  <2>2. CASE m < plan.old
    <3>1. old = f[i].plain /\ Len(old) = plaintext_len(plan.old, i)
      BY <2>2, <1>4
    <3>2. p <= plaintext_len(plan.old, i) <=> m + p <= plan.old
      BY <2>1, <1>1, PlaintextLen
    <3> QED BY <3>1, <3>2
  <2>3. CASE ~(m < plan.old)
    <3>1. old = <<>>
      BY <2>3, <1>4
    <3>2. Len(old) = 0
      BY <3>1
    <3> HIDE DEF m
    <3> QED BY <3>2, <2>3, <1>1, <1>2, <1>3
  <2> QED BY <2>2, <2>3
<1>7. ASSUME NEW p \in 1 .. n
      PROVE  in(p) <=> Covers(plan, m + p)
  <2> HIDE DEF m
  <2> QED BY <1>1, <1>2, <1>3 DEF Covers
<1>8. ASSUME NEW p \in 1 .. n
      PROVE  edited(f, plan, i)[p] = e(p)
  <2>1. CASE in(p)
    <3>1. edited(f, plan, i)[p] = plan.data[m + p - plan.offset]
      BY <2>1, <1>5
    <3>2. m + p - plan.offset = (m + p) - plan.offset
      <4> HIDE DEF m
      <4> QED BY <1>1, <1>2, <1>3
    <3> HIDE DEF m
    <3> QED BY <2>1, <3>1, <3>2, <1>7
  <2>2. CASE ~in(p) /\ p <= Len(old)
    <3>1. m < plan.old
      <4> HIDE DEF m
      <4> QED BY <2>2, <1>1, <1>2, <1>3, <1>6
    <3>2. old = f[i].plain
      BY <3>1, <1>4
    <3> HIDE DEF old, m, in
    <3> QED BY <2>2, <3>2, <1>5, <1>6, <1>7
  <2>3. CASE ~in(p) /\ ~(p <= Len(old))
    <3> HIDE DEF old, m, in
    <3> QED BY <2>3, <1>5, <1>6, <1>7
  <2> QED BY <2>1, <2>2, <2>3
<1>9. ASSUME NEW p \in 1 .. n
      PROVE  e(p) \in V
  <2>1. CASE Covers(plan, m + p)
    <3>1. (m + p) - plan.offset \in 1 .. Len(plan.data)
      <4> HIDE DEF m
      <4> QED BY <2>1, <1>1, <1>2, <1>3 DEF Covers
    <3> QED BY <2>1, <3>1, <1>1
  <2>2. CASE ~Covers(plan, m + p) /\ m + p <= plan.old
    <3>1. p <= Len(old) /\ m < plan.old
      <4>1. p <= Len(old)
        BY <2>2, <1>6
      <4>2. m < plan.old
        <5> HIDE DEF m
        <5> QED BY <2>2, <1>1, <1>2, <1>3
      <4> QED BY <4>1, <4>2
    <3>2. old = f[i].plain /\ f[i].plain \in Seq(V)
      BY <3>1, <1>4
    <3>3. p \in 1 .. Len(f[i].plain)
      BY <3>1, <3>2, <1>3
    <3>4. f[i].plain[p] \in V
      BY <3>2, <3>3
    <3> QED BY <2>2, <3>4
  <2>3. CASE ~Covers(plan, m + p) /\ ~(m + p <= plan.old)
    BY <2>3
  <2> QED BY <2>1, <2>2, <2>3
<1>10. edited(f, plan, i) = [p \in 1 .. n |-> edited(f, plan, i)[p]]
  BY <1>5
<1> HIDE DEF n, e
<1>11. edited(f, plan, i) \in [1 .. n -> V]
  BY <1>8, <1>9, <1>10
<1>12. edited(f, plan, i) \in Seq(V) /\ Len(edited(f, plan, i)) = n
  BY <1>11, <1>3
<1> QED BY <1>8, <1>12 DEF n, e, EditedBlock

\* The blocks that a completed plan leaves.
BlocksAfter(g, f, key, plan) ==
    /\ DOMAIN g = {j \in DOMAIN f \cup (plan.from .. plan.until - 1) : j \in 0 .. plan.until - 1}
    /\ \A i \in plan.from .. plan.until - 1 : g[i] = Sealed(key, i, edited(f, plan, i))
    /\ \A i \in DOMAIN f : i \in 0 .. plan.from - 1 => g[i] = f[i]

LEMMA AppliedBlocks ==
    ASSUME NEW V, NEW f, f # Missing, NEW key, NEW plan, SoundPlan(plan, V), Opens(plan)
    PROVE  BlocksAfter(Applied(f, key, plan), f, key, plan)
<1>1. plan.from \in Nat /\ plan.until \in Nat /\ plan.from <= plan.until
  BY BlockCount DEF SoundPlan
<1> DEFINE R == Resealed(f, key, plan, plan.until)
           g == Applied(f, key, plan)
<1>2. g = [j \in DOMAIN R \cap (0 .. plan.until - 1) |-> R[j]]
  BY DEF Applied, set_len, open_rw, Opens
<1>3. R = [j \in DOMAIN f \cup (plan.from .. plan.until - 1) |->
              IF j \in plan.from .. plan.until - 1
              THEN Sealed(key, j, edited(f, plan, j))
              ELSE f[j]]
  BY DEF Resealed
<1> HIDE DEF R, g
<1>4. /\ DOMAIN g = {j \in DOMAIN f \cup (plan.from .. plan.until - 1) : j \in 0 .. plan.until - 1}
      /\ \A i \in plan.from .. plan.until - 1 : g[i] = Sealed(key, i, edited(f, plan, i))
      /\ \A i \in DOMAIN f : i \in 0 .. plan.from - 1 => g[i] = f[i]
  BY <1>1, <1>2, <1>3
<1>5. BlocksAfter(g, f, key, plan)
  BY <1>4 DEF BlocksAfter
<1> QED BY <1>5 DEF g

\* A data file, a function of block numbers, is never taken for a missing one.
NoFileIsMissing ==
    \A f : f = [b \in DOMAIN f |-> f[b]] /\ DOMAIN f \subseteq Nat => f # Missing

\* The data file f holds exactly the bytes c under the key: every block of c is
\* readable and has its bytes, and no block behind the end opens.
Stores(f, key, c, V) ==
    /\ c \in Seq(V)
    /\ \A i \in Nat : i * B < Len(c) =>
        /\ Readable(f, key, Len(c), i)
        /\ f[i].plain \in Seq(V)
        /\ \A p \in 1 .. plaintext_len(Len(c), i) : f[i].plain[p] = c[i * B + p]
    /\ \A i \in DOMAIN f : i \in Nat /\ (f[i].key = key => i * B < Len(c))

\* The bytes c after the plan, whatever the block code does.
ByteAfter(c, plan, q) ==
    IF Covers(plan, q) THEN plan.data[q - plan.offset]
    ELSE IF q <= plan.old THEN c[q] ELSE 0

After(c, plan) == [q \in 1 .. plan.new |-> ByteAfter(c, plan, q)]

LEMMA AfterIsSeq ==
    ASSUME NEW V, 0 \in V, NEW c \in Seq(V), NEW plan, SoundPlan(plan, V), plan.old = Len(c)
    PROVE  After(c, plan) \in Seq(V) /\ Len(After(c, plan)) = plan.new
<1>1. /\ plan.new \in Nat /\ plan.offset \in Nat
      /\ plan.data \in Seq(V) /\ Len(plan.data) \in Nat /\ Len(c) \in Nat
  BY DEF SoundPlan
<1>2. ASSUME NEW q \in 1 .. plan.new PROVE After(c, plan)[q] \in V
  <2>1. CASE Covers(plan, q)
    <3>1. q - plan.offset \in 1 .. Len(plan.data)
      BY <2>1, <1>1 DEF Covers
    <3> QED BY <2>1, <3>1, <1>1 DEF After, ByteAfter
  <2>2. CASE ~Covers(plan, q)
    BY <2>2, <1>1 DEF After, ByteAfter
  <2> QED BY <2>1, <2>2
<1>3. After(c, plan) = [q \in 1 .. plan.new |-> After(c, plan)[q]]
  BY DEF After
<1>4. After(c, plan) \in [1 .. plan.new -> V]
  BY <1>2, <1>3
<1> QED BY <1>1, <1>4

\* A file that holds its bytes refuses no plan.
THEOREM StoredIsEditable ==
    ASSUME NEW V, NEW f, NEW key, NEW c, Stores(f, key, c, V),
           NEW plan, plan.old = Len(c), NEW i \in Nat
    PROVE  CanEdit(f, key, plan, i)
<1>1. Len(c) \in Nat
  BY DEF Stores
<1>2. i < block_count(Len(c)) <=> i * B < Len(c)
  BY <1>1, BlockCount
<1> QED BY <1>1, <1>2 DEF CanEdit, Stores

\* A completed write or truncate leaves a file that holds the old bytes with
\* those of the write on top and zeros in the holes, for every block length,
\* size and offset.
THEOREM StoredAfterPlan ==
    ASSUME NEW V, 0 \in V, NEW f, f # Missing, NEW key, NEW c, Stores(f, key, c, V),
           NEW plan, SoundPlan(plan, V), plan.old = Len(c), Opens(plan)
    PROVE  Stores(Applied(f, key, plan), key, After(c, plan), V)
<1> DEFINE g == Applied(f, key, plan)
           d == After(c, plan)
<1>1. c \in Seq(V) /\ Len(c) \in Nat
  BY DEF Stores
<1>2. d \in Seq(V) /\ Len(d) = plan.new
  BY <1>1, AfterIsSeq
<1>3. /\ plan.new \in Nat /\ plan.from \in Nat /\ plan.from <= plan.until
      /\ plan.until = block_count(plan.new) /\ plan.until \in Nat
      /\ \A i \in Nat : i < plan.until <=> i * B < plan.new
  BY BlockCount DEF SoundPlan
<1>4. /\ DOMAIN g = {j \in DOMAIN f \cup (plan.from .. plan.until - 1) : j \in 0 .. plan.until - 1}
      /\ \A i \in plan.from .. plan.until - 1 : g[i] = Sealed(key, i, edited(f, plan, i))
      /\ \A i \in DOMAIN f : i \in 0 .. plan.from - 1 => g[i] = f[i]
  <2>1. BlocksAfter(g, f, key, plan)
    BY AppliedBlocks
  <2> HIDE DEF g
  <2> QED BY <2>1 DEF BlocksAfter
<1> HIDE DEF g, d
<1>5. \A i \in DOMAIN g : i \in Nat /\ (g[i].key = key => i * B < Len(d))
  BY <1>2, <1>3, <1>4
<1>6. ASSUME NEW i \in Nat, i * B < Len(d)
      PROVE  /\ Readable(g, key, Len(d), i)
             /\ g[i].plain \in Seq(V)
             /\ \A p \in 1 .. plaintext_len(Len(d), i) : g[i].plain[p] = d[i * B + p]
  <2> DEFINE m == i * B
             n == plaintext_len(plan.new, i)
  <2>0. i < plan.until
    BY <1>2, <1>3, <1>6
  <2>1. B \in Nat /\ B > 0 /\ m \in Nat
    BY Multiple
  <2>2. n \in 0 .. B /\ \A p \in 1 .. B : p <= n <=> m + p <= plan.new
    BY <1>3, PlaintextLen
  <2>3. ASSUME NEW p \in 1 .. n PROVE m + p \in 1 .. plan.new
    <3> HIDE DEF m, n
    <3>1. p \in 1 .. B /\ p <= n
      BY <2>1, <2>2
    <3>2. m + p <= plan.new
      BY <3>1, <2>2
    <3> QED BY <3>1, <3>2, <2>1, <1>3
  <2>4. ASSUME NEW p \in 1 .. n PROVE d[m + p] = ByteAfter(c, plan, m + p)
    BY <2>3 DEF d, After
  <2>5. CASE i < plan.from
    <3>1. m + B <= plan.offset /\ m + B <= plan.old /\ m + B <= plan.new
      BY <2>5 DEF SoundPlan
    <3>2. plan.old \in Nat /\ plan.offset \in Nat /\ Len(plan.data) \in Nat
      BY DEF SoundPlan
    <3>3. m < Len(c)
      <4> HIDE DEF m
      <4> QED BY <3>1, <3>2, <2>1
    <3>4. plaintext_len(Len(c), i) = B /\ n = B
      BY <3>1, <1>1, <1>3, PlaintextLen
    <3>5. /\ Readable(f, key, Len(c), i)
          /\ f[i].plain \in Seq(V)
          /\ \A p \in 1 .. B : f[i].plain[p] = c[m + p]
      BY <3>3, <3>4 DEF Stores
    <3>6. i \in DOMAIN f /\ i \in DOMAIN g /\ g[i] = f[i]
      BY <3>5, <1>3, <1>4, <2>5 DEF Readable
    <3>7. ASSUME NEW p \in 1 .. B PROVE d[m + p] = c[m + p]
      <4>1. ~Covers(plan, m + p) /\ m + p <= plan.old
        <5> HIDE DEF m
        <5> QED BY <3>1, <3>2, <2>1 DEF Covers
      <4> QED BY <4>1, <3>4, <2>4 DEF ByteAfter
    <3>8. Readable(g, key, Len(d), i)
      BY <3>4, <3>5, <3>6, <1>2 DEF Readable
    <3> QED BY <3>4, <3>5, <3>6, <3>7, <3>8, <1>2
  <2>6. CASE ~(i < plan.from)
    <3>1. i \in plan.from .. plan.until - 1
      BY <2>6, <2>0, <1>3
    <3>2. i \in DOMAIN g /\ g[i] = Sealed(key, i, edited(f, plan, i))
      BY <3>1, <1>3, <1>4
    <3>3. i * B < plan.old =>
            /\ Readable(f, key, Len(c), i)
            /\ f[i].plain \in Seq(V)
            /\ Len(f[i].plain) = plaintext_len(plan.old, i)
            /\ \A p \in 1 .. plaintext_len(Len(c), i) : f[i].plain[p] = c[m + p]
      BY DEF Stores, Readable
    <3>4. /\ edited(f, plan, i) \in Seq(V)
          /\ Len(edited(f, plan, i)) = n
          /\ \A p \in 1 .. n :
                edited(f, plan, i)[p] =
                    IF Covers(plan, m + p) THEN plan.data[(m + p) - plan.offset]
                    ELSE IF m + p <= plan.old THEN f[i].plain[p] ELSE 0
      <4>1. EditedBlock(edited(f, plan, i), f, plan, i, V)
        BY <3>3, Edited
      <4> QED BY <4>1 DEF EditedBlock
    <3>5. g[i].key = key /\ g[i].index = i /\ g[i].plain = edited(f, plan, i)
      BY <3>2 DEF Sealed
    <3>6. ASSUME NEW p \in 1 .. n, m + p <= plan.old PROVE f[i].plain[p] = c[m + p]
      <4>1. p \in 1 .. B /\ m < plan.old
        <5> HIDE DEF m, n
        <5> QED BY <3>6, <2>1, <2>2 DEF SoundPlan
      <4>2. p <= plaintext_len(Len(c), i)
        BY <4>1, <3>6, <1>1, PlaintextLen
      <4>3. plaintext_len(Len(c), i) \in Nat
        BY <1>1, <2>1, PlaintextLen
      <4> QED BY <4>1, <4>2, <4>3, <3>3
    <3>7. ASSUME NEW p \in 1 .. n PROVE edited(f, plan, i)[p] = d[m + p]
      <4> HIDE DEF m, n
      <4>1. d[m + p] = ByteAfter(c, plan, m + p)
        BY <2>4
      <4>2. edited(f, plan, i)[p] = IF Covers(plan, m + p) THEN plan.data[(m + p) - plan.offset]
                                    ELSE IF m + p <= plan.old THEN f[i].plain[p] ELSE 0
        BY <3>4
      <4>3. m + p <= plan.old => f[i].plain[p] = c[m + p]
        BY <3>6
      <4> QED BY <4>1, <4>2, <4>3 DEF ByteAfter
    <3>8. Readable(g, key, Len(d), i)
      BY <3>2, <3>4, <3>5, <1>2 DEF Readable
    <3> QED BY <3>4, <3>5, <3>7, <3>8, <1>2
  <2> QED BY <2>5, <2>6, <1>3
<1>7. Stores(g, key, d, V)
  BY <1>2, <1>5, <1>6 DEF Stores
<1> QED BY <1>7 DEF g, d

\* The plaintext that blocks of matching lengths have in a range is that of c.
LEMMA PlainOfStored ==
    ASSUME NEW V, NEW f, NEW key, NEW c, Stores(f, key, c, V),
           NEW size \in Nat, NEW p \in Nat, p < size, Readable(f, key, size, p \div B)
    PROVE  /\ p + 1 <= Len(c)
           /\ Plain(f)[p] = c[p + 1]
<1> DEFINE i == p \div B
           m == i * B
           r == (p - m) + 1
<1>1. i \in Nat /\ m <= p /\ p < m + B
  BY Division
<1>2. B \in Nat /\ B > 0 /\ m \in Nat
  BY <1>1, Multiple
<1>3. Len(c) \in Nat
  BY DEF Stores
<1>4. i \in DOMAIN f /\ f[i].key = key /\ Len(f[i].plain) = plaintext_len(size, i)
  BY DEF Readable
<1>5. m < Len(c)
  BY <1>4 DEF Stores
<1>6. /\ Len(f[i].plain) = plaintext_len(Len(c), i)
      /\ \A s \in 1 .. plaintext_len(Len(c), i) : f[i].plain[s] = c[m + s]
  BY <1>1, <1>5 DEF Stores, Readable
<1>7. Plain(f)[p] = f[i].plain[p - m + 1]
  BY DEF Plain
<1> HIDE DEF i
<1>8. plaintext_len(size, i) \in 0 .. B /\ \A s \in 1 .. B : s <= plaintext_len(size, i) <=> m + s <= size
  BY <1>1, <1>2, PlaintextLen
<1>9. plaintext_len(Len(c), i) \in 0 .. B
       /\ \A s \in 1 .. B : s <= plaintext_len(Len(c), i) <=> m + s <= Len(c)
  BY <1>1, <1>2, <1>3, PlaintextLen
<1> HIDE DEF m
<1>10. r \in 1 .. B /\ m + r = p + 1 /\ m + r <= size /\ p - m + 1 = r
  BY <1>1, <1>2
<1> HIDE DEF r
<1>11. r <= plaintext_len(size, i)
  BY <1>2, <1>8, <1>10
<1>12. r <= plaintext_len(Len(c), i)
  BY <1>4, <1>6, <1>11
<1>13. m + r <= Len(c)
  BY <1>2, <1>9, <1>10, <1>12
<1>14. f[i].plain[r] = c[m + r]
  BY <1>2, <1>6, <1>9, <1>10, <1>12
<1> QED BY <1>7, <1>10, <1>13, <1>14

\* The answer has the bytes of c in the range, up to the size that was asked with;
\* only an answer under another size than that of c may be an error.
HonestRead(got, c, size, offset, len) ==
    /\ got.ok \in BOOLEAN
    /\ got.ok => got.data = SubSeq(c, offset + 1, Least(offset + len, size))
    /\ size = Len(c) => got.ok

\* A read that succeeds, under whatever size, returns bytes the file holds; and
\* a read under the size of those bytes succeeds: read_range never mixes up blocks,
\* for any block length and range.
THEOREM StoredRead ==
    ASSUME NEW V, NEW f, NEW key, NEW c, Stores(f, key, c, V),
           NEW size \in Nat, NEW offset \in Nat, NEW len \in Nat
    PROVE  HonestRead(read_range(f, key, size, offset, len), c, size, offset, len)
<1> DEFINE end == Least(offset + len, size)
           got == read_range(f, key, size, offset, len)
<1>1. end \in Nat /\ end <= size /\ end <= offset + len
  BY DEF Least
<1>2. CASE offset >= size \/ len = 0
  <2>1. got = Bytes(<<>>)
    BY <1>2 DEF read_range
  <2>2. end < offset + 1
    BY <1>1, <1>2
  <2>3. SubSeq(c, offset + 1, end) = <<>>
    BY <1>1, <2>2, SubSeqEmpty
  <2>4. got.ok = TRUE /\ got.data = <<>>
    BY <2>1 DEF Bytes
  <2> HIDE DEF got
  <2>5. HonestRead(got, c, size, offset, len)
    BY <2>3, <2>4 DEF HonestRead
  <2> QED BY <2>5 DEF got
<1>3. CASE ~(offset >= size \/ len = 0)
  <2> DEFINE first == offset \div B
             last == (end - 1) \div B
  <2>1. offset < size /\ len # 0 /\ offset < end
    BY <1>3 DEF Least
  <2>2. /\ first \in Nat /\ last \in Nat
        /\ \A i \in Nat : i \in first .. last <=> i * B < end /\ offset < i * B + B
    BY <1>1, <2>1, BlocksMet
  <2>3. CASE \A i \in first .. last : Readable(f, key, size, i)
    <3>1. \A i \in first .. last : Readable(f, key, size, i) /\ f[i].plain \in Seq(V)
      <4> TAKE i \in first .. last
      <4>1. i \in Nat
        BY <2>2
      <4>2. Readable(f, key, size, i)
        BY <2>3
      <4>3. i * B < Len(c)
        BY <4>1, <4>2 DEF Readable, Stores
      <4> QED BY <4>1, <4>2, <4>3 DEF Stores
    <3>2. got = Bytes(Slice(Plain(f), offset, end))
      <4> HIDE DEF end
      <4>1. end = Least(offset + len, size)
        BY DEF end
      <4> QED BY <4>1, <3>1, <2>1, ReadRange
    <3>3. ASSUME NEW p \in Nat, offset <= p, p < end
          PROVE  p + 1 <= Len(c) /\ Plain(f)[p] = c[p + 1]
      <4> DEFINE i == p \div B
      <4>1. i \in Nat /\ i * B <= p /\ p < i * B + B /\ i * B \in Nat /\ B \in Nat
        BY Division, Multiple
      <4> HIDE DEF i, end
      <4>2. i * B < end /\ offset < i * B + B
        BY <4>1, <3>3, <1>1
      <4>3. Readable(f, key, size, i)
        BY <4>1, <4>2, <2>2, <2>3
      <4>4. p < size
        BY <3>3, <1>1
      <4> QED BY <4>3, <4>4, PlainOfStored DEF i
    <3>4. Slice(Plain(f), offset, end) = SubSeq(c, offset + 1, end)
      <4> HIDE DEF end
      <4>1. c \in Seq(V) /\ Len(c) \in Nat
        BY DEF Stores
      <4>2. end <= Len(c)
        <5>1. end - 1 \in Nat /\ offset <= end - 1 /\ end - 1 < end /\ (end - 1) + 1 = end
          BY <2>1, <1>1
        <5> QED BY <5>1, <3>3
      <4>3. \A q \in 1 .. end - offset : Plain(f)[offset + q - 1] = c[offset + q]
        <5> TAKE q \in 1 .. end - offset
        <5> DEFINE p == offset + q - 1
        <5>1. p \in Nat /\ offset <= p /\ p < end /\ p + 1 = offset + q
          BY <1>1
        <5> HIDE DEF p
        <5>2. Plain(f)[p] = c[p + 1]
          BY <5>1, <3>3
        <5> QED BY <5>1, <5>2 DEF p
      <4>4. /\ SubSeq(c, offset + 1, end) \in Seq(V)
            /\ Len(SubSeq(c, offset + 1, end)) = end - offset
            /\ \A q \in 1 .. end - offset : SubSeq(c, offset + 1, end)[q] = c[offset + q]
        BY <4>1, <4>2, <2>1, <1>1
      <4>5. SubSeq(c, offset + 1, end) = [q \in 1 .. end - offset |-> SubSeq(c, offset + 1, end)[q]]
        BY <4>4, <2>1, <1>1
      <4> QED BY <4>3, <4>4, <4>5 DEF Slice
    <3>5. got.ok = TRUE /\ got.data = SubSeq(c, offset + 1, end)
      BY <3>2, <3>4 DEF Bytes
    <3> HIDE DEF got
    <3>6. HonestRead(got, c, size, offset, len)
      BY <3>5 DEF HonestRead
    <3> QED BY <3>6 DEF got
  <2>4. CASE ~(\A i \in first .. last : Readable(f, key, size, i))
    <3>1. got = EIO
      BY <1>3, <2>4 DEF read_range
    <3>2. ASSUME size = Len(c) PROVE FALSE
      <4>1. PICK i \in first .. last : ~Readable(f, key, size, i)
        BY <2>4
      <4>2. i \in Nat /\ i * B \in Nat /\ i * B < end
        BY <2>2, Multiple
      <4>3. i * B < size
        BY <4>2, <1>1
      <4> QED BY <4>1, <4>2, <4>3, <3>2 DEF Stores
    <3>3. got.ok = FALSE
      BY <3>1 DEF EIO
    <3> HIDE DEF got
    <3>4. HonestRead(got, c, size, offset, len)
      BY <3>2, <3>3 DEF HonestRead
    <3> QED BY <3>4 DEF got
  <2> QED BY <2>3, <2>4
<1> QED BY <1>2, <1>3

\* Read as a whole, the file is its bytes.
THEOREM StoredReadsBack ==
    ASSUME NEW V, NEW f, f # Missing, NEW key, NEW c, Stores(f, key, c, V)
    PROVE  do_read(f, key, Len(c), 0, Len(c)) = Bytes(c)
<1> DEFINE got == read_range(f, key, Len(c), 0, Len(c))
<1>1. c \in Seq(V) /\ Len(c) \in Nat
  BY DEF Stores
<1>2. /\ got.ok => got.data = SubSeq(c, 0 + 1, Least(0 + Len(c), Len(c)))
      /\ Len(c) = Len(c) => got.ok
      /\ got.ok \in BOOLEAN
  <2>1. HonestRead(got, c, Len(c), 0, Len(c))
    BY <1>1, StoredRead
  <2> HIDE DEF got
  <2> QED BY <2>1 DEF HonestRead
<1>3. SubSeq(c, 1, Len(c)) = c
  BY <1>1
<1>4. 0 + 1 = 1 /\ Least(0 + Len(c), Len(c)) = Len(c)
  BY <1>1 DEF Least
<1>5. got = Bytes(got.data) \/ got = EIO
  BY DEF read_range, Bytes
<1>6. got.ok /\ got.data = c
  BY <1>2, <1>3, <1>4
<1>7. got = Bytes(c)
  BY <1>5, <1>6 DEF EIO, Bytes
<1> QED BY <1>7 DEF do_read
=============================================================================
