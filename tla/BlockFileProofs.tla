--------------------------- MODULE BlockFileProofs ---------------------------
(***************************************************************************)
(* Proofs about one file under errors, failed saves and crashes: for any   *)
(* block length, any bound on sizes and any history, a read returns bytes  *)
(* that the byte array may have, and only a harmed block is refused.       *)
(***************************************************************************)
EXTENDS BlockFile, FileBlocksProofs

V == Byte \cup {0}

\* Block i of the data file f serves a file of sz bytes: unless it is harmed it can
\* be read, and if it can be read its bytes are ones the array may have.
Serves(f, sz, m, h, i) ==
    /\ i \notin h => Readable(f, content_key, sz, i)
    /\ Readable(f, content_key, sz, i) =>
        \A p \in 1 .. plaintext_len(sz, i) : f[i].plain[p] \in m[(i * B + p) - 1]

\* The data file serves a file of sz bytes.
View(f, sz, m, h) == \A i \in 0 .. block_count(sz) - 1 : Serves(f, sz, m, h, i)

\* A byte that both arrays have is known at least as well in memory.
MemoryKnowsBetter == \A p \in DOMAIN may : p < saved => may[p] \subseteq saved_may[p]

\* The data file is there, or it is missing.
FileOK(f) ==
    f # Missing =>
        /\ f = [i \in DOMAIN f |-> f[i]]
        /\ DOMAIN f \subseteq 0 .. MaxSize
        /\ \A i \in DOMAIN f :
            f[i].index = i /\ f[i].plain \in Seq(V) /\ Len(f[i].plain) <= B

IInv ==
    /\ TypeOK
    /\ FileOK(data)
    /\ MissingMeansEmpty
    /\ View(data, size, may, harm)
    /\ View(data, saved, saved_may, saved_harm)
    /\ MemoryKnowsBetter
    /\ Resized(size) \subseteq saved_harm

-----------------------------------------------------------------------------
(* One block *)

\* In a file of sz bytes, the array m2 allows for what a plan leaves of an array m.
Absorbs(plan, m, m2, sz) ==
    \A q \in Nat : q < sz /\ q < plan.new =>
        /\ InData(plan, q) => Written(plan, q) \in m2[q]
        /\ ~InData(plan, q) /\ q < plan.old => m[q] \subseteq m2[q]
        /\ ~InData(plan, q) /\ q >= plan.old => 0 \in m2[q]

LEMMA BlockBytes ==
    ASSUME NEW sz \in Nat, NEW i \in Nat, NEW p \in 1 .. plaintext_len(sz, i)
    PROVE  /\ p \in 1 .. B
           /\ (i * B + p) - 1 \in Nat
           /\ (i * B + p) - 1 < sz
           /\ i * B \in Nat
<1>1. i * B \in Nat /\ B \in Nat
  BY Multiple
<1>2. plaintext_len(sz, i) \in 0 .. B /\ \A r \in 1 .. B : r <= plaintext_len(sz, i) <=> i * B + r <= sz
  BY PlaintextLen
<1> DEFINE n == plaintext_len(sz, i)
           m == i * B
<1> HIDE DEF n, m
<1>3. m \in Nat /\ n \in 0 .. B /\ p \in 1 .. n /\ \A r \in 1 .. B : r <= n <=> m + r <= sz
  BY <1>1, <1>2 DEF n, m
<1>4. p \in 1 .. B /\ m + p <= sz
  BY <1>1, <1>3
<1>5. (m + p) - 1 \in Nat /\ (m + p) - 1 < sz
  BY <1>3, <1>4
<1> QED BY <1>1, <1>4, <1>5 DEF m

\* A block the plan leaves alone.
LEMMA KeptServes ==
    ASSUME NEW f, NEW g, NEW i \in Nat, i \in DOMAIN g <=> i \in DOMAIN f, i \in DOMAIN f => g[i] = f[i],
           NEW sz \in Nat, NEW sz2 \in Nat, NEW m, NEW m2, NEW h, NEW h2,
           Serves(f, sz, m, h, i), plaintext_len(sz, i) = plaintext_len(sz2, i),
           \A p \in 1 .. plaintext_len(sz, i) : m[(i * B + p) - 1] \subseteq m2[(i * B + p) - 1],
           i \in h => i \in h2
    PROVE  Serves(g, sz2, m2, h2, i)
<1>1. Readable(g, content_key, sz2, i) <=> Readable(f, content_key, sz, i)
  BY DEF Readable
<1>2. i \notin h2 => Readable(g, content_key, sz2, i)
  BY <1>1 DEF Serves
<1>3. ASSUME Readable(g, content_key, sz2, i), NEW p \in 1 .. plaintext_len(sz2, i)
      PROVE  g[i].plain[p] \in m2[(i * B + p) - 1]
  <2>1. g[i] = f[i]
    BY <1>1, <1>3 DEF Readable
  <2>2. f[i].plain[p] \in m[(i * B + p) - 1]
    BY <1>1, <1>3 DEF Serves
  <2> QED BY <2>1, <2>2
<1> QED BY <1>2, <1>3 DEF Serves

\* A block the plan re-seals.
LEMMA EditedServes ==
    ASSUME NEW f, NEW plan, SoundPlan(plan, V), NEW i \in Nat, NEW m,
           i * B < plan.old =>
              /\ Readable(f, content_key, plan.old, i)
              /\ f[i].plain \in Seq(V)
              /\ \A p \in 1 .. plaintext_len(plan.old, i) : f[i].plain[p] \in m[(i * B + p) - 1],
           NEW g, i \in DOMAIN g, g[i] = Sealed(content_key, i, edited(f, plan, i)),
           NEW sz \in Nat, NEW m2, NEW h2, Absorbs(plan, m, m2, sz),
           i \notin h2 => plaintext_len(plan.new, i) = plaintext_len(sz, i)
    PROVE  Serves(g, sz, m2, h2, i)
<1> DEFINE e == edited(f, plan, i)
<1>1. EditedBlock(e, f, plan, i, V)
  <2>1. 0 \in V
    BY DEF V
  <2>2. i * B < plan.old => f[i].plain \in Seq(V) /\ Len(f[i].plain) = plaintext_len(plan.old, i)
    BY DEF Readable
  <2> QED BY <2>1, <2>2, Edited
<1>2. g[i].key = content_key /\ g[i].index = i /\ g[i].plain = e
  BY DEF Sealed
<1> HIDE DEF e
<1>3. /\ plan.old \in Nat /\ plan.new \in Nat /\ plan.offset \in Nat /\ Len(plan.data) \in Nat
      /\ plan.data \in Seq(V)
  BY DEF SoundPlan
<1>4. Readable(g, content_key, sz, i) <=> plaintext_len(plan.new, i) = plaintext_len(sz, i)
  BY <1>1, <1>2 DEF Readable, EditedBlock
<1>5. ASSUME Readable(g, content_key, sz, i), NEW p \in 1 .. plaintext_len(sz, i)
      PROVE  g[i].plain[p] \in m2[(i * B + p) - 1]
  <2> DEFINE q == (i * B + p) - 1
  <2>1. p \in 1 .. plaintext_len(plan.new, i)
    BY <1>4, <1>5
  <2>2. p \in 1 .. B /\ q \in Nat /\ q < sz /\ i * B \in Nat
    BY BlockBytes
  <2>3. q < plan.new
    BY <2>1, <1>3, BlockBytes
  <2>4. q + 1 = i * B + p
    BY <2>2
  <2>5. e[p] = IF Covers(plan, i * B + p) THEN plan.data[(i * B + p) - plan.offset]
               ELSE IF i * B + p <= plan.old THEN f[i].plain[p] ELSE 0
    BY <1>1, <2>1 DEF EditedBlock
  <2> HIDE DEF q
  <2>6. e[p] = IF Covers(plan, q + 1) THEN plan.data[(q + 1) - plan.offset]
               ELSE IF q + 1 <= plan.old THEN f[i].plain[p] ELSE 0
    BY <2>4, <2>5
  <2>7. Covers(plan, q + 1) <=> InData(plan, q)
    BY <1>3, <2>2 DEF Covers, InData
  <2>8. CASE InData(plan, q)
    <3>1. (q + 1) - plan.offset = (q - plan.offset) + 1
      BY <1>3, <2>2
    <3>2. e[p] = Written(plan, q)
      BY <2>6, <2>7, <2>8, <3>1 DEF Written
    <3>3. Written(plan, q) \in m2[q]
      BY <2>2, <2>3, <2>8 DEF Absorbs
    <3> QED BY <1>2, <3>2, <3>3 DEF q
  <2>9. CASE ~InData(plan, q) /\ q < plan.old
    <3>1. q + 1 <= plan.old
      BY <1>3, <2>2, <2>9
    <3>2. e[p] = f[i].plain[p]
      BY <2>6, <2>7, <2>9, <3>1
    <3>3. i * B < plan.old
      BY <1>3, <2>2, <2>4, <3>1
    <3>4. p \in 1 .. plaintext_len(plan.old, i)
      <4>1. p <= plaintext_len(plan.old, i) <=> i * B + p <= plan.old
        BY <1>3, <2>2, PlaintextLen
      <4>2. plaintext_len(plan.old, i) \in 0 .. B
        BY <1>3, PlaintextLen
      <4> QED BY <2>2, <2>4, <3>1, <4>1, <4>2
    <3>5. f[i].plain[p] \in m[q]
      BY <3>3, <3>4 DEF q
    <3>6. m[q] \subseteq m2[q]
      BY <2>2, <2>3, <2>9 DEF Absorbs
    <3> QED BY <1>2, <3>2, <3>5, <3>6 DEF q
  <2>10. CASE ~InData(plan, q) /\ ~(q < plan.old)
    <3>1. q >= plan.old /\ ~(q + 1 <= plan.old)
      BY <1>3, <2>2, <2>10
    <3>2. e[p] = 0
      BY <2>6, <2>7, <2>10, <3>1
    <3>3. 0 \in m2[q]
      BY <2>2, <2>3, <2>10, <3>1 DEF Absorbs
    <3> QED BY <1>2, <3>2, <3>3 DEF q
  <2> QED BY <2>8, <2>9, <2>10
<1> QED BY <1>4, <1>5 DEF Serves

-----------------------------------------------------------------------------
(* The whole file *)

\* A data file that can be edited, as the file of plan.old bytes with the array m.
Editable(f, plan, m, h, k) ==
    /\ f # Missing
    /\ FileOK(f)
    /\ SoundPlan(plan, V)
    /\ View(f, plan.old, m, h)
    /\ \A i \in plan.from .. k - 1 : CanEdit(f, content_key, plan, i)

LEMMA EditedIsSound ==
    ASSUME NEW f, NEW plan, NEW m, NEW h, NEW k \in Nat, Editable(f, plan, m, h, k),
           NEW i \in Nat, i \in plan.from .. k - 1, i * B < plan.old
    PROVE  /\ Readable(f, content_key, plan.old, i)
           /\ f[i].plain \in Seq(V)
           /\ \A p \in 1 .. plaintext_len(plan.old, i) : f[i].plain[p] \in m[(i * B + p) - 1]
<1>1. plan.old \in Nat
  BY DEF Editable, SoundPlan
<1>2. block_count(plan.old) \in Nat /\ i < block_count(plan.old)
  BY <1>1, BlockCount
<1>3. Readable(f, content_key, plan.old, i)
  BY <1>2 DEF Editable, CanEdit
<1>4. Serves(f, plan.old, m, h, i)
  <2>1. i \in 0 .. block_count(plan.old) - 1
    BY <1>2
  <2> QED BY <2>1 DEF Editable, View
<1>5. i \in DOMAIN f
  BY <1>3 DEF Readable
<1> QED BY <1>3, <1>4, <1>5 DEF Serves, Editable, FileOK

LEMMA ViewBlock ==
    ASSUME NEW f, NEW sz \in Nat, NEW m, NEW h, View(f, sz, m, h), NEW i \in Nat, i * B < sz
    PROVE  Serves(f, sz, m, h, i)
<1>1. block_count(sz) \in Nat /\ i < block_count(sz)
  BY BlockCount
<1>2. i \in 0 .. block_count(sz) - 1
  BY <1>1
<1> QED BY <1>2 DEF View

LEMMA ViewBlocks ==
    ASSUME NEW f, NEW sz \in Nat, NEW m, NEW h,
           \A i \in Nat : i * B < sz => Serves(f, sz, m, h, i)
    PROVE  View(f, sz, m, h)
<1>1. block_count(sz) \in Nat /\ \A i \in Nat : i < block_count(sz) <=> i * B < sz
  BY BlockCount
<1>2. \A i \in 0 .. block_count(sz) - 1 : i \in Nat /\ i < block_count(sz)
  BY <1>1
<1> QED BY <1>1, <1>2 DEF View

\* Blocks before the ones a plan re-seals are full, before and after, and have none
\* of its bytes.
LEMMA BeforeThePlan ==
    ASSUME NEW plan, SoundPlan(plan, V), NEW i \in Nat, i < plan.from, NEW m, NEW m2,
           NEW sz \in Nat, Absorbs(plan, m, m2, sz), sz >= plan.new
    PROVE  /\ plaintext_len(plan.old, i) = B
           /\ plaintext_len(plan.new, i) = B
           /\ i * B < plan.old
           /\ i * B < plan.offset
           /\ \A p \in 1 .. B : m[(i * B + p) - 1] \subseteq m2[(i * B + p) - 1]
<1>1. /\ plan.old \in Nat /\ plan.new \in Nat /\ plan.offset \in Nat
      /\ i * B + B <= plan.offset /\ i * B + B <= plan.old /\ i * B + B <= plan.new
  BY DEF SoundPlan
<1>2. i * B \in Nat /\ B \in Nat /\ B > 0
  BY Multiple
<1>3. plaintext_len(plan.old, i) = B /\ plaintext_len(plan.new, i) = B
  BY <1>1, PlaintextLen
<1>4. i * B < plan.old /\ i * B < plan.offset
  BY <1>1, <1>2
<1>5. ASSUME NEW p \in 1 .. B PROVE m[(i * B + p) - 1] \subseteq m2[(i * B + p) - 1]
  <2> DEFINE q == (i * B + p) - 1
  <2>1. q \in Nat /\ q < plan.offset /\ q < plan.old /\ q < plan.new /\ q < sz
    BY <1>1, <1>2
  <2> HIDE DEF q
  <2>2. ~InData(plan, q)
    BY <1>1, <2>1 DEF InData
  <2>3. m[q] \subseteq m2[q]
    BY <2>1, <2>2 DEF Absorbs
  <2> QED BY <2>3 DEF q
<1> QED BY <1>3, <1>4, <1>5

\* After a plan that went through, the file serves its new size.
LEMMA AppliedView ==
    ASSUME NEW f, NEW plan, NEW m, NEW h, Editable(f, plan, m, h, plan.until), Opens(plan),
           NEW m2, NEW h2, Absorbs(plan, m, m2, plan.new),
           \A b \in h : b * B < plan.offset => b \in h2
    PROVE  View(Applied(f, content_key, plan), plan.new, m2, h2)
<1> DEFINE g == Applied(f, content_key, plan)
<1>1. SoundPlan(plan, V) /\ f # Missing /\ View(f, plan.old, m, h)
  BY DEF Editable
<1>2. BlocksAfter(g, f, content_key, plan)
  BY <1>1, AppliedBlocks
<1> HIDE DEF g
<1>3. /\ plan.new \in Nat /\ plan.old \in Nat /\ plan.from \in Nat /\ plan.from <= plan.until
      /\ plan.until = block_count(plan.new) /\ plan.until \in Nat
      /\ \A i \in Nat : i < plan.until <=> i * B < plan.new
  BY <1>1, BlockCount DEF SoundPlan
<1>4. ASSUME NEW i \in Nat, i * B < plan.new PROVE Serves(g, plan.new, m2, h2, i)
  <2>1. i < plan.until
    BY <1>3, <1>4
  <2>2. CASE i < plan.from
    <3>1. /\ plaintext_len(plan.old, i) = B /\ plaintext_len(plan.new, i) = B
          /\ i * B < plan.old /\ i * B < plan.offset
          /\ \A p \in 1 .. B : m[(i * B + p) - 1] \subseteq m2[(i * B + p) - 1]
      BY <1>1, <1>3, <2>2, BeforeThePlan
    <3>2. Serves(f, plan.old, m, h, i)
      BY <1>1, <1>3, <3>1, ViewBlock
    <3>3. i \in 0 .. plan.until - 1 /\ i \in 0 .. plan.from - 1 /\ i \notin plan.from .. plan.until - 1
      BY <1>3, <2>1, <2>2
    <3>4. (i \in DOMAIN g <=> i \in DOMAIN f) /\ (i \in DOMAIN f => g[i] = f[i])
      BY <1>2, <3>3 DEF BlocksAfter
    <3>5. i \in h => i \in h2
      BY <3>1
    <3> QED BY <1>3, <3>1, <3>2, <3>4, <3>5, KeptServes
  <2>3. CASE ~(i < plan.from)
    <3>1. i \in plan.from .. plan.until - 1 /\ i \in 0 .. plan.until - 1
      BY <1>3, <2>1, <2>3
    <3>2. i \in DOMAIN g /\ g[i] = Sealed(content_key, i, edited(f, plan, i))
      BY <1>2, <3>1 DEF BlocksAfter
    <3>3. i * B < plan.old =>
              /\ Readable(f, content_key, plan.old, i)
              /\ f[i].plain \in Seq(V)
              /\ \A p \in 1 .. plaintext_len(plan.old, i) : f[i].plain[p] \in m[(i * B + p) - 1]
      BY <1>3, <3>1, EditedIsSound
    <3> QED BY <1>1, <1>3, <3>2, <3>3, EditedServes
  <2> QED BY <2>2, <2>3
<1>5. View(g, plan.new, m2, h2)
  BY <1>3, <1>4, ViewBlocks
<1> QED BY <1>5 DEF g

\* It also serves a size that was saved earlier, but for the blocks whose length
\* changed.
LEMMA AppliedSavedView ==
    ASSUME NEW f, NEW plan, NEW m, NEW h, Editable(f, plan, m, h, plan.until), Opens(plan),
           NEW sz \in Nat, NEW ms, NEW hs, View(f, sz, ms, hs),
           NEW m2, NEW h2, Absorbs(plan, m, m2, sz),
           \A q \in Nat : q < sz => ms[q] \subseteq m2[q],
           hs \subseteq h2,
           \A b \in Nat : b * B < sz /\ plaintext_len(sz, b) # plaintext_len(plan.new, b) => b \in h2
    PROVE  View(Applied(f, content_key, plan), sz, m2, h2)
<1> DEFINE g == Applied(f, content_key, plan)
<1>1. SoundPlan(plan, V) /\ f # Missing
  BY DEF Editable
<1>2. BlocksAfter(g, f, content_key, plan)
  BY <1>1, AppliedBlocks
<1> HIDE DEF g
<1>3. /\ plan.new \in Nat /\ plan.old \in Nat /\ plan.from \in Nat /\ plan.from <= plan.until
      /\ plan.until = block_count(plan.new) /\ plan.until \in Nat
      /\ \A i \in Nat : i < plan.until <=> i * B < plan.new
  BY <1>1, BlockCount DEF SoundPlan
<1>4. ASSUME NEW i \in Nat, i * B < sz PROVE Serves(g, sz, m2, h2, i)
  <2>1. CASE i < plan.from
    <3>1. Serves(f, sz, ms, hs, i)
      BY <1>4, ViewBlock
    <3>2. i \in 0 .. plan.until - 1 /\ i \in 0 .. plan.from - 1 /\ i \notin plan.from .. plan.until - 1
      BY <1>3, <2>1
    <3>3. (i \in DOMAIN g <=> i \in DOMAIN f) /\ (i \in DOMAIN f => g[i] = f[i])
      BY <1>2, <3>2 DEF BlocksAfter
    <3>4. \A p \in 1 .. plaintext_len(sz, i) : ms[(i * B + p) - 1] \subseteq m2[(i * B + p) - 1]
      BY BlockBytes
    <3> QED BY <3>1, <3>3, <3>4, KeptServes
  <2>2. CASE ~(i < plan.from) /\ i < plan.until
    <3>1. i \in plan.from .. plan.until - 1 /\ i \in 0 .. plan.until - 1
      BY <1>3, <2>2
    <3>2. i \in DOMAIN g /\ g[i] = Sealed(content_key, i, edited(f, plan, i))
      BY <1>2, <3>1 DEF BlocksAfter
    <3>3. i * B < plan.old =>
              /\ Readable(f, content_key, plan.old, i)
              /\ f[i].plain \in Seq(V)
              /\ \A p \in 1 .. plaintext_len(plan.old, i) : f[i].plain[p] \in m[(i * B + p) - 1]
      BY <1>3, <3>1, EditedIsSound
    <3>4. i \notin h2 => plaintext_len(plan.new, i) = plaintext_len(sz, i)
      BY <1>4
    <3> QED BY <1>1, <1>3, <3>2, <3>3, <3>4, EditedServes
  <2>3. CASE ~(i < plan.until)
    <3>1. ~(i * B < plan.new)
      BY <1>3, <2>3
    <3>2. plaintext_len(plan.new, i) = 0 /\ plaintext_len(sz, i) > 0
      <4>1. i * B \in Nat
        BY Multiple
      <4>2. \A n \in Nat : i * B >= n => plaintext_len(n, i) = 0
        BY PlaintextLen
      <4>3. i * B >= plan.new
        BY <1>3, <3>1, <4>1
      <4>4. plaintext_len(sz, i) > 0
        BY <1>4, PlaintextLen
      <4> QED BY <1>3, <4>2, <4>3, <4>4
    <3>3. i \in h2
      BY <1>4, <3>2
    <3>4. i \notin DOMAIN g
      BY <1>2, <1>3, <2>3 DEF BlocksAfter
    <3> QED BY <3>3, <3>4 DEF Serves, Readable
  <2> QED BY <2>1, <2>2, <2>3
<1>5. View(g, sz, m2, h2)
  BY <1>4, ViewBlocks
<1> QED BY <1>5 DEF g

\* What a plan that was cut short at block k leaves, under any size.
LEMMA ResealedView ==
    ASSUME NEW f, NEW plan, NEW m, NEW h, NEW k \in Nat, Editable(f, plan, m, h, k),
           NEW sz \in Nat, NEW ms, NEW hs, View(f, sz, ms, hs),
           NEW m2, NEW h2, Absorbs(plan, m, m2, sz),
           \A q \in Nat : q < sz => ms[q] \subseteq m2[q],
           hs \subseteq h2,
           \A i \in Nat : i \in plan.from .. k - 1 /\ i * B < sz /\ i \notin h2
                              => plaintext_len(plan.new, i) = plaintext_len(sz, i)
    PROVE  View(Resealed(f, content_key, plan, k), sz, m2, h2)
<1> DEFINE g == Resealed(f, content_key, plan, k)
           S == plan.from .. k - 1
<1>1. SoundPlan(plan, V) /\ f # Missing
  BY DEF Editable
<1>2. g = [j \in DOMAIN f \cup S |-> IF j \in S THEN Sealed(content_key, j, edited(f, plan, j)) ELSE f[j]]
  BY DEF Resealed
<1> HIDE DEF g
<1>3. ASSUME NEW i \in Nat, i * B < sz PROVE Serves(g, sz, m2, h2, i)
  <2>1. CASE i \in S
    <3>1. i \in DOMAIN g /\ g[i] = Sealed(content_key, i, edited(f, plan, i))
      BY <1>2, <2>1
    <3>2. i * B < plan.old =>
              /\ Readable(f, content_key, plan.old, i)
              /\ f[i].plain \in Seq(V)
              /\ \A p \in 1 .. plaintext_len(plan.old, i) : f[i].plain[p] \in m[(i * B + p) - 1]
      BY <2>1, EditedIsSound
    <3>3. i \notin h2 => plaintext_len(plan.new, i) = plaintext_len(sz, i)
      BY <1>3, <2>1
    <3> QED BY <1>1, <3>1, <3>2, <3>3, EditedServes
  <2>2. CASE i \notin S
    <3>1. (i \in DOMAIN g <=> i \in DOMAIN f) /\ (i \in DOMAIN f => g[i] = f[i])
      BY <1>2, <2>2
    <3>2. Serves(f, sz, ms, hs, i)
      BY <1>3, ViewBlock
    <3>3. \A p \in 1 .. plaintext_len(sz, i) : ms[(i * B + p) - 1] \subseteq m2[(i * B + p) - 1]
      BY BlockBytes
    <3>4. i \in hs => i \in h2
      OBVIOUS
    <3> QED BY <3>1, <3>2, <3>3, <3>4, KeptServes
  <2> QED BY <2>1, <2>2
<1>4. View(g, sz, m2, h2)
  BY <1>3, ViewBlocks
<1> QED BY <1>4 DEF g

\* A torn block serves nobody, and nobody relies on it.
LEMMA TornView ==
    ASSUME NEW f, NEW sz \in Nat, NEW m, NEW h, View(f, sz, m, h), NEW k \in Nat, k * B < sz => k \in h
    PROVE  View(tear_block(f, k), sz, m, h)
<1> DEFINE g == tear_block(f, k)
<1>1. g = [j \in DOMAIN f \cup {k} |-> IF j = k THEN Torn(k) ELSE f[j]]
  BY DEF tear_block
<1> HIDE DEF g
<1>2. ASSUME NEW i \in Nat, i * B < sz PROVE Serves(g, sz, m, h, i)
  <2>1. CASE i = k
    <3>1. g[i].plain = <<>>
      BY <1>1, <2>1 DEF Torn
    <3>2. plaintext_len(sz, i) > 0
      BY <1>2, PlaintextLen
    <3>3. ~Readable(g, content_key, sz, i)
      BY <3>1, <3>2 DEF Readable
    <3> QED BY <1>2, <2>1, <3>3 DEF Serves
  <2>2. CASE i # k
    <3>1. (i \in DOMAIN g <=> i \in DOMAIN f) /\ (i \in DOMAIN f => g[i] = f[i])
      BY <1>1, <2>2
    <3>2. Serves(f, sz, m, h, i)
      BY <1>2, ViewBlock
    <3> QED BY <3>1, <3>2, KeptServes
  <2> QED BY <2>1, <2>2
<1>3. View(g, sz, m, h)
  BY <1>2, ViewBlocks
<1> QED BY <1>3 DEF g

\* What becomes of blocks in a view that allows for more.
LEMMA ViewGrows ==
    ASSUME NEW f, NEW sz \in Nat, NEW m, NEW h, View(f, sz, m, h), NEW m2, NEW h2,
           \A q \in Nat : q < sz => m[q] \subseteq m2[q], h \subseteq h2
    PROVE  View(f, sz, m2, h2)
<1>1. ASSUME NEW i \in Nat, i * B < sz PROVE Serves(f, sz, m2, h2, i)
  <2>1. Serves(f, sz, m, h, i)
    BY <1>1, ViewBlock
  <2>2. \A p \in 1 .. plaintext_len(sz, i) : m[(i * B + p) - 1] \subseteq m2[(i * B + p) - 1]
    BY BlockBytes
  <2>3. i \in h => i \in h2
    OBVIOUS
  <2> QED BY <2>1, <2>2, <2>3, KeptServes
<1> QED BY <1>1, ViewBlocks

LEMMA SizeBounds ==
    ASSUME NEW n \in Nat, n <= MaxSize, NEW i \in Nat, i < block_count(n)
    PROVE  i \in 0 .. MaxSize
<1>1. i * B < n /\ i * B \in Nat /\ B \in Nat /\ B > 0 /\ MaxSize \in Nat
  BY BlockCount, Multiple, BlockFileAssumption
<1>2. i <= i * B
  BY <1>1, Z3
<1> QED BY <1>1, <1>2

\* Re-sealed blocks are blocks of the format.
LEMMA ResealedOK ==
    ASSUME NoFileIsMissing, NEW f, NEW plan, NEW m, NEW h, NEW k \in Nat, Editable(f, plan, m, h, k),
           plan.new <= MaxSize, k <= plan.until
    PROVE  FileOK(Resealed(f, content_key, plan, k)) /\ Resealed(f, content_key, plan, k) # Missing
<1> DEFINE g == Resealed(f, content_key, plan, k)
           S == plan.from .. k - 1
<1>1. /\ SoundPlan(plan, V) /\ f # Missing /\ FileOK(f)
      /\ plan.new \in Nat /\ plan.from \in Nat /\ plan.until = block_count(plan.new) /\ plan.until \in Nat
  BY BlockCount DEF Editable, SoundPlan
<1>2. g = [j \in DOMAIN f \cup S |-> IF j \in S THEN Sealed(content_key, j, edited(f, plan, j)) ELSE f[j]]
  BY DEF Resealed
<1> HIDE DEF g
<1>3. ASSUME NEW i \in S
      PROVE  i \in 0 .. MaxSize /\ edited(f, plan, i) \in Seq(V) /\ Len(edited(f, plan, i)) <= B
  <2>1. i \in Nat /\ i < block_count(plan.new) /\ i \in plan.from .. k - 1
    BY <1>1
  <2>2. i \in 0 .. MaxSize
    BY <1>1, <2>1, SizeBounds
  <2>3. i * B < plan.old => f[i].plain \in Seq(V) /\ Len(f[i].plain) = plaintext_len(plan.old, i)
    BY <2>1, EditedIsSound DEF Readable
  <2>4. EditedBlock(edited(f, plan, i), f, plan, i, V)
    <3>1. 0 \in V
      BY DEF V
    <3> QED BY <1>1, <2>1, <2>3, <3>1, Edited
  <2>5. plaintext_len(plan.new, i) \in 0 .. B
    BY <1>1, <2>1, PlaintextLen
  <2>6. B \in Nat
    BY BAssumption
  <2> QED BY <2>2, <2>4, <2>5, <2>6 DEF EditedBlock
<1>4. g = [i \in DOMAIN g |-> g[i]] /\ DOMAIN g \subseteq 0 .. MaxSize
  BY <1>1, <1>2, <1>3 DEF FileOK
<1>5. \A i \in DOMAIN g : g[i].index = i /\ g[i].plain \in Seq(V) /\ Len(g[i].plain) <= B
  BY <1>1, <1>2, <1>3 DEF FileOK, Sealed
<1>6. 0 .. MaxSize \subseteq Nat
  BY BlockFileAssumption
<1> QED BY <1>4, <1>5, <1>6 DEF FileOK, NoFileIsMissing, g

LEMMA SetLenOK ==
    ASSUME NoFileIsMissing, NEW f, FileOK(f), f # Missing, NEW n
    PROVE  FileOK(set_len(f, n)) /\ set_len(f, n) # Missing
<1> DEFINE g == set_len(f, n)
<1>1. g = [j \in DOMAIN f \cap (0 .. n - 1) |-> f[j]]
  BY DEF set_len
<1> HIDE DEF g
<1>2. g = [i \in DOMAIN g |-> g[i]] /\ DOMAIN g \subseteq 0 .. MaxSize
  BY <1>1 DEF FileOK
<1>3. \A i \in DOMAIN g : g[i].index = i /\ g[i].plain \in Seq(V) /\ Len(g[i].plain) <= B
  BY <1>1 DEF FileOK
<1>4. 0 .. MaxSize \subseteq Nat
  BY BlockFileAssumption
<1> QED BY <1>2, <1>3, <1>4 DEF FileOK, NoFileIsMissing, g

LEMMA TornOK ==
    ASSUME NoFileIsMissing, NEW f, FileOK(f), f # Missing, NEW k \in 0 .. MaxSize
    PROVE  FileOK(tear_block(f, k)) /\ tear_block(f, k) # Missing
<1> DEFINE g == tear_block(f, k)
<1>1. g = [j \in DOMAIN f \cup {k} |-> IF j = k THEN Torn(k) ELSE f[j]]
  BY DEF tear_block
<1>2. Torn(k).index = k /\ Torn(k).plain = <<>> /\ Torn(k).plain \in Seq(V) /\ Len(Torn(k).plain) <= B
  BY BAssumption DEF Torn
<1> HIDE DEF g
<1>3. g = [i \in DOMAIN g |-> g[i]] /\ DOMAIN g \subseteq 0 .. MaxSize
  BY <1>1 DEF FileOK
<1>4. \A i \in DOMAIN g : g[i].index = i /\ g[i].plain \in Seq(V) /\ Len(g[i].plain) <= B
  BY <1>1, <1>2 DEF FileOK
<1>5. 0 .. MaxSize \subseteq Nat
  BY BlockFileAssumption
<1> QED BY <1>3, <1>4, <1>5 DEF FileOK, NoFileIsMissing, g

-----------------------------------------------------------------------------
(* Plans *)

\* What the steps need of a plan.
GoodPlan(plan) ==
    /\ SoundPlan(plan, V)
    /\ plan.old = size
    /\ plan.new <= MaxSize
    /\ HarmHalf(plan) \subseteq Nat
    /\ \A i \in Nat : i \in HarmHalf(plan) => i * B < plan.old
    /\ \A i \in Nat : plan.from <= i /\ i * B < plan.old => i \in HarmHalf(plan)

LEMMA DivMonotone ==
    ASSUME NEW a \in Nat, NEW b \in Nat, a <= b
    PROVE  a \div B <= b \div B
<1>1. B \in Nat /\ B > 0
  BY BAssumption
<1> QED BY <1>1, Z3

\* The blocks that an interrupted plan may have touched are the ones it vouches for.
LEMMA HarmCovers ==
    ASSUME NEW old \in Nat, NEW plan, plan.old = old, plan.from \in Nat,
           NEW edge \in Nat, edge = IF plan.data = <<>> THEN saturating_pred(plan.new) ELSE plan.offset,
           Least(edge \div B, saturating_pred(block_count(old))) <= plan.from
    PROVE  /\ HarmHalf(plan) \subseteq Nat
           /\ \A i \in Nat : i \in HarmHalf(plan) => i * B < old
           /\ \A i \in Nat : plan.from <= i /\ i * B < old => i \in HarmHalf(plan)
<1> DEFINE n == block_count(old)
           first == Least(edge \div B, saturating_pred(n))
<1>1. n \in Nat /\ \A i \in Nat : i < n <=> i * B < old
  BY BlockCount
<1>2. edge \div B \in Nat
  BY Division
<1>3. HarmHalf(plan) = first .. n - 1
  BY DEF HarmHalf
<1> HIDE DEF n
<1>4. first \in Nat /\ first <= plan.from
  BY <1>1, <1>2 DEF Least, saturating_pred, n
<1> HIDE DEF first
<1> QED BY <1>1, <1>3, <1>4

LEMMA PlansAreGood ==
    ASSUME size \in 0 .. MaxSize, NEW plan \in Plans
    PROVE  GoodPlan(plan)
<1> DEFINE n == block_count(size)
<1>0. size \in Nat /\ size <= MaxSize /\ MaxSize \in Nat /\ n \in Nat /\ saturating_pred(n) \in Nat
  BY BlockFileAssumption, BlockCount DEF saturating_pred
<1>1. CASE \E w \in Writes : plan = write_range(size, w[1], w[2])
  <2>1. PICK w \in Writes : plan = write_range(size, w[1], w[2])
    BY <1>1
  <2> DEFINE a == w[1]
             d == w[2]
  <2>2. a \in Nat /\ a + Len(d) <= MaxSize /\ \E k \in 1 .. MaxWrite : d \in [1 .. k -> Byte]
    BY BlockFileAssumption DEF Writes
  <2>3. d \in Seq(V) /\ d # <<>> /\ Len(d) \in Nat
    <3>1. PICK k \in 1 .. MaxWrite : d \in [1 .. k -> Byte]
      BY <2>2
    <3>2. k \in Nat /\ k # 0
      BY BlockFileAssumption
    <3>3. d \in [1 .. k -> V]
      BY <3>1 DEF V
    <3>4. d \in Seq(V) /\ Len(d) = k
      BY <3>2, <3>3
    <3> QED BY <3>2, <3>4
  <2> HIDE DEF a, d
  <2>4. plan = write_range(size, a, d)
    BY <2>1 DEF a, d
  <2>5. /\ SoundPlan(plan, V) /\ plan.old = size /\ plan.new = Most(size, a + Len(d))
        /\ plan.data = d /\ plan.offset = a
    <3>1. \A x, y \in Nat : \A z \in Seq(V) :
            /\ SoundPlan(write_range(x, y, z), V) /\ write_range(x, y, z).old = x
            /\ write_range(x, y, z).new = Most(x, y + Len(z))
            /\ write_range(x, y, z).data = z /\ write_range(x, y, z).offset = y
      BY WritePlan
    <3>2. size \in Nat /\ a \in Nat /\ d \in Seq(V)
      BY <1>0, <2>2, <2>3
    <3> DEFINE q == write_range(size, a, d)
    <3>3. /\ SoundPlan(q, V) /\ q.old = size /\ q.new = Most(size, a + Len(d))
          /\ q.data = d /\ q.offset = a
      BY <3>1, <3>2
    <3>4. plan = q
      BY <2>4
    <3> HIDE DEF q
    <3> QED BY <3>3, <3>4
  <2>6. plan.from = Least(a \div B, saturating_pred(n))
    BY <2>4 DEF write_range
  <2>7. a \div B \in Nat
    BY <2>2, Division
  <2>8. plan.from \in Nat /\ Least(a \div B, saturating_pred(n)) <= plan.from
    BY <1>0, <2>6, <2>7 DEF Least
  <2>9. a = IF plan.data = <<>> THEN saturating_pred(plan.new) ELSE plan.offset
    BY <2>3, <2>5
  <2>10. /\ HarmHalf(plan) \subseteq Nat
         /\ \A i \in Nat : i \in HarmHalf(plan) => i * B < size
         /\ \A i \in Nat : plan.from <= i /\ i * B < size => i \in HarmHalf(plan)
    BY <1>0, <2>2, <2>5, <2>8, <2>9, HarmCovers
  <2>11. plan.new <= MaxSize
    BY <1>0, <2>2, <2>3, <2>5 DEF Most
  <2> QED BY <2>5, <2>10, <2>11 DEF GoodPlan
<1>2. CASE \E new \in 0 .. MaxSize : plan = truncate(size, new)
  <2>1. PICK new \in 0 .. MaxSize : plan = truncate(size, new)
    BY <1>2
  <2>2. new \in Nat /\ new <= MaxSize
    BY <1>0
  <2>3. /\ SoundPlan(plan, V) /\ plan.old = size /\ plan.new = new /\ plan.data = <<>> /\ plan.offset = new
    <3>1. \A x, y \in Nat :
            /\ SoundPlan(truncate(x, y), V) /\ truncate(x, y).old = x /\ truncate(x, y).new = y
            /\ truncate(x, y).data = <<>> /\ truncate(x, y).offset = y
      BY TruncatePlan
    <3> QED BY <1>0, <2>1, <2>2, <3>1
  <2> DEFINE edge == saturating_pred(new)
  <2>4. edge \in Nat /\ edge <= new /\ edge \div B \in Nat
    <3>1. edge \in Nat /\ edge <= new
      BY <2>2 DEF saturating_pred
    <3> QED BY <3>1, Division
  <2>5. plan.from \in Nat
    BY <2>3 DEF SoundPlan
  <2>6. edge = IF plan.data = <<>> THEN saturating_pred(plan.new) ELSE plan.offset
    BY <2>3
  <2>7. Least(edge \div B, saturating_pred(n)) <= plan.from
    <3>1. CASE new > size
      <4>1. plan.from = Least(new \div B, saturating_pred(n))
        BY <2>1, <3>1 DEF truncate, write_range
      <4>2. edge \div B <= new \div B /\ new \div B \in Nat
        BY <2>2, <2>4, DivMonotone, Division
      <4> HIDE DEF edge, n
      <4> QED BY <1>0, <2>4, <4>1, <4>2 DEF Least
    <3>2. CASE ~(new > size)
      <4>1. plan.from = saturating_pred(block_count(new))
        BY <2>1, <3>2 DEF truncate, shrink
      <4>2. edge \div B <= saturating_pred(block_count(new))
        <5>1. block_count(new) \in Nat /\ \A i \in Nat : i < block_count(new) <=> i * B < new
          BY <2>2, BlockCount
        <5>2. CASE new = 0
          <6>1. edge = 0
            BY <5>2 DEF saturating_pred
          <6>2. (edge \div B) * B <= edge
            BY <2>4, Division
          <6>3. edge \div B = 0
            <7>1. \A x \in Nat : x * B <= 0 => x = 0
              BY BAssumption, Z3
            <7> QED BY <2>4, <6>1, <6>2, <7>1
          <6>4. saturating_pred(block_count(new)) \in Nat
            BY <5>1 DEF saturating_pred
          <6> QED BY <6>3, <6>4
        <5>3. CASE new # 0
          <6>1. edge = new - 1 /\ edge < new
            BY <2>2, <5>3 DEF saturating_pred
          <6>2. (edge \div B) * B <= edge /\ (edge \div B) * B \in Nat
            BY <2>4, Division, Multiple
          <6>3. (edge \div B) * B < new
            BY <2>2, <2>4, <6>1, <6>2
          <6>4. edge \div B < block_count(new)
            BY <2>4, <5>1, <6>3
          <6> HIDE DEF edge
          <6> QED BY <2>4, <5>1, <6>4 DEF saturating_pred
        <5> QED BY <5>2, <5>3
      <4>3. saturating_pred(block_count(new)) \in Nat
        BY <2>5, <4>1
      <4> HIDE DEF edge, n
      <4> QED BY <1>0, <2>4, <4>1, <4>2, <4>3 DEF Least
    <3> QED BY <3>1, <3>2
  <2> HIDE DEF edge
  <2>8. /\ HarmHalf(plan) \subseteq Nat
        /\ \A i \in Nat : i \in HarmHalf(plan) => i * B < size
        /\ \A i \in Nat : plan.from <= i /\ i * B < size => i \in HarmHalf(plan)
    BY <1>0, <2>3, <2>4, <2>5, <2>6, <2>7, HarmCovers
  <2> QED BY <2>2, <2>3, <2>8 DEF GoodPlan
<1> QED BY <1>1, <1>2 DEF Plans

-----------------------------------------------------------------------------
(* Arrays *)

LEMMA Arrays ==
    ASSUME IInv
    PROVE  /\ size \in Nat /\ size <= MaxSize /\ saved \in Nat /\ saved <= MaxSize /\ MaxSize \in Nat
           /\ size \in 0 .. MaxSize
           /\ may \in [0 .. size - 1 -> SUBSET V]
           /\ saved_may \in [0 .. saved - 1 -> SUBSET V]
           /\ harm \subseteq 0 .. MaxSize /\ saved_harm \subseteq 0 .. MaxSize
  BY BlockFileAssumption DEF IInv, TypeOK, V

\* The values of the arrays that the outcomes leave, position by position.
LEMMA AfterAt ==
    ASSUME NEW plan, NEW p \in 0 .. plan.new - 1
    PROVE  MayAfter(plan)[p] = IF InData(plan, p) THEN {Written(plan, p)}
                               ELSE IF p < plan.old THEN may[p] ELSE {0}
  BY DEF MayAfter

LEMMA HalfAt ==
    ASSUME IInv, NEW plan, NEW p \in 0 .. size - 1
    PROVE  MayHalf(may, plan)[p] = may[p] \cup (IF InData(plan, p) THEN {Written(plan, p)} ELSE {})
<1>1. DOMAIN may = 0 .. size - 1
  BY Arrays
<1> QED BY <1>1 DEF MayHalf

LEMMA SavedAt ==
    ASSUME IInv, NEW plan, NEW p \in 0 .. saved - 1
    PROVE  SavedMayAfter(plan)[p] = (saved_may[p] \cup (IF InData(plan, p) THEN {Written(plan, p)} ELSE {}))
                                      \cup (IF plan.old <= p /\ p < plan.new THEN {0} ELSE {})
<1>1. DOMAIN saved_may = 0 .. saved - 1
  BY Arrays
<1>2. MayHalf(saved_may, plan)[p] = saved_may[p] \cup (IF InData(plan, p) THEN {Written(plan, p)} ELSE {})
  BY <1>1 DEF MayHalf
<1> QED BY <1>1, <1>2 DEF SavedMayAfter

LEMMA WrittenIsByte ==
    ASSUME NEW plan, SoundPlan(plan, V), NEW p \in Nat, InData(plan, p)
    PROVE  Written(plan, p) \in V
<1>1. plan.offset \in Nat /\ plan.data \in Seq(V) /\ Len(plan.data) \in Nat
  BY DEF SoundPlan
<1>2. (p - plan.offset) + 1 \in 1 .. Len(plan.data)
  BY <1>1 DEF InData
<1> QED BY <1>1, <1>2 DEF Written

LEMMA ArraysAfter ==
    ASSUME IInv, NEW plan, GoodPlan(plan)
    PROVE  /\ MayAfter(plan) \in [0 .. plan.new - 1 -> SUBSET V]
           /\ MayHalf(may, plan) \in [0 .. size - 1 -> SUBSET V]
           /\ SavedMayAfter(plan) \in [0 .. saved - 1 -> SUBSET V]
<1>1. /\ size \in Nat /\ saved \in Nat /\ may \in [0 .. size - 1 -> SUBSET V]
      /\ saved_may \in [0 .. saved - 1 -> SUBSET V] /\ SoundPlan(plan, V) /\ plan.old = size /\ plan.new \in Nat
  BY Arrays DEF GoodPlan, SoundPlan
<1>2. 0 \in V
  BY DEF V
<1>3. \A p \in 0 .. plan.new - 1 : MayAfter(plan)[p] \in SUBSET V
  <2> SUFFICES ASSUME NEW p \in 0 .. plan.new - 1 PROVE MayAfter(plan)[p] \subseteq V
    OBVIOUS
  <2>1. p \in Nat /\ (p < size => may[p] \subseteq V)
    BY <1>1
  <2>2. InData(plan, p) => Written(plan, p) \in V
    BY <1>1, <2>1, WrittenIsByte
  <2> QED BY <1>1, <1>2, <2>1, <2>2, AfterAt
<1>4. \A p \in 0 .. size - 1 : MayHalf(may, plan)[p] \in SUBSET V
  <2> SUFFICES ASSUME NEW p \in 0 .. size - 1 PROVE MayHalf(may, plan)[p] \subseteq V
    OBVIOUS
  <2>1. p \in Nat /\ may[p] \subseteq V
    BY <1>1
  <2>2. InData(plan, p) => Written(plan, p) \in V
    BY <1>1, <2>1, WrittenIsByte
  <2> QED BY <2>1, <2>2, HalfAt
<1>5. \A p \in 0 .. saved - 1 : SavedMayAfter(plan)[p] \in SUBSET V
  <2> SUFFICES ASSUME NEW p \in 0 .. saved - 1 PROVE SavedMayAfter(plan)[p] \subseteq V
    OBVIOUS
  <2>1. p \in Nat /\ saved_may[p] \subseteq V
    BY <1>1
  <2>2. InData(plan, p) => Written(plan, p) \in V
    BY <1>1, <2>1, WrittenIsByte
  <2> QED BY <1>2, <2>1, <2>2, SavedAt
<1>6. MayAfter(plan) = [p \in 0 .. plan.new - 1 |-> MayAfter(plan)[p]]
  BY DEF MayAfter
<1>7. MayHalf(may, plan) = [p \in 0 .. size - 1 |-> MayHalf(may, plan)[p]]
  BY <1>1 DEF MayHalf
<1>8. SavedMayAfter(plan) = [p \in 0 .. saved - 1 |-> SavedMayAfter(plan)[p]]
  BY <1>1 DEF SavedMayAfter
<1> QED BY <1>3, <1>4, <1>5, <1>6, <1>7, <1>8

\* The ghosts allow for what the plan leaves, finished or not, in memory and on disk.
LEMMA GhostsAbsorb ==
    ASSUME IInv, NEW plan, GoodPlan(plan)
    PROVE  /\ Absorbs(plan, may, MayAfter(plan), plan.new)
           /\ Absorbs(plan, may, MayHalf(may, plan), size)
           /\ Absorbs(plan, may, SavedMayAfter(plan), saved)
           /\ \A q \in Nat : q < size => may[q] \subseteq MayHalf(may, plan)[q]
           /\ \A q \in Nat : q < saved => saved_may[q] \subseteq SavedMayAfter(plan)[q]
           /\ \A q \in 0 .. plan.new - 1 : q < saved => MayAfter(plan)[q] \subseteq SavedMayAfter(plan)[q]
           /\ \A q \in 0 .. size - 1 : q < saved => MayHalf(may, plan)[q] \subseteq SavedMayAfter(plan)[q]
<1>1. /\ size \in Nat /\ saved \in Nat /\ plan.old = size /\ plan.new \in Nat
  BY Arrays DEF GoodPlan, SoundPlan
<1>2. \A q \in Nat : q < size /\ q < saved => may[q] \subseteq saved_may[q]
  <2>1. DOMAIN may = 0 .. size - 1
    BY Arrays
  <2> QED BY <1>1, <2>1 DEF IInv, MemoryKnowsBetter
<1>3. \A n \in Nat : \A q \in Nat : q < n => q \in 0 .. n - 1
  OBVIOUS
<1>4. Absorbs(plan, may, MayAfter(plan), plan.new)
  <2> SUFFICES ASSUME NEW q \in Nat, q < plan.new
               PROVE  /\ InData(plan, q) => Written(plan, q) \in MayAfter(plan)[q]
                      /\ ~InData(plan, q) /\ q < plan.old => may[q] \subseteq MayAfter(plan)[q]
                      /\ ~InData(plan, q) /\ q >= plan.old => 0 \in MayAfter(plan)[q]
    BY DEF Absorbs
  <2>1. q \in 0 .. plan.new - 1
    BY <1>1
  <2>2. MayAfter(plan)[q] = IF InData(plan, q) THEN {Written(plan, q)}
                            ELSE IF q < plan.old THEN may[q] ELSE {0}
    BY <2>1, AfterAt
  <2> QED BY <1>1, <2>2
<1>5. Absorbs(plan, may, MayHalf(may, plan), size)
  <2> SUFFICES ASSUME NEW q \in Nat, q < size
               PROVE  /\ InData(plan, q) => Written(plan, q) \in MayHalf(may, plan)[q]
                      /\ may[q] \subseteq MayHalf(may, plan)[q]
    BY <1>1 DEF Absorbs
  <2> QED BY <1>1, <1>3, HalfAt
<1>6. Absorbs(plan, may, SavedMayAfter(plan), saved)
  <2> SUFFICES ASSUME NEW q \in Nat, q < saved, q < plan.new
               PROVE  /\ InData(plan, q) => Written(plan, q) \in SavedMayAfter(plan)[q]
                      /\ q < size => may[q] \subseteq SavedMayAfter(plan)[q]
                      /\ q >= size => 0 \in SavedMayAfter(plan)[q]
    BY <1>1 DEF Absorbs
  <2>1. q \in 0 .. saved - 1
    BY <1>1
  <2> QED BY <1>1, <1>2, <2>1, SavedAt
<1>7. /\ \A q \in Nat : q < size => may[q] \subseteq MayHalf(may, plan)[q]
      /\ \A q \in Nat : q < saved => saved_may[q] \subseteq SavedMayAfter(plan)[q]
  <2>1. ASSUME NEW q \in Nat, q < size PROVE may[q] \subseteq MayHalf(may, plan)[q]
    BY <1>1, <1>3, <2>1, HalfAt
  <2>2. ASSUME NEW q \in Nat, q < saved PROVE saved_may[q] \subseteq SavedMayAfter(plan)[q]
    BY <1>1, <1>3, <2>2, SavedAt
  <2> QED BY <2>1, <2>2
<1>8. ASSUME NEW q \in 0 .. plan.new - 1, q < saved
      PROVE  MayAfter(plan)[q] \subseteq SavedMayAfter(plan)[q]
  <2>1. q \in Nat /\ q \in 0 .. saved - 1 /\ q < plan.new
    BY <1>1, <1>8
  <2>2. q < size => may[q] \subseteq saved_may[q]
    BY <1>2, <1>8, <2>1
  <2>3. MayAfter(plan)[q] = IF InData(plan, q) THEN {Written(plan, q)}
                            ELSE IF q < plan.old THEN may[q] ELSE {0}
    BY AfterAt
  <2>4. SavedMayAfter(plan)[q] = (saved_may[q] \cup (IF InData(plan, q) THEN {Written(plan, q)} ELSE {}))
                                   \cup (IF plan.old <= q /\ q < plan.new THEN {0} ELSE {})
    BY <2>1, SavedAt
  <2> QED BY <1>1, <2>1, <2>2, <2>3, <2>4
<1>9. ASSUME NEW q \in 0 .. size - 1, q < saved
      PROVE  MayHalf(may, plan)[q] \subseteq SavedMayAfter(plan)[q]
  <2>1. q \in Nat /\ q \in 0 .. saved - 1 /\ q < size
    BY <1>1, <1>9
  <2>2. may[q] \subseteq saved_may[q]
    BY <1>2, <1>9, <2>1
  <2> QED BY <2>1, <2>2, HalfAt, SavedAt
<1> QED BY <1>4, <1>5, <1>6, <1>7, <1>8, <1>9

LEMMA OpenedFile ==
    ASSUME NoFileIsMissing, IInv
    PROVE  /\ open_rw(data) # Missing
           /\ FileOK(open_rw(data))
           /\ View(open_rw(data), size, may, harm)
           /\ View(open_rw(data), saved, saved_may, saved_harm)
<1>1. CASE data = Missing
  <2>1. open_rw(data) = Empty /\ size = 0 /\ saved = 0
    BY <1>1 DEF open_rw, IInv, MissingMeansEmpty
  <2>2. DOMAIN Empty = {} /\ Empty = [i \in DOMAIN Empty |-> Empty[i]]
    BY DEF Empty
  <2>3. Empty # Missing /\ FileOK(Empty)
    BY <2>2 DEF NoFileIsMissing, FileOK
  <2>4. \A i \in Nat : ~(i * B < 0)
    BY Multiple
  <2>5. \A m, h : View(Empty, 0, m, h)
    BY <2>4, ViewBlocks
  <2> QED BY <2>1, <2>3, <2>5
<1>2. CASE data # Missing
  BY <1>2 DEF open_rw, IInv
<1> QED BY <1>1, <1>2

-----------------------------------------------------------------------------
(* Completed operations *)

LEMMA Completed ==
    ASSUME NoFileIsMissing, IInv, NEW plan, GoodPlan(plan), Applies(plan)
    PROVE  /\ size' = plan.new
           /\ size' \in 0 .. MaxSize
           /\ FileOK(data')
           /\ data' = Missing => size' = 0 /\ saved = 0
           /\ may' = MayAfter(plan)
           /\ may' \in [0 .. size' - 1 -> SUBSET V]
           /\ harm' \subseteq 0 .. MaxSize
           /\ View(data', size', may', harm')
           /\ View(data', saved, SavedMayAfter(plan), saved_harm \cup Resized(plan.new))
<1> DEFINE f == open_rw(data)
           g == Applied(f, content_key, plan)
           sm == SavedMayAfter(plan)
           sh == saved_harm \cup Resized(plan.new)
<1>1. /\ SoundPlan(plan, V) /\ plan.old = size /\ plan.new <= MaxSize /\ plan.new \in Nat
      /\ plan.from \in Nat /\ plan.until \in Nat /\ plan.opens \in BOOLEAN
  BY BlockCount DEF GoodPlan, SoundPlan
<1>2. size' = plan.new /\ may' = MayAfter(plan)
  BY DEF Applies
<1>3. size' \in 0 .. MaxSize /\ may' \in [0 .. size' - 1 -> SUBSET V]
  BY <1>1, <1>2, Arrays, ArraysAfter
<1>4. /\ f # Missing /\ FileOK(f) /\ View(f, size, may, harm)
      /\ View(f, saved, saved_may, saved_harm)
  BY OpenedFile
<1>5. /\ \A q \in Nat : q < saved => saved_may[q] \subseteq sm[q]
      /\ Absorbs(plan, may, sm, saved) /\ Absorbs(plan, may, MayAfter(plan), plan.new)
  BY GhostsAbsorb
<1>6. size \in Nat /\ saved \in Nat /\ saved_harm \subseteq sh
  BY Arrays
<1>7. CASE Opens(plan)
  <2>1. plan.opens
    BY <1>7 DEF Opens
  <2>2. data' = Applied(data, content_key, plan) /\ Stops(f, content_key, plan, plan.until) /\ harm' = HarmAfter(plan)
    BY <2>1 DEF Applies
  <2>3. data' = g
    BY <1>4, <2>1, <2>2 DEF Applied, open_rw
  <2>4. Editable(f, plan, may, harm, plan.until)
    BY <1>1, <1>4, <2>2 DEF Editable, Stops
  <2>5. \A b \in harm : b * B < plan.offset => b \in HarmAfter(plan)
    BY DEF HarmAfter
  <2>6. \A b \in Nat : b * B < saved /\ plaintext_len(saved, b) # plaintext_len(plan.new, b) => b \in sh
    <3>1. block_count(saved) \in Nat /\ \A b \in Nat : b < block_count(saved) <=> b * B < saved
      BY <1>6, BlockCount
    <3> QED BY <3>1 DEF Resized
  <2>7. FileOK(g) /\ g # Missing
    <3>1. plan.until <= plan.until
      BY <1>1
    <3> DEFINE r == Resealed(f, content_key, plan, plan.until)
    <3>2. FileOK(r) /\ r # Missing
      BY <1>1, <2>4, <3>1, ResealedOK
    <3>3. g = set_len(r, plan.until)
      BY <1>4, <2>1 DEF Applied, open_rw
    <3> HIDE DEF r, g
    <3> QED BY <3>2, <3>3, SetLenOK
  <2> HIDE DEF f, sm, sh
  <2>8. View(g, plan.new, MayAfter(plan), HarmAfter(plan))
    BY <1>5, <1>7, <2>4, <2>5, AppliedView
  <2>9. View(g, saved, sm, sh)
    BY <1>4, <1>5, <1>6, <1>7, <2>4, <2>6, AppliedSavedView
  <2> HIDE DEF g
  <2>10. harm' \subseteq 0 .. MaxSize
    BY <2>2, Arrays DEF HarmAfter
  <2>11. View(data', size', may', harm') /\ View(data', saved, sm, sh)
    BY <1>2, <2>2, <2>3, <2>8, <2>9
  <2> QED BY <1>2, <1>3, <2>3, <2>7, <2>10, <2>11 DEF sm, sh
<1>8. CASE ~Opens(plan)
  <2>1. ~plan.opens
    BY <1>1, <1>8, Zenon DEF Opens
  <2>2. data' = data /\ harm' = harm
    BY <2>1 DEF Applies, Applied
  <2>3. plan.new = plan.old /\ plan.offset = plan.new /\ plan.data = <<>>
    BY <1>1, <2>1 DEF SoundPlan
  <2>4. MayAfter(plan) = may
    <3>1. \A p \in 0 .. size - 1 : ~InData(plan, p) /\ p < plan.old
      BY <1>1, <1>6, <2>3 DEF InData
    <3>2. MayAfter(plan) = [p \in 0 .. size - 1 |-> may[p]]
      BY <1>1, <2>3, <3>1 DEF MayAfter
    <3>3. may = [p \in 0 .. size - 1 |-> may[p]]
      BY Arrays
    <3> QED BY <3>2, <3>3
  <2>5. View(data, size, may, harm) /\ View(data, saved, saved_may, saved_harm) /\ FileOK(data) /\ MissingMeansEmpty
    BY DEF IInv
  <2>6. View(data', size', may', harm')
    BY <1>1, <1>2, <2>2, <2>3, <2>4, <2>5
  <2> HIDE DEF sm, sh
  <2>7. View(data, saved, sm, sh)
    BY <1>5, <1>6, <2>5, ViewGrows
  <2>8. harm' \subseteq 0 .. MaxSize
    BY <2>2, Arrays
  <2>9. data' = Missing => size' = 0 /\ saved = 0
    BY <1>1, <1>2, <2>2, <2>3, <2>5 DEF MissingMeansEmpty
  <2> QED BY <1>2, <1>3, <2>2, <2>5, <2>6, <2>7, <2>8, <2>9 DEF sm, sh
<1> QED BY <1>7, <1>8

LEMMA TypesHold ==
    ASSUME size' \in 0 .. MaxSize, saved' \in 0 .. MaxSize, faults' \in 0 .. MaxFaults,
           FileOK(data'), may' \in [0 .. size' - 1 -> SUBSET V],
           saved_may' \in [0 .. saved' - 1 -> SUBSET V],
           harm' \subseteq 0 .. MaxSize, saved_harm' \subseteq 0 .. MaxSize
    PROVE  TypeOK'
<1>1. \/ data' = Missing
      \/ /\ DOMAIN data' \subseteq 0 .. MaxSize
         /\ \A i \in DOMAIN data' :
                /\ data'[i].index = i
                /\ data'[i].plain \in Seq(Byte \cup {0})
                /\ Len(data'[i].plain) <= B
  BY DEF FileOK, V
<1> QED BY <1>1 DEF TypeOK, V

\* Memory and disk agree: the saved view is the one in memory.
LEMMA InSync ==
    ASSUME size' \in 0 .. MaxSize, faults' \in 0 .. MaxFaults, FileOK(data'),
           data' = Missing => size' = 0,
           may' \in [0 .. size' - 1 -> SUBSET V], harm' \subseteq 0 .. MaxSize,
           View(data', size', may', harm'),
           saved' = size', saved_may' = may', saved_harm' = harm'
    PROVE  IInv'
<1>1. TypeOK'
  BY TypesHold
<1>2. MemoryKnowsBetter' /\ MissingMeansEmpty'
  BY DEF MemoryKnowsBetter, MissingMeansEmpty
<1>3. Resized(size)' = {}
  BY DEF Resized
<1>4. View(data, size, may, harm)' /\ View(data, saved, saved_may, saved_harm)' /\ FileOK(data)'
  OBVIOUS
<1> QED BY <1>1, <1>2, <1>3, <1>4 DEF IInv

\* The new size is in memory and not on disk.
LEMMA UnsavedKeeps ==
    ASSUME NoFileIsMissing, IInv, NEW plan, GoodPlan(plan), Applies(plan), faults' \in 0 .. MaxFaults,
           saved_may' = SavedMayAfter(plan), saved_harm' = saved_harm \cup Resized(plan.new), saved' = saved
    PROVE  IInv'
<1>1. /\ size' = plan.new
      /\ size' \in 0 .. MaxSize
      /\ FileOK(data')
      /\ data' = Missing => size' = 0 /\ saved = 0
      /\ may' = MayAfter(plan)
      /\ may' \in [0 .. size' - 1 -> SUBSET V]
      /\ harm' \subseteq 0 .. MaxSize
      /\ View(data', size', may', harm')
      /\ View(data', saved', saved_may', saved_harm')
  BY Completed
<1>2. saved_may' \in [0 .. saved' - 1 -> SUBSET V]
  BY ArraysAfter
<1>3. saved_harm' \subseteq 0 .. MaxSize
  <2>1. ASSUME NEW b \in Resized(plan.new) PROVE b \in 0 .. MaxSize
    <3>1. saved \in Nat /\ saved <= MaxSize /\ block_count(saved) \in Nat
      BY Arrays, BlockCount
    <3>2. b \in Nat /\ b < block_count(saved)
      BY <2>1, <3>1 DEF Resized
    <3> QED BY <3>1, <3>2, SizeBounds
  <2> QED BY <2>1, Arrays
<1>4. saved' \in 0 .. MaxSize
  BY Arrays
<1>5. TypeOK'
  BY <1>1, <1>2, <1>3, <1>4, TypesHold
<1>6. MemoryKnowsBetter'
  <2>1. DOMAIN may' = 0 .. plan.new - 1
    BY <1>1
  <2>2. \A q \in 0 .. plan.new - 1 : q < saved => MayAfter(plan)[q] \subseteq SavedMayAfter(plan)[q]
    BY GhostsAbsorb
  <2> QED BY <1>1, <2>1, <2>2 DEF MemoryKnowsBetter
<1>7. MissingMeansEmpty'
  BY <1>1 DEF MissingMeansEmpty
<1>8. Resized(size)' \subseteq saved_harm'
  BY <1>1 DEF Resized
<1> QED BY <1>1, <1>5, <1>6, <1>7, <1>8 DEF IInv

LEMMA FaultsStay ==
    ASSUME IInv, UNCHANGED faults \/ Fault
    PROVE  faults' \in 0 .. MaxFaults
  BY BlockFileAssumption DEF IInv, TypeOK, Fault

LEMMA WriteKeeps ==
    ASSUME NoFileIsMissing, IInv, NEW w \in Writes, Write(w[1], w[2])
    PROVE  IInv'
<1>1. PICK plan : plan = write_range(size, w[1], w[2])
  OBVIOUS
<1>2. GoodPlan(plan)
  BY <1>1, Arrays, PlansAreGood DEF Plans
<1>3. /\ Applies(plan) /\ saved_may' = SavedMayAfter(plan)
      /\ saved_harm' = saved_harm \cup Resized(plan.new) /\ saved' = saved /\ faults' = faults
  BY <1>1 DEF Write
<1> QED BY <1>2, <1>3, FaultsStay, UnsavedKeeps

LEMMA TruncateUnsavedKeeps ==
    ASSUME NoFileIsMissing, IInv, NEW new \in 0 .. MaxSize, TruncateUnsaved(new)
    PROVE  IInv'
<1>1. PICK plan : plan = truncate(size, new)
  OBVIOUS
<1>2. GoodPlan(plan)
  BY <1>1, Arrays, PlansAreGood DEF Plans
<1>3. /\ Applies(plan) /\ saved_may' = SavedMayAfter(plan)
      /\ saved_harm' = saved_harm \cup Resized(plan.new) /\ saved' = saved /\ Fault
  BY <1>1 DEF TruncateUnsaved
<1> QED BY <1>2, <1>3, FaultsStay, UnsavedKeeps

LEMMA TruncateKeeps ==
    ASSUME NoFileIsMissing, IInv, NEW new \in 0 .. MaxSize, Truncate(new)
    PROVE  IInv'
<1>1. PICK plan : plan = truncate(size, new)
  OBVIOUS
<1>2. GoodPlan(plan)
  BY <1>1, Arrays, PlansAreGood DEF Plans
<1>3. Applies(plan) /\ saved_may' = may' /\ saved_harm' = harm' /\ saved' = plan.new /\ faults' = faults
  BY <1>1 DEF Truncate
<1>4. /\ size' = plan.new
      /\ size' \in 0 .. MaxSize
      /\ FileOK(data')
      /\ data' = Missing => size' = 0
      /\ may' \in [0 .. size' - 1 -> SUBSET V]
      /\ harm' \subseteq 0 .. MaxSize
      /\ View(data', size', may', harm')
  BY <1>2, <1>3, Completed
<1> QED BY <1>3, <1>4, FaultsStay, InSync

LEMMA FlushKeeps ==
    ASSUME IInv, Flush
    PROVE  IInv'
<1>1. UNCHANGED <<data, size, faults, may, harm>> /\ saved' = size' /\ saved_may' = may' /\ saved_harm' = harm'
  BY DEF Flush
<1>2. /\ size' \in 0 .. MaxSize /\ may' \in [0 .. size' - 1 -> SUBSET V] /\ harm' \subseteq 0 .. MaxSize
      /\ FileOK(data') /\ View(data', size', may', harm') /\ (data' = Missing => size' = 0)
  BY <1>1, Arrays DEF IInv, MissingMeansEmpty
<1> QED BY <1>1, <1>2, FaultsStay, InSync

LEMMA CrashKeeps ==
    ASSUME IInv, Crash
    PROVE  IInv'
<1>1. /\ data' = data /\ size' = saved /\ may' = saved_may /\ harm' = saved_harm /\ Fault
      /\ saved' = size' /\ saved_may' = may' /\ saved_harm' = harm'
  BY DEF Crash
<1>2. /\ size' \in 0 .. MaxSize /\ may' \in [0 .. size' - 1 -> SUBSET V] /\ harm' \subseteq 0 .. MaxSize
      /\ FileOK(data') /\ View(data', size', may', harm') /\ (data' = Missing => size' = 0)
  BY <1>1, Arrays DEF IInv, MissingMeansEmpty
<1> QED BY <1>1, <1>2, FaultsStay, InSync

-----------------------------------------------------------------------------
(* Operations that end early *)

LEMMA AbandonKeeps ==
    ASSUME IInv, NEW plan, GoodPlan(plan), NEW file, Abandons(plan, file), file # Missing, FileOK(file),
           faults' \in 0 .. MaxFaults,
           View(file, size, MayHalf(may, plan), harm'),
           View(file, saved, SavedMayAfter(plan), saved_harm'),
           harm' \subseteq 0 .. MaxSize, saved_harm' \subseteq 0 .. MaxSize, saved_harm \subseteq saved_harm'
    PROVE  IInv'
<1>1. /\ data' = file /\ may' = MayHalf(may, plan) /\ saved_may' = SavedMayAfter(plan)
      /\ size' = size /\ saved' = saved
  BY DEF Abandons
<1>2. may' \in [0 .. size' - 1 -> SUBSET V] /\ saved_may' \in [0 .. saved' - 1 -> SUBSET V]
  BY <1>1, ArraysAfter
<1>3. size' \in 0 .. MaxSize /\ saved' \in 0 .. MaxSize
  BY <1>1, Arrays
<1>4. FileOK(data') /\ data' # Missing
  BY <1>1
<1>5. TypeOK'
  BY <1>2, <1>3, <1>4, TypesHold
<1>6. View(data', size', may', harm') /\ View(data', saved', saved_may', saved_harm')
  BY <1>1
<1>7. MemoryKnowsBetter'
  <2>1. \A q \in 0 .. size - 1 : q < saved => MayHalf(may, plan)[q] \subseteq SavedMayAfter(plan)[q]
    BY GhostsAbsorb
  <2>2. DOMAIN may' = 0 .. size - 1
    BY <1>1, <1>2
  <2> QED BY <1>1, <2>1, <2>2 DEF MemoryKnowsBetter
<1>8. MissingMeansEmpty'
  BY <1>4 DEF MissingMeansEmpty
<1>9. Resized(size)' \subseteq saved_harm'
  BY <1>1 DEF Resized, IInv
<1> QED BY <1>4, <1>5, <1>6, <1>7, <1>8, <1>9 DEF IInv

LEMMA RefusedKeeps ==
    ASSUME NoFileIsMissing, IInv, NEW plan, GoodPlan(plan), Refused(plan)
    PROVE  IInv'
<1> DEFINE f == open_rw(data)
<1>1. PICK k \in plan.from .. plan.until - 1 :
        /\ Stops(f, content_key, plan, k)
        /\ Abandons(plan, Resealed(f, content_key, plan, k))
  BY DEF Refused
<1>2. faults' = faults /\ harm' = harm /\ saved_harm' = saved_harm
  BY DEF Refused
<1>3. /\ SoundPlan(plan, V) /\ plan.old = size /\ plan.new <= MaxSize /\ plan.new \in Nat
      /\ plan.from \in Nat /\ plan.until \in Nat /\ plan.until = block_count(plan.new)
  BY BlockCount DEF GoodPlan, SoundPlan
<1>4. /\ f # Missing /\ FileOK(f) /\ View(f, size, may, harm)
      /\ View(f, saved, saved_may, saved_harm)
  BY OpenedFile
<1>5. k \in Nat /\ k < plan.until /\ size \in Nat /\ saved \in Nat
  BY <1>1, <1>3, Arrays
<1>6. ~CanEdit(f, content_key, plan, k)
  BY <1>1, <1>5 DEF Stops
<1>7. k * B < size /\ k * B < plan.new
  <2>1. k < block_count(size)
    BY <1>3, <1>6 DEF CanEdit
  <2> QED BY <1>3, <1>5, <2>1, BlockCount
<1>8. ASSUME NEW j \in Nat, j \in plan.from .. k - 1
      PROVE  /\ plaintext_len(plan.new, j) = B /\ plaintext_len(size, j) = B
             /\ Readable(f, content_key, size, j)
  <2>1. j < k
    BY <1>3, <1>5, <1>8
  <2>2. j * B \in Nat /\ k * B \in Nat /\ j * B + B <= k * B /\ B \in Nat /\ B > 0
    BY <1>5, <2>1, Multiples, BAssumption
  <2>3. j * B + B <= size /\ j * B + B <= plan.new /\ j * B < size
    BY <1>3, <1>5, <1>7, <2>2
  <2>4. plaintext_len(plan.new, j) = B /\ plaintext_len(size, j) = B
    BY <1>3, <1>5, <2>3, PlaintextLen
  <2>5. j < block_count(size)
    BY <1>5, <2>3, BlockCount
  <2>6. CanEdit(f, content_key, plan, j)
    BY <1>1, <1>8 DEF Stops
  <2> QED BY <1>3, <2>4, <2>5, <2>6 DEF CanEdit
<1>9. Editable(f, plan, may, harm, k)
  BY <1>1, <1>3, <1>4 DEF Editable, Stops
<1> DEFINE g == Resealed(f, content_key, plan, k)
           hm == MayHalf(may, plan)
           sm == SavedMayAfter(plan)
<1>10. FileOK(g) /\ g # Missing
  BY <1>3, <1>5, <1>9, ResealedOK
<1>11. /\ Absorbs(plan, may, hm, size) /\ Absorbs(plan, may, sm, saved)
       /\ \A q \in Nat : q < size => may[q] \subseteq hm[q]
       /\ \A q \in Nat : q < saved => saved_may[q] \subseteq sm[q]
  BY GhostsAbsorb
<1>12. ASSUME NEW j \in Nat, j \in plan.from .. k - 1, j * B < saved, j \notin saved_harm
       PROVE  plaintext_len(plan.new, j) = plaintext_len(saved, j)
  <2>1. Serves(f, saved, saved_may, saved_harm, j)
    BY <1>4, <1>5, <1>12, ViewBlock
  <2>2. Readable(f, content_key, saved, j)
    BY <1>12, <2>1 DEF Serves
  <2> QED BY <1>8, <1>12, <2>2 DEF Readable
<1> HIDE DEF f, hm, sm
<1>13. View(g, size, hm, harm)
  BY <1>4, <1>5, <1>8, <1>9, <1>11, ResealedView
<1>14. View(g, saved, sm, saved_harm)
  BY <1>4, <1>5, <1>9, <1>11, <1>12, ResealedView
<1>15. Abandons(plan, g)
  BY <1>1
<1> HIDE DEF g
<1> QED BY <1>2, <1>10, <1>13, <1>14, <1>15, Arrays, FaultsStay, AbandonKeeps DEF hm, sm

LEMMA FailsKeeps ==
    ASSUME NoFileIsMissing, IInv, NEW plan, GoodPlan(plan), Fails(plan)
    PROVE  IInv'
<1> DEFINE f == open_rw(data)
           g(k) == Resealed(f, content_key, plan, k)
<1>1. PICK k \in plan.from .. plan.until :
        /\ \A i \in plan.from .. k - 1 : CanEdit(f, content_key, plan, i)
        /\ \/ Abandons(plan, g(k))
           \/ k < plan.until /\ Abandons(plan, tear_block(g(k), k))
  BY DEF Fails
<1>2. /\ Fault /\ harm' = harm \cup HarmHalf(plan)
      /\ saved_harm' = saved_harm \cup (HarmHalf(plan) \cap (0 .. block_count(saved) - 1))
  BY DEF Fails
<1>3. /\ SoundPlan(plan, V) /\ plan.old = size /\ plan.new <= MaxSize /\ plan.new \in Nat
      /\ plan.from \in Nat /\ plan.until \in Nat /\ plan.until = block_count(plan.new)
  BY BlockCount DEF GoodPlan, SoundPlan
<1>4. /\ f # Missing /\ FileOK(f) /\ View(f, size, may, harm)
      /\ View(f, saved, saved_may, saved_harm)
  BY OpenedFile
<1>5. k \in Nat /\ k <= plan.until /\ plan.from <= k /\ size \in Nat /\ saved \in Nat
  BY <1>1, <1>3, Arrays
<1>6. ASSUME NEW i \in Nat, plan.from <= i
      PROVE  (i * B < size => i \in harm') /\ (i * B < saved => i \in saved_harm')
  <2>1. i * B < size => i \in HarmHalf(plan)
    BY <1>3, <1>6 DEF GoodPlan
  <2>2. ASSUME i * B < saved PROVE i \in saved_harm'
    <3>1. block_count(saved) \in Nat /\ i < block_count(saved)
      BY <1>5, <2>2, BlockCount
    <3>2. i \in 0 .. block_count(saved) - 1
      BY <3>1
    <3>3. CASE i * B < size
      BY <1>2, <2>1, <3>2, <3>3
    <3>4. CASE ~(i * B < size)
      <4>1. i * B \in Nat
        BY Multiple
      <4>2. i * B >= size
        BY <1>5, <3>4, <4>1
      <4>3. plaintext_len(size, i) = 0 /\ plaintext_len(saved, i) > 0
        BY <1>5, <2>2, <4>2, PlaintextLen
      <4>4. i \in Resized(size)
        BY <3>2, <4>3 DEF Resized
      <4> QED BY <1>2, <4>4 DEF IInv
    <3> QED BY <3>3, <3>4
  <2> QED BY <1>2, <2>1, <2>2
<1>7. Editable(f, plan, may, harm, k)
  BY <1>1, <1>3, <1>4 DEF Editable
<1> DEFINE r == g(k)
           hm == MayHalf(may, plan)
           sm == SavedMayAfter(plan)
<1>8. FileOK(r) /\ r # Missing
  BY <1>3, <1>5, <1>7, ResealedOK
<1>9. /\ Absorbs(plan, may, hm, size) /\ Absorbs(plan, may, sm, saved)
      /\ \A q \in Nat : q < size => may[q] \subseteq hm[q]
      /\ \A q \in Nat : q < saved => saved_may[q] \subseteq sm[q]
  BY GhostsAbsorb
<1>10. harm \subseteq harm' /\ saved_harm \subseteq saved_harm'
  BY <1>2
<1>11. harm' \subseteq 0 .. MaxSize /\ saved_harm' \subseteq 0 .. MaxSize
  <2>1. ASSUME NEW i \in HarmHalf(plan) PROVE i \in 0 .. MaxSize
    <3>1. i \in Nat /\ i * B < size
      BY <1>3, <2>1 DEF GoodPlan
    <3>2. i < block_count(size)
      BY <1>5, <3>1, BlockCount
    <3> QED BY <1>5, <3>1, <3>2, Arrays, SizeBounds
  <2> QED BY <1>2, <2>1, Arrays
<1>12. PICK h2, sh2 : h2 = harm' /\ sh2 = saved_harm'
  OBVIOUS
<1>13. \A i \in Nat : i \in plan.from .. k - 1 => plan.from <= i
  BY <1>3, <1>5
<1>14. \A i \in Nat : plan.from <= i => (i * B < size => i \in h2) /\ (i * B < saved => i \in sh2)
  BY <1>6, <1>12
<1> HIDE DEF f, g, hm, sm
<1>15. View(r, size, hm, h2)
  BY <1>4, <1>5, <1>7, <1>9, <1>10, <1>12, <1>13, <1>14, ResealedView DEF g
<1>16. View(r, saved, sm, sh2)
  BY <1>4, <1>5, <1>7, <1>9, <1>10, <1>12, <1>13, <1>14, ResealedView DEF g
<1>17. CASE Abandons(plan, r)
  <2> HIDE DEF r
  <2>1. View(r, size, MayHalf(may, plan), harm') /\ View(r, saved, SavedMayAfter(plan), saved_harm')
    BY <1>12, <1>15, <1>16 DEF hm, sm
  <2> QED BY <1>2, <1>8, <1>10, <1>11, <1>17, <2>1, FaultsStay, AbandonKeeps
<1>18. CASE k < plan.until /\ Abandons(plan, tear_block(r, k))
  <2> HIDE DEF r
  <2>1. k \in 0 .. MaxSize
    BY <1>3, <1>5, <1>18, SizeBounds
  <2> DEFINE t == tear_block(r, k)
  <2>2. FileOK(t) /\ t # Missing
    BY <1>8, <2>1, TornOK
  <2>3. View(t, size, hm, h2) /\ View(t, saved, sm, sh2)
    BY <1>5, <1>14, <1>15, <1>16, TornView
  <2>4. View(t, size, MayHalf(may, plan), harm') /\ View(t, saved, SavedMayAfter(plan), saved_harm')
    BY <1>12, <2>3 DEF hm, sm
  <2> HIDE DEF t
  <2>5. Abandons(plan, t)
    BY <1>18 DEF t
  <2> QED BY <1>2, <1>10, <1>11, <2>2, <2>4, <2>5, FaultsStay, AbandonKeeps
<1> QED BY <1>1, <1>17, <1>18

-----------------------------------------------------------------------------
(* The inductive invariant *)

LEMMA StartsWithIInv ==
    ASSUME Init
    PROVE  IInv
<1>1. /\ data = Missing /\ size = 0 /\ saved = 0 /\ faults = 0 /\ may = Empty /\ harm = {}
      /\ saved_may = Empty /\ saved_harm = {}
  BY DEF Init
<1>2. \A i \in Nat : ~(i * B < 0)
  BY Multiple
<1>3. View(data, size, may, harm) /\ View(data, saved, saved_may, saved_harm)
  BY <1>1, <1>2, ViewBlocks
<1>4. TypeOK
  <2>1. Empty \in [0 .. 0 - 1 -> SUBSET V] /\ MaxSize \in Nat /\ MaxFaults \in Nat
    BY BlockFileAssumption DEF Empty
  <2> QED BY <1>1, <2>1 DEF TypeOK, V
<1>5. MemoryKnowsBetter /\ MissingMeansEmpty /\ FileOK(data)
  BY <1>1 DEF MemoryKnowsBetter, MissingMeansEmpty, FileOK, Empty
<1>6. Resized(size) = {}
  BY <1>1 DEF Resized
<1> QED BY <1>3, <1>4, <1>5, <1>6 DEF IInv

LEMMA NextKeepsIInv ==
    ASSUME NoFileIsMissing, IInv, [Next]_vars
    PROVE  IInv'
<1>1. ASSUME NEW w \in Writes, Write(w[1], w[2]) PROVE IInv'
  BY <1>1, WriteKeeps
<1>2. ASSUME NEW new \in 0 .. MaxSize, Truncate(new) PROVE IInv'
  BY <1>2, TruncateKeeps
<1>3. ASSUME NEW new \in 0 .. MaxSize, TruncateUnsaved(new) PROVE IInv'
  BY <1>3, TruncateUnsavedKeeps
<1>4. ASSUME NEW plan \in Plans, Refused(plan) PROVE IInv'
  <2>1. GoodPlan(plan)
    BY Arrays, PlansAreGood
  <2> QED BY <1>4, <2>1, RefusedKeeps
<1>5. ASSUME NEW plan \in Plans, Fails(plan) PROVE IInv'
  <2>1. GoodPlan(plan)
    BY Arrays, PlansAreGood
  <2> QED BY <1>5, <2>1, FailsKeeps
<1>6. CASE Flush
  BY <1>6, FlushKeeps
<1>7. CASE Crash
  BY <1>7, CrashKeeps
<1>8. CASE UNCHANGED vars
  <2>1. /\ data' = data /\ size' = size /\ saved' = saved /\ faults' = faults /\ may' = may
        /\ harm' = harm /\ saved_may' = saved_may /\ saved_harm' = saved_harm
    BY <1>8 DEF vars
  <2>2. TypeOK' /\ MissingMeansEmpty' /\ MemoryKnowsBetter'
    BY <2>1 DEF IInv, TypeOK, MissingMeansEmpty, MemoryKnowsBetter
  <2>3. FileOK(data') /\ View(data', size', may', harm') /\ View(data', saved', saved_may', saved_harm')
    BY <2>1 DEF IInv
  <2>4. Resized(size)' \subseteq saved_harm'
    BY <2>1 DEF Resized, IInv
  <2> QED BY <2>2, <2>3, <2>4 DEF IInv
<1> QED BY <1>1, <1>2, <1>3, <1>4, <1>5, <1>6, <1>7, <1>8 DEF Next

\* The inductive invariant: the data file serves the size in memory with the array
\* and the harm of memory, and the size on disk with those of the disk.
THEOREM Invariance ==
    ASSUME NoFileIsMissing
    PROVE  Spec => []IInv
<1>1. Init => IInv
  BY StartsWithIInv
<1>2. IInv /\ [Next]_vars => IInv'
  BY NextKeepsIInv
<1> QED BY <1>1, <1>2, PTL DEF Spec

-----------------------------------------------------------------------------
(* What follows *)

\* Every state has the types of the module: sizes, records and arrays stay within
\* their bounds, whatever blocks.rs leaves of an operation.
THEOREM TypeCorrect ==
    ASSUME NoFileIsMissing
    PROVE  Spec => []TypeOK
<1>1. IInv => TypeOK
  BY DEF IInv
<1> QED BY <1>1, Invariance, PTL

\* A data file is missing only while the file is empty in memory and in the saved
\* index, so the empty answer of do_read for a missing file is right.
THEOREM MissingFilesAreEmpty ==
    ASSUME NoFileIsMissing
    PROVE  Spec => []MissingMeansEmpty
<1>1. IInv => MissingMeansEmpty
  BY DEF IInv
<1> QED BY <1>1, Invariance, PTL

LEMMA UnharmedIsEditable ==
    ASSUME NoFileIsMissing, IInv
    PROVE  OnlyHarmRefuses
<1> SUFFICES ASSUME harm = {}, NEW plan \in Plans, NEW i \in plan.from .. plan.until - 1
             PROVE  CanEdit(open_rw(data), content_key, plan, i)
  BY DEF OnlyHarmRefuses
<1>1. /\ plan.old = size /\ plan.from \in Nat /\ plan.until \in Nat /\ size \in Nat
  BY Arrays, PlansAreGood, BlockCount DEF GoodPlan, SoundPlan
<1>2. i \in Nat
  BY <1>1
<1>3. ASSUME i < block_count(plan.old) PROVE Readable(open_rw(data), content_key, plan.old, i)
  <2>1. i * B < size
    BY <1>1, <1>2, <1>3, BlockCount
  <2>2. Serves(open_rw(data), size, may, harm, i)
    BY <1>1, <1>2, <2>1, OpenedFile, ViewBlock
  <2> QED BY <1>1, <2>2 DEF Serves
<1> QED BY <1>3 DEF CanEdit

\* As long as nothing was interrupted or lost, no write and no truncate meets a block
\* that its loop cannot read, for every block length and every size.
THEOREM OnlyHarmStops ==
    ASSUME NoFileIsMissing
    PROVE  Spec => []OnlyHarmRefuses
<1>1. IInv => OnlyHarmRefuses
  BY UnharmedIsEditable
<1> QED BY <1>1, Invariance, PTL

\* A byte of a block that can be read.
LEMMA ByteIsHonest ==
    ASSUME NEW f, NEW sz \in Nat, NEW m, NEW h, View(f, sz, m, h), NEW q \in Nat, q < sz,
           Readable(f, content_key, sz, q \div B)
    PROVE  Plain(f)[q] \in m[q]
<1>1. PICK i : i = q \div B
  OBVIOUS
<1>2. i \in Nat /\ i * B <= q /\ q < i * B + B /\ i * B \in Nat /\ B \in Nat
  BY <1>1, Division, Multiple
<1> DEFINE p == (q - i * B) + 1
<1>3. p \in 1 .. B /\ (i * B + p) - 1 = q /\ i * B + p <= sz /\ i * B < sz
  BY <1>2
<1>4. Plain(f)[q] = f[i].plain[p]
  BY <1>1 DEF Plain
<1> HIDE DEF p
<1>5. p \in 1 .. plaintext_len(sz, i)
  <2>1. plaintext_len(sz, i) \in 0 .. B /\ (p <= plaintext_len(sz, i) <=> i * B + p <= sz)
    BY <1>2, <1>3, PlaintextLen
  <2> QED BY <1>2, <1>3, <2>1
<1>6. Serves(f, sz, m, h, i)
  BY <1>2, <1>3, ViewBlock
<1>7. f[i].plain[p] \in m[(i * B + p) - 1]
  BY <1>1, <1>5, <1>6 DEF Serves
<1> QED BY <1>3, <1>4, <1>7

\* A read of [offset, offset+len) of a file that its data file serves.
Honest(f, sz, m, h, offset, len) ==
    LET got == do_read(f, content_key, sz, offset, len)
        n   == Most(0, Least(len, sz - offset))
    IN  IF got.ok
        THEN /\ Len(got.data) = n
             /\ \A p \in 1 .. n : got.data[p] \in m[offset + p - 1]
        ELSE {b \in 0 .. block_count(sz) - 1 :
                b * B < offset + len /\ offset < (b + 1) * B} \cap h # {}

LEMMA ReadIsHonest ==
    ASSUME NEW f, f # Missing, FileOK(f), NEW sz \in Nat, NEW m, NEW h, View(f, sz, m, h),
           NEW offset \in Nat, NEW len \in Nat, len # 0
    PROVE  Honest(f, sz, m, h, offset, len)
<1>1. do_read(f, content_key, sz, offset, len) = read_range(f, content_key, sz, offset, len)
  BY DEF do_read
<1>2. CASE offset >= sz
  <2>1. read_range(f, content_key, sz, offset, len) = Bytes(<<>>)
    BY <1>2 DEF read_range
  <2>2. Most(0, Least(len, sz - offset)) = 0
    BY <1>2 DEF Most, Least
  <2>3. Bytes(<<>>).ok /\ Bytes(<<>>).data = <<>>
    BY DEF Bytes
  <2> QED BY <1>1, <2>1, <2>2, <2>3 DEF Honest
<1>3. CASE offset < sz
  <2> DEFINE end == Least(offset + len, sz)
             first == offset \div B
             last == (end - 1) \div B
  <2>1. end \in Nat /\ offset < end /\ end <= sz /\ end <= offset + len
        /\ Most(0, Least(len, sz - offset)) = end - offset
    BY <1>3 DEF Least, Most
  <2>2. /\ first \in Nat /\ last \in Nat
        /\ \A i \in Nat : i \in first .. last <=> i * B < end /\ offset < i * B + B
    BY <2>1, BlocksMet
  <2>3. CASE \A i \in first .. last : Readable(f, content_key, sz, i)
    <3>1. \A i \in first .. last : Readable(f, content_key, sz, i) /\ f[i].plain \in Seq(V)
      BY <2>3 DEF FileOK, Readable
    <3>2. read_range(f, content_key, sz, offset, len) = Bytes(Slice(Plain(f), offset, end))
      BY <1>3, <3>1, ReadRange
    <3> HIDE DEF end
    <3> DEFINE s == Slice(Plain(f), offset, end)
    <3>3. Len(s) = end - offset
      <4>1. offset <= end
        BY <2>1
      <4> QED BY <2>1, <4>1, SliceIsSeq
    <3>4. ASSUME NEW p \in 1 .. end - offset PROVE s[p] \in m[offset + p - 1]
      <4>1. PICK q : q = offset + p - 1
        OBVIOUS
      <4>2. q \in Nat /\ q < end /\ q < sz /\ offset <= q
        BY <2>1, <4>1
      <4>3. s[p] = Plain(f)[q]
        BY <4>1 DEF Slice
      <4>4. Readable(f, content_key, sz, q \div B)
        <5>1. PICK i : i = q \div B
          OBVIOUS
        <5>2. i \in Nat /\ i * B <= q /\ q < i * B + B /\ i * B \in Nat /\ B \in Nat
          BY <4>2, <5>1, Division, Multiple
        <5>3. i * B < end /\ offset < i * B + B
          BY <2>1, <4>2, <5>2
        <5>4. i \in first .. last
          BY <2>2, <5>2, <5>3
        <5> QED BY <2>3, <5>1, <5>4
      <4>5. Plain(f)[q] \in m[q]
        BY <4>2, <4>4, ByteIsHonest
      <4> QED BY <4>1, <4>3, <4>5
    <3> HIDE DEF s
    <3>5. Bytes(s).ok /\ Bytes(s).data = s
      BY DEF Bytes
    <3>6. do_read(f, content_key, sz, offset, len) = Bytes(s)
      BY <1>1, <3>2 DEF s
    <3> QED BY <2>1, <3>3, <3>4, <3>5, <3>6 DEF Honest, end
  <2>4. CASE ~\A i \in first .. last : Readable(f, content_key, sz, i)
    <3>1. PICK i \in first .. last : ~Readable(f, content_key, sz, i)
      BY <2>4
    <3>2. i \in Nat /\ i * B < end /\ offset < i * B + B
      BY <2>2
    <3>3. i * B \in Nat /\ (i + 1) * B = i * B + B
      BY <3>2, Multiple
    <3>4. i * B < sz /\ i * B < offset + len /\ offset < (i + 1) * B
      BY <2>1, <3>2, <3>3
    <3>5. block_count(sz) \in Nat /\ i < block_count(sz)
      BY <3>2, <3>4, BlockCount
    <3>6. i \in h
      BY <3>1, <3>2, <3>4, ViewBlock DEF Serves
    <3>7. read_range(f, content_key, sz, offset, len) = EIO
      <4>1. ~(offset >= sz \/ len = 0)
        BY <1>3
      <4> QED BY <2>4, <4>1 DEF read_range
    <3>8. EIO.ok = FALSE
      BY DEF EIO
    <3>9. i \in 0 .. block_count(sz) - 1
      BY <3>2, <3>5
    <3>10. i \in {b \in 0 .. block_count(sz) - 1 :
                    b * B < offset + len /\ offset < (b + 1) * B} \cap h
      BY <3>4, <3>6, <3>9
    <3>11. ~do_read(f, content_key, sz, offset, len).ok
      BY <1>1, <3>7, <3>8
    <3> QED BY <3>10, <3>11 DEF Honest
  <2> QED BY <2>3, <2>4
<1> QED BY <1>2, <1>3

\* No history of writes, truncates, I/O errors, torn blocks, failed saves and crashes
\* makes read_range return a byte that was not written at its place (nor the fill byte
\* of a hole), or refuse a range none of whose blocks was put at risk.
THEOREM HonestReads ==
    ASSUME NoFileIsMissing
    PROVE  Spec => []ReadsAreHonest
<1>1. ASSUME IInv PROVE ReadsAreHonest
  <2>1. ASSUME data # Missing, NEW r \in Ranges PROVE Honest(data, size, may, harm, r[1], r[2])
    <3>1. r[1] \in Nat /\ r[2] \in Nat /\ r[2] # 0
      BY BlockFileAssumption DEF Ranges
    <3>2. FileOK(data) /\ View(data, size, may, harm) /\ size \in Nat
      BY <1>1, Arrays DEF IInv
    <3> QED BY <2>1, <3>1, <3>2, ReadIsHonest
  <2> QED BY <2>1 DEF Honest, ReadsAreHonest, BlocksOf
<1>2. IInv => ReadsAreHonest
  BY <1>1
<1> QED BY <1>2, Invariance, PTL
=============================================================================
