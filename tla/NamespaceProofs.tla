--------------------------- MODULE NamespaceProofs ---------------------------
(***************************************************************************)
(* Proofs about Namespace for any set of names and any number of inodes:   *)
(* the lookup indexes always agree with the entry table, no operation      *)
(* strands an entry below a parent that is not a live directory, inode     *)
(* numbers the kernel still knows are not used again, a request changes    *)
(* one name at most, and directories never form a cycle.  And about        *)
(* DirStream: what a listing of a directory misses and repeats while the   *)
(* directory changes.                                                      *)
(***************************************************************************)
EXTENDS DirStream, FiniteSetTheorems, WellFoundedInduction, TLAPS

\* A table that is well formed by itself, in memory or on disk, when the
\* directories in l were removed half way.
Table(e, l) ==
    /\ DOMAIN e \subseteq Ino
    /\ Root \in DOMAIN e
    /\ e \in [DOMAIN e -> Entry]
    /\ e[Root].kind = Dir
    /\ e[Root].parent = Root
    /\ \A i, j \in Linked(e) :
        e[i].parent = e[j].parent /\ e[i].name = e[j].name => i = j
    /\ \A i \in DOMAIN e :
        \/ e[i].parent \in l
        \/ e[i].parent \in DOMAIN e /\ e[e[i].parent].kind = Dir

\* The inductive invariant: Load brings back the table on disk, so that table
\* has to be well formed as well.
IInv ==
    /\ TypeOK
    /\ Table(entries, lost)
    /\ disk # NoIndex => Table(disk, lost)
    /\ IndexConsistent

-----------------------------------------------------------------------------
(* Lemmas about the index operators *)

\* unlink_index keeps the indexes in step with remove_entry.
LEMMA UnlinkAgrees ==
    ASSUME NEW e, NEW c, NEW b, NEW i \in Linked(e),
           Agree(e, c, b)
    PROVE  Agree(Without(e, i),
                 unlink_children(c, i, e[i].parent, e[i].name),
                 unlink_by_parent(b, i, e[i].parent))
<1> DEFINE f == Without(e, i)
           d == unlink_children(c, i, e[i].parent, e[i].name)
           a == unlink_by_parent(b, i, e[i].parent)
<1>1. Linked(f) = Linked(e) \ {i} /\ \A j \in Linked(f) : f[j] = e[j]
  BY DEF Linked, Without
<1>2. \A j, k \in Linked(e) :
        e[j].parent = e[k].parent /\ e[j].name = e[k].name => j = k
  BY DEF Agree
<1>3. DOMAIN d = DOMAIN c \ {<<e[i].parent, e[i].name>>}
  BY DEF Agree, unlink_children
<1>4. \A k \in DOMAIN d : d[k] = c[k]
  BY DEF unlink_children
<1>5. DOMAIN d = {<<f[j].parent, f[j].name>> : j \in Linked(f)}
  BY <1>1, <1>2, <1>3 DEF Agree
<1>6. \A j \in Linked(f) : d[<<f[j].parent, f[j].name>>] = j
  BY <1>1, <1>4, <1>5 DEF Agree
<1>7. DOMAIN a = {f[j].parent : j \in Linked(f)}
  BY <1>1 DEF Agree, unlink_by_parent
<1>8. \A p \in DOMAIN a : a[p] = {j \in Linked(f) : f[j].parent = p}
  BY <1>1 DEF Agree, unlink_by_parent
<1> QED BY <1>5, <1>6, <1>7, <1>8 DEF Agree

\* link keeps the indexes in step with inserting a new entry under a free name.
LEMMA LinkAgrees ==
    ASSUME NEW e, NEW c, NEW b, NEW i, NEW x,
           Agree(e, c, b),
           i \notin DOMAIN e, i # Root,
           <<x.parent, x.name>> \notin DOMAIN c
    PROVE  Agree(With(e, i, x),
                 link_children(c, i, x.parent, x.name),
                 link_by_parent(b, i, x.parent))
<1> DEFINE f == With(e, i, x)
           d == link_children(c, i, x.parent, x.name)
           a == link_by_parent(b, i, x.parent)
<1>1. Linked(f) = Linked(e) \cup {i} /\ f[i] = x /\ \A j \in Linked(e) : f[j] = e[j]
  BY DEF Linked, With
<1>2. i \notin Linked(e)
  BY DEF Linked
<1>3. DOMAIN d = {<<f[j].parent, f[j].name>> : j \in Linked(f)}
  BY <1>1 DEF Agree, link_children
<1>4. ASSUME NEW j \in Linked(f) PROVE d[<<f[j].parent, f[j].name>>] = j
  <2>1. CASE j = i
    BY <1>1, <2>1 DEF link_children
  <2>2. CASE j \in Linked(e)
    <3> DEFINE k == <<e[j].parent, e[j].name>>
    <3>1. k \in DOMAIN c /\ c[k] = j
      BY <2>2 DEF Agree
    <3>2. k # <<x.parent, x.name>>
      BY <3>1
    <3>3. <<f[j].parent, f[j].name>> = k
      BY <1>1, <2>2
    <3> HIDE DEF k, f
    <3> QED BY <3>1, <3>2, <3>3 DEF link_children
  <2> QED BY <1>1, <2>1, <2>2
<1>5. DOMAIN a = {f[j].parent : j \in Linked(f)}
  BY <1>1 DEF Agree, link_by_parent
<1>6. \A p \in DOMAIN a : a[p] = {j \in Linked(f) : f[j].parent = p}
  BY <1>1, <1>2 DEF Agree, link_by_parent
<1> QED BY <1>3, <1>4, <1>5, <1>6 DEF Agree

-----------------------------------------------------------------------------
(* Lemmas about tables *)

LEMMA TableMono ==
    ASSUME NEW e, NEW l, NEW m, Table(e, l), l \subseteq m
    PROVE  Table(e, m)
  BY DEF Table

\* Removing an entry that is nobody's parent leaves a table.
LEMMA TableWithout ==
    ASSUME NEW e, NEW l, NEW i \in Linked(e), Table(e, l),
           \A j \in DOMAIN e : j # i /\ e[j].parent = i => i \in l
    PROVE  Table(Without(e, i), l)
<1> DEFINE f == Without(e, i)
<1>1. DOMAIN f = DOMAIN e \ {i} /\ \A j \in DOMAIN f : f[j] = e[j]
  BY DEF Without
<1>2. f \in [DOMAIN f -> Entry]
  BY <1>1 DEF Table, Without
<1>3. i # Root /\ Linked(f) = Linked(e) \ {i}
  BY <1>1 DEF Linked
<1> QED BY <1>1, <1>2, <1>3 DEF Table, Linked

\* So does setting one entry to a free name below a live directory.
LEMMA TableWith ==
    ASSUME NEW e, NEW l, NEW i \in Ino, NEW x \in Entry, Table(e, l), i # Root,
           \/ x.parent \in l
           \/ x.parent \in DOMAIN e /\ x.parent # i /\ e[x.parent].kind = Dir
           \/ x.parent = i /\ x.kind = Dir,
           \A j \in Linked(e) : j # i => ~(e[j].parent = x.parent /\ e[j].name = x.name),
           i \in DOMAIN e => e[i].kind = x.kind
    PROVE  Table(With(e, i, x), l)
<1> DEFINE f == With(e, i, x)
<1>1. /\ DOMAIN f = DOMAIN e \cup {i}
      /\ f[i] = x
      /\ \A j \in DOMAIN e : j # i => f[j] = e[j]
  BY DEF With
<1>2. f \in [DOMAIN f -> Entry]
  BY <1>1 DEF Table, With
<1>3. Linked(f) = Linked(e) \cup {i}
  BY <1>1 DEF Linked
<1>4. \A j \in DOMAIN f :
        \/ f[j].parent \in l
        \/ f[j].parent \in DOMAIN f /\ f[f[j].parent].kind = Dir
  BY <1>1 DEF Table
<1>5. \A j, k \in Linked(f) :
        f[j].parent = f[k].parent /\ f[j].name = f[k].name => j = k
  BY <1>1, <1>3 DEF Table, Linked
<1> QED BY <1>1, <1>2, <1>4, <1>5 DEF Table

\* Moving an entry is removing it and inserting it again.
LEMMA WithWithout ==
    ASSUME NEW e, NEW i, NEW x, i \in DOMAIN e
    PROVE  With(e, i, x) = With(Without(e, i), i, x)
  BY DEF With, Without

\* rebuild_indexes yields indexes that agree with any well-formed table.
LEMMA RebuildAgrees ==
    ASSUME NEW e, NEW l, Table(e, l)
    PROVE  Agree(e, ChildrenOf(e), ByParentOf(e))
<1>1. \A i \in Linked(e) : ChildrenOf(e)[<<e[i].parent, e[i].name>>] = i
  <2> TAKE i \in Linked(e)
  <2> DEFINE k == <<e[i].parent, e[i].name>>
             P(j) == j \in Linked(e) /\ k = <<e[j].parent, e[j].name>>
  <2>1. ChildrenOf(e)[k] = CHOOSE j : P(j)
    BY DEF ChildrenOf
  <2>2. P(i)
    OBVIOUS
  <2>3. P(CHOOSE j : P(j))
    BY <2>2
  <2> QED BY <2>1, <2>3 DEF Table
<1> QED BY <1>1 DEF Agree, ChildrenOf, ByParentOf

-----------------------------------------------------------------------------
(* One lemma per operation *)

\* What every outcome of save_index does to the rest of the state.
LEMMA SaveIndex ==
    ASSUME NEW e, NEW gone, save_index(e, gone), TypeOK, gone \subseteq Ino
    PROVE  /\ disk' \in {disk, e}
           /\ lost \subseteq lost'
           /\ lost' \subseteq Ino
           /\ stale' \subseteq lost'
           /\ faults' \in 0 .. MaxFaults
  BY NamespaceAssumption DEF save_index, Fault, TypeOK

\* A handler that leaves a table and indexes that agree, and saves it, keeps
\* the invariant.
LEMMA Commit ==
    ASSUME IInv, NEW gone, gone \subseteq Ino,
           Table(entries', lost),
           Agree(entries', children', by_parent'),
           save_index(entries', gone),
           next_ino' \in 2 .. MaxIno + 1,
           \A i \in DOMAIN entries' : i < next_ino'
    PROVE  IInv'
<1>1. /\ disk' \in {disk, entries'} /\ lost \subseteq lost' /\ lost' \subseteq Ino
      /\ stale' \subseteq lost' /\ faults' \in 0 .. MaxFaults
  BY SaveIndex DEF IInv
<1>2. Table(entries', lost')
  BY <1>1, TableMono
<1>3. disk' # NoIndex => Table(disk', lost')
  BY <1>1, <1>2, TableMono DEF IInv
<1>4. TypeOK'
  BY <1>1, <1>2 DEF TypeOK, Table
<1> QED BY <1>2, <1>3, <1>4 DEF IInv, IndexConsistent

LEMMA Refused ==
    ASSUME IInv, NEW errno, Refuse(errno)
    PROVE  IInv'
  BY DEF IInv, TypeOK, IndexConsistent, Refuse, Table, Agree, Linked

\* find_child returns an entry other than the root, which has that name.
LEMMA FoundChild ==
    ASSUME IInv, NEW p, NEW n \in OsName
    PROVE  /\ Found(p, n) => /\ find_child(p, n) \in Linked(entries)
                             /\ entries[find_child(p, n)].parent = p
                             /\ entries[find_child(p, n)].name = Lossy[n]
           /\ ~Found(p, n) => <<p, Lossy[n]>> \notin DOMAIN children
  BY DEF IInv, IndexConsistent, Agree, Found, find_child, Linked

LEMMA MakeInv ==
    ASSUME IInv, NEW p \in Ino, NEW n \in OsName, NEW kind \in Kind,
           Make(p, n, kind)
    PROVE  IInv'
<1>1. CASE Refuse("EEXIST")
  BY <1>1, Refused
<1>2. CASE ~Found(p, n) /\ ~Refuse("EEXIST")
  <2> DEFINE x == [parent |-> p, name |-> Lossy[n], kind |-> kind]
  <2>1. /\ next_ino \in Ino /\ next_ino' = next_ino + 1
        /\ entries' = With(entries, next_ino, x)
        /\ children' = link_children(children, next_ino, x.parent, x.name)
        /\ by_parent' = link_by_parent(by_parent, next_ino, x.parent)
        /\ save_index(entries', {})
        /\ p \in KnownDirs
    BY <1>2 DEF Make, allocate_ino
  <2>2. <<x.parent, x.name>> \notin DOMAIN children
    BY <1>2, FoundChild
  <2>3. next_ino \notin DOMAIN entries /\ next_ino # Root /\ next_ino \in Nat
    BY DEF IInv, TypeOK, Root
  <2>4. Agree(entries', children', by_parent')
    BY <2>1, <2>2, <2>3, LinkAgrees DEF IInv, IndexConsistent
  <2>5. x \in Entry /\ x.parent = p
    BY NamespaceAssumption DEF Entry
  <2>6. \A j \in Linked(entries) :
            ~(entries[j].parent = x.parent /\ entries[j].name = x.name)
    BY <2>2 DEF IInv, IndexConsistent, Agree
  <2>7. \/ x.parent \in lost
        \/ /\ x.parent \in DOMAIN entries /\ x.parent # next_ino
           /\ entries[x.parent].kind = Dir
    BY <2>1, <2>3, <2>5 DEF KnownDirs, IInv, TypeOK
  <2>8. Table(entries, lost)
    BY DEF IInv
  <2>9. Table(entries', lost)
    BY <2>1, <2>3, <2>5, <2>6, <2>7, <2>8, TableWith
  <2>10. next_ino' \in 2 .. MaxIno + 1 /\ \A i \in DOMAIN entries' : i < next_ino'
    BY <2>1, <2>3, NamespaceAssumption DEF IInv, TypeOK, With, Ino
  <2> QED BY <2>1, <2>4, <2>9, <2>10, Commit
<1> QED BY <1>1, <1>2 DEF Make

\* Removing an entry that has no children, or is no directory.
LEMMA RemoveInv ==
    ASSUME IInv, NEW i \in Linked(entries), Remove(i),
           entries[i].kind # Dir \/ ~has_children(i)
    PROVE  IInv'
<1>1. Table(entries, lost) /\ Agree(entries, children, by_parent) /\ TypeOK
  BY DEF IInv, IndexConsistent
<1>2. Agree(entries', children', by_parent')
  BY <1>1, UnlinkAgrees DEF Remove
<1>3. \A j \in DOMAIN entries : j # i /\ entries[j].parent = i => i \in lost
  <2>1. CASE entries[i].kind # Dir
    BY <1>1, <2>1 DEF Table
  <2>2. CASE ~has_children(i)
    <3>1. \A j \in Linked(entries) : entries[j].parent # i
      BY <1>1, <2>2 DEF Agree, has_children
    <3>2. entries[Root].parent # i
      BY <1>1 DEF Table, Linked
    <3> QED BY <3>1, <3>2 DEF Linked
  <2> QED BY <2>1, <2>2
<1>4. Table(entries', lost)
  BY <1>1, <1>3, TableWithout DEF Remove
<1>5. next_ino' = next_ino /\ DOMAIN entries' \subseteq DOMAIN entries
  BY DEF Remove, Without
<1> QED BY <1>1, <1>2, <1>4, <1>5, Commit DEF Remove, TypeOK

\* Moving s to a name of directory q that no other entry of the table has.
LEMMA RelinkInv ==
    ASSUME IInv, NEW s, NEW q, NEW nm \in Name, NEW e, NEW c, NEW b, NEW gone,
           gone \subseteq Ino,
           Relink(s, q, nm, e, c, b, gone),
           Table(e, lost), Agree(e, c, b), DOMAIN e \subseteq DOMAIN entries,
           s \in Linked(e), e[s] = entries[s],
           q \in DOMAIN e, e[q].kind = Dir,
           \A j \in Linked(e) : j # s => ~(e[j].parent = q /\ e[j].name = nm)
    PROVE  IInv'
<1> DEFINE x == [e[s] EXCEPT !.parent = q, !.name = nm]
           f == Without(e, s)
           d == unlink_children(c, s, e[s].parent, e[s].name)
           a == unlink_by_parent(b, s, e[s].parent)
<1>1. /\ entries' = With(e, s, x)
      /\ children' = link_children(d, s, q, nm)
      /\ by_parent' = link_by_parent(a, s, q)
      /\ save_index(entries', gone)
      /\ next_ino' = next_ino
  BY DEF Relink
<1>2. s \in DOMAIN e /\ s # Root /\ s \in Ino /\ e[s] \in Entry /\ q \in Ino
  BY DEF Linked, Table
<1>3. x \in Entry /\ x.parent = q /\ x.name = nm /\ x.kind = e[s].kind
  BY <1>2 DEF Entry
<1>4. Table(entries', lost)
  BY <1>1, <1>2, <1>3, TableWith
<1>5. Agree(f, d, a)
  BY UnlinkAgrees
<1>6. s \notin DOMAIN f /\ entries' = With(f, s, x)
  BY <1>1, <1>2, WithWithout DEF Without
<1>7. <<x.parent, x.name>> \notin DOMAIN d
  <2>1. \A j \in Linked(f) : f[j] = e[j] /\ j \in Linked(e) /\ j # s
    BY DEF Linked, Without
  <2> QED BY <1>3, <1>5, <2>1 DEF Agree
<1>8. Agree(entries', children', by_parent')
  <2>1. Agree(With(f, s, x), link_children(d, s, x.parent, x.name),
              link_by_parent(a, s, x.parent))
    <3> HIDE DEF x, f, d, a
    <3> QED BY <1>2, <1>5, <1>6, <1>7, LinkAgrees
  <2> QED BY <1>1, <1>3, <1>6, <2>1
<1>9. next_ino' \in 2 .. MaxIno + 1 /\ \A i \in DOMAIN entries' : i < next_ino'
  BY <1>1, <1>2 DEF IInv, TypeOK, With
<1> QED BY <1>1, <1>4, <1>8, <1>9, Commit

LEMMA RenameInv ==
    ASSUME IInv, NEW p \in Ino, NEW n \in OsName, NEW q \in Ino, NEW m \in OsName,
           rename(p, n, q, m)
    PROVE  IInv'
<1> DEFINE s == find_child(p, n)
           t == find_child(q, m)
<1>1. CASE \E errno : Refuse(errno)
  BY <1>1, Refused
<1>2. CASE ~\E errno : Refuse(errno)
  <2>1. /\ Found(p, n)
        /\ q \in DOMAIN entries
        /\ entries[q].kind = Dir
        /\ \/ /\ Found(q, m) /\ t # s
              /\ Replace(s, t, q, Lossy[m])
           \/ /\ ~(Found(q, m) /\ t # s)
              /\ Relink(s, q, Lossy[m], entries, children, by_parent, {})
    BY <1>2 DEF rename
  <2>2. s \in Linked(entries) /\ Lossy[m] \in Name
    BY <2>1, FoundChild, NamespaceAssumption
  <2>3. Table(entries, lost) /\ Agree(entries, children, by_parent) /\ TypeOK
    BY DEF IInv, IndexConsistent
  <2>4. CASE ~(Found(q, m) /\ t # s)
    <3>1. \A j \in Linked(entries) :
            j # s => ~(entries[j].parent = q /\ entries[j].name = Lossy[m])
      <4>1. SUFFICES ASSUME NEW j \in Linked(entries),
                            entries[j].parent = q, entries[j].name = Lossy[m]
                     PROVE  j = s
        OBVIOUS
      <4>2. <<q, Lossy[m]>> \in DOMAIN children /\ children[<<q, Lossy[m]>>] = j
        BY <2>3, <4>1 DEF Agree
      <4>3. Found(q, m) /\ t = j
        BY <4>2, FoundChild DEF find_child
      <4> QED BY <2>4, <4>3
    <3> QED BY <2>1, <2>2, <2>3, <2>4, <3>1, RelinkInv
  <2>5. CASE Found(q, m) /\ t # s
    <3> DEFINE e == Without(entries, t)
               c == unlink_children(children, t, entries[t].parent, entries[t].name)
               b == unlink_by_parent(by_parent, t, entries[t].parent)
               gone == {t} \cap {i \in DOMAIN entries : entries[i].kind = Dir}
    <3>1. /\ t \in Linked(entries)
          /\ entries[t].parent = q
          /\ entries[t].name = Lossy[m]
      BY <2>5, FoundChild
    <3>2. /\ Relink(s, q, Lossy[m], e, c, b, gone)
          /\ entries[t].kind = Dir => ~has_children(t)
      BY <1>2, <2>1, <2>5 DEF Replace
    <3>3. \A j \in DOMAIN entries : j # t /\ entries[j].parent = t => t \in lost
      <4>1. CASE entries[t].kind # Dir
        BY <2>3, <4>1 DEF Table
      <4>2. CASE entries[t].kind = Dir
        <5>1. \A j \in Linked(entries) : entries[j].parent # t
          BY <2>3, <3>2, <4>2 DEF Agree, has_children
        <5>2. entries[Root].parent # t
          BY <2>3, <3>1 DEF Table, Linked
        <5> QED BY <5>1, <5>2 DEF Linked
      <4> QED BY <4>1, <4>2
    <3>4. t # q
      <4>1. CASE entries[t].kind # Dir
        BY <2>1, <4>1
      <4>2. CASE entries[t].kind = Dir
        BY <2>3, <3>1, <3>2, <4>2 DEF Agree, has_children
      <4> QED BY <4>1, <4>2
    <3>5. Table(e, lost)
      BY <2>3, <3>1, <3>3, TableWithout
    <3>6. Agree(e, c, b)
      BY <2>3, <3>1, UnlinkAgrees
    <3>7. /\ DOMAIN e \subseteq DOMAIN entries
          /\ s \in Linked(e) /\ e[s] = entries[s]
          /\ q \in DOMAIN e /\ e[q].kind = Dir
      BY <2>1, <2>2, <2>5, <3>4 DEF Linked, Without
    <3>8. \A j \in Linked(e) : j # s => ~(e[j].parent = q /\ e[j].name = Lossy[m])
      BY <2>3, <3>1 DEF Table, Linked, Without
    <3>9. gone \subseteq Ino
      BY <2>3, <3>1 DEF Table, Linked
    <3> QED BY <2>2, <3>2, <3>5, <3>6, <3>7, <3>8, <3>9, RelinkInv
  <2> QED BY <2>4, <2>5
<1> QED BY <1>1, <1>2

LEMMA LoadInv ==
    ASSUME IInv, Load
    PROVE  IInv'
<1>1. Table(RootOnly, lost)
  BY NamespaceAssumption DEF Table, RootOnly, Entry, Ino, Kind, Root, Linked
<1>2. Table(entries', lost')
  BY <1>1 DEF Load, IInv
<1>3. Agree(entries', children', by_parent')
  BY <1>2, RebuildAgrees DEF Load
<1>4. next_ino' \in 2 .. MaxIno + 1 /\ \A i \in DOMAIN entries' : i < next_ino'
  BY <1>2, NamespaceAssumption DEF Load, Table, Ino
<1>5. TypeOK'
  BY <1>2, <1>4, NamespaceAssumption DEF Load, TypeOK, Table, IInv, Fault
<1> QED BY <1>2, <1>3, <1>5 DEF Load, IInv, IndexConsistent

-----------------------------------------------------------------------------
(* The invariant *)

LEMMA InitInv ==
    ASSUME Init
    PROVE  IInv
<1>1. Table(RootOnly, lost)
  BY NamespaceAssumption DEF Table, RootOnly, Entry, Ino, Kind, Root, Linked
<1>2. Linked(entries) = {}
  BY DEF Init, RootOnly, Linked
<1>3. IndexConsistent
  BY <1>2 DEF Init, IndexConsistent, Agree
<1>4. TypeOK
  BY <1>1, NamespaceAssumption DEF Init, TypeOK, Table, RootOnly, Root, Ino
<1> QED BY <1>1, <1>3, <1>4 DEF Init, IInv

LEMMA NextInv ==
    ASSUME IInv, [Next]_vars
    PROVE  IInv'
<1>1. CASE Load
  BY <1>1, LoadInv
<1>2. CASE UNCHANGED vars
  BY <1>2 DEF vars, IInv, TypeOK, IndexConsistent, Table, Agree, Linked
<1>3. ASSUME NEW p \in Ino, NEW n \in OsName,
             create(p, n) \/ mkdir(p, n) \/ symlink(p, n)
      PROVE  IInv'
  BY <1>3, MakeInv DEF create, mkdir, symlink, Kind
<1>4. ASSUME NEW p \in Ino, NEW n \in OsName, unlink(p, n)
      PROVE  IInv'
  BY <1>4, Refused, FoundChild, RemoveInv DEF unlink
<1>5. ASSUME NEW p \in Ino, NEW n \in OsName, rmdir(p, n)
      PROVE  IInv'
  BY <1>5, Refused, FoundChild, RemoveInv DEF rmdir
<1>6. ASSUME NEW p \in Ino, NEW n \in OsName, NEW q \in Ino, NEW m \in OsName,
             rename(p, n, q, m)
      PROVE  IInv'
  BY <1>6, RenameInv
<1> QED BY <1>1, <1>2, <1>3, <1>4, <1>5, <1>6 DEF Next, Request

\* IInv holds in every state of every behaviour.
THEOREM Invariance == Spec => []IInv
<1>1. Init => IInv
  BY InitInv
<1>2. IInv /\ [Next]_vars => IInv'
  BY NextInv
<1> QED BY <1>1, <1>2, PTL DEF Spec

\* Type correctness, with the root always present and every inode number below
\* the counter.
THEOREM TypeCorrect == Spec => []TypeOK
  BY Invariance, PTL DEF IInv

\* link, unlink_index and relink keep the children and by_parent indexes equal
\* to what rebuild_indexes computes, through every operation, failed save and
\* reload.
THEOREM IndexesAgree == Spec => []IndexConsistent
  BY Invariance, PTL DEF IInv

\* No operation leaves an entry below a parent that is not a live directory,
\* except below a directory whose removal was answered with EIO.
THEOREM NothingStranded == Spec => []ParentsLive
<1>1. IInv => ParentsLive
  BY DEF IInv, Table, ParentsLive
<1> QED BY <1>1, Invariance, PTL
-----------------------------------------------------------------------------
(* Inode numbers the kernel still knows *)

\* Numbers of half-removed directories lie below the counter and are not in use.
StaleInv ==
    /\ stale \cap DOMAIN entries = {}
    /\ \A i \in stale : i < next_ino

\* A commit of a table that lacks `gone' keeps StaleInv.
LEMMA StaleCommit ==
    ASSUME IInv, StaleInv, NEW gone,
           gone \subseteq DOMAIN entries, gone \cap DOMAIN entries' = {},
           DOMAIN entries' \subseteq DOMAIN entries,
           save_index(entries', gone), next_ino' = next_ino
    PROVE  StaleInv'
<1>1. stale' \subseteq stale \cup gone
  BY DEF save_index
<1>2. \A i \in DOMAIN entries : i < next_ino
  BY DEF IInv, TypeOK
<1> QED BY <1>1, <1>2 DEF StaleInv

LEMMA StaleMake ==
    ASSUME IInv, StaleInv, NEW p, NEW n, NEW kind, Make(p, n, kind)
    PROVE  StaleInv'
<1>1. CASE Refuse("EEXIST")
  BY <1>1 DEF Refuse, StaleInv
<1>2. CASE ~Refuse("EEXIST")
  <2>1. /\ DOMAIN entries' = DOMAIN entries \cup {next_ino}
        /\ next_ino' = next_ino + 1
        /\ stale' \subseteq stale
    BY <1>2 DEF Make, With, allocate_ino, save_index
  <2>2. next_ino \in Int /\ stale \subseteq Int
    BY NamespaceAssumption DEF IInv, TypeOK, Ino
  <2>3. next_ino \notin stale
    BY <2>2 DEF StaleInv
  <2>4. stale' \cap DOMAIN entries' = {}
    BY <2>1, <2>3 DEF StaleInv
  <2>5. ASSUME NEW i \in stale' PROVE i < next_ino'
    BY <2>1, <2>2, <2>5 DEF StaleInv
  <2> QED BY <2>4, <2>5 DEF StaleInv
<1> QED BY <1>1, <1>2

LEMMA StaleRemove ==
    ASSUME IInv, StaleInv, NEW i \in DOMAIN entries, Remove(i)
    PROVE  StaleInv'
<1> DEFINE gone == {i} \cap {j \in DOMAIN entries : entries[j].kind = Dir}
<1>1. /\ save_index(entries', gone)
      /\ DOMAIN entries' = DOMAIN entries \ {i}
      /\ next_ino' = next_ino
  BY DEF Remove, Without
<1> QED BY <1>1, StaleCommit

LEMMA StaleRename ==
    ASSUME IInv, StaleInv, NEW p \in Ino, NEW n \in OsName, NEW q \in Ino, NEW m \in OsName,
           rename(p, n, q, m)
    PROVE  StaleInv'
<1> DEFINE s == find_child(p, n)
           t == find_child(q, m)
<1>1. CASE \E errno : Refuse(errno)
  BY <1>1 DEF Refuse, StaleInv
<1>2. CASE ~\E errno : Refuse(errno)
  <2>1. /\ Found(p, n)
        /\ \/ /\ Found(q, m) /\ t # s
              /\ Replace(s, t, q, Lossy[m])
           \/ Relink(s, q, Lossy[m], entries, children, by_parent, {})
    BY <1>2 DEF rename
  <2>2. s \in DOMAIN entries
    BY <2>1, FoundChild DEF Linked
  <2>3. CASE Relink(s, q, Lossy[m], entries, children, by_parent, {})
    <3>1. DOMAIN entries' = DOMAIN entries /\ save_index(entries', {}) /\ next_ino' = next_ino
      BY <2>2, <2>3 DEF Relink, With
    <3> QED BY <3>1, StaleCommit
  <2>4. CASE Found(q, m) /\ t # s /\ Replace(s, t, q, Lossy[m])
    <3> DEFINE gone == {t} \cap {i \in DOMAIN entries : entries[i].kind = Dir}
    <3>1. /\ save_index(entries', gone)
          /\ DOMAIN entries' = (DOMAIN entries \ {t}) \cup {s}
          /\ next_ino' = next_ino
      BY <1>2, <2>4 DEF Replace, Relink, With, Without
    <3>2. gone \cap DOMAIN entries' = {} /\ DOMAIN entries' \subseteq DOMAIN entries
      BY <2>2, <2>4, <3>1
    <3> QED BY <3>1, <3>2, StaleCommit
  <2> QED BY <2>1, <2>3, <2>4
<1> QED BY <1>1, <1>2

LEMMA StaleNext ==
    ASSUME IInv, StaleInv, [Next]_vars
    PROVE  StaleInv'
<1>1. CASE Load
  BY <1>1 DEF Load, StaleInv
<1>2. CASE UNCHANGED vars
  BY <1>2 DEF vars, StaleInv
<1>3. ASSUME NEW p \in Ino, NEW n \in OsName,
             create(p, n) \/ mkdir(p, n) \/ symlink(p, n)
      PROVE  StaleInv'
  BY <1>3, StaleMake DEF create, mkdir, symlink
<1>4. ASSUME NEW errno, Refuse(errno)
      PROVE  StaleInv'
  BY <1>4 DEF Refuse, StaleInv
<1>5. ASSUME NEW p \in Ino, NEW n \in OsName, unlink(p, n) \/ rmdir(p, n)
      PROVE  StaleInv'
  BY <1>4, <1>5, FoundChild, StaleRemove DEF unlink, rmdir, Linked
<1>6. ASSUME NEW p \in Ino, NEW n \in OsName, NEW q \in Ino, NEW m \in OsName,
             rename(p, n, q, m)
      PROVE  StaleInv'
  BY <1>6, StaleRename
<1> QED BY <1>1, <1>2, <1>3, <1>5, <1>6 DEF Next, Request

\* The number of a directory whose removal failed half way is not given to another
\* object while the kernel still knows the directory: next_ino only grows.
THEOREM StaleNumbersStayFree == Spec => []StaleNumberStaysFree
<1>1. Init => StaleInv
  BY DEF Init, StaleInv
<1>2. IInv /\ StaleInv /\ [Next]_vars => StaleInv'
  BY StaleNext
<1>3. StaleInv => StaleNumberStaysFree
  BY DEF StaleInv, StaleNumberStaysFree
<1> QED BY <1>1, <1>2, <1>3, Invariance, PTL DEF Spec

-----------------------------------------------------------------------------
(* One name at a time *)

LEMMA AtMostOne ==
    ASSUME NEW S, NEW x, S \subseteq {x}
    PROVE  Cardinality(S) <= 1
<1>1. IsFiniteSet({x}) /\ Cardinality({x}) = 1
  BY FS_Singleton
<1>2. S \in SUBSET {x}
  OBVIOUS
<1> QED BY <1>1, <1>2, FS_Subset

\* What a request may do to the entries e, which become f, when the directories
\* in l were removed half way.
Changes(e, f, l) ==
    LET stay == DOMAIN e \cap DOMAIN f
        gone == DOMAIN e \ DOMAIN f
    IN  /\ Cardinality(gone) <= 1
        /\ Cardinality({i \in stay : e[i] # f[i]}) <= 1
        /\ \A i \in stay : e[i].kind = f[i].kind
        /\ \A i \in gone, j \in DOMAIN f : f[j].parent = i => i \in l

\* At most s changes, and at most t goes.
LEMMA ChangesOne ==
    ASSUME NEW e, NEW f, NEW l, NEW s, NEW t,
           DOMAIN e \ DOMAIN f \subseteq {t},
           \A i \in DOMAIN e \cap DOMAIN f : i # s => e[i] = f[i],
           s \in DOMAIN e \cap DOMAIN f => e[s].kind = f[s].kind,
           t \in DOMAIN e \ DOMAIN f => \A j \in DOMAIN f : f[j].parent = t => t \in l
    PROVE  Changes(e, f, l)
<1>1. Cardinality(DOMAIN e \ DOMAIN f) <= 1
  BY AtMostOne
<1>2. {i \in DOMAIN e \cap DOMAIN f : e[i] # f[i]} \subseteq {s}
  OBVIOUS
<1>3. Cardinality({i \in DOMAIN e \cap DOMAIN f : e[i] # f[i]}) <= 1
  BY <1>2, AtMostOne
<1>4. \A i \in DOMAIN e \cap DOMAIN f : e[i].kind = f[i].kind
  OBVIOUS
<1>5. \A i \in DOMAIN e \ DOMAIN f, j \in DOMAIN f : f[j].parent = i => i \in l
  OBVIOUS
<1> QED BY <1>1, <1>3, <1>4, <1>5 DEF Changes

LEMMA ChangesByMake ==
    ASSUME IInv, NEW p, NEW n, NEW kind, Make(p, n, kind)
    PROVE  entries' = entries \/ Changes(entries, entries', lost)
<1>1. CASE Refuse("EEXIST")
  BY <1>1 DEF Refuse
<1>2. CASE ~Refuse("EEXIST")
  <2>1. entries' = With(entries, next_ino, [parent |-> p, name |-> Lossy[n], kind |-> kind])
    BY <1>2 DEF Make
  <2>2. next_ino \notin DOMAIN entries
    BY DEF IInv, TypeOK
  <2>3. /\ DOMAIN entries \ DOMAIN entries' = {}
        /\ \A i \in DOMAIN entries \cap DOMAIN entries' : entries[i] = entries'[i]
    BY <2>1, <2>2 DEF With
  <2> QED BY <2>2, <2>3, ChangesOne
<1> QED BY <1>1, <1>2

LEMMA ChangesByRemove ==
    ASSUME IInv, NEW i \in Linked(entries), Remove(i), entries[i].kind # Dir \/ ~has_children(i)
    PROVE  Changes(entries, entries', lost)
<1>1. DOMAIN entries' = DOMAIN entries \ {i} /\ \A j \in DOMAIN entries' : entries'[j] = entries[j]
  BY DEF Remove, Without
<1>2. \A j \in DOMAIN entries' : entries'[j].parent = i => i \in lost
  <2>1. CASE entries[i].kind # Dir
    BY <1>1, <2>1 DEF IInv, Table
  <2>2. CASE ~has_children(i)
    <3>1. \A j \in Linked(entries) : entries[j].parent # i
      BY <2>2 DEF IInv, IndexConsistent, Agree, has_children
    <3>2. entries[Root].parent # i
      BY DEF IInv, Table, Linked
    <3> QED BY <1>1, <3>1, <3>2 DEF Linked
  <2> QED BY <2>1, <2>2
<1>3. i \in DOMAIN entries
  BY DEF Linked
<1> QED BY <1>1, <1>2, <1>3, ChangesOne

\* What rename leaves of the table before it links the source, and why it may.
Replaceable(e, t, c) ==
    /\ t \in Linked(e)
    /\ c = Without(e, t)
    /\ e[t].kind # Dir \/ ~has_children(t)
    /\ \A j \in DOMAIN c : c[j].parent = t => t \in lost

\* rename moves s to the name nm of directory q, in the table e that is left once a
\* replaced entry t is gone.
Moves(s, t, e, q, nm) ==
    /\ s \in Linked(entries) /\ s \in Linked(e) /\ e[s] = entries[s]
    /\ q \in DOMAIN e /\ q \in DOMAIN entries /\ entries[q].kind = Dir
    /\ entries[s].kind = Dir => ~is_descendant_of(q, s)
    /\ t # s /\ t # q
    /\ e = entries \/ Replaceable(entries, t, e)
    /\ entries' = With(e, s, [entries[s] EXCEPT !.parent = q, !.name = nm])
    /\ \E gone : save_index(entries', gone)
    /\ next_ino' = next_ino

LEMMA RenameCases ==
    ASSUME IInv, NEW p \in Ino, NEW n \in OsName, NEW q \in Ino, NEW m \in OsName,
           rename(p, n, q, m), ~\E errno : Refuse(errno)
    PROVE  \E s, t, e : Moves(s, t, e, q, Lossy[m])
<1> DEFINE s == find_child(p, n)
           t == find_child(q, m)
<1>1. /\ Found(p, n)
      /\ q \in DOMAIN entries
      /\ entries[q].kind = Dir
      /\ entries[s].kind = Dir => ~is_descendant_of(q, s)
      /\ \/ /\ Found(q, m) /\ t # s
            /\ Replace(s, t, q, Lossy[m])
         \/ Relink(s, q, Lossy[m], entries, children, by_parent, {})
  BY DEF rename
<1>2. s \in Linked(entries)
  BY <1>1, FoundChild
<1>3. CASE Relink(s, q, Lossy[m], entries, children, by_parent, {})
  <2>1. PICK u : u # s /\ u # q
    <3>1. s \in Ino /\ q \in Ino
      BY <1>2 DEF IInv, TypeOK, Linked
    <3>2. 0 # s /\ 0 # q
      BY <3>1, NamespaceAssumption DEF Ino
    <3> QED BY <3>2
  <2>2. entries' = With(entries, s, [entries[s] EXCEPT !.parent = q, !.name = Lossy[m]])
        /\ save_index(entries', {}) /\ next_ino' = next_ino
    BY <1>3 DEF Relink
  <2> HIDE DEF s, t
  <2>3. Moves(s, u, entries, q, Lossy[m])
    BY <1>1, <1>2, <2>1, <2>2 DEF Moves
  <2> QED BY <2>3
<1>4. CASE Found(q, m) /\ t # s /\ Replace(s, t, q, Lossy[m])
  <2> DEFINE e == Without(entries, t)
             gone == {t} \cap {i \in DOMAIN entries : entries[i].kind = Dir}
  <2>1. t \in Linked(entries) /\ entries[t].parent = q
    BY <1>4, FoundChild
  <2>2. /\ entries' = With(e, s, [entries[s] EXCEPT !.parent = q, !.name = Lossy[m]])
        /\ save_index(entries', gone) /\ next_ino' = next_ino
        /\ entries[t].kind = Dir => ~has_children(t)
    BY <1>4 DEF Replace, Relink
  <2>3. DOMAIN e = DOMAIN entries \ {t} /\ \A j \in DOMAIN e : e[j] = entries[j]
    BY DEF Without
  <2>4. entries[t].kind = Dir => \A j \in DOMAIN entries : entries[j].parent # t
    <3>1. entries[t].kind = Dir => \A j \in Linked(entries) : entries[j].parent # t
      BY <2>2 DEF IInv, IndexConsistent, Agree, has_children
    <3>2. entries[Root].parent # t
      BY <2>1 DEF IInv, Table, Linked
    <3> QED BY <3>1, <3>2 DEF Linked
  <2>5. t # q
    BY <1>1, <2>1, <2>4 DEF Linked
  <2>6. Replaceable(entries, t, e)
    <3>1. \A j \in DOMAIN e : e[j].parent = t => t \in lost
      BY <2>3, <2>4 DEF IInv, Table
    <3> QED BY <2>1, <2>2, <3>1 DEF Replaceable
  <2>7. s \in Linked(e) /\ e[s] = entries[s] /\ q \in DOMAIN e
    BY <1>1, <1>2, <1>4, <2>3, <2>5 DEF Linked
  <2> HIDE DEF s, t, e, gone
  <2>8. Moves(s, t, e, q, Lossy[m])
    BY <1>1, <1>2, <1>4, <2>2, <2>5, <2>6, <2>7 DEF Moves
  <2> QED BY <2>8
<1> QED BY <1>1, <1>3, <1>4

LEMMA ChangesByRename ==
    ASSUME IInv, NEW p \in Ino, NEW n \in OsName, NEW q \in Ino, NEW m \in OsName,
           rename(p, n, q, m)
    PROVE  entries' = entries \/ Changes(entries, entries', lost)
<1>1. CASE \E errno : Refuse(errno)
  BY <1>1 DEF Refuse
<1>2. CASE ~\E errno : Refuse(errno)
  <2>0. PICK s, t, e : Moves(s, t, e, q, Lossy[m])
    BY <1>2, RenameCases
  <2>1. /\ s \in Linked(entries) /\ s \in Linked(e) /\ e[s] = entries[s]
        /\ t # s /\ t # q
        /\ e = entries \/ Replaceable(entries, t, e)
        /\ entries' = With(e, s, [entries[s] EXCEPT !.parent = q, !.name = Lossy[m]])
    BY <2>0 DEF Moves
  <2>2. DOMAIN e \subseteq DOMAIN entries /\ \A i \in DOMAIN e : e[i] = entries[i]
    BY <2>1 DEF Replaceable, Without
  <2>3. s \in DOMAIN e /\ DOMAIN entries' = DOMAIN e /\ entries[s] \in Entry
    BY <2>1 DEF With, Linked, IInv, TypeOK
  <2>4. entries'[s].kind = entries[s].kind /\ entries'[s].parent = q
    BY <2>1, <2>3 DEF With, Entry
  <2>5. \A i \in DOMAIN entries' : i # s => entries'[i] = e[i]
    BY <2>1, <2>3 DEF With
  <2>6. DOMAIN entries \ DOMAIN entries' \subseteq {t}
    BY <2>1, <2>3 DEF Replaceable, Without
  <2>7. t \in DOMAIN entries \ DOMAIN entries' =>
            \A j \in DOMAIN entries' : entries'[j].parent = t => t \in lost
    BY <2>1, <2>3, <2>4, <2>5 DEF Replaceable
  <2> QED BY <2>2, <2>3, <2>4, <2>5, <2>6, <2>7, ChangesOne
<1> QED BY <1>1, <1>2

\* A request changes at most one name, though each rewrites the table and both
\* indexes: nothing but the entry it is about is renamed, retyped or dropped.
THEOREM OneNameChanges == Spec => OneNameAtATime
<1>1. ASSUME IInv, Next, reply' # "none", entries' # entries
      PROVE  Changes(entries, entries', lost)
  <2>1. ~Load
    BY <1>1 DEF Load
  <2>2. ~\E errno : Refuse(errno)
    BY <1>1 DEF Refuse
  <2>3. PICK p \in Ino, n \in OsName :
            \/ create(p, n) \/ mkdir(p, n) \/ symlink(p, n)
            \/ unlink(p, n) \/ rmdir(p, n)
            \/ \E q \in Ino, m \in OsName : rename(p, n, q, m)
    BY <1>1, <2>1 DEF Next, Request
  <2>4. CASE create(p, n) \/ mkdir(p, n) \/ symlink(p, n)
    BY <1>1, <2>4, ChangesByMake DEF create, mkdir, symlink
  <2>5. CASE unlink(p, n)
    BY <1>1, <2>2, <2>5, FoundChild, ChangesByRemove DEF unlink
  <2>6. CASE rmdir(p, n)
    BY <1>1, <2>2, <2>6, FoundChild, ChangesByRemove DEF rmdir
  <2>7. CASE \E q \in Ino, m \in OsName : rename(p, n, q, m)
    BY <1>1, <2>7, ChangesByRename
  <2> QED BY <2>3, <2>4, <2>5, <2>6, <2>7
<1>2. IInv /\ [Next]_vars =>
        [reply' # "none" /\ entries' # entries => Changes(entries, entries', lost)]_vars
  BY <1>1
<1> QED BY <1>2, Invariance, PTL DEF Spec, OneNameAtATime, Changes

-----------------------------------------------------------------------------
(* is_descendant_of climbs *)

\* Induction over the natural numbers, for a set.
LEMMA Induction ==
    ASSUME NEW S, 0 \in S, \A n \in Nat : n \in S => n + 1 \in S
    PROVE  \A n \in Nat : n \in S
<1> DEFINE R == {ss \in Nat \X Nat : ss[1] < ss[2]}
           T == Nat \ S
<1>1. IsWellFoundedOn(R, Nat)
  BY NatLessThanWellFounded, Zenon DEF OpToRel
<1>2. SUFFICES ASSUME T # {} PROVE FALSE
  OBVIOUS
<1>3. PICK x \in T : \A y \in T : ~(<<y, x>> \in R)
  BY <1>1, <1>2, WFMin
<1>4. x \in Nat /\ x \notin S
  OBVIOUS
<1>5. x # 0
  BY <1>4
<1>6. x - 1 \in Nat /\ (x - 1) + 1 = x /\ x - 1 < x
  BY <1>4, <1>5
<1>7. x - 1 \notin S
  BY <1>4, <1>6
<1>8. <<x - 1, x>> \in R
  BY <1>4, <1>6
<1> QED BY <1>3, <1>6, <1>7, <1>8

\* The first n steps of c from q.
Trail(c, q, V, n) ==
    {g \in [0 .. n -> V] : g[0] = q /\ \A k \in 0 .. n - 1 : g[k + 1] = c[g[k]]}

\* A function can be iterated.
LEMMA Iterates ==
    ASSUME NEW V, NEW q \in V, NEW c \in [V -> V]
    PROVE  \E f \in [Nat -> V] : f[0] = q /\ \A n \in Nat : f[n + 1] = c[f[n]]
<1>1. \A n \in Nat : Trail(c, q, V, n) # {}
  <2> DEFINE S == {n \in Nat : Trail(c, q, V, n) # {}}
  <2>1. 0 \in S
    <3>1. [k \in 0 .. 0 |-> q] \in Trail(c, q, V, 0)
      BY DEF Trail
    <3> QED BY <3>1
  <2>2. ASSUME NEW n \in Nat, n \in S PROVE n + 1 \in S
    <3>1. PICK g : g \in Trail(c, q, V, n)
      BY <2>2
    <3> DEFINE h == [k \in 0 .. n + 1 |-> IF k = n + 1 THEN c[g[n]] ELSE g[k]]
    <3>2. g \in [0 .. n -> V] /\ g[0] = q /\ \A k \in 0 .. n - 1 : g[k + 1] = c[g[k]]
      BY <3>1 DEF Trail
    <3>3. h \in [0 .. n + 1 -> V] /\ h[0] = q
      BY <2>2, <3>2
    <3>4. ASSUME NEW k \in 0 .. n PROVE h[k + 1] = c[h[k]]
      <4>1. CASE k = n
        BY <2>2, <4>1
      <4>2. CASE k # n
        <5>1. k \in 0 .. n - 1 /\ k + 1 \in 0 .. n /\ k + 1 # n + 1 /\ k # n + 1
          BY <2>2, <3>4, <4>2
        <5>2. h[k + 1] = g[k + 1] /\ h[k] = g[k]
          BY <2>2, <5>1
        <5> QED BY <3>2, <5>1, <5>2
      <4> QED BY <4>1, <4>2
    <3>5. (n + 1) - 1 = n /\ n + 1 \in Nat
      BY <2>2
    <3>6. h \in Trail(c, q, V, n + 1)
      <4> HIDE DEF h
      <4> QED BY <3>3, <3>4, <3>5 DEF Trail
    <3> QED BY <3>5, <3>6
  <2> HIDE DEF S
  <2>3. \A n \in Nat : n \in S
    BY <2>1, <2>2, Induction
  <2> QED BY <2>3 DEF S
<1>2. ASSUME NEW m \in Nat, NEW n \in Nat, NEW g \in Trail(c, q, V, m), NEW h \in Trail(c, q, V, n)
      PROVE  \A k \in Nat : k <= m /\ k <= n => g[k] = h[k]
  <2> DEFINE S == {k \in Nat : k <= m /\ k <= n => g[k] = h[k]}
  <2>1. 0 \in S
    BY DEF Trail
  <2>2. ASSUME NEW k \in Nat, k \in S PROVE k + 1 \in S
    <3>1. SUFFICES ASSUME k + 1 <= m, k + 1 <= n PROVE g[k + 1] = h[k + 1]
      BY <2>2
    <3>2. k \in 0 .. m - 1 /\ k \in 0 .. n - 1 /\ k <= m /\ k <= n
      BY <2>2, <3>1
    <3>3. g[k] = h[k]
      BY <2>2, <3>2
    <3> QED BY <3>2, <3>3 DEF Trail
  <2> HIDE DEF S
  <2>3. \A k \in Nat : k \in S
    BY <2>1, <2>2, Induction
  <2> QED BY <2>3 DEF S
<1> DEFINE G(n) == CHOOSE g : g \in Trail(c, q, V, n)
           f == [n \in Nat |-> G(n)[n]]
<1>3. \A n \in Nat : G(n) \in Trail(c, q, V, n)
  BY <1>1
<1> HIDE DEF G
<1>4. f \in [Nat -> V] /\ f[0] = q
  <2>1. \A n \in Nat : G(n) \in [0 .. n -> V] /\ G(n)[0] = q
    BY <1>3 DEF Trail
  <2>2. ASSUME NEW n \in Nat PROVE G(n)[n] \in V
    BY <2>1
  <2> QED BY <2>1, <2>2
<1>5. ASSUME NEW n \in Nat PROVE f[n + 1] = c[f[n]]
  <2>1. n + 1 \in Nat /\ n <= n + 1 /\ n <= n /\ n \in 0 .. (n + 1) - 1
    OBVIOUS
  <2>2. G(n + 1)[n + 1] = c[G(n + 1)[n]]
    BY <1>3, <2>1 DEF Trail
  <2>3. G(n + 1)[n] = G(n)[n]
    BY <1>2, <1>3, <2>1
  <2> QED BY <2>1, <2>2, <2>3
<1> QED BY <1>4, <1>5

\* The parent, or the entry itself where the loop of is_descendant_of stops.
Climb(i) == IF i = Root \/ i \notin DOMAIN entries THEN i ELSE entries[i].parent

\* The h-th step of the loop is one up from the step before.
LEMMA UpClimbs ==
    ASSUME NEW q
    PROVE  Up(q)[0] = q /\ \A h \in Nat : Up(q)[h + 1] = Climb(Up(q)[h])
<1> DEFINE V == {q} \cup {entries[i].parent : i \in DOMAIN entries}
           c == [i \in V |-> Climb(i)]
           Body(u) == [h \in Nat |-> IF h = 0 THEN q
                                     ELSE IF u[h - 1] = Root \/ u[h - 1] \notin DOMAIN entries
                                          THEN u[h - 1]
                                          ELSE entries[u[h - 1]].parent]
<1>1. c \in [V -> V] /\ q \in V
  BY DEF Climb
<1>2. PICK f \in [Nat -> V] : f[0] = q /\ \A n \in Nat : f[n + 1] = c[f[n]]
  <2> HIDE DEF c, V
  <2> QED BY <1>1, Iterates
<1>3. \A n \in Nat : f[n + 1] = Climb(f[n])
  BY <1>2
<1>4. f = Body(f)
  <2>1. ASSUME NEW h \in Nat PROVE f[h] = Body(f)[h]
    <3>1. CASE h = 0
      BY <1>2, <3>1
    <3>2. CASE h # 0
      <4>1. h - 1 \in Nat /\ (h - 1) + 1 = h
        BY <3>2
      <4>2. f[h] = Climb(f[h - 1])
        BY <1>3, <4>1
      <4> QED BY <3>2, <4>2 DEF Climb
    <3> QED BY <3>1, <3>2
  <2>2. f = [h \in Nat |-> f[h]]
    BY <1>2
  <2> QED BY <2>1, <2>2
<1>5. Up(q) = CHOOSE u : u = Body(u)
  BY DEF Up
<1>6. Up(q) = Body(Up(q))
  <2> HIDE DEF Body
  <2> QED BY <1>4, <1>5
<1>7. PICK u : u = Up(q)
  OBVIOUS
<1>8. u = Body(u)
  BY <1>6, <1>7
<1>9. u[0] = q
  BY <1>8
<1>10. ASSUME NEW h \in Nat PROVE u[h + 1] = Climb(u[h])
  <2>1. h + 1 \in Nat /\ h + 1 # 0 /\ (h + 1) - 1 = h
    OBVIOUS
  <2>2. Body(u)[h + 1] = Climb(u[h])
    BY <2>1 DEF Climb
  <2> QED BY <1>8, <2>2
<1> QED BY <1>7, <1>9, <1>10

-----------------------------------------------------------------------------
(* No cycle *)

\* An entry hangs below a directory of the table, or below a number that is not
\* in the table and older than its own.  A number in use as a parent is therefore
\* not handed out again, also after a remount.
Hanging(e) ==
    \A i \in Linked(e) :
        \/ e[i].parent \in DOMAIN e /\ e[e[i].parent].kind = Dir
        \/ e[i].parent \notin DOMAIN e /\ e[i].parent < i

Tree(e) == Hanging(e) /\ Acyclic(e)

TreeInv ==
    /\ Tree(entries)
    /\ disk # NoIndex => Tree(disk)

LEMMA TreeWithout ==
    ASSUME NEW e, NEW i \in Linked(e), Tree(e), \A j \in Linked(e) : j # i => e[j].parent # i
    PROVE  Tree(Without(e, i))
<1> DEFINE f == Without(e, i)
<1>1. Linked(f) = Linked(e) \ {i} /\ DOMAIN f = DOMAIN e \ {i} /\ \A j \in DOMAIN f : f[j] = e[j]
  BY DEF Linked, Without
<1>2. \A j \in Linked(f) : j \in DOMAIN f
  BY DEF Linked
<1> HIDE DEF f
<1>3. Hanging(f)
  BY <1>1, <1>2 DEF Tree, Hanging
<1>4. Acyclic(f)
  BY <1>1, <1>2 DEF Tree, Acyclic
<1> QED BY <1>3, <1>4 DEF Tree, f

\* A new entry, or one that was nobody's parent, below another: no set with it in it
\* is closed under parent, as the rest of the set would be one.
LEMMA TreeWithLeaf ==
    ASSUME NEW e, NEW i, NEW x, Tree(e), i # Root, x.parent # i,
           \A j \in Linked(e) : j # i => e[j].parent # i,
           \/ x.parent \in DOMAIN e /\ e[x.parent].kind = Dir
           \/ x.parent \notin DOMAIN e /\ x.parent < i,
           i \in DOMAIN e => e[i].kind = x.kind
    PROVE  Tree(With(e, i, x))
<1> DEFINE f == With(e, i, x)
<1>1. /\ DOMAIN f = DOMAIN e \cup {i} /\ Linked(f) = Linked(e) \cup {i}
      /\ f[i] = x /\ \A j \in DOMAIN e : j # i => f[j] = e[j]
  BY DEF Linked, With
<1>2. \A j \in Linked(e) : j \in DOMAIN e
  BY DEF Linked
<1> HIDE DEF f
<1>3. Hanging(f)
  <2>1. ASSUME NEW j \in Linked(f)
        PROVE  \/ f[j].parent \in DOMAIN f /\ f[f[j].parent].kind = Dir
               \/ f[j].parent \notin DOMAIN f /\ f[j].parent < j
    <3>1. CASE j = i
      BY <1>1, <3>1
    <3>2. CASE j # i
      <4>1. j \in Linked(e) /\ f[j] = e[j] /\ e[j].parent # i
        BY <1>1, <1>2, <2>1, <3>2
      <4>2. \/ e[j].parent \in DOMAIN e /\ e[e[j].parent].kind = Dir
            \/ e[j].parent \notin DOMAIN e /\ e[j].parent < j
        BY <4>1 DEF Tree, Hanging
      <4> QED BY <1>1, <4>1, <4>2
    <3> QED BY <3>1, <3>2
  <2> QED BY <2>1 DEF Hanging
<1>4. Acyclic(f)
  <2>1. SUFFICES ASSUME NEW S \in (SUBSET Linked(f)) \ {{}}, \A j \in S : f[j].parent \in S
                 PROVE  FALSE
    BY DEF Acyclic
  <2> DEFINE T == S \ {i}
  <2>2. T \subseteq Linked(e) /\ \A j \in T : f[j] = e[j]
    BY <1>1, <1>2, <2>1
  <2>3. T # {}
    BY <1>1, <2>1
  <2>4. \A j \in T : e[j].parent \in T
    BY <2>1, <2>2
  <2> HIDE DEF T
  <2> QED BY <2>2, <2>3, <2>4 DEF Tree, Acyclic
<1> QED BY <1>3, <1>4 DEF Tree, f

\* If the loop of is_descendant_of stays within a set of entries for all its hops, it
\* has been twice at one of them, and there is a cycle.
LEMMA ClimbRepeats ==
    ASSUME NEW q, IsFiniteSet(DOMAIN entries),
           NEW N \in Nat, N = Cardinality(DOMAIN entries) + 1,
           \A h \in 0 .. N : Up(q)[h] \in Linked(entries)
    PROVE  ~Acyclic(entries)
<1>1. PICK u : u = Up(q)
  OBVIOUS
<1>2. \A h \in 0 .. N : u[h] \in Linked(entries) /\ u[h] \in DOMAIN entries /\ u[h] # Root
  BY <1>1 DEF Linked
<1>3. ASSUME NEW h \in 0 .. N PROVE u[h + 1] = entries[u[h]].parent
  <2>1. u[h + 1] = Climb(u[h])
    BY <1>1, <1>3, UpClimbs
  <2> QED BY <1>2, <2>1 DEF Climb
<1>4. PICK a \in 0 .. N, b \in 0 .. N : a < b /\ u[a] = u[b]
  <2> DEFINE f == [h \in 0 .. N |-> u[h]]
  <2>1. f \in [0 .. N -> DOMAIN entries]
    BY <1>2
  <2>2. IsFiniteSet(0 .. N) /\ Cardinality(0 .. N) = N + 1
    BY FS_Interval
  <2>3. Cardinality(DOMAIN entries) \in Nat
    BY FS_CardinalityType
  <2>4. Cardinality(DOMAIN entries) < Cardinality(0 .. N)
    BY <2>2, <2>3
  <2> HIDE DEF f
  <2>5. PICK x \in 0 .. N, y \in 0 .. N : x # y /\ f[x] = f[y]
    BY <2>1, <2>2, <2>4, FS_PigeonHole
  <2>6. u[x] = u[y]
    BY <2>5 DEF f
  <2>7. x < y \/ y < x
    BY <2>5
  <2> QED BY <2>6, <2>7
<1> DEFINE S == {u[h] : h \in a .. b - 1}
<1>5. \A h \in a .. b - 1 : h \in 0 .. N /\ h + 1 \in a .. b
  BY <1>4
<1>6. S \subseteq Linked(entries)
  BY <1>2, <1>5
<1>7. S # {}
  <2>1. a \in a .. b - 1
    BY <1>4
  <2> QED BY <2>1
<1>8. ASSUME NEW i \in S PROVE entries[i].parent \in S
  <2>1. PICK h \in a .. b - 1 : i = u[h]
    BY <1>8
  <2>2. entries[i].parent = u[h + 1]
    BY <1>3, <1>5, <2>1
  <2>3. CASE h + 1 = b
    <3>1. a \in a .. b - 1
      BY <1>4
    <3> QED BY <1>4, <2>2, <2>3, <3>1
  <2>4. CASE h + 1 # b
    <3>1. h + 1 \in a .. b - 1
      BY <1>4, <2>1, <2>4
    <3> QED BY <2>2, <3>1
  <2> QED BY <2>3, <2>4
<1> HIDE DEF S
<1> QED BY <1>6, <1>7, <1>8 DEF Acyclic

LEMMA FiniteTable ==
    ASSUME IInv
    PROVE  IsFiniteSet(DOMAIN entries) /\ Cardinality(DOMAIN entries) \in Nat
<1>1. IsFiniteSet(1 .. MaxIno)
  BY NamespaceAssumption, FS_Interval
<1>2. DOMAIN entries \in SUBSET (1 .. MaxIno)
  BY DEF IInv, TypeOK, Ino
<1> QED BY <1>1, <1>2, FS_Subset, FS_CardinalityType

\* A directory moved below one that is not its descendant: a set with it in it that is
\* closed under parent would hold every step of the loop of is_descendant_of.
LEMMA TreeWithDirectory ==
    ASSUME IInv, Tree(entries), NEW e, NEW s, NEW x, NEW q,
           Tree(e), DOMAIN e \subseteq DOMAIN entries, \A j \in DOMAIN e : e[j] = entries[j],
           s \in Linked(e), q \in DOMAIN e, e[q].kind = Dir,
           x.parent = q, x.kind = e[s].kind,
           ~is_descendant_of(q, s)
    PROVE  Tree(With(e, s, x))
<1> DEFINE f == With(e, s, x)
<1>1. /\ DOMAIN f = DOMAIN e /\ Linked(f) = Linked(e) /\ Linked(e) \subseteq Linked(entries)
      /\ f[s] = x /\ \A j \in DOMAIN e : j # s => f[j] = entries[j]
  BY DEF Linked, With
<1>2. \A j \in Linked(e) : j \in DOMAIN e
  BY DEF Linked
<1> HIDE DEF f
<1>3. Hanging(f)
  BY <1>1, <1>2 DEF Tree, Hanging
<1>4. Acyclic(f)
  <2>1. SUFFICES ASSUME NEW S \in (SUBSET Linked(f)) \ {{}}, \A j \in S : f[j].parent \in S
                 PROVE  FALSE
    BY DEF Acyclic
  <2>2. S \subseteq Linked(entries) /\ \A j \in S : j # s => f[j] = entries[j]
    BY <1>1, <1>2, <2>1
  <2>3. CASE s \notin S
    BY <2>1, <2>2, <2>3 DEF Tree, Acyclic
  <2>4. CASE s \in S
    <3>1. q \in S
      BY <1>1, <2>1, <2>4
    <3>2. PICK N \in Nat : N = Cardinality(DOMAIN entries) + 1
      BY FiniteTable
    <3>3. \A h \in 0 .. N : Up(q)[h] # s
      BY <3>2 DEF is_descendant_of
    <3> DEFINE T == {h \in Nat : h <= N => Up(q)[h] \in S}
    <3>4. 0 \in T
      BY <3>1, UpClimbs
    <3>5. ASSUME NEW h \in Nat, h \in T PROVE h + 1 \in T
      <4>1. SUFFICES ASSUME h + 1 <= N PROVE Up(q)[h + 1] \in S
        BY <3>5
      <4>2. h \in 0 .. N /\ Up(q)[h] \in S /\ Up(q)[h] # s
        BY <3>2, <3>3, <3>5, <4>1
      <4>3. PICK i : i = Up(q)[h]
        OBVIOUS
      <4>4. i \in S /\ i # s /\ i \in DOMAIN entries /\ i # Root /\ f[i] = entries[i]
        BY <2>2, <4>2, <4>3 DEF Linked
      <4>5. Up(q)[h + 1] = Climb(i)
        BY <3>5, <4>3, UpClimbs
      <4>6. Climb(i) = f[i].parent
        BY <4>4 DEF Climb
      <4> QED BY <2>1, <4>4, <4>5, <4>6
    <3> HIDE DEF T
    <3>6. \A h \in Nat : h \in T
      BY <3>4, <3>5, Induction
    <3>7. \A h \in 0 .. N : Up(q)[h] \in Linked(entries)
      BY <2>2, <3>6 DEF T
    <3>8. ~Acyclic(entries)
      BY <3>2, <3>7, FiniteTable, ClimbRepeats
    <3> QED BY <3>8 DEF Tree
  <2> QED BY <2>3, <2>4
<1> QED BY <1>3, <1>4 DEF Tree, f

-----------------------------------------------------------------------------

LEMMA TreeCommit ==
    ASSUME TreeInv, Tree(entries'), NEW gone, save_index(entries', gone)
    PROVE  TreeInv'
<1>1. disk' = disk \/ disk' = entries'
  BY DEF save_index
<1>2. disk' # NoIndex => Tree(disk')
  BY <1>1 DEF TreeInv
<1> QED BY <1>2 DEF TreeInv

LEMMA TreeMake ==
    ASSUME IInv, StaleInv, TreeInv, NEW p, NEW n \in OsName, NEW kind, Make(p, n, kind)
    PROVE  TreeInv'
<1>1. CASE Refuse("EEXIST")
  BY <1>1 DEF Refuse, TreeInv
<1>2. CASE ~Refuse("EEXIST")
  <2> DEFINE x == [parent |-> p, name |-> Lossy[n], kind |-> kind]
  <2>1. entries' = With(entries, next_ino, x) /\ save_index(entries', {}) /\ p \in KnownDirs
    BY <1>2 DEF Make
  <2>2. /\ next_ino \notin DOMAIN entries /\ next_ino # Root /\ next_ino \in Int
        /\ \A i \in DOMAIN entries : i \in Int /\ i < next_ino /\ entries[i].parent \in Int
    BY NamespaceAssumption DEF IInv, TypeOK, Root, Ino, Entry
  <2>3. \/ p \in DOMAIN entries /\ entries[p].kind = Dir
        \/ p \notin DOMAIN entries /\ p < next_ino
    BY <2>1 DEF KnownDirs, StaleInv
  <2>4. p # next_ino
    BY <2>2, <2>3
  <2>5. \A j \in Linked(entries) : entries[j].parent # next_ino
    <3>1. ASSUME NEW j \in Linked(entries), entries[j].parent = next_ino PROVE FALSE
      <4>1. j \in DOMAIN entries /\ next_ino < j
        BY <2>2, <3>1 DEF TreeInv, Tree, Hanging, Linked
      <4> QED BY <2>2, <4>1
    <3> QED BY <3>1
  <2>6. Tree(entries) /\ x.parent = p
    BY DEF TreeInv
  <2> HIDE DEF x
  <2>7. Tree(With(entries, next_ino, x))
    BY <2>2, <2>3, <2>4, <2>5, <2>6, TreeWithLeaf
  <2> QED BY <2>1, <2>7, TreeCommit
<1> QED BY <1>1, <1>2 DEF Make

\* An entry that is no directory, or has no children in the index, is no parent.
LEMMA NobodysParent ==
    ASSUME IInv, Tree(entries), NEW i \in Linked(entries), entries[i].kind # Dir \/ ~has_children(i)
    PROVE  \A j \in Linked(entries) : entries[j].parent # i
<1>1. CASE entries[i].kind # Dir
  BY <1>1 DEF Tree, Hanging, Linked
<1>2. CASE ~has_children(i)
  BY <1>2 DEF IInv, IndexConsistent, Agree, has_children
<1> QED BY <1>1, <1>2

LEMMA TreeRemove ==
    ASSUME IInv, TreeInv, NEW i \in Linked(entries), Remove(i), entries[i].kind # Dir \/ ~has_children(i)
    PROVE  TreeInv'
<1>1. Tree(entries)
  BY DEF TreeInv
<1>2. Tree(entries')
  BY <1>1, NobodysParent, TreeWithout DEF Remove
<1> QED BY <1>2, TreeCommit DEF Remove

LEMMA TreeRename ==
    ASSUME IInv, TreeInv, NEW p \in Ino, NEW n \in OsName, NEW q \in Ino, NEW m \in OsName,
           rename(p, n, q, m)
    PROVE  TreeInv'
<1>1. CASE \E errno : Refuse(errno)
  BY <1>1 DEF Refuse, TreeInv
<1>2. CASE ~\E errno : Refuse(errno)
  <2>1. PICK s, t, e : Moves(s, t, e, q, Lossy[m])
    BY <1>2, RenameCases
  <2>2. /\ s \in Linked(entries) /\ s \in Linked(e) /\ e[s] = entries[s]
        /\ q \in DOMAIN e /\ q \in DOMAIN entries /\ entries[q].kind = Dir
        /\ entries[s].kind = Dir => ~is_descendant_of(q, s)
        /\ e = entries \/ Replaceable(entries, t, e)
    BY <2>1 DEF Moves
  <2>3. PICK x : x = [entries[s] EXCEPT !.parent = q, !.name = Lossy[m]]
    OBVIOUS
  <2>4. entries' = With(e, s, x) /\ \E gone : save_index(entries', gone)
    BY <2>1, <2>3 DEF Moves
  <2>5. x.parent = q /\ x.kind = e[s].kind
    <3>1. entries[s] \in Entry
      BY <2>2 DEF IInv, TypeOK, Linked
    <3> QED BY <2>2, <2>3, <3>1 DEF Entry
  <2>6. Tree(entries)
    BY DEF TreeInv
  <2>7. Tree(e) /\ DOMAIN e \subseteq DOMAIN entries /\ \A j \in DOMAIN e : e[j] = entries[j]
    <3>1. CASE e = entries
      BY <2>6, <3>1
    <3>2. CASE Replaceable(entries, t, e)
      <4>1. t \in Linked(entries) /\ e = Without(entries, t)
           /\ (entries[t].kind # Dir \/ ~has_children(t))
        BY <3>2 DEF Replaceable
      <4>2. \A j \in Linked(entries) : j # t => entries[j].parent # t
        BY <2>6, <4>1, NobodysParent
      <4>3. Tree(e)
        BY <2>6, <4>1, <4>2, TreeWithout
      <4> QED BY <4>1, <4>3 DEF Without
    <3> QED BY <2>2, <3>1, <3>2
  <2>8. CASE entries[s].kind = Dir
    <3>1. Tree(With(e, s, x))
      BY <2>2, <2>5, <2>6, <2>7, <2>8, TreeWithDirectory
    <3> QED BY <2>4, <3>1, TreeCommit
  <2>9. CASE entries[s].kind # Dir
    <3>1. s # q /\ s # Root /\ s \in DOMAIN e
      BY <2>2, <2>9 DEF Linked
    <3>2. \A j \in Linked(e) : e[j].parent # s
      BY <2>2, <2>7, <2>9 DEF Tree, Hanging, Linked
    <3>3. e[q].kind = Dir
      BY <2>2, <2>7
    <3>4. Tree(With(e, s, x))
      BY <2>2, <2>5, <2>7, <3>1, <3>2, <3>3, TreeWithLeaf
    <3> QED BY <2>4, <3>4, TreeCommit
  <2> QED BY <2>8, <2>9
<1> QED BY <1>1, <1>2

LEMMA TreeNext ==
    ASSUME IInv, StaleInv, TreeInv, [Next]_vars
    PROVE  TreeInv'
<1>1. CASE Load
  <2>1. Tree(RootOnly)
    <3>1. Linked(RootOnly) = {}
      BY DEF RootOnly, Linked
    <3> QED BY <3>1 DEF Tree, Hanging, Acyclic
  <2>2. Tree(entries') /\ disk' = disk
    BY <1>1, <2>1 DEF Load, TreeInv
  <2> QED BY <2>2 DEF TreeInv
<1>2. CASE UNCHANGED vars
  <2>1. entries' = entries /\ disk' = disk
    BY <1>2 DEF vars
  <2> QED BY <2>1 DEF TreeInv
<1>3. ASSUME NEW p \in Ino, NEW n \in OsName,
             create(p, n) \/ mkdir(p, n) \/ symlink(p, n)
      PROVE  TreeInv'
  BY <1>3, TreeMake DEF create, mkdir, symlink
<1>4. ASSUME NEW errno, Refuse(errno)
      PROVE  TreeInv'
  BY <1>4 DEF Refuse, TreeInv
<1>5. ASSUME NEW p \in Ino, NEW n \in OsName, unlink(p, n) \/ rmdir(p, n)
      PROVE  TreeInv'
  BY <1>4, <1>5, FoundChild, TreeRemove DEF unlink, rmdir
<1>6. ASSUME NEW p \in Ino, NEW n \in OsName, NEW q \in Ino, NEW m \in OsName,
             rename(p, n, q, m)
      PROVE  TreeInv'
  BY <1>6, TreeRename
<1> QED BY <1>1, <1>2, <1>3, <1>5, <1>6 DEF Next, Request

\* No sequence of renames, failed saves and remounts closes a cycle of directories, in
\* memory or in pqfs.index, and the bound on the hops of is_descendant_of is enough for
\* a table of any size.
THEOREM NoCycle == Spec => []TreeHasNoCycle
<1>1. Init => IInv /\ StaleInv /\ TreeInv
  <2> SUFFICES ASSUME Init PROVE IInv /\ StaleInv /\ TreeInv
    OBVIOUS
  <2>1. IInv /\ StaleInv
    BY InitInv DEF Init, StaleInv
  <2>2. Linked(entries) = {} /\ disk = NoIndex
    BY DEF Init, RootOnly, Linked
  <2>3. TreeInv
    BY <2>2 DEF TreeInv, Tree, Hanging, Acyclic
  <2> QED BY <2>1, <2>3
<1>2. (IInv /\ StaleInv /\ TreeInv) /\ [Next]_vars => (IInv /\ StaleInv /\ TreeInv)'
  BY NextInv, StaleNext, TreeNext
<1>3. TreeInv => TreeHasNoCycle
  BY DEF TreeInv, Tree, TreeHasNoCycle
<1> QED BY <1>1, <1>2, <1>3, PTL DEF Spec

-----------------------------------------------------------------------------
(* Positions in an ordered set *)

LEMMA RankBound ==
    ASSUME NEW S, IsFiniteSet(S), S \subseteq Nat, NEW x \in S
    PROVE  Rank(S, x) \in Nat /\ Rank(S, x) < Cardinality(S)
<1> DEFINE B == {y \in S : y < x}
<1>1. B \in SUBSET S /\ B # S
  OBVIOUS
<1>2. IsFiniteSet(B) /\ Cardinality(B) <= Cardinality(S) /\ Cardinality(B) # Cardinality(S)
  BY <1>1, FS_Subset
<1>3. Cardinality(B) \in Nat /\ Cardinality(S) \in Nat
  BY <1>2, FS_CardinalityType
<1> QED BY <1>2, <1>3 DEF Rank

\* A smaller element has a smaller rank.
LEMMA RankGrows ==
    ASSUME NEW S, IsFiniteSet(S), S \subseteq Nat,
           NEW x \in S, NEW y \in S, x < y
    PROVE  Rank(S, x) < Rank(S, y)
<1> DEFINE B == {z \in S : z < x}
           C == {z \in S : z < y}
<1>1. IsFiniteSet(C)
  <2>1. C \in SUBSET S
    OBVIOUS
  <2> QED BY <2>1, FS_Subset
<1>2. B \in SUBSET C /\ B # C
  <2>1. x \in C /\ x \notin B
    OBVIOUS
  <2>2. \A z \in B : z \in C
    OBVIOUS
  <2> QED BY <2>1, <2>2
<1>3. IsFiniteSet(B) /\ Cardinality(B) <= Cardinality(C) /\ Cardinality(B) # Cardinality(C)
  BY <1>1, <1>2, FS_Subset
<1>4. Cardinality(B) \in Nat /\ Cardinality(C) \in Nat
  BY <1>1, <1>3, FS_CardinalityType
<1> QED BY <1>3, <1>4 DEF Rank

\* The elements with a rank from a to b - 1.
Slice(S, a, b) == {x \in S : a <= Rank(S, x) /\ Rank(S, x) < b}

\* Each position is that of exactly one element.
LEMMA RankOnto ==
    ASSUME NEW S, IsFiniteSet(S), S \subseteq Nat, NEW k \in 0 .. Cardinality(S) - 1
    PROVE  \E x \in S : Rank(S, x) = k /\ \A y \in S : Rank(S, y) = k => y = x
<1> DEFINE T == 0 .. Cardinality(S) - 1
           f == [x \in S |-> Rank(S, x)]
<1>1. Cardinality(S) \in Nat
  BY FS_CardinalityType
<1>2. IsFiniteSet(T) /\ Cardinality(T) = Cardinality(S)
  <2>1. CASE Cardinality(S) = 0
    <3>1. 0 > Cardinality(S) - 1 /\ Cardinality(S) - 1 \in Int
      BY <2>1
    <3> QED BY <2>1, <3>1, FS_Interval
  <2>2. CASE Cardinality(S) # 0
    <3>1. Cardinality(S) - 1 \in Int /\ ~(0 > Cardinality(S) - 1)
      BY <1>1, <2>2
    <3>2. IsFiniteSet(T) /\ Cardinality(T) = (Cardinality(S) - 1) - 0 + 1
      BY <3>1, FS_Interval
    <3> QED BY <1>1, <3>2
  <2> QED BY <2>1, <2>2
<1>0. \A x \in S : Rank(S, x) \in Nat /\ Rank(S, x) < Cardinality(S)
  BY RankBound
<1>3. \A x, y \in S : Rank(S, x) = Rank(S, y) => x = y
  <2> SUFFICES ASSUME NEW x \in S, NEW y \in S, x # y
               PROVE  Rank(S, x) # Rank(S, y)
    OBVIOUS
  <2>1. Rank(S, x) \in Nat /\ Rank(S, y) \in Nat
    BY <1>0
  <2>2. x < y \/ y < x
    OBVIOUS
  <2>3. CASE x < y
    <3>1. Rank(S, x) < Rank(S, y)
      BY <2>3, RankGrows
    <3> QED BY <2>1, <3>1
  <2>4. CASE y < x
    <3>1. Rank(S, y) < Rank(S, x)
      BY <2>4, RankGrows
    <3> QED BY <2>1, <3>1
  <2> QED BY <2>2, <2>3, <2>4
<1>4. f \in Injection(S, T)
  <2>1. f \in [S -> T]
    <3>1. \A x \in S : Rank(S, x) \in T
      BY <1>0, <1>1
    <3> QED BY <3>1
  <2>2. IsInjective(f)
    BY <1>3 DEF IsInjective
  <2> QED BY <2>1, <2>2 DEF Injection
<1>5. f \in Surjection(S, T)
  BY <1>2, <1>4, FS_Injection
<1>6. PICK x \in S : f[x] = k
  BY <1>5 DEF Surjection
<1> QED BY <1>3, <1>6

\* A slice that lies inside the set has as many elements as positions.
LEMMA SliceSize ==
    ASSUME NEW S, IsFiniteSet(S), S \subseteq Nat,
           NEW a \in Nat, NEW b \in Nat, a <= b, b <= Cardinality(S)
    PROVE  IsFiniteSet(Slice(S, a, b)) /\ Cardinality(Slice(S, a, b)) = b - a
<1> DEFINE T == a .. b - 1
           f == [x \in Slice(S, a, b) |-> Rank(S, x)]
<1>1. Cardinality(S) \in Nat
  BY FS_CardinalityType
<1>2. IsFiniteSet(T) /\ Cardinality(T) = b - a
  <2>1. CASE a = b
    <3>1. a > b - 1 /\ b - 1 \in Int /\ b - a = 0
      BY <2>1
    <3> QED BY <2>1, <3>1, FS_Interval
  <2>2. CASE a # b
    <3>1. b - 1 \in Int /\ ~(a > b - 1)
      BY <2>2
    <3>2. IsFiniteSet(T) /\ Cardinality(T) = (b - 1) - a + 1
      BY <3>1, FS_Interval
    <3> QED BY <3>2
  <2> QED BY <2>1, <2>2
<1>3. \A k \in T : k \in 0 .. Cardinality(S) - 1
  BY <1>1
<1>4. \A x \in S : Rank(S, x) \in 0 .. Cardinality(S) - 1
  <2>1. \A x \in S : Rank(S, x) \in Nat /\ Rank(S, x) < Cardinality(S)
    BY RankBound
  <2> QED BY <1>1, <2>1
<1>5. f \in [Slice(S, a, b) -> T]
  <2> SUFFICES ASSUME NEW x \in Slice(S, a, b)
               PROVE  Rank(S, x) \in T
    OBVIOUS
  <2>1. x \in S /\ a <= Rank(S, x) /\ Rank(S, x) < b
    BY DEF Slice
  <2>2. Rank(S, x) \in Nat
    BY <2>1, RankBound
  <2> QED BY <2>1, <2>2
<1>6. IsInjective(f)
  <2> SUFFICES ASSUME NEW x \in Slice(S, a, b), NEW y \in Slice(S, a, b),
                      Rank(S, x) = Rank(S, y)
               PROVE  x = y
    BY DEF IsInjective
  <2>1. x \in S /\ y \in S
    BY DEF Slice
  <2> QED BY <1>4, <2>1, RankOnto
<1>7. \A k \in T : \E x \in Slice(S, a, b) : f[x] = k
  <2> SUFFICES ASSUME NEW k \in T
               PROVE  \E x \in Slice(S, a, b) : f[x] = k
    OBVIOUS
  <2>1. PICK x \in S : Rank(S, x) = k
    BY <1>3, RankOnto
  <2>2. x \in Slice(S, a, b)
    BY <2>1 DEF Slice
  <2> QED BY <2>1, <2>2
<1>8. f \in Injection(Slice(S, a, b), T) /\ f \in Surjection(Slice(S, a, b), T)
  BY <1>5, <1>6, <1>7 DEF Injection, Surjection
<1> QED BY <1>2, <1>8, FS_Injection

\* What is below position k and what is not.
Below(S, k) == Slice(S, 0, k)

LEMMA BelowSize ==
    ASSUME NEW S, IsFiniteSet(S), S \subseteq Nat, NEW k \in Nat
    PROVE  /\ IsFiniteSet(Below(S, k))
           /\ Cardinality(Below(S, k)) \in Nat
           /\ Cardinality(Below(S, k)) <= k
           /\ Below(S, k) # S => Cardinality(Below(S, k)) = k
<1>1. Cardinality(S) \in Nat
  BY FS_CardinalityType
<1>2. CASE k <= Cardinality(S)
  <2>1. IsFiniteSet(Below(S, k)) /\ Cardinality(Below(S, k)) = k - 0
    <3>1. 0 \in Nat /\ 0 <= k
      OBVIOUS
    <3> QED BY <1>2, <3>1, SliceSize DEF Below
  <2> QED BY <2>1
<1>3. CASE Cardinality(S) < k
  <2>1. Below(S, k) = S
    <3>1. \A x \in S : Rank(S, x) \in Nat /\ Rank(S, x) < Cardinality(S)
      BY RankBound
    <3>2. \A x \in S : 0 <= Rank(S, x) /\ Rank(S, x) < k
      BY <1>1, <1>3, <3>1
    <3> QED BY <3>2 DEF Below, Slice
  <2> QED BY <1>1, <1>3, <2>1
<1> QED BY <1>1, <1>2, <1>3

NoMore(A, B) ==
    /\ IsFiniteSet(A) /\ IsFiniteSet(B)
    /\ Cardinality(A) \in Nat /\ Cardinality(B) \in Nat
    /\ Cardinality(A) <= Cardinality(B)

\* When a set S becomes T, the elements that slip from below position k to k or
\* beyond are at most as many as the ones that came in below k and were not
\* the largest.
LEMMA PushedOut ==
    ASSUME NEW S, IsFiniteSet(S), S \subseteq Nat,
           NEW T, IsFiniteSet(T), T \subseteq Nat, NEW k \in Nat,
           NEW N \in Nat, \A x \in S : x < N,
           NEW out, out = (Below(S, k) \cap T) \ Below(T, k),
           NEW in, in = {y \in T \ S : y < N} \cap Below(T, k)
    PROVE  NoMore(out, in)
<1> DEFINE P == Below(S, k)
           Q == Below(T, k)
<1>1. /\ IsFiniteSet(P) /\ Cardinality(P) \in Nat /\ Cardinality(P) <= k
      /\ IsFiniteSet(Q) /\ Cardinality(Q) \in Nat
      /\ Q # T => Cardinality(Q) = k
  BY BelowSize
<1>2. P \subseteq S /\ Q \subseteq T
  BY DEF Below, Slice
<1>3. /\ IsFiniteSet(P \ Q) /\ IsFiniteSet(Q \ P)
      /\ Cardinality(P \ Q) = Cardinality(P) - Cardinality(P \cap Q)
      /\ Cardinality(Q \ P) = Cardinality(Q) - Cardinality(Q \cap P)
  BY <1>1, FS_Difference
<1>4. P \cap Q = Q \cap P /\ IsFiniteSet(P \cap Q)
  BY <1>1, FS_Intersection
<1>5. /\ Cardinality(P \ Q) \in Nat /\ Cardinality(Q \ P) \in Nat
      /\ Cardinality(P \cap Q) \in Nat
  BY <1>3, <1>4, FS_CardinalityType
<1>6. /\ IsFiniteSet(out) /\ Cardinality(out) <= Cardinality(P \ Q)
  <2>1. out \in SUBSET (P \ Q)
    OBVIOUS
  <2> QED BY <1>3, <2>1, FS_Subset
<1>7. IsFiniteSet(in)
  <2>1. in \in SUBSET Q
    OBVIOUS
  <2> QED BY <1>1, <2>1, FS_Subset
<1>8. Cardinality(out) \in Nat /\ Cardinality(in) \in Nat
  BY <1>6, <1>7, FS_CardinalityType
<1>9. CASE out = {}
  <2>1. Cardinality(out) = 0
    BY <1>9, FS_EmptySet
  <2> QED BY <1>6, <1>7, <1>8, <2>1 DEF NoMore
<1>10. CASE out # {}
  <2>1. PICK x : x \in out
    BY <1>10
  <2>2. x \in S /\ x \in T /\ x \in P /\ x \notin Q
    BY <1>2, <2>1
  <2>3. Cardinality(Q) = k
    BY <1>1, <2>2
  <2>4. Cardinality(P \ Q) <= Cardinality(Q \ P)
    <3> HIDE DEF P, Q
    <3>1. Cardinality(P) <= Cardinality(Q) /\ Cardinality(P) \in Nat /\ Cardinality(Q) \in Nat
      BY <1>1, <2>3
    <3>2. /\ Cardinality(P \ Q) = Cardinality(P) - Cardinality(P \cap Q)
          /\ Cardinality(Q \ P) = Cardinality(Q) - Cardinality(P \cap Q)
      BY <1>3, <1>4
    <3> QED BY <1>5, <3>1, <3>2
  <2>5. Q \ P \subseteq in
    <3> SUFFICES ASSUME NEW y \in Q \ P
                 PROVE  y \in in
      OBVIOUS
    <3>1. y \in T /\ y \in Q /\ y \notin P /\ y # x
      BY <1>2, <2>2
    <3>2. Rank(T, x) \in Nat /\ Rank(T, y) \in Nat
      BY <2>2, <3>1, RankBound
    <3>3. Rank(T, y) < k /\ ~(Rank(T, x) < k)
      BY <2>2, <3>1, <3>2 DEF Below, Slice
    <3>4. y < x
      <4>1. CASE x < y
        <5>1. Rank(T, x) < Rank(T, y)
          BY <2>2, <3>1, <4>1, RankGrows
        <5> QED BY <3>2, <3>3, <5>1
      <4> QED BY <2>2, <3>1, <4>1
    <3>5. y \notin S
      <4> SUFFICES ASSUME y \in S PROVE FALSE
        OBVIOUS
      <4>1. Rank(S, x) \in Nat /\ Rank(S, y) \in Nat
        BY <2>2, RankBound
      <4>2. Rank(S, x) < k /\ ~(Rank(S, y) < k)
        BY <2>2, <3>1, <4>1 DEF Below, Slice
      <4>3. Rank(S, y) < Rank(S, x)
        BY <2>2, <3>4, RankGrows
      <4> QED BY <4>1, <4>2, <4>3
    <3>6. y < N
      BY <2>2, <3>1, <3>4
    <3> QED BY <3>1, <3>5, <3>6
  <2>6. Cardinality(Q \ P) <= Cardinality(in)
    BY <1>7, <2>5, FS_Subset
  <2>7. Cardinality(out) <= Cardinality(in)
    <3> HIDE DEF P, Q
    <3> QED BY <1>5, <1>6, <1>8, <2>4, <2>6
  <2> QED BY <1>6, <1>7, <1>8, <2>7 DEF NoMore
<1> QED BY <1>9, <1>10
-----------------------------------------------------------------------------
(* The list that readdir builds *)

LEMMA SortedElements ==
    ASSUME NEW S, IsFiniteSet(S), S \subseteq Nat
    PROVE  /\ Sorted(S) \in Seq(S)
           /\ Len(Sorted(S)) = Cardinality(S)
           /\ \A i \in 1 .. Cardinality(S) : Rank(S, Sorted(S)[i]) = i - 1
<1>1. Cardinality(S) \in Nat
  BY FS_CardinalityType
<1>2. \A i \in 1 .. Cardinality(S) : Sorted(S)[i] \in S /\ Rank(S, Sorted(S)[i]) = i - 1
  <2> SUFFICES ASSUME NEW i \in 1 .. Cardinality(S)
               PROVE  Sorted(S)[i] \in S /\ Rank(S, Sorted(S)[i]) = i - 1
    OBVIOUS
  <2>1. i - 1 \in 0 .. Cardinality(S) - 1
    BY <1>1
  <2>2. \E x \in S : Rank(S, x) = i - 1
    BY <2>1, RankOnto
  <2>3. Sorted(S)[i] = CHOOSE x \in S : Rank(S, x) = i - 1
    BY DEF Sorted
  <2> QED BY <2>2, <2>3
<1>3. Sorted(S) = [i \in 1 .. Cardinality(S) |-> Sorted(S)[i]]
  BY DEF Sorted
<1> QED BY <1>1, <1>2, <1>3

\* "." and ".." and the children.
All(K) == {0, 1} \cup K

LEMMA AllRanks ==
    ASSUME NEW K, IsFiniteSet(K), K \subseteq Nat, \A x \in K : 2 <= x
    PROVE  /\ IsFiniteSet(All(K)) /\ All(K) \subseteq Nat
           /\ Cardinality(All(K)) = Cardinality(K) + 2
           /\ Rank(All(K), 0) = 0
           /\ Rank(All(K), 1) = 1
           /\ \A x \in K : Rank(All(K), x) = Rank(K, x) + 2
<1>1. ASSUME NEW B, IsFiniteSet(B), B \subseteq K
      PROVE  IsFiniteSet({0, 1} \cup B) /\ Cardinality({0, 1} \cup B) = Cardinality(B) + 2
  <2>1. Cardinality(B) \in Nat
    BY <1>1, FS_CardinalityType
  <2>2. 0 \notin B /\ 1 \notin B \cup {0}
    BY <1>1
  <2>3. IsFiniteSet(B \cup {0}) /\ Cardinality(B \cup {0}) = Cardinality(B) + 1
    BY <1>1, <2>2, FS_AddElement
  <2>4. /\ IsFiniteSet((B \cup {0}) \cup {1})
        /\ Cardinality((B \cup {0}) \cup {1}) = Cardinality(B \cup {0}) + 1
    BY <2>2, <2>3, FS_AddElement
  <2>5. (B \cup {0}) \cup {1} = {0, 1} \cup B
    OBVIOUS
  <2> QED BY <2>1, <2>3, <2>4, <2>5
<1>2. /\ IsFiniteSet(All(K)) /\ All(K) \subseteq Nat
      /\ Cardinality(All(K)) = Cardinality(K) + 2
  BY <1>1 DEF All
<1>3. Rank(All(K), 0) = 0
  <2>1. {y \in All(K) : y < 0} = {}
    BY <1>2
  <2> QED BY <2>1, FS_EmptySet DEF Rank
<1>4. Rank(All(K), 1) = 1
  <2>0. \A y \in All(K) : y < 1 <=> y = 0
    BY DEF All
  <2>1. {y \in All(K) : y < 1} = {0}
    BY <2>0 DEF All
  <2> QED BY <2>1, FS_Singleton DEF Rank
<1>5. ASSUME NEW x \in K
      PROVE  Rank(All(K), x) = Rank(K, x) + 2
  <2> DEFINE B == {y \in K : y < x}
  <2>1. B \in SUBSET K
    OBVIOUS
  <2>2. IsFiniteSet(B)
    BY <2>1, FS_Subset
  <2>3. {y \in All(K) : y < x} = {0, 1} \cup B
    BY DEF All
  <2> QED BY <1>1, <2>1, <2>2, <2>3 DEF Rank
<1> QED BY <1>2, <1>3, <1>4, <1>5

\* L lists the set S in order.
InOrder(L, S) ==
    /\ L \in Seq(S)
    /\ Len(L) = Cardinality(S)
    /\ \A i \in 1 .. Len(L) : Rank(S, L[i]) = i - 1

LEMMA ListingInOrder ==
    ASSUME NEW K, IsFiniteSet(K), K \subseteq Nat, \A x \in K : 2 <= x
    PROVE  InOrder(<<0, 1>> \o Sorted(K), All(K))
<1> DEFINE L == <<0, 1>> \o Sorted(K)
<1>1. Cardinality(K) \in Nat
  BY FS_CardinalityType
<1>2. /\ Sorted(K) \in Seq(K)
      /\ Len(Sorted(K)) = Cardinality(K)
      /\ \A i \in 1 .. Cardinality(K) : Rank(K, Sorted(K)[i]) = i - 1
  BY SortedElements
<1>3. Sorted(K) \in Seq(All(K)) /\ <<0, 1>> \in Seq(All(K)) /\ Len(<<0, 1>>) = 2
  BY <1>2 DEF All
<1>4. L \in Seq(All(K)) /\ Len(L) = Cardinality(K) + 2
  BY <1>1, <1>2, <1>3
<1>5. Cardinality(All(K)) = Cardinality(K) + 2
  BY AllRanks
<1>6. ASSUME NEW i \in 1 .. Len(L)
      PROVE  Rank(All(K), L[i]) = i - 1
  <2>1. CASE i = 1
    <3>1. L[i] = 0
      BY <1>2, <2>1
    <3>2. Rank(All(K), 0) = 0
      BY AllRanks
    <3> QED BY <2>1, <3>1, <3>2
  <2>2. CASE i = 2
    <3>1. L[i] = 1
      BY <1>2, <2>2
    <3>2. Rank(All(K), 1) = 1
      BY AllRanks
    <3> QED BY <2>2, <3>1, <3>2
  <2>3. CASE i \notin {1, 2}
    <3>1. i - 2 \in 1 .. Cardinality(K)
      BY <1>1, <1>4, <2>3
    <3>2. L[i] = Sorted(K)[i - 2]
      BY <1>2, <1>3, <3>1
    <3>3. Sorted(K)[i - 2] \in K
      BY <1>2, <3>1
    <3>4. Rank(K, Sorted(K)[i - 2]) = i - 3
      BY <1>2, <3>1
    <3>5. Rank(All(K), L[i]) = (i - 3) + 2
      BY <3>2, <3>3, <3>4, AllRanks
    <3> QED BY <3>5
  <2> QED BY <2>1, <2>2, <2>3
<1> HIDE DEF L
<1> QED BY <1>4, <1>5, <1>6 DEF InOrder, L

\* What a request that starts at position k and takes n entries adds.
LEMMA TakesSlice ==
    ASSUME NEW S, IsFiniteSet(S), S \subseteq Nat, NEW L, InOrder(L, S),
           NEW k \in Nat, NEW n \in 0 .. Len(skip(L, k))
    PROVE  /\ SubSeq(skip(L, k), 1, n) \in Seq(S)
           /\ Len(SubSeq(skip(L, k), 1, n)) = n
           /\ Range(SubSeq(skip(L, k), 1, n)) = Slice(S, k, k + n)
           /\ n = 0 \/ k + n <= Cardinality(S)
           /\ skip(L, k) = <<>> => Cardinality(S) <= k
<1> DEFINE R == skip(L, k)
           G == SubSeq(R, 1, n)
<1>1. L \in Seq(S) /\ Len(L) \in Nat /\ Len(L) = Cardinality(S)
  BY DEF InOrder
<1>2. /\ R \in Seq(S)
      /\ Len(R) = IF k < Len(L) THEN Len(L) - k ELSE 0
      /\ \A i \in 1 .. Len(R) : R[i] = L[k + i]
  <2>1. k + 1 \in Int
    OBVIOUS
  <2> QED BY <1>1, <2>1 DEF skip
<1>3. n \in Nat /\ n <= Len(R)
  BY <1>2
<1>4. /\ G \in Seq(S)
      /\ Len(G) = n
      /\ \A i \in 1 .. n : G[i] = R[i]
  BY <1>2, <1>3
<1>5. n = 0 \/ k + n <= Cardinality(S)
  BY <1>1, <1>2, <1>3
<1>6. R = <<>> => Cardinality(S) <= k
  <2>1. SUFFICES ASSUME R = <<>> PROVE Cardinality(S) <= k
    OBVIOUS
  <2>2. Len(R) = 0
    BY <2>1
  <2> QED BY <1>1, <1>2, <2>2
<1>7. \A i \in 1 .. n : G[i] = L[k + i] /\ k + i \in 1 .. Len(L)
  BY <1>1, <1>2, <1>3, <1>4
<1>8. Range(G) = {L[k + i] : i \in 1 .. n}
  <2>1. DOMAIN G = 1 .. n
    BY <1>3, <1>4
  <2> HIDE DEF G
  <2> QED BY <1>7, <2>1 DEF Range
<1>9. \A i \in 1 .. Len(L) : L[i] \in S /\ Rank(S, L[i]) = i - 1
  BY <1>1 DEF InOrder
<1> HIDE DEF G, R
<1>10. Range(G) \subseteq Slice(S, k, k + n)
  <2> SUFFICES ASSUME NEW i \in 1 .. n
               PROVE  L[k + i] \in Slice(S, k, k + n)
    BY <1>8
  <2>1. L[k + i] \in S /\ Rank(S, L[k + i]) = (k + i) - 1
    BY <1>7, <1>9
  <2> QED BY <1>3, <2>1 DEF Slice
<1>11. Slice(S, k, k + n) \subseteq Range(G)
  <2> SUFFICES ASSUME NEW x \in Slice(S, k, k + n)
               PROVE  \E i \in 1 .. n : x = L[k + i]
    BY <1>8
  <2>1. x \in S /\ k <= Rank(S, x) /\ Rank(S, x) < k + n
    BY DEF Slice
  <2>2. Rank(S, x) \in Nat /\ Rank(S, x) < Cardinality(S)
    BY <2>1, RankBound
  <2>3. PICK i \in Int : i = Rank(S, x) + 1 - k
    BY <2>2
  <2>4. i \in 1 .. n /\ k + i = Rank(S, x) + 1
    BY <1>3, <2>1, <2>2, <2>3
  <2>5. L[k + i] \in S /\ Rank(S, L[k + i]) = Rank(S, x)
    <3>1. k + i \in 1 .. Len(L)
      BY <1>7, <2>4
    <3>2. L[k + i] \in S /\ Rank(S, L[k + i]) = (k + i) - 1
      BY <1>9, <3>1
    <3> QED BY <2>2, <2>4, <3>2
  <2>6. Rank(S, x) \in 0 .. Cardinality(S) - 1
    BY <1>1, <2>2
  <2>7. x = L[k + i]
    BY <2>1, <2>5, <2>6, RankOnto
  <2> QED BY <2>4, <2>7
<1> QED BY <1>4, <1>5, <1>6, <1>10, <1>11 DEF G, R

\* Two facts about finite sets.
LEMMA UnionBound ==
    ASSUME NEW M, IsFiniteSet(M), NEW O, IsFiniteSet(O), NEW X \in SUBSET (M \cup O)
    PROVE  Cardinality(X) <= Cardinality(M) + Cardinality(O)
<1>1. /\ IsFiniteSet(M \cup O)
      /\ Cardinality(M \cup O) = Cardinality(M) + Cardinality(O) - Cardinality(M \cap O)
  BY FS_Union
<1>2. IsFiniteSet(X) /\ Cardinality(X) <= Cardinality(M \cup O)
  BY <1>1, FS_Subset
<1>3. IsFiniteSet(M \cap O)
  BY FS_Intersection
<1>4. /\ Cardinality(X) \in Nat /\ Cardinality(M) \in Nat /\ Cardinality(O) \in Nat
      /\ Cardinality(M \cap O) \in Nat
  BY <1>2, <1>3, FS_CardinalityType
<1> QED BY <1>1, <1>2, <1>4
-----------------------------------------------------------------------------
(* What a listing misses and repeats *)

\* For a listing of S that has come to position k: how many of R it has passed
\* without listing them (V is what it has listed) is at most l; and how many it has
\* listed twice already, or will as they are ahead of it again, is at most c.
Counts(S, k, R, V, len, l, c) ==
    /\ Cardinality((R \cap Below(S, k)) \ V) <= l
    /\ len + Cardinality(V \cap (S \ Below(S, k))) <= c + Cardinality(V)

LEMMA Sizes ==
    ASSUME NEW S, IsFiniteSet(S), S \subseteq Nat, NEW k \in Nat, NEW R, NEW V
    PROVE  /\ IsFiniteSet((R \cap Below(S, k)) \ V)
           /\ Cardinality((R \cap Below(S, k)) \ V) \in Nat
           /\ IsFiniteSet(V \cap (S \ Below(S, k)))
           /\ Cardinality(V \cap (S \ Below(S, k))) \in Nat
<1>1. (R \cap Below(S, k)) \ V \in SUBSET S /\ V \cap (S \ Below(S, k)) \in SUBSET S
  BY DEF Below, Slice
<1>2. IsFiniteSet((R \cap Below(S, k)) \ V) /\ IsFiniteSet(V \cap (S \ Below(S, k)))
  BY <1>1, FS_Subset
<1> QED BY <1>2, FS_CardinalityType

\* A request that lists the next n entries changes neither count.
LEMMA CountsRead ==
    ASSUME NEW S, IsFiniteSet(S), S \subseteq Nat, NEW V, IsFiniteSet(V),
           NEW k \in Nat, NEW n \in Nat, n = 0 \/ k + n <= Cardinality(S),
           NEW R, NEW len \in Nat, NEW l \in Nat, NEW c \in Nat,
           Counts(S, k, R, V, len, l, c)
    PROVE  Counts(S, k + n, R, V \cup Slice(S, k, k + n), len + n, l, c)
<1> DEFINE D == Slice(S, k, k + n)
           W == V \cup D
           P == Below(S, k)
           Q == Below(S, k + n)
<1>0. k + n \in Nat
  OBVIOUS
<1>1. \A x \in S : Rank(S, x) \in Nat
  BY RankBound
<1>2. D \subseteq S /\ P \subseteq S /\ Q = P \cup D /\ P \cap D = {}
  <2>1. D \subseteq S /\ P \subseteq S /\ Q \subseteq S
    BY DEF Below, Slice
  <2>2. \A x \in S : x \in Q <=> x \in P \/ x \in D
    BY <1>1 DEF Below, Slice
  <2>3. \A x \in S : ~(x \in P /\ x \in D)
    BY <1>1 DEF Below, Slice
  <2> QED BY <2>1, <2>2, <2>3
<1>3. IsFiniteSet(D) /\ Cardinality(D) = n
  <2>1. CASE n = 0
    <3>0. \A x \in S : ~(k <= Rank(S, x) /\ Rank(S, x) < k + n)
      BY <1>1, <2>1
    <3>1. D = {}
      BY <3>0 DEF Slice
    <3> QED BY <2>1, <3>1, FS_EmptySet
  <2>2. CASE k + n <= Cardinality(S)
    <3>1. k + n \in Nat /\ k <= k + n
      OBVIOUS
    <3>2. IsFiniteSet(D) /\ Cardinality(D) = (k + n) - k
      BY <2>2, <3>1, SliceSize
    <3> QED BY <3>2
  <2> QED BY <2>1, <2>2
<1> HIDE DEF D, P, Q
<1>4. /\ IsFiniteSet(W)
      /\ Cardinality(W) = Cardinality(V) + Cardinality(D) - Cardinality(V \cap D)
      /\ Cardinality(V) \in Nat /\ Cardinality(W) \in Nat
      /\ Cardinality(V \cap D) \in Nat
  <2>1. IsFiniteSet(W) /\ IsFiniteSet(V \cap D)
    BY <1>3, FS_Union, FS_Intersection
  <2>2. Cardinality(W) = Cardinality(V) + Cardinality(D) - Cardinality(V \cap D)
    BY <1>3, FS_Union
  <2> QED BY <2>1, <2>2, FS_CardinalityType
<1>5. Cardinality((R \cap Q) \ W) <= l
  <2>1. (R \cap Q) \ W \in SUBSET ((R \cap P) \ V)
    BY <1>2
  <2>2. IsFiniteSet((R \cap P) \ V) /\ Cardinality((R \cap P) \ V) \in Nat
    BY Sizes DEF P
  <2>3. Cardinality((R \cap Q) \ W) <= Cardinality((R \cap P) \ V)
    BY <2>1, <2>2, FS_Subset
  <2>4. Cardinality((R \cap Q) \ W) \in Nat
    BY <1>0, Sizes DEF Q
  <2>5. Cardinality((R \cap P) \ V) <= l
    BY DEF Counts, P
  <2> QED BY <2>2, <2>3, <2>4, <2>5
<1>6. (len + n) + Cardinality(W \cap (S \ Q)) <= c + Cardinality(W)
  <2> DEFINE A == V \cap (S \ P)
             B == W \cap (S \ Q)
  <2>1. B = A \ D /\ A \cap D = V \cap D
    BY <1>2
  <2>2. IsFiniteSet(A) /\ Cardinality(A) \in Nat
    BY Sizes DEF P
  <2>3. Cardinality(B) \in Nat
    BY <1>0, Sizes DEF Q
  <2>4. len + Cardinality(A) <= c + Cardinality(V)
    BY DEF Counts, P
  <2> HIDE DEF A, B
  <2>5. Cardinality(B) = Cardinality(A) - Cardinality(V \cap D)
    BY <2>1, <2>2, FS_Difference
  <2> HIDE DEF W
  <2>6. (len + n) + Cardinality(B) <= c + Cardinality(W)
    BY <1>3, <1>4, <2>2, <2>3, <2>4, <2>5
  <2> QED BY <2>6 DEF B
<1> QED BY <1>5, <1>6 DEF Counts, D, P, Q

\* When the directory changes between two requests the first count grows by at most
\* the entries that left, the second by at most those with an old number that came.
LEMMA CountsChange ==
    ASSUME NEW S, IsFiniteSet(S), S \subseteq Nat,
           NEW T, IsFiniteSet(T), T \subseteq Nat, NEW m \in Nat, \A x \in T : x < m,
           NEW V, IsFiniteSet(V), V \subseteq Nat,
           NEW N \in Nat, \A x \in S \cup V : x < N,
           NEW k \in Nat, NEW R, R \subseteq S,
           NEW len \in Nat, NEW l \in Nat, NEW c \in Nat,
           Counts(S, k, R, V, len, l, c),
           NEW A, A = {y \in T \ S : y < N}
    PROVE  Counts(T, k, R \cap T, V, len, l + Cardinality(S \ T), c + Cardinality(A))
<1> DEFINE P == Below(S, k)
           Q == Below(T, k)
<1>1. P \subseteq S /\ Q \subseteq T
  BY DEF Below, Slice
<1>2. /\ IsFiniteSet(S \ T) /\ Cardinality(S \ T) \in Nat
      /\ IsFiniteSet(A) /\ Cardinality(A) \in Nat
  <2>1. A \in SUBSET T /\ S \ T \in SUBSET S
    OBVIOUS
  <2>2. IsFiniteSet(A) /\ IsFiniteSet(S \ T)
    BY <2>1, FS_Subset
  <2> QED BY <2>2, FS_CardinalityType
<1>3. Cardinality(V) \in Nat
  BY FS_CardinalityType
<1>4. Cardinality(((R \cap T) \cap Q) \ V) <= l + Cardinality(S \ T)
  <2> DEFINE M == (R \cap P) \ V
             X == ((R \cap T) \cap Q) \ V
             O == (Q \cap S) \ P
  <2>1. IsFiniteSet(M) /\ Cardinality(M) \in Nat /\ IsFiniteSet(X) /\ Cardinality(X) \in Nat
    BY Sizes
  <2>2. Cardinality(M) <= l
    BY DEF Counts
  <2>3. IsFiniteSet(O) /\ Cardinality(O) \in Nat /\ Cardinality(O) <= Cardinality(S \ T)
    <3> DEFINE I == {y \in S \ T : y < m} \cap P
    <3>2. /\ IsFiniteSet(O) /\ IsFiniteSet(I)
          /\ Cardinality(O) \in Nat /\ Cardinality(I) \in Nat
          /\ Cardinality(O) <= Cardinality(I)
      <4>1. I = {y \in S \ T : y < m} \cap P /\ O = (Q \cap S) \ P
        OBVIOUS
      <4> HIDE DEF I, O
      <4>2. NoMore(O, I)
        BY <4>1, PushedOut
      <4> QED BY <4>2 DEF NoMore
    <3>3. I \in SUBSET (S \ T)
      OBVIOUS
    <3> HIDE DEF I, O
    <3>4. Cardinality(I) <= Cardinality(S \ T)
      BY <1>2, <3>3, FS_Subset
    <3> QED BY <1>2, <3>2, <3>4
  <2>4. X \in SUBSET (M \cup O)
    BY <1>1
  <2> HIDE DEF M, X, O
  <2>5. Cardinality(X) <= Cardinality(M) + Cardinality(O)
    BY <2>1, <2>3, <2>4, UnionBound
  <2>6. Cardinality(X) <= l + Cardinality(S \ T)
    BY <1>2, <2>1, <2>2, <2>3, <2>5
  <2> QED BY <2>6 DEF X
<1>5. len + Cardinality(V \cap (T \ Q)) <= (c + Cardinality(A)) + Cardinality(V)
  <2> DEFINE M == V \cap (S \ P)
             X == V \cap (T \ Q)
             O == (P \cap T) \ Q
             I == A \cap Q
             J == A \ Q
  <2>1. IsFiniteSet(M) /\ Cardinality(M) \in Nat /\ IsFiniteSet(X) /\ Cardinality(X) \in Nat
    BY Sizes
  <2>2. len + Cardinality(M) <= c + Cardinality(V)
    BY DEF Counts
  <2>3. /\ IsFiniteSet(O) /\ Cardinality(O) \in Nat
        /\ IsFiniteSet(I) /\ Cardinality(I) \in Nat
        /\ Cardinality(O) <= Cardinality(I)
    <3>1. \A x \in S : x < N
      OBVIOUS
    <3>2. I = {y \in T \ S : y < N} \cap Q
      OBVIOUS
    <3>3. O = (P \cap T) \ Q
      OBVIOUS
    <3> HIDE DEF I, O
    <3>4. NoMore(O, I)
      BY <3>1, <3>2, <3>3, PushedOut
    <3> QED BY <3>4 DEF NoMore
  <2>4. IsFiniteSet(J) /\ Cardinality(J) \in Nat /\ Cardinality(J) = Cardinality(A) - Cardinality(I)
    BY <1>2, FS_Difference, FS_CardinalityType
  <2>5. X \in SUBSET (M \cup (O \cup J))
    BY <1>1
  <2> HIDE DEF M, X, O, I, J
  <2>6. /\ IsFiniteSet(O \cup J) /\ Cardinality(O \cup J) \in Nat
        /\ Cardinality(O \cup J) <= Cardinality(O) + Cardinality(J)
    <3>1. IsFiniteSet(O \cup J)
      BY <2>3, <2>4, FS_Union
    <3>2. O \cup J \in SUBSET (O \cup J)
      OBVIOUS
    <3> QED BY <2>3, <2>4, <3>1, <3>2, UnionBound, FS_CardinalityType
  <2>7. Cardinality(X) <= Cardinality(M) + Cardinality(O \cup J)
    BY <2>1, <2>5, <2>6, UnionBound
  <2>8. len + Cardinality(X) <= (c + Cardinality(A)) + Cardinality(V)
    BY <1>2, <1>3, <2>1, <2>2, <2>3, <2>4, <2>6, <2>7
  <2> QED BY <2>8 DEF X
<1> QED BY <1>4, <1>5 DEF Counts
-----------------------------------------------------------------------------
(* The listing of a directory that changes *)

\* What is listed of the directory p by the tables e and b.
LEMMA KidsOfTable ==
    ASSUME NEW e, NEW c, NEW b, NEW N, Agree(e, c, b),
           DOMAIN e \subseteq Ino, \A i \in DOMAIN e : i < N, NEW p, NEW K,
           K = IF p \in DOMAIN b THEN b[p] \cap DOMAIN e ELSE {}
    PROVE  /\ K \subseteq 2 .. MaxIno
           /\ \A i \in K : i < N
<1>1. K \subseteq Linked(e)
  BY DEF Agree
<1> QED BY <1>1, NamespaceAssumption DEF Linked, Root, Ino

\* A set of children: finite, and "." and ".." not among them.
Listable(K, N) ==
    /\ IsFiniteSet(K) /\ K \subseteq Nat /\ K \subseteq Ino
    /\ \A i \in K : 2 <= i /\ i < N /\ i < MaxIno + 1

LEMMA ListableKids ==
    ASSUME IInv, NEW p
    PROVE  Listable(Kids(p), next_ino)
<1>1. Kids(p) \subseteq 2 .. MaxIno /\ \A i \in Kids(p) : i < next_ino
  BY KidsOfTable DEF IInv, TypeOK, IndexConsistent, Kids
<1>2. IsFiniteSet(Kids(p))
  <2>1. IsFiniteSet(2 .. MaxIno)
    BY NamespaceAssumption, FS_Interval
  <2> QED BY <1>1, <2>1, FS_Subset
<1> QED BY <1>1, <1>2, NamespaceAssumption DEF Listable, Ino

LEMMA ListableKidsNext ==
    ASSUME IInv'
    PROVE  Listable(Kids(dir)', next_ino')
<1>1. Kids(dir)' \subseteq 2 .. MaxIno /\ \A i \in Kids(dir)' : i < next_ino'
  <2>1. Agree(entries', children', by_parent')
    BY DEF IInv, IndexConsistent
  <2>2. DOMAIN entries' \subseteq Ino /\ \A i \in DOMAIN entries' : i < next_ino'
    BY DEF IInv, TypeOK
  <2>3. Kids(dir)' = IF dir' \in DOMAIN by_parent'
                     THEN by_parent'[dir'] \cap DOMAIN entries' ELSE {}
    BY DEF Kids
  <2> QED BY <2>1, <2>2, <2>3, KidsOfTable
<1>2. IsFiniteSet(Kids(dir)')
  <2>1. IsFiniteSet(2 .. MaxIno)
    BY NamespaceAssumption, FS_Interval
  <2> QED BY <1>1, <2>1, FS_Subset
<1> QED BY <1>1, <1>2, NamespaceAssumption DEF Listable, Ino

LEMMA ListableAll ==
    ASSUME NEW K, NEW N \in Nat, 2 <= N, Listable(K, N)
    PROVE  /\ IsFiniteSet(All(K)) /\ All(K) \subseteq Nat
           /\ Cardinality(All(K)) = Cardinality(K) + 2
           /\ \A x \in All(K) : x < N /\ x < MaxIno + 2
           /\ InOrder(<<0, 1>> \o Sorted(K), All(K))
<1>1. \A x \in K : 2 <= x /\ x < N /\ x < MaxIno + 2
  BY NamespaceAssumption DEF Listable
<1>2. /\ IsFiniteSet(All(K)) /\ All(K) \subseteq Nat
      /\ Cardinality(All(K)) = Cardinality(K) + 2
  BY <1>1, AllRanks DEF Listable
<1>3. InOrder(<<0, 1>> \o Sorted(K), All(K))
  BY <1>1, ListingInOrder DEF Listable
<1>4. \A x \in All(K) : x < N /\ x < MaxIno + 2
  BY <1>1, NamespaceAssumption DEF All
<1> QED BY <1>2, <1>3, <1>4

\* Numbers only grow within a session.
LEMMA RequestGrows ==
    ASSUME IInv, Request
    PROVE  next_ino' \in Nat /\ next_ino <= next_ino'
<1>1. next_ino \in Nat
  BY NamespaceAssumption DEF IInv, TypeOK
<1>2. ASSUME NEW errno, Refuse(errno)
      PROVE  next_ino' = next_ino
  BY <1>2 DEF Refuse
<1>3. PICK p \in Ino, n \in OsName :
          \/ create(p, n) \/ mkdir(p, n) \/ symlink(p, n)
          \/ unlink(p, n) \/ rmdir(p, n)
          \/ \E q \in Ino, m \in OsName : rename(p, n, q, m)
  BY DEF Request
<1>4. CASE create(p, n) \/ mkdir(p, n) \/ symlink(p, n)
  BY <1>1, <1>2, <1>4 DEF create, mkdir, symlink, Make, allocate_ino
<1>5. CASE unlink(p, n) \/ rmdir(p, n)
  BY <1>1, <1>2, <1>5 DEF unlink, rmdir, Remove
<1>6. CASE \E q \in Ino, m \in OsName : rename(p, n, q, m)
  BY <1>1, <1>2, <1>6 DEF rename, Replace, Relink
<1> QED BY <1>3, <1>4, <1>5, <1>6

\* The inductive invariant of a listing: the counts hold at the position it has
\* come to in the list as it is now.
StreamInv ==
    /\ StreamTypeOK
    /\ MissesAtMostLeft
    /\ RepeatsAtMostCame
    /\ stream = "open" =>
        Counts(All(Kids(dir)), offset, stayed, Range(seen), Len(seen), left, came)

LEMMA ListedFinite ==
    ASSUME NEW s, NEW n \in Nat, s \in Seq(0 .. n)
    PROVE  /\ Range(s) \subseteq 0 .. n /\ Range(s) \subseteq Nat
           /\ IsFiniteSet(Range(s)) /\ Cardinality(Range(s)) \in Nat
           /\ Len(s) \in Nat
<1>1. Range(s) \in SUBSET (0 .. n)
  BY DEF Range
<1>2. IsFiniteSet(0 .. n)
  BY FS_Interval
<1>3. IsFiniteSet(Range(s))
  BY <1>1, <1>2, FS_Subset
<1> QED BY <1>1, <1>3, FS_CardinalityType

LEMMA RangeOfConcat ==
    ASSUME NEW A, NEW s \in Seq(A), NEW t \in Seq(A)
    PROVE  /\ s \o t \in Seq(A)
           /\ Len(s \o t) = Len(s) + Len(t)
           /\ Range(s \o t) = Range(s) \cup Range(t)
<1>1. s \o t \in Seq(A) /\ Len(s \o t) = Len(s) + Len(t)
  OBVIOUS
<1>2. /\ DOMAIN s = 1 .. Len(s) /\ DOMAIN t = 1 .. Len(t)
      /\ DOMAIN (s \o t) = 1 .. Len(s) + Len(t)
      /\ Len(s) \in Nat /\ Len(t) \in Nat
  OBVIOUS
<1>3. \A i \in 1 .. Len(s) : (s \o t)[i] = s[i] /\ i \in 1 .. Len(s) + Len(t)
  OBVIOUS
<1>4. \A i \in 1 .. Len(t) : /\ (s \o t)[Len(s) + i] = t[i]
                             /\ Len(s) + i \in 1 .. Len(s) + Len(t)
  OBVIOUS
<1>5. Range(s) \subseteq Range(s \o t)
  BY <1>2, <1>3 DEF Range
<1>6. Range(t) \subseteq Range(s \o t)
  BY <1>2, <1>4 DEF Range
<1>7. Range(s \o t) \subseteq Range(s) \cup Range(t)
  <2> SUFFICES ASSUME NEW i \in 1 .. Len(s) + Len(t)
               PROVE  (s \o t)[i] \in Range(s) \cup Range(t)
    BY <1>2 DEF Range
  <2>1. CASE i \in 1 .. Len(s)
    BY <1>2, <1>3, <2>1 DEF Range
  <2>2. CASE i \notin 1 .. Len(s)
    <3>1. i - Len(s) \in 1 .. Len(t) /\ Len(s) + (i - Len(s)) = i
      BY <1>2, <2>2
    <3> QED BY <1>2, <1>4, <3>1 DEF Range
  <2> QED BY <2>1, <2>2
<1> QED BY <1>1, <1>5, <1>6, <1>7

LEMMA StreamStart ==
    ASSUME StreamInit
    PROVE  StreamInv
<1>1. seen = <<>> /\ stream = "closed" /\ left = 0 /\ came = 0 /\ stayed = {} /\ offset = 0
  BY DEF StreamInit
<1>2. Range(seen) = {} /\ Len(seen) = 0 /\ seen \in Seq(0 .. MaxIno)
  BY <1>1 DEF Range
<1>3. Cardinality(Range(seen)) = 0
  BY <1>2, FS_EmptySet
<1>4. dir \in Ino
  BY NamespaceAssumption DEF StreamInit, Root, Ino
<1>5. StreamTypeOK
  BY <1>1, <1>2, <1>4, DirStreamAssumption DEF StreamTypeOK
<1>6. MissesAtMostLeft
  BY <1>1 DEF MissesAtMostLeft
<1>7. RepeatsAtMostCame
  BY <1>1, <1>2, <1>3 DEF RepeatsAtMostCame
<1> QED BY <1>1, <1>5, <1>6, <1>7 DEF StreamInv

LEMMA StreamOpens ==
    ASSUME IInv, StreamInv, NEW parent \in Ino, opendir(parent)
    PROVE  StreamInv'
<1> DEFINE S == All(Kids(parent))
<1>1. /\ stream' = "open" /\ dir' = parent /\ offset' = 0 /\ seen' = <<>>
      /\ stayed' = Kids(parent) /\ left' = 0 /\ came' = 0
  BY DEF opendir
<1>2. next_ino' = next_ino /\ Kids(dir)' = Kids(parent)
  BY <1>1 DEF opendir, vars, Kids
<1>3. Range(seen') = {} /\ Len(seen') = 0 /\ seen' \in Seq(0 .. MaxIno)
  BY <1>1 DEF Range
<1>4. Cardinality(Range(seen')) = 0
  BY <1>3, FS_EmptySet
<1>5. Kids(parent) \subseteq Ino
  BY ListableKids DEF Listable
<1>6. StreamTypeOK'
  BY <1>1, <1>2, <1>3, <1>5, DirStreamAssumption DEF StreamTypeOK
<1>7. MissesAtMostLeft'
  BY <1>1 DEF MissesAtMostLeft
<1>8. RepeatsAtMostCame'
  BY <1>1, <1>3, <1>4 DEF RepeatsAtMostCame
<1>9. Counts(S, 0, Kids(parent), {}, 0, 0, 0)
  <2>1. Below(S, 0) = {}
    <3>1. next_ino \in Nat /\ 2 <= next_ino
      BY NamespaceAssumption DEF IInv, TypeOK
    <3>2. IsFiniteSet(S) /\ S \subseteq Nat
      BY <3>1, ListableKids, ListableAll
    <3>3. \A x \in S : Rank(S, x) \in Nat
      BY <3>2, RankBound
    <3> QED BY <3>3 DEF Below, Slice
  <2>2. (Kids(parent) \cap Below(S, 0)) \ {} = {} /\ {} \cap (S \ Below(S, 0)) = {}
    BY <2>1
  <2>3. Cardinality({}) = 0
    BY FS_EmptySet
  <2> QED BY <2>2, <2>3 DEF Counts
<1>10. Counts(All(Kids(dir)'), offset', stayed', Range(seen'), Len(seen'), left', came')
  BY <1>1, <1>2, <1>3, <1>9
<1> QED BY <1>6, <1>7, <1>8, <1>10 DEF StreamInv

LEMMA StreamReads ==
    ASSUME IInv, StreamInv, NEW n \in 0 .. MaxIno + 1, readdir(n)
    PROVE  StreamInv'
<1> DEFINE S == All(Kids(dir))
           L == Listing(dir)
           G == SubSeq(skip(L, offset), 1, n)
<1>1. /\ stream = "open"
      /\ n \in 0 .. Len(skip(L, offset))
      /\ stream' = IF skip(L, offset) = <<>> THEN "end" ELSE "open"
      /\ seen' = seen \o G
      /\ offset' = offset + n
      /\ UNCHANGED <<dir, stayed, left, came>>
      /\ UNCHANGED vars
  BY DEF readdir
<1>2. next_ino' = next_ino /\ Kids(dir)' = Kids(dir)
  BY <1>1 DEF vars, Kids
<1>3. next_ino \in Nat /\ 2 <= next_ino
  BY NamespaceAssumption DEF IInv, TypeOK
<1>4. /\ IsFiniteSet(S) /\ S \subseteq Nat
      /\ \A x \in S : x < next_ino
      /\ InOrder(L, S)
  BY <1>3, ListableKids, ListableAll DEF Listing, child_inodes
<1>5. /\ offset \in Nat /\ seen \in Seq(0 .. MaxIno) /\ stayed \subseteq Kids(dir)
      /\ left \in Nat /\ came \in Nat /\ \A i \in Range(seen) : i < next_ino
  BY <1>1, DirStreamAssumption DEF StreamInv, StreamTypeOK
<1>6. /\ G \in Seq(S)
      /\ Len(G) = n
      /\ Range(G) = Slice(S, offset, offset + n)
      /\ n = 0 \/ offset + n <= Cardinality(S)
      /\ skip(L, offset) = <<>> => Cardinality(S) <= offset
  BY <1>1, <1>4, <1>5, TakesSlice
<1>7. S \subseteq 0 .. MaxIno
  <2>1. Kids(dir) \subseteq Ino
    BY ListableKids DEF Listable
  <2> QED BY <2>1, NamespaceAssumption DEF All, Ino
<1> HIDE DEF S, L, G
<1>8. G \in Seq(0 .. MaxIno)
  <2>1. Len(G) \in Nat /\ G = [i \in 1 .. Len(G) |-> G[i]] /\ \A i \in 1 .. Len(G) : G[i] \in S
    BY <1>6
  <2>2. PICK X : X = 0 .. MaxIno
    OBVIOUS
  <2>3. \A i \in 1 .. Len(G) : G[i] \in X
    BY <1>7, <2>1, <2>2
  <2>4. G \in Seq(X)
    BY <2>1, <2>3
  <2> QED BY <2>2, <2>4
<1>9. /\ seen' \in Seq(0 .. MaxIno)
      /\ Len(seen') = Len(seen) + n
      /\ Range(seen') = Range(seen) \cup Slice(S, offset, offset + n)
  BY <1>1, <1>5, <1>6, <1>8, RangeOfConcat
<1>10. /\ IsFiniteSet(Range(seen)) /\ Len(seen) \in Nat
       /\ IsFiniteSet(Range(seen')) /\ Cardinality(Range(seen')) \in Nat /\ Len(seen') \in Nat
  BY <1>5, <1>9, NamespaceAssumption, ListedFinite
<1>11. Counts(S, offset, stayed, Range(seen), Len(seen), left, came)
  BY <1>1 DEF StreamInv, S
<1>12. n \in Nat
  OBVIOUS
<1>13. Counts(S, offset', stayed', Range(seen'), Len(seen'), left', came')
  <2>1. Counts(S, offset + n, stayed, Range(seen) \cup Slice(S, offset, offset + n),
               Len(seen) + n, left, came)
    BY <1>4, <1>5, <1>6, <1>10, <1>11, <1>12, CountsRead
  <2> QED BY <1>1, <1>9, <2>1
<1>14. StreamTypeOK'
  <2>1. \A i \in Range(seen') : i < next_ino'
    <3>1. Slice(S, offset, offset + n) \subseteq S
      BY DEF Slice
    <3> QED BY <1>2, <1>4, <1>5, <1>9, <3>1
  <2>2. stream' \in {"closed", "open", "end"} /\ offset' \in Nat
    BY <1>1, <1>5, <1>12
  <2>3. /\ dir' \in Ino /\ stayed' \subseteq Ino
        /\ left' \in 0 .. MaxMoves /\ came' \in 0 .. MaxMoves
    BY <1>1 DEF StreamInv, StreamTypeOK
  <2> QED BY <1>1, <1>2, <1>5, <1>9, <2>1, <2>2, <2>3 DEF StreamTypeOK
<1>15. RepeatsAtMostCame'
  <2> DEFINE A == Range(seen') \cap (S \ Below(S, offset'))
  <2>1. offset' \in Nat /\ came' \in Nat
    BY <1>1, <1>5, <1>12
  <2>2. Cardinality(A) \in Nat
    BY <1>4, <2>1, Sizes
  <2>3. Len(seen') + Cardinality(A) <= came' + Cardinality(Range(seen'))
    BY <1>13 DEF Counts
  <2> HIDE DEF A
  <2>4. Len(seen') - Cardinality(Range(seen')) <= came'
    BY <1>10, <2>1, <2>2, <2>3
  <2> QED BY <2>4 DEF RepeatsAtMostCame
<1>16. MissesAtMostLeft'
  <2> SUFFICES ASSUME stream' = "end"
               PROVE  Cardinality(stayed' \ Range(seen')) <= left'
    BY DEF MissesAtMostLeft
  <2>1. Cardinality(S) <= offset
    BY <1>1, <1>6
  <2>2. Below(S, offset') = S
    <3>1. \A x \in S : Rank(S, x) \in Nat /\ Rank(S, x) < Cardinality(S)
      BY <1>4, RankBound
    <3>2. Cardinality(S) \in Nat
      BY <1>4, FS_CardinalityType
    <3>3. \A x \in S : 0 <= Rank(S, x) /\ Rank(S, x) < offset'
      BY <1>1, <1>5, <1>12, <2>1, <3>1, <3>2
    <3> QED BY <3>3 DEF Below, Slice
  <2>3. stayed' \subseteq S
    BY <1>1, <1>5 DEF S, All
  <2>4. (stayed' \cap Below(S, offset')) \ Range(seen') = stayed' \ Range(seen')
    BY <2>2, <2>3
  <2> QED BY <1>13, <2>4 DEF Counts
<1> QED BY <1>2, <1>13, <1>14, <1>15, <1>16 DEF StreamInv, S

LEMMA StreamWatches ==
    ASSUME IInv, IInv', StreamInv, Meanwhile
    PROVE  StreamInv'
<1>1. UNCHANGED <<stream, dir, offset, seen>>
  BY DEF Meanwhile
<1>2. CASE stream # "open"
  <2>1. UNCHANGED <<stayed, left, came>>
    BY <1>2 DEF Meanwhile
  <2>2. StreamTypeOK'
    BY <1>1, <1>2, <2>1 DEF StreamInv, StreamTypeOK
  <2>3. MissesAtMostLeft' /\ RepeatsAtMostCame'
    BY <1>1, <2>1 DEF StreamInv, MissesAtMostLeft, RepeatsAtMostCame
  <2> QED BY <1>1, <1>2, <2>2, <2>3 DEF StreamInv
<1>3. CASE stream = "open"
  <2> DEFINE K == Kids(dir)
             H == Kids(dir)'
             A == {i \in H \ K : i < next_ino}
  <2>1. /\ stayed' = stayed \cap H
        /\ left' = left + Cardinality(K \ H)
        /\ came' = came + Cardinality(A)
        /\ left' + came' <= MaxMoves
    BY <1>3 DEF Meanwhile
  <2>2. next_ino \in Nat /\ 2 <= next_ino
    BY NamespaceAssumption DEF IInv, TypeOK
  <2>3. next_ino' \in Nat /\ next_ino <= next_ino'
    BY RequestGrows DEF Meanwhile
  <2>4. Listable(K, next_ino) /\ Listable(H, next_ino')
    BY ListableKids, ListableKidsNext
  <2>5. /\ IsFiniteSet(All(K)) /\ All(K) \subseteq Nat
        /\ \A x \in All(K) : x < next_ino
    BY <2>2, <2>4, ListableAll
  <2>6. /\ IsFiniteSet(All(H)) /\ All(H) \subseteq Nat
        /\ \A x \in All(H) : x < MaxIno + 2
    BY <2>2, <2>3, <2>4, ListableAll
  <2>7. /\ offset \in Nat /\ seen \in Seq(0 .. MaxIno) /\ stayed \subseteq K
        /\ left \in Nat /\ came \in Nat /\ MaxMoves \in Nat
        /\ \A i \in Range(seen) : i < next_ino
    BY <1>3, DirStreamAssumption DEF StreamInv, StreamTypeOK
  <2>8. /\ IsFiniteSet(Range(seen)) /\ Range(seen) \subseteq Nat /\ Len(seen) \in Nat
        /\ Cardinality(Range(seen)) \in Nat
    BY <2>7, NamespaceAssumption, ListedFinite
  <2>9. Counts(All(K), offset, stayed, Range(seen), Len(seen), left, came)
    BY <1>3 DEF StreamInv
  <2> HIDE DEF K, H
  <2>10. /\ IsFiniteSet(K \ H) /\ Cardinality(K \ H) \in Nat
         /\ IsFiniteSet(A) /\ Cardinality(A) \in Nat
    <3>1. K \ H \in SUBSET K /\ A \in SUBSET H /\ IsFiniteSet(K) /\ IsFiniteSet(H)
      BY <2>4 DEF Listable
    <3>2. IsFiniteSet(K \ H) /\ IsFiniteSet(A)
      BY <3>1, FS_Subset
    <3> QED BY <3>2, FS_CardinalityType
  <2>11. Counts(All(H), offset, stayed', Range(seen), Len(seen), left', came')
    <3>1. \A x \in All(K) \cup Range(seen) : x < next_ino
      BY <2>5, <2>7
    <3>2. stayed \subseteq All(K) /\ MaxIno + 2 \in Nat
      BY <2>7, NamespaceAssumption DEF All
    <3>3. Counts(All(H), offset, stayed \cap All(H), Range(seen), Len(seen),
                 left + Cardinality(All(K) \ All(H)),
                 came + Cardinality({y \in All(H) \ All(K) : y < next_ino}))
      <4>1. PICK m \in Nat : \A x \in All(H) : x < m
        BY <2>6, <3>2
      <4>2. PICK S : S = All(K)
        OBVIOUS
      <4>3. PICK T : T = All(H)
        OBVIOUS
      <4>4. PICK V : V = Range(seen)
        OBVIOUS
      <4>5. /\ IsFiniteSet(S) /\ S \subseteq Nat /\ IsFiniteSet(T) /\ T \subseteq Nat
            /\ IsFiniteSet(V) /\ V \subseteq Nat /\ \A x \in T : x < m
            /\ (\A x \in S \cup V : x < next_ino) /\ stayed \subseteq S
        BY <2>5, <2>6, <2>8, <3>1, <3>2, <4>1, <4>2, <4>3, <4>4
      <4>6. Counts(S, offset, stayed, V, Len(seen), left, came)
        BY <2>9, <4>2, <4>4
      <4>7. PICK B : B = {y \in T \ S : y < next_ino}
        OBVIOUS
      <4>8. Counts(T, offset, stayed \cap T, V, Len(seen), left + Cardinality(S \ T),
                   came + Cardinality(B))
        BY <2>2, <2>7, <2>8, <4>1, <4>5, <4>6, <4>7, CountsChange
      <4> QED BY <4>2, <4>3, <4>4, <4>7, <4>8
    <3>4. \A x \in K \cup H : x \notin {0, 1}
      BY <2>4 DEF Listable
    <3>5. stayed \cap All(H) = stayed \cap H /\ All(K) \ All(H) = K \ H
      BY <2>7, <3>4 DEF All
    <3>6. {y \in All(H) \ All(K) : y < next_ino} = A
      BY <3>4 DEF All
    <3> QED BY <2>1, <3>3, <3>5, <3>6
  <2>12. left' \in 0 .. MaxMoves /\ came' \in 0 .. MaxMoves
    <3> HIDE DEF A
    <3> QED BY <2>1, <2>7, <2>10
  <2>13. StreamTypeOK'
    <3>1. \A i \in Range(seen) : i < next_ino'
      BY <2>2, <2>3, <2>7, <2>8
    <3>2. stayed' \subseteq H /\ stayed' \subseteq Ino
      BY <2>1, <2>4 DEF Listable
    <3>3. dir' \in Ino /\ stream' \in {"closed", "open", "end"}
      BY <1>1 DEF StreamInv, StreamTypeOK
    <3> QED BY <1>1, <2>7, <2>12, <3>1, <3>2, <3>3 DEF StreamTypeOK, H
  <2>14. MissesAtMostLeft'
    BY <1>1, <1>3 DEF MissesAtMostLeft
  <2>15. RepeatsAtMostCame'
    <3>1. Len(seen) - Cardinality(Range(seen)) <= came
      BY DEF StreamInv, RepeatsAtMostCame
    <3>2. came' = came + Cardinality(A) /\ came \in Nat /\ Cardinality(A) \in Nat
      BY <2>1, <2>7, <2>10
    <3> HIDE DEF A
    <3>3. came <= came' /\ came' \in Nat
      BY <3>2
    <3>4. Len(seen) - Cardinality(Range(seen)) <= came'
      BY <2>8, <3>1, <3>2, <3>3
    <3> QED BY <1>1, <3>4 DEF RepeatsAtMostCame
  <2> QED BY <1>1, <2>11, <2>13, <2>14, <2>15 DEF StreamInv, H
<1> QED BY <1>2, <1>3

LEMMA StreamNextInv ==
    ASSUME IInv, IInv', StreamInv, [StreamNext]_svars
    PROVE  StreamInv'
<1>1. ASSUME NEW parent \in Ino, opendir(parent)
      PROVE  StreamInv'
  BY <1>1, StreamOpens
<1>2. ASSUME NEW n \in 0 .. MaxIno + 1, readdir(n)
      PROVE  StreamInv'
  BY <1>2, StreamReads
<1>3. CASE Meanwhile
  BY <1>3, StreamWatches
<1>4. CASE readdir_refused \/ Remount
  <2>1. stream' = "closed" /\ UNCHANGED <<dir, offset, ghosts>>
    BY <1>4 DEF readdir_refused, Remount
  <2>2. StreamTypeOK'
    BY <2>1 DEF StreamInv, StreamTypeOK, ghosts
  <2>3. MissesAtMostLeft' /\ RepeatsAtMostCame'
    BY <2>1 DEF StreamInv, MissesAtMostLeft, RepeatsAtMostCame, ghosts
  <2> QED BY <2>1, <2>2, <2>3 DEF StreamInv
<1>5. CASE UNCHANGED svars
  <2>1. UNCHANGED <<stream, dir, offset, seen, stayed, left, came, next_ino>>
    BY <1>5 DEF svars, listing, ghosts, vars
  <2>2. Kids(dir)' = Kids(dir)
    BY <1>5 DEF svars, listing, vars, Kids
  <2>3. StreamTypeOK'
    BY <2>1, <2>2 DEF StreamInv, StreamTypeOK
  <2>4. MissesAtMostLeft' /\ RepeatsAtMostCame'
    BY <2>1 DEF StreamInv, MissesAtMostLeft, RepeatsAtMostCame
  <2> QED BY <2>1, <2>2, <2>3, <2>4 DEF StreamInv
<1> QED BY <1>1, <1>2, <1>3, <1>4, <1>5 DEF StreamNext

\* Listings change nothing: seen through the tables alone, a behaviour with readdir
\* requests is one of Namespace.
THEOREM ListingsChangeNothing == StreamSpec => Spec
<1>1. StreamInit => Init
  BY DEF StreamInit
<1>2. [StreamNext]_svars => [Next]_vars
  <2> SUFFICES ASSUME [StreamNext]_svars PROVE [Next]_vars
    OBVIOUS
  <2>1. CASE \E parent \in Ino : opendir(parent)
    BY <2>1 DEF opendir
  <2>2. CASE \E n \in 0 .. MaxIno + 1 : readdir(n)
    BY <2>2 DEF readdir
  <2>3. CASE readdir_refused
    BY <2>3 DEF readdir_refused
  <2>4. CASE Meanwhile
    BY <2>4 DEF Meanwhile, Next
  <2>5. CASE Remount
    BY <2>5 DEF Remount, Next
  <2>6. CASE UNCHANGED svars
    BY <2>6 DEF svars
  <2> QED BY <2>1, <2>2, <2>3, <2>4, <2>5, <2>6 DEF StreamNext
<1> QED BY <1>1, <1>2, PTL DEF Spec, StreamSpec

\* StreamInv holds in every state of every behaviour.
THEOREM StreamInvariance == StreamSpec => []StreamInv
<1>1. StreamInit => StreamInv
  BY StreamStart
<1>2. IInv /\ IInv' /\ StreamInv /\ [StreamNext]_svars => StreamInv'
  BY StreamNextInv
<1>3. StreamSpec => []IInv
  BY ListingsChangeNothing, Invariance, PTL
<1> QED BY <1>1, <1>2, <1>3, PTL DEF StreamSpec

\* Type correctness of a listing: it only ever shows numbers that were handed out.
THEOREM StreamTypeCorrect == StreamSpec => []StreamTypeOK
  BY StreamInvariance, PTL DEF StreamInv

\* A completed listing misses at most as many of the children that were there all the
\* time as left the directory while it went on, however the requests interleave.
THEOREM MissesBounded == StreamSpec => []MissesAtMostLeft
  BY StreamInvariance, PTL DEF StreamInv

\* A listing repeats at most as many entries as were moved in while it went on.
THEOREM RepeatsBounded == StreamSpec => []RepeatsAtMostCame
  BY StreamInvariance, PTL DEF StreamInv
=============================================================================
