-------------------------- MODULE DurabilityProofs --------------------------
(***************************************************************************)
(* Proofs about power losses: for any number of files, requests, kills and *)
(* power losses, a file that was synced survives as it was, and no file    *)
(* ever reads as another.                                                  *)
(***************************************************************************)
EXTENDS Durability, TLAPS

Length == Len \cup {0}

Entry == [id : Nat, key : Nat, len : Length]

\* An entry is of a file that was created, whose id is the request that made it
\* and which is also what its content key was drawn for.
GoodEntry(e, W) == e \in Entry /\ e.key = e.id /\ e.id \in DOMAIN W

GoodTable(t, W) ==
    /\ t = [i \in DOMAIN t |-> t[i]]
    /\ DOMAIN t \subseteq Ino
    /\ \A i \in DOMAIN t : GoodEntry(t[i], W)

\* A data file is not there, does not open under any key, or holds what was
\* written to the file of its key.
Sealed(d, W) ==
    \/ d = Missing
    \/ d = Unsealed
    \/ d \in Content \ {Missing} /\ d.key \in DOMAIN W /\ d.val \in W[d.key]

JobState ==
    [op : {"none", "write", "truncate", "commit write", "commit truncate"},
     len : Length, val : Nat, entry : Entry]

Types ==
    /\ TypeOK
    /\ reqs \in 0 .. MaxReqs
    /\ next_ino \in Nat
    /\ dirty \in BOOLEAN
    /\ session.pc = "idle" => session = Waiting
    /\ session.pc # "idle" => session.ino \in Ino
    /\ stable = [i \in Ino |-> stable[i]]
    /\ job \in [Ino -> JobState]

\* What the tables, the jobs and the data files refer to.
References ==
    /\ written = [n \in DOMAIN written |-> written[n]]
    /\ DOMAIN written \subseteq 1 .. reqs
    /\ \A n \in DOMAIN written : written[n] \subseteq 1 .. reqs
    /\ GoodTable(entries, written)
    /\ \A t \in tables : GoodTable(t, written)
    /\ \A i \in Ino : job[i] # Free => GoodEntry(job[i].entry, written) /\ job[i].val \in 1 .. reqs
    /\ \A i \in Ino : \A d \in stable[i] : Sealed(d, written)

\* A clean index is the one that a power loss leaves, except for the file being
\* unlinked and files that a failed save has left in doubt.
CleanMeansDurable ==
    ~dirty =>
        \A t \in tables : \A i \in Ino \ failed :
            (session.pc = "unlink" /\ session.ino = i) \/ Agree(t, entries, i)

\* While an fsync is under way nothing happens to its file.
FsyncHolds ==
    session.pc = "flush" =>
        /\ job[session.ino] = Free
        /\ data[session.ino] # Missing => stable[session.ino] = {data[session.ino]}

\* What was synced is what the table says and what any power loss leaves, and no
\* job has changed it and still to commit.
SyncedStays ==
    \A i \in DOMAIN synced :
        /\ job[i].op \in {"none", "write", "truncate"}
        /\ \A t \in tables \cup {entries} :
            /\ i \in DOMAIN t
            /\ \A d \in stable[i] :
                IF synced[i] = 0 THEN t[i].len = 0 ELSE Opens(d, t[i]) /\ d.val = synced[i]

IInv == Types /\ References /\ CleanMeansDurable /\ FsyncHolds /\ SyncedStays

-----------------------------------------------------------------------------
(* Facts that the actions share *)

LEMMA LengthIsNat == Length \subseteq Nat
  BY DurabilityAssumption DEF Length

\* What was written is never forgotten, so what refers to it stays good.
LEMMA Grow ==
    ASSUME NEW W, NEW V, DOMAIN W \subseteq DOMAIN V,
           \A n \in DOMAIN W : W[n] \subseteq V[n]
    PROVE  /\ \A e : GoodEntry(e, W) => GoodEntry(e, V)
           /\ \A t : GoodTable(t, W) => GoodTable(t, V)
           /\ \A d : Sealed(d, W) => Sealed(d, V)
  BY DEF GoodEntry, GoodTable, Sealed

\* A save leaves the new table alone, or adds it to what a power loss may leave.
LEMMA SaveTable ==
    ASSUME NEW e, NEW i, save_index(e, i), disk \in tables, dirty \in BOOLEAN
    PROVE  /\ disk' \in tables'
           /\ disk' \in {disk, e}
           /\ tables' \subseteq tables \cup {disk'}
           /\ tables' \subseteq tables \cup {e}
           /\ dirty' \in BOOLEAN
           /\ failed' \subseteq failed \cup {i}
           /\ \/ tables' = {e} /\ failed' = {} /\ dirty' = FALSE
              \/ failed' = failed \cup {i} /\ dirty' = dirty
  BY DEF save_index

\* A save of a table that differs from the one in memory in the file i.
LEMMA SaveClean ==
    ASSUME IInv, NEW i \in Ino, save_index(entries', i),
           \A j \in Ino \ {i} : Agree(entries', entries, j),
           session.pc = "unlink" => session.ino = i,
           session'.pc # "unlink"
    PROVE  CleanMeansDurable'
<1>1. disk \in tables /\ dirty \in BOOLEAN
  BY DEF IInv, Types, TypeOK
<1>2. ASSUME ~dirty', NEW t \in tables', NEW j \in Ino \ failed'
      PROVE  Agree(t, entries', j)
  <2>1. CASE tables' = {entries'}
    BY <2>1 DEF Agree
  <2>2. CASE failed' = failed \cup {i} /\ dirty' = dirty
    <3>1. j \in Ino \ failed /\ j # i /\ t \in tables \cup {entries'}
      BY <1>1, <2>2, SaveTable
    <3>2. CASE t = entries'
      BY <3>2 DEF Agree
    <3>3. CASE t \in tables
      <4>1. Agree(t, entries, j)
        BY <1>2, <2>2, <3>1, <3>3 DEF IInv, CleanMeansDurable
      <4> QED BY <3>1, <4>1 DEF Agree
    <3> QED BY <3>1, <3>2, <3>3
  <2> QED BY <1>1, <2>1, <2>2, SaveTable
<1> QED BY <1>2 DEF CleanMeansDurable

\* What was synced stays so when its entry and its data file do.
LEMMA SyncedKept ==
    ASSUME IInv, DOMAIN synced' \subseteq DOMAIN synced,
           \A i \in DOMAIN synced' :
               /\ synced'[i] = synced[i]
               /\ job'[i].op \in {"none", "write", "truncate"}
               /\ stable'[i] \subseteq stable[i]
               /\ \A t \in tables' \cup {entries'} : \E u \in tables \cup {entries} :
                    i \in DOMAIN u => i \in DOMAIN t /\ t[i] = u[i]
    PROVE  SyncedStays'
  BY DEF IInv, SyncedStays

\* Unsealed data opens under no entry, and a sealed one was written by a request.
LEMMA SealedData ==
    ASSUME IInv
    PROVE  /\ Unsealed # Missing /\ Unsealed \in Content
           /\ \A d, e : GoodEntry(e, written) /\ Sealed(d, written) /\ Opens(d, e) =>
                d.val \in written[e.id] /\ d.val # 0
<1>1. Unsealed \in [key : Nat, len : Nat, val : Nat]
  BY DEF Unsealed
<1>2. Unsealed # Missing
  BY <1>1, DurabilityAssumption
<1>3. Unsealed \in Content
  BY DurabilityAssumption DEF Unsealed, Content
<1>4. \A n \in DOMAIN written : n # 0 /\ 0 \notin written[n]
  BY DEF IInv, References, Types
<1>5. ASSUME NEW d, NEW e, GoodEntry(e, written), Sealed(d, written), Opens(d, e)
      PROVE  d.val \in written[e.id] /\ d.val # 0
  <2>1. d # Unsealed
    BY <1>4, <1>5 DEF Unsealed, Opens, GoodEntry
  <2> QED BY <1>4, <1>5, <2>1 DEF Sealed, Opens, GoodEntry
<1> QED BY <1>2, <1>3, <1>5

-----------------------------------------------------------------------------
(* One lemma per action *)

LEMMA InitInv == Init => IInv
<1> SUFFICES ASSUME Init PROVE IInv
  OBVIOUS
<1>1. Free \in JobState
  BY DEF Free, JobState, Nobody, Entry, Length
<1>2. Types
  <2>1. TypeOK
    BY DEF Init, TypeOK, Content, Waiting, Free
  <2>2. job \in [Ino -> JobState] /\ stable = [i \in Ino |-> stable[i]]
    BY <1>1 DEF Init
  <2>3. session = Waiting /\ session.pc = "idle"
    BY DEF Init, Waiting
  <2>4. reqs \in 0 .. MaxReqs /\ next_ino \in Nat /\ dirty \in BOOLEAN
    <3>1. reqs = 0 /\ next_ino = 2 /\ dirty = FALSE
      BY DEF Init, Root
    <3>2. 0 \in 0 .. MaxReqs
      BY DurabilityAssumption
    <3> QED BY <3>1, <3>2
  <2> QED BY <2>1, <2>2, <2>3, <2>4 DEF Types
<1>3. References
  BY DEF Init, References, GoodTable, Sealed
<1>4. CleanMeansDurable /\ FsyncHolds /\ SyncedStays
  BY DEF Init, CleanMeansDurable, Agree, FsyncHolds, SyncedStays, Waiting
<1> QED BY <1>2, <1>3, <1>4 DEF IInv

LEMMA createInv ==
    ASSUME IInv, create
    PROVE  IInv'
<1> DEFINE new == [id |-> reqs', key |-> reqs', len |-> 0]
<1>1. /\ session = Waiting /\ session.pc = "idle" /\ reqs < MaxReqs /\ reqs' = reqs + 1
      /\ next_ino \in Ino /\ next_ino' = next_ino + 1
      /\ entries' = Put(entries, next_ino, new)
      /\ written' = Put(written, reqs', {})
      /\ save_index(entries', next_ino)
      /\ UNCHANGED <<data, stable, job, session, synced>>
  BY DEF create, Request, allocate_ino, content_key, Waiting
<1>2. reqs \in Nat /\ reqs' \in 0 .. MaxReqs /\ reqs' \notin DOMAIN written /\ 1 .. reqs \subseteq 1 .. reqs'
      /\ reqs' \in 1 .. reqs' /\ next_ino \notin DOMAIN entries /\ next_ino \in Nat
  BY <1>1, DurabilityAssumption DEF IInv, Types, References, TypeOK
<1>3. /\ DOMAIN written' = DOMAIN written \cup {reqs'}
      /\ \A n \in DOMAIN written : written'[n] = written[n]
      /\ written'[reqs'] = {} /\ written' = [n \in DOMAIN written' |-> written'[n]]
  BY <1>1, <1>2 DEF Put
<1>4. /\ DOMAIN entries' = DOMAIN entries \cup {next_ino}
      /\ \A i \in DOMAIN entries : entries'[i] = entries[i]
      /\ entries'[next_ino] = new /\ entries' = [i \in DOMAIN entries' |-> entries'[i]]
  BY <1>1, <1>2 DEF Put
<1>5. GoodEntry(new, written')
  BY <1>2, <1>3 DEF GoodEntry, Entry, Length
<1> HIDE DEF new
<1>6. disk \in tables /\ dirty \in BOOLEAN
  BY DEF IInv, Types, TypeOK
<1>7. Types'
  <2>1. \A i \in DOMAIN entries' : i < next_ino'
    BY <1>1, <1>2, <1>4 DEF IInv, Types, TypeOK, Ino
  <2>2. TypeOK'
    <3>1. disk' \in tables' /\ tables' \subseteq tables \cup {entries'} /\ failed' \subseteq failed \cup {next_ino}
      BY <1>1, <1>6, SaveTable
    <3> QED BY <1>1, <1>4, <2>1, <3>1 DEF IInv, Types, TypeOK
  <2>3. dirty' \in BOOLEAN
    BY <1>1, <1>6, SaveTable
  <2>4. next_ino' \in Nat
    BY <1>1, <1>2
  <2> QED BY <1>1, <1>2, <2>2, <2>3, <2>4 DEF IInv, Types
<1>8. References'
  <2>1. /\ \A e : GoodEntry(e, written) => GoodEntry(e, written')
        /\ \A t : GoodTable(t, written) => GoodTable(t, written')
        /\ \A d : Sealed(d, written) => Sealed(d, written')
    BY <1>3, Grow
  <2>2. GoodTable(entries', written')
    BY <1>1, <1>4, <1>5, <2>1 DEF IInv, References, GoodTable
  <2>3. \A t \in tables' : GoodTable(t, written')
    BY <1>1, <1>6, <2>1, <2>2, SaveTable DEF IInv, References
  <2>4. /\ DOMAIN written' \subseteq 1 .. reqs'
        /\ \A n \in DOMAIN written' : written'[n] \subseteq 1 .. reqs'
    BY <1>2, <1>3 DEF IInv, References
  <2>5. \A i \in Ino : job'[i] # Free =>
            GoodEntry(job'[i].entry, written') /\ job'[i].val \in 1 .. reqs'
    BY <1>1, <1>2, <2>1 DEF IInv, References
  <2>6. \A i \in Ino : \A d \in stable'[i] : Sealed(d, written')
    BY <1>1, <2>1 DEF IInv, References
  <2> QED BY <1>3, <2>2, <2>3, <2>4, <2>5, <2>6 DEF References
<1>9. CleanMeansDurable'
  <2>1. \A j \in Ino \ {next_ino} : Agree(entries', entries, j)
    BY <1>4 DEF Agree
  <2> QED BY <1>1, <2>1, SaveClean
<1>10. FsyncHolds'
  BY <1>1 DEF FsyncHolds
<1>11. SyncedStays'
  <2>1. \A i \in DOMAIN synced : i \in DOMAIN entries
    BY DEF IInv, SyncedStays
  <2>2. ASSUME NEW i \in DOMAIN synced', NEW t \in tables' \cup {entries'}
        PROVE  \E u \in tables \cup {entries} : i \in DOMAIN u => i \in DOMAIN t /\ t[i] = u[i]
    <3>1. t \in tables \/ t = entries'
      BY <1>1, <1>6, SaveTable
    <3> QED BY <1>1, <1>4, <2>1, <3>1
  <2>3. \A i \in DOMAIN synced' : job'[i].op \in {"none", "write", "truncate"}
    BY <1>1 DEF IInv, SyncedStays
  <2> QED BY <1>1, <2>2, <2>3, SyncedKept
<1> QED BY <1>7, <1>8, <1>9, <1>10, <1>11 DEF IInv

LEMMA JobInv ==
    ASSUME IInv, NEW ino \in Ino, NEW op \in {"write", "truncate"}, NEW len \in Length,
           Job(ino, op, len)
    PROVE  IInv'
<1> DEFINE j == [op |-> op, len |-> len, val |-> reqs', entry |-> entries[ino]]
<1>1. /\ session = Waiting /\ session.pc = "idle" /\ reqs < MaxReqs /\ reqs' = reqs + 1
      /\ ino \in DOMAIN entries /\ job' = [job EXCEPT ![ino] = j]
      /\ UNCHANGED <<entries, next_ino, dirty, disk, tables, data, stable, session, faults,
                     synced, failed, written>>
  BY DEF Job, Request, Waiting, table, ghosts
<1>2. reqs \in Nat /\ reqs' \in 0 .. MaxReqs /\ 1 .. reqs \subseteq 1 .. reqs' /\ reqs' \in 1 .. reqs'
  BY <1>1, DurabilityAssumption DEF IInv, Types
<1>3. GoodEntry(entries[ino], written)
  BY <1>1 DEF IInv, References, GoodTable
<1>4. j \in JobState /\ j.op = op /\ j # Free /\ j.entry = entries[ino] /\ j.val = reqs'
  <2>1. entries[ino] \in Entry /\ reqs' \in Nat
    BY <1>1, <1>2, <1>3 DEF GoodEntry
  <2>2. j \in JobState
    BY <2>1 DEF JobState
  <2> QED BY <2>2 DEF Free
<1> HIDE DEF j
<1>5. /\ job' \in [Ino -> JobState] /\ job'[ino] = j
      /\ \A i \in Ino \ {ino} : job'[i] = job[i]
  BY <1>1, <1>4 DEF IInv, Types
<1>6. Types'
  <2>1. \A i \in Ino : job'[i].op = "none" <=> job'[i] = Free
    BY <1>4, <1>5 DEF IInv, Types, TypeOK
  <2>2. TypeOK'
    BY <1>1, <2>1 DEF IInv, Types, TypeOK
  <2> QED BY <1>1, <1>2, <1>5, <2>2 DEF IInv, Types
<1>7. References'
  <2>1. \A i \in Ino : job'[i] # Free =>
            GoodEntry(job'[i].entry, written) /\ job'[i].val \in 1 .. reqs'
    BY <1>2, <1>3, <1>4, <1>5 DEF IInv, References
  <2>2. /\ DOMAIN written \subseteq 1 .. reqs'
        /\ \A n \in DOMAIN written : written[n] \subseteq 1 .. reqs'
    BY <1>2 DEF IInv, References
  <2> QED BY <1>1, <2>1, <2>2 DEF IInv, References
<1>8. CleanMeansDurable' /\ FsyncHolds'
  BY <1>1 DEF IInv, CleanMeansDurable, Agree, FsyncHolds
<1>9. SyncedStays'
  <2>1. \A i \in DOMAIN synced' : job'[i].op \in {"none", "write", "truncate"}
    BY <1>1, <1>4, <1>5 DEF IInv, SyncedStays, Types, TypeOK
  <2> QED BY <1>1, <2>1, SyncedKept
<1> QED BY <1>6, <1>7, <1>8, <1>9 DEF IInv

\* What a transfer leaves is sealed for the file the job is about, or no file's.
LEMMA ChangedSealed ==
    ASSUME IInv, NEW ino \in Ino, job[ino] # Free,
           NEW V, DOMAIN V = DOMAIN written, \A n \in DOMAIN written : written[n] \subseteq V[n],
           job[ino].val \in V[job[ino].entry.id],
           NEW d \in Content, Sealed(d, written)
    PROVE  Changed(d, job[ino]) \in Content /\ Sealed(Changed(d, job[ino]), V)
<1> DEFINE j == job[ino]
           made == [key |-> j.entry.key, len |-> j.len, val |-> j.val]
<1>1. /\ GoodEntry(j.entry, written) /\ j.val \in 1 .. reqs /\ j \in JobState
      /\ reqs \in 0 .. MaxReqs /\ DOMAIN written \subseteq 1 .. reqs
  BY DEF IInv, References, Types
<1>2. j.entry.key = j.entry.id /\ j.entry.key \in DOMAIN written /\ j.len \in Length
  BY <1>1 DEF GoodEntry, JobState
<1> HIDE DEF j
<1>3. made \in [key : 0 .. MaxReqs, len : Length, val : 0 .. MaxReqs]
  BY <1>1, <1>2, DurabilityAssumption
<1>4. made \in [key : Nat, len : Nat, val : Nat]
  <2>1. j.entry.key \in Nat
    BY <1>1 DEF GoodEntry, Entry
  <2>2. j.val \in Nat
    BY <1>1 DEF JobState
  <2>3. j.len \in Nat
    BY <1>2, LengthIsNat
  <2> QED BY <2>1, <2>2, <2>3
<1>5. made \in Content \ {Missing}
  BY <1>3, <1>4, DurabilityAssumption DEF Content, Length
<1>6. Sealed(made, V)
  <2>1. made.key = j.entry.id /\ made.val = j.val
    BY <1>2
  <2>2. j.val \in V[j.entry.id] /\ j.entry.id \in DOMAIN V
    BY <1>2 DEF j
  <2> HIDE DEF made
  <2> QED BY <1>5, <2>1, <2>2 DEF Sealed
<1>7. Sealed(d, V) /\ Sealed(Unsealed, V) /\ Unsealed \in Content
  BY Grow, SealedData DEF Sealed
<1>8. Changed(d, j) \in {Unsealed, made, d}
  BY DEF Changed
<1> HIDE DEF made
<1>9. Changed(d, j) \in Content /\ Sealed(Changed(d, j), V)
  BY <1>5, <1>6, <1>7, <1>8
<1> QED BY <1>9 DEF j

LEMMA TransferInv ==
    ASSUME IInv, NEW ino \in Ino, Transfer(ino)
    PROVE  IInv'
<1> DEFINE j  == job[ino]
           ok == Keeps(j) \/ j.len = 0 \/ j.entry.len = 0 \/ Opens(data[ino], j.entry)
           next == IF ok THEN [j EXCEPT !.op = Committing[j.op]] ELSE Free
<1>1. /\ j.op \in {"write", "truncate"}
      /\ job' = [job EXCEPT ![ino] = next]
      /\ data' = IF Keeps(j) THEN data ELSE [data EXCEPT ![ino] = Changed(@, j)]
      /\ stable' = IF data' = data THEN stable
                   ELSE [stable EXCEPT ![ino] = @ \cup {Unsealed, data'[ino]}]
      /\ written' = [written EXCEPT ![j.entry.id] = @ \cup {j.val}]
      /\ synced' = Only(synced, Ino \ {ino})
      /\ UNCHANGED <<entries, next_ino, dirty, disk, tables, session, reqs, faults, failed>>
  BY DEF Transfer, table
<1>2. /\ job[ino] # Free /\ GoodEntry(j.entry, written) /\ j.val \in 1 .. reqs /\ j \in JobState
      /\ j.entry.id \in DOMAIN written
  BY <1>1 DEF IInv, References, Types, TypeOK, GoodEntry
<1>3. /\ DOMAIN written' = DOMAIN written
      /\ written' = [n \in DOMAIN written' |-> written'[n]]
      /\ \A n \in DOMAIN written : written[n] \subseteq written'[n]
      /\ \A n \in DOMAIN written : written'[n] \subseteq written[n] \cup {j.val}
      /\ j.val \in written'[j.entry.id]
  BY <1>1, <1>2 DEF IInv, References
<1>4. /\ next \in JobState
      /\ next # Free =>
            /\ next.op \in {"commit write", "commit truncate"}
            /\ next.entry = j.entry
            /\ next.val = j.val
      /\ next.op = "none" <=> next = Free
  <2>1. CASE ok
    <3>1. next = [j EXCEPT !.op = Committing[j.op]]
      BY <2>1
    <3>2. Committing[j.op] \in {"commit write", "commit truncate"}
      <4>1. CASE j.op = "write"
        BY <4>1 DEF Committing
      <4>2. CASE j.op = "truncate"
        BY <4>2 DEF Committing
      <4> QED BY <1>1, <4>1, <4>2
    <3> HIDE DEF next, j, ok
    <3> QED BY <1>2, <3>1, <3>2 DEF JobState, Free
  <2>2. CASE ~ok
    BY <2>2 DEF Free, JobState, Nobody, Entry, Length
  <2> QED BY <2>1, <2>2
<1> HIDE DEF next, ok
<1>5. /\ job' \in [Ino -> JobState] /\ job'[ino] = next
      /\ \A i \in Ino \ {ino} : job'[i] = job[i]
  BY <1>1, <1>4 DEF IInv, Types
<1>6. /\ data \in [Ino -> Content] /\ stable = [i \in Ino |-> stable[i]]
      /\ \A i \in Ino : data[i] \in stable[i] /\ stable[i] \subseteq Content
      /\ \A i \in Ino : \A d \in stable[i] : Sealed(d, written)
  BY DEF IInv, Types, TypeOK, References
<1>7. Changed(data[ino], j) \in Content /\ Sealed(Changed(data[ino], j), written')
  BY <1>2, <1>3, <1>6, ChangedSealed
<1> HIDE DEF j
<1>8. /\ data' \in [Ino -> Content]
      /\ data'[ino] \in {data[ino], Changed(data[ino], j)}
      /\ \A i \in Ino \ {ino} : data'[i] = data[i]
  BY <1>1, <1>6, <1>7
<1>9. /\ stable' = [i \in Ino |-> stable'[i]]
      /\ stable'[ino] \subseteq stable[ino] \cup {Unsealed, data'[ino]}
      /\ stable[ino] \subseteq stable'[ino] /\ data'[ino] \in stable'[ino]
      /\ \A i \in Ino \ {ino} : stable'[i] = stable[i]
  BY <1>1, <1>6, <1>8
<1>10. /\ \A e : GoodEntry(e, written) => GoodEntry(e, written')
       /\ \A t : GoodTable(t, written) => GoodTable(t, written')
       /\ \A d : Sealed(d, written) => Sealed(d, written')
  BY <1>3, Grow
<1>11. \A i \in Ino : \A d \in stable'[i] : Sealed(d, written') /\ d \in Content
  <2>1. \A d \in stable'[ino] : d \in stable[ino] \/ d = Unsealed \/ d = Changed(data[ino], j)
    BY <1>6, <1>8, <1>9
  <2>2. \A d \in stable'[ino] : Sealed(d, written') /\ d \in Content
    BY <1>6, <1>7, <1>10, <2>1, SealedData DEF Sealed
  <2> QED BY <1>6, <1>9, <1>10, <2>2
<1>12. Types'
  <2>1. \A i \in Ino : job'[i].op = "none" <=> job'[i] = Free
    BY <1>4, <1>5 DEF IInv, Types, TypeOK
  <2>2. \A i \in Ino : data'[i] \in stable'[i] /\ stable'[i] \subseteq Content
    BY <1>6, <1>8, <1>9, <1>11
  <2>3. DOMAIN synced' \subseteq Ino
    BY <1>1 DEF Only
  <2>4. TypeOK'
    BY <1>1, <1>8, <2>1, <2>2, <2>3 DEF IInv, Types, TypeOK
  <2> QED BY <1>1, <1>5, <1>9, <2>4 DEF IInv, Types
<1>13. References'
  <2>1. \A i \in Ino : job'[i] # Free =>
            GoodEntry(job'[i].entry, written') /\ job'[i].val \in 1 .. reqs
    BY <1>2, <1>4, <1>5, <1>10 DEF IInv, References
  <2>2. /\ DOMAIN written' \subseteq 1 .. reqs
        /\ \A n \in DOMAIN written' : written'[n] \subseteq 1 .. reqs
    BY <1>2, <1>3 DEF IInv, References
  <2>3. GoodTable(entries, written') /\ \A t \in tables : GoodTable(t, written')
    BY <1>10 DEF IInv, References
  <2> QED BY <1>1, <1>3, <1>11, <2>1, <2>2, <2>3 DEF References
<1>14. CleanMeansDurable'
  BY <1>1 DEF IInv, CleanMeansDurable, Agree
<1>15. FsyncHolds'
  <2>1. session.pc = "flush" => session.ino # ino /\ session.ino \in Ino
    BY <1>2 DEF IInv, FsyncHolds, Types, j
  <2> QED BY <1>1, <1>5, <1>8, <1>9, <2>1 DEF IInv, FsyncHolds
<1>16. SyncedStays'
  <2>1. /\ DOMAIN synced' \subseteq DOMAIN synced /\ ino \notin DOMAIN synced'
        /\ \A i \in DOMAIN synced' : synced'[i] = synced[i]
    BY <1>1 DEF Only
  <2>2. DOMAIN synced \subseteq Ino
    BY DEF IInv, Types, TypeOK
  <2>3. \A i \in DOMAIN synced' : job'[i] = job[i] /\ stable'[i] = stable[i]
    BY <1>5, <1>9, <2>1, <2>2
  <2>4. \A i \in DOMAIN synced : job[i].op \in {"none", "write", "truncate"}
    BY DEF IInv, SyncedStays
  <2>5. \A i \in DOMAIN synced' : job'[i].op \in {"none", "write", "truncate"}
    BY <2>1, <2>3, <2>4
  <2> QED BY <1>1, <2>1, <2>3, <2>5, SyncedKept
<1> QED BY <1>12, <1>13, <1>14, <1>15, <1>16 DEF IInv

LEMMA CommitInv ==
    ASSUME IInv, NEW ino \in Ino, Commit(ino)
    PROVE  IInv'
<1> DEFINE j == job[ino]
<1>1. /\ session = Waiting /\ session.pc = "idle" /\ j.op \in {"commit write", "commit truncate"}
      /\ job' = [job EXCEPT ![ino] = Free]
      /\ UNCHANGED <<next_ino, data, stable, session, reqs, synced, written>>
  BY DEF Commit, Waiting, table
<1>2. /\ job' \in [Ino -> JobState] /\ job'[ino] = Free /\ Free.op = "none"
      /\ \A i \in Ino \ {ino} : job'[i] = job[i]
  <2>1. Free \in JobState
    BY DEF Free, JobState, Nobody, Entry, Length
  <2> QED BY <1>1, <2>1 DEF IInv, Types, Free
<1>3. disk \in tables /\ dirty \in BOOLEAN
  BY DEF IInv, Types, TypeOK
<1>4. \/ UNCHANGED <<entries, dirty, disk, tables, failed>>
      \/ /\ ino \in DOMAIN entries
         /\ entries' = [entries EXCEPT ![ino].len = j.len]
         /\ \/ dirty' = TRUE /\ UNCHANGED <<disk, tables, failed>>
            \/ save_index(entries', ino)
  BY DEF Commit, table
<1>5. ino \notin DOMAIN synced
  BY <1>1 DEF IInv, SyncedStays
<1>6. /\ GoodTable(entries', written) /\ DOMAIN entries' = DOMAIN entries
      /\ \A i \in DOMAIN entries \ {ino} : entries'[i] = entries[i]
  <2>1. GoodTable(entries, written) /\ j.len \in Length
    BY DEF IInv, References, Types, JobState
  <2>2. CASE entries' = entries
    BY <2>1, <2>2
  <2>3. CASE ino \in DOMAIN entries /\ entries' = [entries EXCEPT ![ino].len = j.len]
    <3>1. GoodEntry(entries[ino], written)
      BY <2>1, <2>3 DEF GoodTable
    <3>2. GoodEntry([entries[ino] EXCEPT !.len = j.len], written)
      BY <2>1, <3>1 DEF GoodEntry, Entry
    <3>3. /\ DOMAIN entries' = DOMAIN entries
          /\ entries' = [i \in DOMAIN entries' |-> entries'[i]]
          /\ entries'[ino] = [entries[ino] EXCEPT !.len = j.len]
          /\ \A i \in DOMAIN entries \ {ino} : entries'[i] = entries[i]
      BY <2>1, <2>3 DEF GoodTable
    <3> QED BY <2>1, <3>2, <3>3 DEF GoodTable
  <2> QED BY <1>4, <2>2, <2>3
<1>7. /\ disk' \in tables' /\ tables' \subseteq tables \cup {entries'}
      /\ dirty' \in BOOLEAN /\ failed' \subseteq failed \cup {ino}
  BY <1>3, <1>4, SaveTable
<1>8. Types'
  <2>1. \A i \in Ino : job'[i].op = "none" <=> job'[i] = Free
    BY <1>2 DEF IInv, Types, TypeOK
  <2>2. TypeOK'
    BY <1>1, <1>6, <1>7, <2>1 DEF IInv, Types, TypeOK
  <2> QED BY <1>1, <1>2, <1>7, <2>2 DEF IInv, Types
<1>9. References'
  <2>1. \A i \in Ino : job'[i] # Free =>
            GoodEntry(job'[i].entry, written) /\ job'[i].val \in 1 .. reqs
    BY <1>2 DEF IInv, References
  <2>2. \A t \in tables' : GoodTable(t, written)
    BY <1>6, <1>7 DEF IInv, References
  <2> QED BY <1>1, <1>6, <2>1, <2>2 DEF IInv, References
<1>10. CleanMeansDurable'
  <2>1. \A i \in Ino \ {ino} : Agree(entries', entries, i)
    BY <1>6 DEF Agree
  <2>2. CASE save_index(entries', ino)
    BY <1>1, <2>1, <2>2, SaveClean
  <2>3. CASE UNCHANGED <<disk, tables, failed>> /\ (dirty' \/ UNCHANGED <<entries, dirty>>)
    <3>1. CleanMeansDurable /\ disk' = disk /\ tables' = tables /\ failed' = failed
      BY <2>3 DEF IInv
    <3>2. CASE dirty'
      BY <3>1, <3>2 DEF CleanMeansDurable
    <3>3. CASE entries' = entries /\ dirty' = dirty
      BY <1>1, <3>1, <3>3 DEF CleanMeansDurable, Agree
    <3> QED BY <2>3, <3>2, <3>3
  <2> QED BY <1>4, <2>2, <2>3
<1>11. FsyncHolds'
  BY <1>1 DEF FsyncHolds
<1>12. SyncedStays'
  <2>1. DOMAIN synced \subseteq Ino /\ \A i \in DOMAIN synced : i \in DOMAIN entries
    BY DEF IInv, Types, TypeOK, SyncedStays
  <2>2. \A i \in DOMAIN synced' : job'[i].op \in {"none", "write", "truncate"}
    BY <1>1, <1>2, <1>5, <2>1 DEF IInv, SyncedStays
  <2>3. ASSUME NEW i \in DOMAIN synced', NEW t \in tables' \cup {entries'}
        PROVE  \E u \in tables \cup {entries} : i \in DOMAIN u => i \in DOMAIN t /\ t[i] = u[i]
    <3>1. CASE t \in tables
      BY <3>1
    <3>2. CASE t = entries'
      BY <1>1, <1>5, <1>6, <2>1, <3>2
    <3> QED BY <1>7, <3>1, <3>2
  <2> QED BY <1>1, <2>2, <2>3, SyncedKept
<1> QED BY <1>8, <1>9, <1>10, <1>11, <1>12 DEF IInv

LEMMA fsyncInv ==
    ASSUME IInv, NEW ino \in Ino, fsync(ino)
    PROVE  IInv'
<1>1. /\ session = Waiting /\ session.pc = "idle" /\ reqs < MaxReqs /\ reqs' = reqs + 1
      /\ job[ino] = Free
      /\ \/ /\ session' = [pc |-> "flush", ino |-> ino]
            /\ stable' = IF data[ino] = Missing THEN stable ELSE [stable EXCEPT ![ino] = {data[ino]}]
         \/ UNCHANGED <<stable, session>>
      /\ UNCHANGED <<entries, next_ino, dirty, disk, tables, data, job, faults,
                     synced, failed, written>>
  BY DEF fsync, Request, sync, Waiting, table
<1>2. reqs \in Nat /\ reqs' \in 0 .. MaxReqs /\ 1 .. reqs \subseteq 1 .. reqs'
  BY <1>1, DurabilityAssumption DEF IInv, Types
<1>3. /\ session'.pc \in {"idle", "flush"}
      /\ session'.pc = "idle" => session' = Waiting
      /\ session'.pc = "flush" => session'.ino = ino
  BY <1>1
<1>4. /\ stable' = [i \in Ino |-> stable'[i]]
      /\ \A i \in Ino : stable'[i] \subseteq stable[i] /\ data[i] \in stable'[i]
      /\ data[ino] # Missing /\ session'.pc = "flush" => stable'[ino] = {data[ino]}
  BY <1>1 DEF IInv, Types, TypeOK
<1>5. Types'
  <2>1. \A i \in Ino : data[i] \in stable'[i] /\ stable'[i] \subseteq Content
    BY <1>4 DEF IInv, Types, TypeOK
  <2>2. session' \in [pc : {"idle", "flush", "unlink"}, ino : Ino \cup {Root}]
    BY <1>1 DEF Waiting
  <2>3. TypeOK'
    BY <1>1, <2>1, <2>2 DEF IInv, Types, TypeOK
  <2> QED BY <1>1, <1>2, <1>3, <1>4, <2>3 DEF IInv, Types
<1>6. References'
  <2>1. \A i \in Ino : job[i] # Free => job[i].val \in 1 .. reqs'
    BY <1>2 DEF IInv, References
  <2>2. /\ DOMAIN written \subseteq 1 .. reqs'
        /\ \A n \in DOMAIN written : written[n] \subseteq 1 .. reqs'
    BY <1>2 DEF IInv, References
  <2>3. \A i \in Ino : \A d \in stable'[i] : Sealed(d, written)
    BY <1>4 DEF IInv, References
  <2> QED BY <1>1, <2>1, <2>2, <2>3 DEF IInv, References
<1>7. CleanMeansDurable'
  BY <1>1, <1>3 DEF IInv, CleanMeansDurable, Agree
<1>8. FsyncHolds'
  BY <1>1, <1>3, <1>4 DEF FsyncHolds
<1>9. SyncedStays'
  <2>1. \A i \in DOMAIN synced : i \in Ino /\ job[i].op \in {"none", "write", "truncate"}
    BY DEF IInv, Types, TypeOK, SyncedStays
  <2> QED BY <1>1, <1>4, <2>1, SyncedKept
<1> QED BY <1>5, <1>6, <1>7, <1>8, <1>9 DEF IInv

LEMMA FlushIndexInv ==
    ASSUME IInv, FlushIndex
    PROVE  IInv'
<1> DEFINE ino == session.ino
           done == ino \in DOMAIN entries \ failed'
                   /\ (entries[ino].len = 0 \/ Opens(data[ino], entries[ino]))
           bytes == IF entries[ino].len = 0 THEN 0 ELSE data[ino].val
<1>1. /\ session.pc = "flush" /\ ino \in Ino /\ session' = Waiting
      /\ \/ dirty /\ save_index(entries, ino)
         \/ ~dirty /\ UNCHANGED <<disk, tables, dirty, failed>>
      /\ synced' = IF done THEN Put(synced, ino, bytes) ELSE synced
      /\ UNCHANGED <<entries, next_ino, data, stable, job, reqs, written>>
  BY DEF FlushIndex, IInv, Types
<1>2. Waiting.pc = "idle" /\ Waiting.ino = Root /\ session'.pc = "idle"
  BY <1>1 DEF Waiting
<1>3. disk \in tables /\ dirty \in BOOLEAN
  BY DEF IInv, Types, TypeOK
<1>4. /\ disk' \in tables' /\ tables' \subseteq tables \cup {entries}
      /\ dirty' \in BOOLEAN /\ failed' \subseteq failed \cup {ino}
  BY <1>1, <1>3, SaveTable
<1>5. \A i \in DOMAIN synced' : i \in DOMAIN synced \/ (i = ino /\ done)
  BY <1>1 DEF Put
<1>6. Types'
  <2>1. DOMAIN synced' \subseteq Ino /\ failed' \subseteq Ino
    BY <1>1, <1>4, <1>5 DEF IInv, Types, TypeOK
  <2>2. session' \in [pc : {"idle", "flush", "unlink"}, ino : Ino \cup {Root}]
    BY <1>1 DEF Waiting
  <2>3. TypeOK'
    BY <1>1, <1>4, <2>1, <2>2 DEF IInv, Types, TypeOK
  <2> QED BY <1>1, <1>2, <1>4, <2>3 DEF IInv, Types
<1>7. References'
  <2>1. \A t \in tables' : GoodTable(t, written)
    BY <1>4 DEF IInv, References
  <2> QED BY <1>1, <2>1 DEF IInv, References
<1>8. CleanMeansDurable'
  <2>1. CASE dirty /\ save_index(entries, ino)
    <3>1. \A j \in Ino \ {ino} : Agree(entries', entries, j)
      BY <1>1 DEF Agree
    <3>2. save_index(entries', ino)
      BY <1>1, <2>1
    <3> QED BY <1>1, <1>2, <3>1, <3>2, SaveClean
  <2>2. CASE ~dirty /\ UNCHANGED <<disk, tables, dirty, failed>>
    BY <1>1, <1>2, <2>2 DEF IInv, CleanMeansDurable, Agree
  <2> QED BY <1>1, <2>1, <2>2
<1>9. FsyncHolds'
  BY <1>2 DEF FsyncHolds
<1>10. SyncedStays'
  <2> SUFFICES ASSUME NEW i \in DOMAIN synced', NEW t \in tables' \cup {entries}
               PROVE  /\ job[i].op \in {"none", "write", "truncate"}
                      /\ i \in DOMAIN t
                      /\ \A d \in stable[i] :
                           IF synced'[i] = 0 THEN t[i].len = 0
                           ELSE Opens(d, t[i]) /\ d.val = synced'[i]
    BY <1>1 DEF SyncedStays
  <2>1. CASE ~(i = ino /\ done)
    <3>1. i \in DOMAIN synced /\ synced'[i] = synced[i]
      BY <1>1, <1>5, <2>1 DEF Put
    <3> QED BY <1>4, <3>1 DEF IInv, SyncedStays
  <2>2. CASE i = ino /\ done
    <3>1. synced'[ino] = bytes
      BY <1>1, <2>2 DEF Put
    <3>2. ino \in DOMAIN t /\ t[ino] = entries[ino]
      <4>1. CASE tables' = {entries}
        BY <2>2, <4>1
      <4>2. CASE ~dirty /\ UNCHANGED <<disk, tables, dirty, failed>>
        BY <1>1, <2>2, <4>2 DEF IInv, CleanMeansDurable, Agree
      <4>3. CASE failed' = failed \cup {ino}
        BY <2>2, <4>3
      <4> QED BY <1>1, <1>3, <4>1, <4>2, <4>3, SaveTable
    <3>3. job[ino] = Free /\ Free.op = "none"
      BY <1>1 DEF IInv, FsyncHolds, Free
    <3>4. CASE entries[ino].len = 0
      BY <2>2, <3>1, <3>2, <3>3, <3>4
    <3>5. CASE entries[ino].len # 0
      <4>1. Opens(data[ino], entries[ino]) /\ data[ino] # Missing
        BY <2>2, <3>5 DEF Opens
      <4>2. stable[ino] = {data[ino]}
        BY <1>1, <4>1 DEF IInv, FsyncHolds
      <4>3. data[ino].val # 0
        <5>1. GoodEntry(entries[ino], written) /\ Sealed(data[ino], written)
          BY <1>1, <2>2, <4>2 DEF IInv, References, GoodTable
        <5> QED BY <4>1, <5>1, SealedData
      <4> QED BY <2>2, <3>1, <3>2, <3>3, <3>5, <4>1, <4>2, <4>3
    <3> QED BY <3>4, <3>5
  <2> QED BY <2>1, <2>2
<1> QED BY <1>6, <1>7, <1>8, <1>9, <1>10 DEF IInv

LEMMA unlinkInv ==
    ASSUME IInv, NEW ino \in Ino, unlink(ino)
    PROVE  IInv'
<1>1. /\ session = Waiting /\ session.pc = "idle" /\ reqs < MaxReqs /\ reqs' = reqs + 1
      /\ entries' = Only(entries, Ino \ {ino})
      /\ \/ /\ data' = [data EXCEPT ![ino] = Missing]
            /\ stable' = [stable EXCEPT ![ino] = @ \cup {Missing}]
         \/ UNCHANGED <<data, stable>>
      /\ synced' = Only(synced, Ino \ {ino})
      /\ session' = [pc |-> "unlink", ino |-> ino]
      /\ UNCHANGED <<next_ino, dirty, disk, tables, job, faults, failed, written>>
  BY DEF unlink, Request, Waiting
<1>2. reqs \in Nat /\ reqs' \in 0 .. MaxReqs /\ 1 .. reqs \subseteq 1 .. reqs'
  BY <1>1, DurabilityAssumption DEF IInv, Types
<1>3. session'.pc = "unlink" /\ session'.ino = ino
  BY <1>1
<1>4. /\ DOMAIN entries' = DOMAIN entries \ {ino} /\ DOMAIN entries \subseteq Ino
      /\ entries' = [i \in DOMAIN entries' |-> entries'[i]]
      /\ \A i \in DOMAIN entries' : entries'[i] = entries[i]
  BY <1>1 DEF Only, IInv, Types, TypeOK
<1>5. /\ stable' = [i \in Ino |-> stable'[i]] /\ stable'[ino] \subseteq stable[ino] \cup {Missing}
      /\ data' \in [Ino -> Content] /\ data'[ino] \in stable'[ino] /\ Missing \in Content
      /\ \A i \in Ino \ {ino} : stable'[i] = stable[i] /\ data'[i] = data[i]
  BY <1>1 DEF IInv, Types, TypeOK, Content
<1>6. /\ DOMAIN synced' \subseteq DOMAIN synced /\ ino \notin DOMAIN synced'
      /\ DOMAIN synced \subseteq Ino /\ \A i \in DOMAIN synced' : synced'[i] = synced[i]
  BY <1>1 DEF Only, IInv, Types, TypeOK
<1>7. Types'
  <2>1. \A i \in Ino : data'[i] \in stable'[i] /\ stable'[i] \subseteq Content
    BY <1>5 DEF IInv, Types, TypeOK
  <2>2. session' \in [pc : {"idle", "flush", "unlink"}, ino : Ino \cup {Root}]
    BY <1>1
  <2>3. TypeOK'
    BY <1>1, <1>4, <1>5, <1>6, <2>1, <2>2 DEF IInv, Types, TypeOK
  <2> QED BY <1>1, <1>2, <1>3, <1>5, <2>3 DEF IInv, Types
<1>8. References'
  <2>1. GoodTable(entries', written)
    BY <1>4 DEF IInv, References, GoodTable
  <2>2. \A i \in Ino : job[i] # Free => job[i].val \in 1 .. reqs'
    BY <1>2 DEF IInv, References
  <2>3. /\ DOMAIN written \subseteq 1 .. reqs'
        /\ \A n \in DOMAIN written : written[n] \subseteq 1 .. reqs'
    BY <1>2 DEF IInv, References
  <2>4. \A i \in Ino : \A d \in stable'[i] : Sealed(d, written)
    BY <1>5 DEF IInv, References, Sealed
  <2> QED BY <1>1, <2>1, <2>2, <2>3, <2>4 DEF IInv, References
<1>9. CleanMeansDurable'
  <2>1. ASSUME ~dirty', NEW t \in tables', NEW i \in Ino \ failed', i # ino
        PROVE  Agree(t, entries', i)
    <3>1. Agree(t, entries, i)
      BY <1>1, <2>1 DEF IInv, CleanMeansDurable
    <3> QED BY <1>4, <2>1, <3>1 DEF Agree
  <2> QED BY <1>3, <2>1 DEF CleanMeansDurable
<1>10. FsyncHolds'
  BY <1>3 DEF FsyncHolds
<1>11. SyncedStays'
  <2>1. \A i \in DOMAIN synced :
            i \in DOMAIN entries /\ job[i].op \in {"none", "write", "truncate"}
    BY DEF IInv, SyncedStays
  <2>2. \A i \in DOMAIN synced' : i \in DOMAIN entries' /\ entries'[i] = entries[i]
    BY <1>4, <1>6, <2>1
  <2>3. \A i \in DOMAIN synced' :
            /\ job'[i].op \in {"none", "write", "truncate"}
            /\ stable'[i] \subseteq stable[i]
    BY <1>1, <1>5, <1>6, <2>1
  <2>4. \A i \in DOMAIN synced' : \A t \in tables' \cup {entries'} :
            \E u \in tables \cup {entries} : i \in DOMAIN u => i \in DOMAIN t /\ t[i] = u[i]
    BY <1>1, <2>2
  <2> QED BY <1>6, <2>3, <2>4, SyncedKept
<1> QED BY <1>7, <1>8, <1>9, <1>10, <1>11 DEF IInv

LEMMA SaveUnlinkedInv ==
    ASSUME IInv, SaveUnlinked
    PROVE  IInv'
<1> DEFINE ino == session.ino
<1>1. /\ session.pc = "unlink" /\ ino \in Ino /\ session' = Waiting
      /\ save_index(entries', ino)
      /\ UNCHANGED <<entries, next_ino, data, stable, job, reqs, synced, written>>
  BY DEF SaveUnlinked, IInv, Types
<1>2. session'.pc = "idle"
  BY <1>1 DEF Waiting
<1>3. disk \in tables /\ dirty \in BOOLEAN
  BY DEF IInv, Types, TypeOK
<1>4. /\ disk' \in tables' /\ tables' \subseteq tables \cup {entries}
      /\ dirty' \in BOOLEAN /\ failed' \subseteq failed \cup {ino}
  BY <1>1, <1>3, SaveTable
<1>5. Types'
  <2>1. failed' \subseteq Ino
    BY <1>1, <1>4 DEF IInv, Types, TypeOK
  <2>2. session' \in [pc : {"idle", "flush", "unlink"}, ino : Ino \cup {Root}]
    BY <1>1 DEF Waiting
  <2>3. TypeOK'
    BY <1>1, <1>4, <2>1, <2>2 DEF IInv, Types, TypeOK
  <2> QED BY <1>1, <1>2, <1>4, <2>3 DEF IInv, Types
<1>6. References'
  <2>1. \A t \in tables' : GoodTable(t, written)
    BY <1>4 DEF IInv, References
  <2> QED BY <1>1, <2>1 DEF IInv, References
<1>7. CleanMeansDurable'
  <2>1. \A j \in Ino \ {ino} : Agree(entries', entries, j)
    BY <1>1 DEF Agree
  <2> QED BY <1>1, <1>2, <2>1, SaveClean
<1>8. FsyncHolds'
  BY <1>2 DEF FsyncHolds
<1>9. SyncedStays'
  <2>1. \A i \in DOMAIN synced' : \A t \in tables' \cup {entries'} :
            \E u \in tables \cup {entries} : i \in DOMAIN u => i \in DOMAIN t /\ t[i] = u[i]
    BY <1>1, <1>4
  <2>2. \A i \in DOMAIN synced' : job'[i].op \in {"none", "write", "truncate"}
    BY <1>1 DEF IInv, SyncedStays
  <2> QED BY <1>1, <2>1, <2>2, SyncedKept
<1> QED BY <1>5, <1>6, <1>7, <1>8, <1>9 DEF IInv

\* A mount of one of the tables that may be left.
LEMMA MountInv ==
    ASSUME IInv, NEW left \in tables, Mount(left), UNCHANGED <<reqs, synced, written>>,
           left \in tables', tables' \subseteq tables,
           failed' \subseteq Ino, \A t \in tables' : \A i \in Ino \ failed' : Agree(t, left, i),
           data' \in [Ino -> Content], stable' = [i \in Ino |-> stable'[i]],
           \A i \in Ino : data'[i] \in stable'[i] /\ stable'[i] \subseteq stable[i]
    PROVE  IInv'
<1>1. /\ entries' = left /\ disk' = left /\ dirty' = FALSE
      /\ job' = [i \in Ino |-> Free] /\ session' = Waiting /\ session'.pc = "idle"
      /\ Free.op = "none" /\ GoodTable(left, written)
  BY DEF Mount, Waiting, Free, IInv, References
<1>2. Free \in JobState
  BY DEF Free, JobState, Nobody, Entry, Length
<1>3. next_ino' \in Nat /\ \A i \in DOMAIN left : i < next_ino'
  <2>1. PICK last \in DOMAIN left \cup {Root} :
          (\A i \in DOMAIN left : i <= last) /\ next_ino' = last + 1
    BY DEF Mount
  <2>2. DOMAIN left \subseteq Nat /\ last \in Nat
    BY <1>1 DEF GoodTable, Ino, Root
  <2> QED BY <2>1, <2>2
<1>4. Types'
  <2>1. \A i \in Ino : data'[i] \in stable'[i] /\ stable'[i] \subseteq Content
    BY DEF IInv, Types, TypeOK
  <2>2. session' \in [pc : {"idle", "flush", "unlink"}, ino : Ino \cup {Root}]
    BY <1>1 DEF Waiting
  <2>3. \A i \in Ino : job'[i] = Free
    BY <1>1
  <2>4. TypeOK'
    BY <1>1, <1>3, <2>1, <2>2, <2>3 DEF IInv, Types, TypeOK, GoodTable
  <2> QED BY <1>1, <1>2, <1>3, <2>4 DEF IInv, Types
<1>5. References'
  <2>1. \A t \in tables' : GoodTable(t, written)
    BY DEF IInv, References
  <2>2. \A i \in Ino : \A d \in stable'[i] : Sealed(d, written)
    BY DEF IInv, References
  <2>3. \A i \in Ino : job'[i] = Free
    BY <1>1
  <2> QED BY <1>1, <2>1, <2>2, <2>3 DEF IInv, References
<1>6. CleanMeansDurable'
  <2>1. \A t \in tables' : \A i \in Ino \ failed' : Agree(t, entries', i)
    BY <1>1 DEF Agree
  <2> QED BY <1>1, <2>1 DEF CleanMeansDurable
<1>7. FsyncHolds'
  BY <1>1 DEF FsyncHolds
<1>8. SyncedStays'
  <2>1. DOMAIN synced \subseteq Ino
    BY DEF IInv, Types, TypeOK
  <2>2. \A i \in DOMAIN synced' :
            job'[i].op \in {"none", "write", "truncate"} /\ stable'[i] \subseteq stable[i]
    BY <1>1, <2>1
  <2>3. \A i \in DOMAIN synced' : \A t \in tables' \cup {entries'} :
            \E u \in tables \cup {entries} : i \in DOMAIN u => i \in DOMAIN t /\ t[i] = u[i]
    BY <1>1
  <2> QED BY <2>2, <2>3, SyncedKept
<1> QED BY <1>4, <1>5, <1>6, <1>7, <1>8 DEF IInv

LEMMA KillInv ==
    ASSUME IInv, Kill
    PROVE  IInv'
<1>1. /\ Mount(disk) /\ disk \in tables
      /\ failed' = {i \in Ino : \E t \in tables : ~Agree(t, disk, i)}
      /\ UNCHANGED <<tables, data, stable, reqs, synced, written>>
      /\ data \in [Ino -> Content] /\ stable = [i \in Ino |-> stable[i]]
      /\ \A i \in Ino : data[i] \in stable[i]
  BY DEF Kill, IInv, Types, TypeOK
<1>2. failed' \subseteq Ino /\ \A t \in tables' : \A i \in Ino \ failed' : Agree(t, disk, i)
  BY <1>1
<1> QED BY <1>1, <1>2, MountInv

LEMMA PowerLossInv ==
    ASSUME IInv, PowerLoss
    PROVE  IInv'
<1>1. PICK left \in tables : Mount(left) /\ tables' = {left}
  BY DEF PowerLoss
<1>2. /\ data' \in [Ino -> UNION {stable[i] : i \in Ino}]
      /\ \A i \in Ino : data'[i] \in stable[i]
      /\ failed' = {} /\ stable' = [i \in Ino |-> {data'[i]}]
      /\ UNCHANGED <<reqs, synced, written>>
  BY DEF PowerLoss
<1>3. data' \in [Ino -> Content]
  BY <1>2 DEF IInv, Types, TypeOK
<1>4. /\ stable' = [i \in Ino |-> stable'[i]]
      /\ \A i \in Ino : data'[i] \in stable'[i] /\ stable'[i] \subseteq stable[i]
  BY <1>2
<1>5. \A t \in tables' : \A i \in Ino : Agree(t, left, i)
  BY <1>1 DEF Agree
<1> QED BY <1>1, <1>2, <1>3, <1>4, <1>5, MountInv

LEMMA NextInv == IInv /\ [Next]_vars => IInv'
<1> SUFFICES ASSUME IInv, [Next]_vars PROVE IInv'
  OBVIOUS
<1>1. CASE UNCHANGED vars
  <2>1. Types'
    BY <1>1 DEF vars, table, ghosts, IInv, Types, TypeOK
  <2>2. References'
    BY <1>1 DEF vars, table, ghosts, IInv, References
  <2>3. CleanMeansDurable' /\ FsyncHolds'
    BY <1>1 DEF vars, table, ghosts, IInv, CleanMeansDurable, Agree, FsyncHolds
  <2>4. SyncedStays'
    BY <1>1 DEF vars, table, ghosts, IInv, SyncedStays
  <2> QED BY <2>1, <2>2, <2>3, <2>4 DEF IInv
<1>2. CASE create \/ FlushIndex \/ SaveUnlinked \/ Kill \/ PowerLoss
  BY <1>2, createInv, FlushIndexInv, SaveUnlinkedInv, KillInv, PowerLossInv
<1>3. ASSUME NEW ino \in Ino,
             \/ \E len \in Len \cup {0}, op \in {"write", "truncate"} : Job(ino, op, len)
             \/ Transfer(ino) \/ Commit(ino) \/ fsync(ino) \/ unlink(ino)
      PROVE  IInv'
  BY <1>3, JobInv, TransferInv, CommitInv, fsyncInv, unlinkInv DEF Length
<1> QED BY <1>1, <1>2, <1>3 DEF Next

-----------------------------------------------------------------------------
(* Data files that were synced.  A second induction, on top of the first.   *)

\* No id is ever found under two inode numbers.
OneNumber ==
    \A t, u \in tables \cup {entries} : \A i \in DOMAIN t, j \in DOMAIN u :
        t[i].id = u[j].id => i = j

\* A file of the table in memory that some saved table has is in the newest one.
NewestHas ==
    \A t \in tables : \A i \in DOMAIN t \cap DOMAIN entries :
        t[i].id = entries[i].id => i \in DOMAIN disk /\ disk[i].id = t[i].id

\* A file that nobody asked to unlink is still in memory, and so is its data file.
KeptStays ==
    /\ kept \subseteq DOMAIN written
    /\ \A t \in tables : \A i \in DOMAIN t :
        t[i].id \in kept => i \in DOMAIN entries /\ entries[i].id = t[i].id
    /\ \A i \in DOMAIN entries : entries[i].id \in kept => Missing \notin stable[i]

KInv == OneNumber /\ NewestHas /\ KeptStays

\* A step that leaves the ids in memory alone.
LEMMA SameIds ==
    ASSUME IInv, KInv,
           DOMAIN entries' = DOMAIN entries, \A i \in DOMAIN entries : entries'[i].id = entries[i].id,
           disk' \in {disk, entries'}, tables' \subseteq tables \cup {disk'},
           kept' = kept, DOMAIN written \subseteq DOMAIN written',
           \A i \in Ino : Missing \in stable'[i] => Missing \in stable[i]
    PROVE  KInv'
<1>1. disk \in tables /\ DOMAIN entries \subseteq Ino
  BY DEF IInv, Types, TypeOK
<1>2. \A t \in tables' \cup {entries'} : \E u \in tables \cup {entries} :
        DOMAIN t = DOMAIN u /\ \A i \in DOMAIN t : t[i].id = u[i].id
  BY <1>1
<1>3. OneNumber'
  BY <1>2 DEF KInv, OneNumber
<1>4. NewestHas'
  <2> SUFFICES ASSUME NEW t \in tables', NEW i \in DOMAIN t \cap DOMAIN entries',
                      t[i].id = entries'[i].id
               PROVE  i \in DOMAIN disk' /\ disk'[i].id = t[i].id
    BY DEF NewestHas
  <2>1. CASE disk' = entries'
    BY <2>1
  <2>2. CASE disk' = disk /\ t \in tables
    BY <2>2 DEF KInv, NewestHas
  <2> QED BY <1>1, <2>1, <2>2
<1>5. KeptStays'
  BY <1>1, <1>2 DEF KInv, KeptStays
<1> QED BY <1>3, <1>4, <1>5 DEF KInv

LEMMA createKept ==
    ASSUME IInv, KInv, create
    PROVE  KInv'
<1> DEFINE n == next_ino
<1>1. /\ reqs' = reqs + 1 /\ n \in Ino
      /\ entries' = Put(entries, n, [id |-> reqs', key |-> reqs', len |-> 0])
      /\ written' = Put(written, reqs', {})
      /\ save_index(entries', n)
      /\ UNCHANGED <<stable, kept>>
  BY DEF create, Request, content_key
<1>2. /\ reqs' \notin DOMAIN written /\ n \notin DOMAIN entries
      /\ disk \in tables /\ dirty \in BOOLEAN
  BY <1>1 DEF IInv, Types, TypeOK, References
<1> HIDE DEF n
<1>3. /\ DOMAIN entries' = DOMAIN entries \cup {n} /\ entries'[n].id = reqs'
      /\ \A i \in DOMAIN entries : entries'[i] = entries[i] /\ i # n
  BY <1>1, <1>2 DEF Put
<1>4. disk' \in {disk, entries'} /\ tables' \subseteq tables \cup {disk'}
  BY <1>1, <1>2, SaveTable
<1>5. \A t \in tables \cup {entries} : \A i \in DOMAIN t : t[i].id # reqs'
  BY <1>2 DEF IInv, References, GoodTable, GoodEntry
<1>6. OneNumber'
  <2> SUFFICES ASSUME NEW t \in tables \cup {entries'}, NEW u \in tables \cup {entries'},
                      NEW i \in DOMAIN t, NEW j \in DOMAIN u, t[i].id = u[j].id
               PROVE  i = j
    BY <1>2, <1>4 DEF OneNumber
  <2>1. CASE t[i].id = reqs'
    <3>1. t = entries' /\ u = entries'
      BY <1>5, <2>1
    <3>2. \A k \in DOMAIN entries : entries'[k].id # reqs'
      BY <1>3, <1>5
    <3> QED BY <1>3, <2>1, <3>1, <3>2
  <2>2. CASE t[i].id # reqs'
    <3>1. \E v \in tables \cup {entries} : i \in DOMAIN v /\ v[i].id = t[i].id
      BY <1>3, <2>2
    <3>2. \E v \in tables \cup {entries} : j \in DOMAIN v /\ v[j].id = t[i].id
      BY <1>3, <2>2
    <3> QED BY <3>1, <3>2 DEF KInv, OneNumber
  <2> QED BY <2>1, <2>2
<1>7. NewestHas'
  <2> SUFFICES ASSUME NEW t \in tables', NEW i \in DOMAIN t \cap DOMAIN entries',
                      t[i].id = entries'[i].id
               PROVE  i \in DOMAIN disk' /\ disk'[i].id = t[i].id
    BY DEF NewestHas
  <2>1. CASE disk' = entries'
    BY <2>1
  <2>2. CASE disk' = disk /\ t \in tables
    <3>1. i # n
      BY <1>3, <1>5, <2>2
    <3> QED BY <1>3, <2>2, <3>1 DEF KInv, NewestHas
  <2> QED BY <1>2, <1>4, <2>1, <2>2
<1>8. KeptStays'
  <2>1. kept \subseteq DOMAIN written' /\ reqs' \notin kept
    BY <1>1, <1>2 DEF KInv, KeptStays, Put
  <2>2. \A t \in tables \cup {entries'} : \A i \in DOMAIN t :
            t[i].id \in kept => i \in DOMAIN entries' /\ entries'[i].id = t[i].id
    BY <1>3 DEF KInv, KeptStays
  <2>3. \A i \in DOMAIN entries' : entries'[i].id \in kept => Missing \notin stable[i]
    BY <1>3, <2>1 DEF KInv, KeptStays
  <2> QED BY <1>1, <1>2, <1>4, <2>1, <2>2, <2>3 DEF KeptStays
<1> QED BY <1>6, <1>7, <1>8 DEF KInv

\* A file that somebody changes has a data file.
LEMMA ChangedThere ==
    ASSUME IInv, NEW ino \in Ino, job[ino] # Free, NEW d
    PROVE  Changed(d, job[ino]) # Missing
<1> DEFINE j == job[ino]
<1>1. Unsealed # Missing
  BY SealedData
<1>2. j \in JobState /\ GoodEntry(j.entry, written)
  BY DEF IInv, Types, References
<1>3. j.entry.key \in Nat /\ j.len \in Nat /\ j.val \in Nat
  BY <1>2, LengthIsNat DEF JobState, GoodEntry, Entry
<1> HIDE DEF j
<1>4. [key |-> j.entry.key, len |-> j.len, val |-> j.val] # Missing
  BY <1>3, DurabilityAssumption
<1>5. Changed(d, j) # Missing
  BY <1>1, <1>4 DEF Changed
<1> QED BY <1>5 DEF j

LEMMA TransferKept ==
    ASSUME IInv, KInv, NEW ino \in Ino, Transfer(ino)
    PROVE  KInv'
<1> DEFINE j == job[ino]
<1>1. /\ j.op \in {"write", "truncate"}
      /\ data' = IF Keeps(j) THEN data ELSE [data EXCEPT ![ino] = Changed(@, j)]
      /\ stable' = IF data' = data THEN stable
                   ELSE [stable EXCEPT ![ino] = @ \cup {Unsealed, data'[ino]}]
      /\ written' = [written EXCEPT ![j.entry.id] = @ \cup {j.val}]
      /\ UNCHANGED <<entries, disk, tables, kept>>
  BY DEF Transfer, table
<1>2. job[ino] # Free /\ DOMAIN written' = DOMAIN written
  BY <1>1 DEF IInv, Types, TypeOK
<1>3. Changed(data[ino], j) # Missing /\ Unsealed # Missing
  BY <1>2, ChangedThere, SealedData
<1> HIDE DEF j
<1>4. data = [i \in Ino |-> data[i]] /\ stable = [i \in Ino |-> stable[i]]
  BY DEF IInv, Types, TypeOK
<1>5. \A i \in Ino : Missing \in stable'[i] => Missing \in stable[i]
  BY <1>1, <1>3, <1>4
<1> QED BY <1>1, <1>2, <1>5, SameIds

LEMMA CommitKept ==
    ASSUME IInv, KInv, NEW ino \in Ino, Commit(ino)
    PROVE  KInv'
<1>1. /\ UNCHANGED <<stable, written, kept>>
      /\ \/ UNCHANGED <<entries, disk, tables>>
         \/ /\ entries' = [entries EXCEPT ![ino].len = job[ino].len]
            /\ UNCHANGED <<disk, tables>> \/ save_index(entries', ino)
  BY DEF Commit, table
<1>2. disk \in tables /\ dirty \in BOOLEAN /\ GoodTable(entries, written)
  BY DEF IInv, Types, TypeOK, References
<1>3. DOMAIN entries' = DOMAIN entries /\ \A i \in DOMAIN entries : entries'[i].id = entries[i].id
  <2>1. \A i \in DOMAIN entries : entries[i] \in Entry
    BY <1>2 DEF GoodTable, GoodEntry
  <2>2. entries = [i \in DOMAIN entries |-> entries[i]]
    BY <1>2 DEF GoodTable
  <2> QED BY <1>1, <2>1, <2>2 DEF Entry
<1>4. disk' \in {disk, entries'} /\ tables' \subseteq tables \cup {disk'}
  BY <1>1, <1>2, SaveTable
<1> QED BY <1>1, <1>3, <1>4, SameIds

\* The file that is synced has a data file from now on.
LEMMA fsyncKept ==
    ASSUME IInv, KInv, NEW ino \in Ino, fsync(ino)
    PROVE  KInv'
<1>1. UNCHANGED <<entries, disk, tables, written>>
  BY DEF fsync, table
<1>2. stable = [i \in Ino |-> stable[i]] /\ \A t \in tables \cup {entries} : DOMAIN t \subseteq Ino
  BY DEF IInv, Types, TypeOK, References, GoodTable
<1>3. CASE kept' = kept /\ \A i \in Ino : Missing \in stable'[i] => Missing \in stable[i]
  BY <1>1, <1>3, SameIds
<1>4. CASE /\ data[ino] # Missing /\ kept' = kept \cup Id(ino)
           /\ stable' = [stable EXCEPT ![ino] = {data[ino]}]
  <2>1. OneNumber' /\ NewestHas'
    BY <1>1 DEF KInv, OneNumber, NewestHas
  <2>2. \A x \in Id(ino) : ino \in DOMAIN entries /\ x = entries[ino].id
    BY DEF Id
  <2>3. kept' \subseteq DOMAIN written
    <3>1. \A i \in DOMAIN entries : entries[i].id \in DOMAIN written
      BY DEF IInv, References, GoodTable, GoodEntry
    <3> QED BY <1>4, <2>2, <3>1 DEF KInv, KeptStays
  <2>4. ASSUME NEW t \in tables, NEW i \in DOMAIN t, t[i].id \in kept'
        PROVE  i \in DOMAIN entries /\ entries[i].id = t[i].id
    <3>1. CASE t[i].id \in kept
      BY <3>1 DEF KInv, KeptStays
    <3>2. CASE t[i].id \in Id(ino)
      BY <2>2, <3>2 DEF KInv, OneNumber
    <3> QED BY <1>4, <2>4, <3>1, <3>2
  <2>5. ASSUME NEW i \in DOMAIN entries, entries[i].id \in kept'
        PROVE  Missing \notin stable'[i]
    <3>1. CASE i = ino
      BY <1>2, <1>4, <3>1
    <3>2. CASE i # ino
      <4>1. entries[i].id \notin Id(ino)
        BY <2>2, <3>2 DEF KInv, OneNumber
      <4> QED BY <1>2, <1>4, <2>5, <3>2, <4>1 DEF KInv, KeptStays
    <3> QED BY <3>1, <3>2
  <2> QED BY <1>1, <2>1, <2>3, <2>4, <2>5 DEF KInv, KeptStays
<1> QED BY <1>2, <1>3, <1>4 DEF fsync, sync

LEMMA FlushKept ==
    ASSUME IInv, KInv, FlushIndex \/ SaveUnlinked
    PROVE  KInv'
<1>1. UNCHANGED <<entries, stable, written, kept>>
  BY DEF FlushIndex, SaveUnlinked
<1>2. UNCHANGED <<disk, tables>> \/ \E i : save_index(entries, i)
  BY DEF FlushIndex, SaveUnlinked
<1>3. disk \in tables /\ dirty \in BOOLEAN
  BY DEF IInv, Types, TypeOK
<1>4. disk' \in {disk, entries'} /\ tables' \subseteq tables \cup {disk'}
  BY <1>1, <1>2, <1>3, SaveTable
<1> QED BY <1>1, <1>4, SameIds

LEMMA unlinkKept ==
    ASSUME IInv, KInv, NEW ino \in Ino, unlink(ino)
    PROVE  KInv'
<1>1. /\ ino \in DOMAIN entries
      /\ entries' = Only(entries, Ino \ {ino})
      /\ stable' = [stable EXCEPT ![ino] = @ \cup {Missing}] \/ stable' = stable
      /\ kept' = kept \ Id(ino)
      /\ UNCHANGED <<disk, tables, written>>
  BY DEF unlink
<1>2. DOMAIN entries \subseteq Ino /\ stable = [i \in Ino |-> stable[i]]
  BY DEF IInv, Types, TypeOK
<1>3. /\ DOMAIN entries' = DOMAIN entries \ {ino}
      /\ \A i \in DOMAIN entries' : entries'[i] = entries[i]
      /\ \A i \in DOMAIN entries' : stable'[i] = stable[i]
  BY <1>1, <1>2 DEF Only
<1>4. entries[ino].id \notin kept' /\ kept' \subseteq kept
  BY <1>1 DEF Id
<1>5. OneNumber'
  <2>1. ASSUME NEW t \in tables' \cup {entries'}
        PROVE  \E u \in tables \cup {entries} :
                   DOMAIN t \subseteq DOMAIN u /\ \A i \in DOMAIN t : t[i] = u[i]
    <3>1. CASE t \in tables
      BY <3>1, Zenon
    <3>2. CASE t = entries'
      <4>1. DOMAIN t \subseteq DOMAIN entries /\ \A i \in DOMAIN t : t[i] = entries[i]
        BY <1>3, <3>2
      <4> QED BY <4>1, Zenon
    <3> QED BY <1>1, <2>1, <3>1, <3>2
  <2> QED BY <2>1 DEF KInv, OneNumber
<1>6. NewestHas'
  <2>1. tables' = tables /\ disk' = disk
    BY <1>1
  <2> QED BY <2>1, <1>3 DEF KInv, NewestHas
<1>7. KeptStays'
  <2>1. ASSUME NEW t \in tables, NEW i \in DOMAIN t, t[i].id \in kept'
        PROVE  i \in DOMAIN entries' /\ entries'[i].id = t[i].id
    <3>1. i \in DOMAIN entries /\ entries[i].id = t[i].id
      BY <1>4, <2>1 DEF KInv, KeptStays
    <3> QED BY <1>3, <1>4, <2>1, <3>1
  <2>2. \A i \in DOMAIN entries' : entries'[i].id \in kept' => Missing \notin stable'[i]
    BY <1>3, <1>4 DEF KInv, KeptStays
  <2> QED BY <1>1, <1>4, <2>1, <2>2 DEF KInv, KeptStays
<1> QED BY <1>5, <1>6, <1>7 DEF KInv

\* Memory is set back to a table that has every file it should.
LEMMA RestartKept ==
    ASSUME IInv, KInv, Kill \/ PowerLoss
    PROVE  KInv'
<1>1. PICK left \in tables :
        /\ entries' = left /\ disk' = left
        /\ \/ left = disk /\ tables' = tables /\ stable' = stable
           \/ /\ tables' = {left}
              /\ \A i \in Ino : stable'[i] \subseteq stable[i]
  BY DEF Kill, PowerLoss, Mount, IInv, Types, TypeOK
<1>2. UNCHANGED <<written, kept>>
  BY DEF Kill, PowerLoss
<1>3. DOMAIN left \subseteq Ino
  BY DEF IInv, References, GoodTable
<1>4. OneNumber'
  <2>1. tables' \cup {entries'} \subseteq tables
    BY <1>1
  <2> QED BY <2>1 DEF KInv, OneNumber
<1>5. NewestHas'
  <2>1. \A t \in tables' : \A i \in DOMAIN t \cap DOMAIN left :
            t[i].id = left[i].id => i \in DOMAIN left /\ left[i].id = t[i].id
    OBVIOUS
  <2>2. entries' = left /\ disk' = left
    BY <1>1
  <2> QED BY <2>1, <2>2 DEF NewestHas
<1>6. KeptStays'
  <2>1. ASSUME NEW t \in tables', NEW i \in DOMAIN t, t[i].id \in kept
        PROVE  i \in DOMAIN left /\ left[i].id = t[i].id
    BY <1>1, <2>1 DEF KInv, KeptStays, NewestHas
  <2>2. \A i \in DOMAIN left : left[i].id \in kept => Missing \notin stable'[i]
    BY <1>1, <1>3 DEF KInv, KeptStays
  <2> QED BY <1>1, <1>2, <2>1, <2>2 DEF KInv, KeptStays
<1> QED BY <1>4, <1>5, <1>6 DEF KInv

LEMMA NextKept == IInv /\ KInv /\ [Next]_vars => KInv'
<1> SUFFICES ASSUME IInv, KInv, [Next]_vars PROVE KInv'
  OBVIOUS
<1>1. CASE UNCHANGED vars
  BY <1>1 DEF vars, table, ghosts, KInv, OneNumber, NewestHas, KeptStays
<1>2. CASE create \/ FlushIndex \/ SaveUnlinked \/ Kill \/ PowerLoss
  BY <1>2, createKept, FlushKept, RestartKept
<1>3. ASSUME NEW ino \in Ino, NEW op, NEW len, Job(ino, op, len) PROVE KInv'
  BY <1>3 DEF Job, table, ghosts, KInv, OneNumber, NewestHas, KeptStays
<1>4. ASSUME NEW ino \in Ino, Transfer(ino) \/ Commit(ino) \/ fsync(ino) \/ unlink(ino) PROVE KInv'
  BY <1>4, TransferKept, CommitKept, fsyncKept, unlinkKept
<1> QED BY <1>1, <1>2, <1>3, <1>4 DEF Next

-----------------------------------------------------------------------------
(* Theorems *)

\* The inductive invariant holds in every state of every behaviour.
THEOREM Invariance == Spec => []IInv
  BY InitInv, NextInv, PTL DEF Spec

\* The tables, the data files and what a power loss may leave of them keep their
\* types.
THEOREM TypeCorrect == Spec => []TypeOK
<1>1. IInv => TypeOK
  BY DEF IInv, Types
<1> QED BY <1>1, Invariance, PTL

\* What an fsync answered with success has made durable is found after any power
\* loss, as long as nobody changes the file.
THEOREM SyncedFilesSurvive == Spec => []SyncedSurvivesPowerLoss
<1>1. IInv => SyncedSurvivesPowerLoss
  BY DEF IInv, SyncedStays, SyncedSurvivesPowerLoss
<1> QED BY <1>1, Invariance, PTL

\* No power loss makes a file read as another, however often an inode number is
\* used again: a data file opens only under the content key of the file it was
\* written for.
THEOREM BytesAreTheFilesOwn == Spec => []NoForeignBytes
<1>1. IInv => NoForeignBytes
  <2> SUFFICES ASSUME IInv, NEW left \in tables, NEW ino \in DOMAIN left, NEW d \in stable[ino],
                      Opens(d, left[ino])
               PROVE  d.val \in written[left[ino].id]
    BY DEF NoForeignBytes
  <2>1. GoodEntry(left[ino], written) /\ Sealed(d, written)
    BY DEF IInv, References, GoodTable
  <2> QED BY <2>1, SealedData
<1> QED BY <1>1, Invariance, PTL

\* A data file that was ever synced stays until somebody asks to unlink that very
\* file, across kills, power losses, failed saves and reuse of inode numbers.
THEOREM DataFilesGoOnRequest == Spec => []DataGoesOnRequest
<1>1. Init => KInv
  BY DEF Init, KInv, OneNumber, NewestHas, KeptStays
<1>2. KInv => DataGoesOnRequest
  BY DEF KInv, KeptStays, DataGoesOnRequest
<1> QED BY <1>1, <1>2, NextKept, Invariance, PTL DEF Spec
=============================================================================
