----------------------------- MODULE PqfsProofs -----------------------------
(***************************************************************************)
(* Proofs about a mounted volume under concurrent requests: for any number *)
(* of workers, files and requests, any block length, and any history of    *)
(* kills, failed saves and remounts, every file holds exactly the bytes    *)
(* that were committed to it.                                              *)
(***************************************************************************)
EXTENDS Pqfs, FileBlocksProofs

Entry == [size : Nat, key : 0 .. MaxReqs]

Table(t) ==
    /\ t = [i \in DOMAIN t |-> t[i]]
    /\ DOMAIN t \subseteq Ino
    /\ \A i \in DOMAIN t : t[i] \in Entry

ReadJob == [op : {"read"}, ino : Ino, offset : Nat, len : Nat, snap : Entry]

EditJob ==
    [op : {"write"}, ino : Ino, offset : Nat, bytes : Seq(Nat)]
        \cup [op : {"truncate"}, ino : Ino, size : Nat]

\* A job is for a file that was there when the kernel asked; a read has its key,
\* as no other file gets the number in the same session.
GoodJob(j, e, n) ==
    /\ j \in ReadJob \cup EditJob
    /\ j.ino < n
    /\ j.op = "read" /\ j.ino \in DOMAIN e => j.snap.key = e[j.ino].key

Editing == {"open", "transfer", "commit"}

\* The state of a worker, by its program counter.
GoodState(s, e, n) ==
    \/ s = Idle
    \/ /\ s = [pc |-> s.pc, job |-> s.job]
       /\ s.pc \in {"lock", "read"}
       /\ s.pc = "read" => s.job.op = "read"
       /\ GoodJob(s.job, e, n)
    \/ /\ s = [pc |-> s.pc, job |-> s.job, entry |-> s.entry, plan |-> s.plan, own |-> s.own]
       /\ s.pc \in Editing
       /\ s.job \in EditJob
       /\ s.job.ino < n
       /\ s.entry \in Entry
       /\ s.plan = Plan(s.job, s.entry.size)

\* The entry a writer has copied is the one in the table, unless it is gone; and
\* only then does the writer have a file without a name.
Owns(s, e) ==
    s.pc \in Editing /\ s.job.ino \in DOMAIN e => s.entry = e[s.job.ino] /\ s.own = Missing

Types ==
    /\ reqs \in 0 .. MaxReqs
    /\ next_ino \in Nat
    /\ Table(entries)
    /\ \A i \in DOMAIN entries : i < next_ino
    /\ Table(disk)
    /\ dirty \in BOOLEAN
    /\ unsaved \subseteq Ino
    /\ data = [i \in Ino |-> data[i]]
    /\ session \in {"idle", "fsync", "drop", "join", "down"}

Jobs ==
    /\ queue \in Seq(ReadJob \cup EditJob)
    /\ \A k \in 1 .. Len(queue) : GoodJob(queue[k], entries, next_ino)

Workers ==
    /\ worker = [w \in Worker |-> worker[w]]
    /\ \A w \in Worker : GoodState(worker[w], entries, next_ino)
    /\ \A w \in Worker : Owns(worker[w], entries)

\* Nobody shares the lock of a file with a writer.
Exclusion ==
    \A v, w \in Worker :
        /\ worker[v].pc \in Editing
        /\ worker[w].pc \in Editing \cup {"read"}
        /\ worker[v].job.ino = worker[w].job.ino
        => v = w

DownIsQuiet == session = "down" => queue = <<>> /\ \A w \in Worker : worker[w] = Idle

\* What the ghosts speak of: files in the table; and synced files are saved and
\* nobody is writing them.
Ghosts ==
    /\ content = [i \in DOMAIN content |-> content[i]]
    /\ DOMAIN content \subseteq DOMAIN entries
    /\ synced = [i \in DOMAIN synced |-> synced[i]]
    /\ \A i \in DOMAIN synced :
        /\ i \in DOMAIN entries
        /\ i \in DOMAIN disk
        /\ entries[i] = disk[i]
        /\ \A w \in Worker : worker[w].pc \in Editing => worker[w].job.ino # i

\* The tables d and e say the same of every file but those in U.
Agree(d, e, U) ==
    \A i \in Ino \ U :
        /\ i \in DOMAIN d <=> i \in DOMAIN e
        /\ i \in DOMAIN d => d[i] = e[i]

Clean == session # "down" /\ ~dirty => Agree(disk, entries, unsaved)

IInv ==
    /\ Types
    /\ Clean
    /\ Jobs
    /\ Workers
    /\ Exclusion
    /\ DownIsQuiet
    /\ Ghosts

-----------------------------------------------------------------------------

\* A data file is a function of block numbers; no block of it was sealed under a
\* key that is still to be drawn.
GoodFile(f, r) ==
    f # Missing =>
        /\ f = [b \in DOMAIN f |-> f[b]]
        /\ DOMAIN f \subseteq Nat
        /\ \A b \in DOMAIN f : f[b].key \in 0 .. r

Drawn ==
    /\ \A i \in DOMAIN entries : entries[i].key <= reqs
    /\ \A i \in DOMAIN disk : disk[i].key <= reqs
    /\ \A w \in Worker : worker[w].pc \in Editing => worker[w].entry.key <= reqs
    /\ \A i \in Ino : GoodFile(data[i], reqs)
    /\ \A w \in Worker :
        worker[w].pc = "transfer" /\ worker[w].own = Missing => data[worker[w].job.ino] # Missing

\* The bytes c under the key, in the data file f or in the absence of one.
Kept(f, key, c) == IF f = Missing THEN c = <<>> ELSE Stores(f, key, c, Nat)

\* The data file has the bytes the file should have, with a change that is through
\* with its blocks but not yet in the table counted as made.
StoredAt(i) ==
    /\ content[i] \in Seq(Nat)
    /\ Len(content[i]) = entries[i].size
    /\ (\A w \in Worker : ~(worker[w].pc = "commit" /\ worker[w].job.ino = i))
          => Kept(data[i], entries[i].key, content[i])
    /\ \A w \in Worker : worker[w].pc = "commit" /\ worker[w].job.ino = i
          => Kept(data[i], entries[i].key, After(content[i], worker[w].plan))

Stored == \A i \in DOMAIN content : StoredAt(i)

\* Bytes that were synced, and not changed since, are still the bytes of the file.
SyncedStored == \A i \in DOMAIN synced : i \in DOMAIN content /\ synced[i] = content[i]

DInv == Drawn /\ Stored /\ SyncedStored

-----------------------------------------------------------------------------
(* Tables, jobs and worker states *)

LEMMA InoIsNat == Ino \subseteq Nat /\ Root + 1 \in Ino /\ MaxIno \in Nat /\ MaxReqs \in Nat
  BY PqfsAssumption DEF Ino, Root

\* From one table and counter to the next, no number gets another key, and the
\* numbers that are given out are new.
Evolves(e, n, e2, n2) ==
    /\ n <= n2
    /\ \A i \in DOMAIN e2 : i < n => i \in DOMAIN e /\ e2[i].key = e[i].key

LEMMA JobEvolves ==
    ASSUME NEW e, NEW n \in Nat, NEW e2, NEW n2 \in Nat, Evolves(e, n, e2, n2),
           NEW j, GoodJob(j, e, n)
    PROVE  GoodJob(j, e2, n2)
<1>1. j.ino \in Nat /\ j.ino < n
  BY InoIsNat DEF GoodJob, ReadJob, EditJob
<1>2. j.ino < n2
  BY <1>1 DEF Evolves
<1> QED BY <1>1, <1>2 DEF GoodJob, Evolves

LEMMA StateEvolves ==
    ASSUME NEW e, NEW n \in Nat, NEW e2, NEW n2 \in Nat, Evolves(e, n, e2, n2),
           NEW s, GoodState(s, e, n)
    PROVE  GoodState(s, e2, n2)
<1>1. CASE s = Idle
  BY <1>1 DEF GoodState
<1>2. CASE /\ s = [pc |-> s.pc, job |-> s.job]
           /\ s.pc \in {"lock", "read"}
           /\ s.pc = "read" => s.job.op = "read"
           /\ GoodJob(s.job, e, n)
  <2>1. GoodJob(s.job, e2, n2)
    BY <1>2, JobEvolves
  <2> QED BY <1>2, <2>1, Zenon DEF GoodState
<1>3. CASE /\ s = [pc |-> s.pc, job |-> s.job, entry |-> s.entry, plan |-> s.plan, own |-> s.own]
           /\ s.pc \in Editing
           /\ s.job \in EditJob
           /\ s.job.ino < n
           /\ s.entry \in Entry
           /\ s.plan = Plan(s.job, s.entry.size)
  <2>1. s.job.ino < n2
    <3>1. s.job.ino \in Nat
      BY <1>3, InoIsNat DEF EditJob
    <3> QED BY <3>1, <1>3 DEF Evolves
  <2> QED BY <1>3, <2>1, Zenon DEF GoodState
<1> QED BY <1>1, <1>2, <1>3, Zenon DEF GoodState

\* The program counter tells the shape of a state.
LEMMA Shapes ==
    ASSUME NEW s, NEW e, NEW n, GoodState(s, e, n)
    PROVE  /\ s.pc \in {"idle", "lock", "read"} \cup Editing
           /\ s.pc = "idle" => s = Idle
           /\ s.pc \in {"lock", "read"} =>
                /\ s = [pc |-> s.pc, job |-> s.job]
                /\ s.pc = "read" => s.job.op = "read"
                /\ GoodJob(s.job, e, n)
           /\ s.pc \in Editing =>
                /\ s = [pc |-> s.pc, job |-> s.job, entry |-> s.entry, plan |-> s.plan, own |-> s.own]
                /\ s.job \in EditJob
                /\ s.job.ino < n
                /\ s.entry \in Entry
                /\ s.plan = Plan(s.job, s.entry.size)
<1>1. CASE s = Idle
  <2>1. s.pc = "idle"
    BY <1>1 DEF Idle
  <2> QED BY <1>1, <2>1 DEF Editing
<1>2. CASE /\ s = [pc |-> s.pc, job |-> s.job]
           /\ s.pc \in {"lock", "read"}
           /\ s.pc = "read" => s.job.op = "read"
           /\ GoodJob(s.job, e, n)
  <2>1. s.pc # "idle" /\ s.pc \notin Editing
    BY <1>2 DEF Editing
  <2> QED BY <1>2, <2>1, Zenon
<1>3. CASE /\ s = [pc |-> s.pc, job |-> s.job, entry |-> s.entry, plan |-> s.plan, own |-> s.own]
           /\ s.pc \in Editing
           /\ s.job \in EditJob
           /\ s.job.ino < n
           /\ s.entry \in Entry
           /\ s.plan = Plan(s.job, s.entry.size)
  <2>1. s.pc # "idle" /\ s.pc \notin {"lock", "read"}
    BY <1>3 DEF Editing
  <2> QED BY <1>3, <2>1, Zenon
<1> QED BY <1>1, <1>2, <1>3, Zenon DEF GoodState

\* The plan of a writer is one the block loop can follow, and starts from the size
\* the writer has copied.
LEMMA PlanIsSound ==
    ASSUME NEW s, NEW e, NEW n, GoodState(s, e, n), s.pc \in Editing
    PROVE  SoundPlan(s.plan, Nat) /\ s.plan.old = s.entry.size
<1>0. s.job \in EditJob /\ s.entry \in Entry /\ s.plan = Plan(s.job, s.entry.size)
  BY Shapes
<1>1. s.entry.size \in Nat
  BY <1>0 DEF Entry
<1>2. CASE s.job \in [op : {"write"}, ino : Ino, offset : Nat, bytes : Seq(Nat)]
  <2>1. s.plan = write_range(s.entry.size, s.job.offset, s.job.bytes)
    BY <1>0, <1>2 DEF Plan
  <2>2. s.job.offset \in Nat /\ s.job.bytes \in Seq(Nat)
    BY <1>2
  <2> DEFINE a == s.entry.size
             b == s.job.offset
             d == s.job.bytes
  <2> HIDE DEF a, b, d
  <2>3. a \in Nat /\ b \in Nat /\ d \in Seq(Nat) /\ s.plan = write_range(a, b, d) /\ a = s.entry.size
    BY <1>1, <2>1, <2>2 DEF a, b, d
  <2>4. \A x, y \in Nat : \A z \in Seq(Nat) :
          SoundPlan(write_range(x, y, z), Nat) /\ write_range(x, y, z).old = x
    BY WritePlan
  <2> QED BY <2>3, <2>4
<1>3. CASE s.job \in [op : {"truncate"}, ino : Ino, size : Nat]
  <2>1. s.plan = truncate(s.entry.size, s.job.size)
    BY <1>0, <1>3 DEF Plan
  <2>2. s.job.size \in Nat
    BY <1>3
  <2> DEFINE a == s.entry.size
             b == s.job.size
  <2> HIDE DEF a, b
  <2>3. a \in Nat /\ b \in Nat /\ s.plan = truncate(a, b) /\ a = s.entry.size
    BY <1>1, <2>1, <2>2 DEF a, b
  <2>4. SoundPlan(truncate(a, b), Nat) /\ truncate(a, b).old = a
    BY <2>3, TruncatePlan
  <2> QED BY <2>3, <2>4
<1> QED BY <1>0, <1>2, <1>3 DEF EditJob

\* A step of one worker, alone, within a session.
LEMMA WorkerMoves ==
    ASSUME IInv, NEW w \in Worker, NEW s,
           worker' = [worker EXCEPT ![w] = s],
           session # "down",
           GoodState(s, entries, next_ino), Owns(s, entries),
           s.pc \in Editing =>
             \A v \in Worker \ {w} : worker[v].pc \in Editing \cup {"read"} => worker[v].job.ino # s.job.ino,
           s.pc = "read" =>
             \A v \in Worker \ {w} : worker[v].pc \in Editing => worker[v].job.ino # s.job.ino,
           synced' = [i \in DOMAIN synced' |-> synced'[i]],
           DOMAIN synced' \subseteq DOMAIN synced,
           s.pc \in Editing => s.job.ino \notin DOMAIN synced',
           data' = [i \in Ino |-> data'[i]],
           Jobs',
           UNCHANGED <<mem, disk, session, reqs, content, unsaved>>
    PROVE  IInv'
<1> USE DEF IInv
<1>1. /\ worker'[w] = s
      /\ \A v \in Worker \ {w} : worker'[v] = worker[v]
      /\ worker' = [v \in Worker |-> worker'[v]]
  BY DEF Workers
<1>2. Types'
  BY DEF Types, mem, Table
<1>3. Clean'
  BY DEF Clean, mem
<1>4. Workers'
  <2>1. entries' = entries /\ next_ino' = next_ino
    BY DEF mem
  <2>2. \A v \in Worker : GoodState(worker'[v], entries, next_ino) /\ Owns(worker'[v], entries)
    BY <1>1 DEF Workers
  <2> QED BY <1>1, <2>1, <2>2 DEF Workers
<1>5. Exclusion'
  BY <1>1 DEF Exclusion, Editing
<1>6. DownIsQuiet'
  BY DEF DownIsQuiet
<1>7. Ghosts'
  BY <1>1 DEF Ghosts, mem
<1> QED BY <1>2, <1>3, <1>4, <1>5, <1>6, <1>7

-----------------------------------------------------------------------------
(* The steps of the workers *)

LEMMA SharedLock ==
    ASSUME IInv, NEW i, Shared(i), NEW v \in Worker, worker[v].pc \in Editing
    PROVE  worker[v].job.ino # i
<1>1. worker[v].job \in EditJob
  BY Shapes DEF IInv, Workers
<1>2. worker[v].job.op # "read" /\ worker[v].pc \notin {"idle", "lock"}
  BY <1>1 DEF EditJob, Editing
<1> QED BY <1>2 DEF Shared, Writing, OnFile, Holding

LEMMA ExclusiveLock ==
    ASSUME IInv, NEW i, Exclusive(i), NEW v \in Worker, worker[v].pc \in Editing \cup {"read"}
    PROVE  worker[v].job.ino # i
<1>1. worker[v].pc \notin {"idle", "lock"}
  BY DEF Editing
<1> QED BY <1>1 DEF Exclusive, Writing, Reading, OnFile, Holding

LEMMA Busy ==
    ASSUME IInv, NEW w \in Worker, worker[w].pc # "idle"
    PROVE  session # "down"
  BY DEF IInv, DownIsQuiet, Idle

LEMMA SameJobs ==
    ASSUME IInv, UNCHANGED <<mem, queue>>
    PROVE  Jobs'
  BY DEF IInv, Jobs, mem

LEMMA SameSynced ==
    ASSUME IInv, UNCHANGED synced
    PROVE  synced' = [i \in DOMAIN synced' |-> synced'[i]] /\ DOMAIN synced' \subseteq DOMAIN synced
  BY DEF IInv, Ghosts

LEMMA IdleState ==
    ASSUME NEW e, NEW n
    PROVE  GoodState(Idle, e, n) /\ Owns(Idle, e) /\ Idle.pc = "idle"
  BY DEF GoodState, Owns, Idle, Editing

\* A worker is done with its job.
LEMMA Finishes ==
    ASSUME IInv, NEW w \in Worker, worker[w].pc # "idle", Become(w, Idle),
           data' = [i \in Ino |-> data'[i]],
           UNCHANGED <<mem, disk, queue, session, reqs, content, unsaved, synced>>
    PROVE  IInv'
<1>1. worker' = [worker EXCEPT ![w] = Idle]
  BY DEF Become
<1>2. GoodState(Idle, entries, next_ino) /\ Owns(Idle, entries) /\ Idle.pc \notin Editing \cup {"read"}
  BY IdleState DEF Editing
<1> DEFINE s == Idle
<1> HIDE DEF s
<1>3. /\ worker' = [worker EXCEPT ![w] = s]
      /\ GoodState(s, entries, next_ino) /\ Owns(s, entries)
      /\ s.pc \notin Editing /\ s.pc # "read"
  BY <1>1, <1>2 DEF s
<1> QED BY <1>3, Busy, SameJobs, SameSynced, WorkerMoves

LEMMA TakeKeeps ==
    ASSUME IInv, NEW w \in Worker, Take(w)
    PROVE  IInv'
<1> DEFINE s == [pc |-> "lock", job |-> Head(queue)]
<1>1. worker' = [worker EXCEPT ![w] = s]
  BY DEF Take, Become
<1>2. queue \in Seq(ReadJob \cup EditJob) /\ queue # <<>> /\ queue' = Tail(queue)
  BY DEF Take, IInv, Jobs
<1>3. GoodJob(Head(queue), entries, next_ino)
  <2>1. 1 \in 1 .. Len(queue) /\ Head(queue) = queue[1]
    BY <1>2
  <2> QED BY <2>1 DEF IInv, Jobs
<1>4. s.pc = "lock" /\ s.job = Head(queue) /\ s = [pc |-> s.pc, job |-> s.job]
  OBVIOUS
<1> HIDE DEF s
<1>5. GoodState(s, entries, next_ino) /\ s.pc \notin Editing /\ s.pc # "read"
  BY <1>3, <1>4 DEF GoodState, Editing
<1>6. Owns(s, entries)
  BY <1>5 DEF Owns
<1>7. Jobs'
  <2>1. entries' = entries /\ next_ino' = next_ino
    BY DEF Take, mem
  <2>2. queue' \in Seq(ReadJob \cup EditJob) /\ Len(queue') = Len(queue) - 1
        /\ \A k \in 1 .. Len(queue') : queue'[k] = queue[k + 1]
    BY <1>2
  <2>3. \A k \in 1 .. Len(queue') : k + 1 \in 1 .. Len(queue)
    BY <1>2, <2>2
  <2> QED BY <2>1, <2>2, <2>3 DEF IInv, Jobs
<1>8. session # "down"
  BY <1>2 DEF IInv, DownIsQuiet
<1>9. UNCHANGED <<mem, disk, data, session, reqs, content, unsaved, synced>>
  BY DEF Take, aux
<1>10. data' = [i \in Ino |-> data'[i]]
  BY <1>9 DEF IInv, Types
<1> QED BY <1>1, <1>5, <1>6, <1>7, <1>8, <1>9, <1>10, SameSynced, WorkerMoves

LEMMA ReadLockedKeeps ==
    ASSUME IInv, NEW w \in Worker, ReadLocked(w)
    PROVE  IInv'
<1>1. UNCHANGED <<mem, disk, data, queue, session, reqs, content, unsaved, synced>>
  BY DEF ReadLocked, aux
<1>2. data' = [i \in Ino |-> data'[i]]
  BY <1>1 DEF IInv, Types
<1>3. worker[w].pc = "lock" /\ worker[w].job.op = "read" /\ Shared(worker[w].job.ino)
  BY DEF ReadLocked
<1>4. CASE Become(w, Idle)
  BY <1>1, <1>2, <1>3, <1>4, Finishes
<1>5. CASE Become(w, [worker[w] EXCEPT !.pc = "read"])
  <2> DEFINE s == [worker[w] EXCEPT !.pc = "read"]
  <2>1. worker' = [worker EXCEPT ![w] = s]
    BY <1>5 DEF Become
  <2>2. worker[w] = [pc |-> worker[w].pc, job |-> worker[w].job] /\ GoodJob(worker[w].job, entries, next_ino)
    BY <1>3, Shapes DEF IInv, Workers
  <2>3. s = [pc |-> "read", job |-> worker[w].job]
    BY <2>2
  <2>4. s.pc = "read" /\ s.job = worker[w].job /\ s = [pc |-> s.pc, job |-> s.job]
    BY <2>3
  <2> HIDE DEF s
  <2>5. GoodState(s, entries, next_ino) /\ s.pc \notin Editing
    BY <1>3, <2>2, <2>4 DEF GoodState, Editing
  <2>6. Owns(s, entries)
    BY <2>5 DEF Owns
  <2>7. \A v \in Worker \ {w} : worker[v].pc \in Editing => worker[v].job.ino # s.job.ino
    BY <1>3, <2>4, SharedLock
  <2> QED BY <1>1, <1>2, <1>3, <2>1, <2>5, <2>6, <2>7, Busy, SameJobs, SameSynced, WorkerMoves
<1> QED BY <1>4, <1>5 DEF ReadLocked

LEMMA WriteLockedKeeps ==
    ASSUME IInv, NEW w \in Worker, WriteLocked(w)
    PROVE  IInv'
<1> DEFINE job == worker[w].job
<1>1. UNCHANGED <<mem, disk, data, queue, session, reqs, content, unsaved>>
  BY DEF WriteLocked, aux
<1>2. data' = [i \in Ino |-> data'[i]]
  BY <1>1 DEF IInv, Types
<1>3. worker[w].pc = "lock" /\ job.op # "read" /\ Exclusive(job.ino)
  BY DEF WriteLocked
<1>4. CASE Become(w, Idle) /\ UNCHANGED synced
  BY <1>1, <1>2, <1>3, <1>4, Finishes
<1>5. CASE /\ job.ino \in DOMAIN entries
           /\ Become(w, [pc |-> "open", job |-> job, entry |-> entries[job.ino],
                         plan |-> Plan(job, entries[job.ino].size), own |-> Missing])
           /\ synced' = Only(synced, Ino \ {job.ino})
  <2> DEFINE s == [pc |-> "open", job |-> job, entry |-> entries[job.ino],
                   plan |-> Plan(job, entries[job.ino].size), own |-> Missing]
  <2>1. worker' = [worker EXCEPT ![w] = s]
    BY <1>5 DEF Become
  <2>2. GoodJob(job, entries, next_ino)
    BY <1>3, Shapes DEF IInv, Workers
  <2>3. job \in EditJob /\ job.ino < next_ino
    BY <1>3, <2>2 DEF GoodJob, ReadJob
  <2>4. entries[job.ino] \in Entry
    BY <1>5 DEF IInv, Types, Table
  <2>5. /\ s.pc = "open" /\ s.job = job /\ s.entry = entries[job.ino]
        /\ s.plan = Plan(job, entries[job.ino].size) /\ s.own = Missing
        /\ s = [pc |-> s.pc, job |-> s.job, entry |-> s.entry, plan |-> s.plan, own |-> s.own]
    OBVIOUS
  <2> HIDE DEF s
  <2>6. GoodState(s, entries, next_ino) /\ s.pc # "read"
    BY <2>3, <2>4, <2>5 DEF GoodState, Editing
  <2>7. Owns(s, entries)
    BY <2>5 DEF Owns
  <2>8. \A v \in Worker \ {w} : worker[v].pc \in Editing \cup {"read"} => worker[v].job.ino # s.job.ino
    BY <1>3, <2>5, ExclusiveLock
  <2>9. /\ synced' = [i \in DOMAIN synced' |-> synced'[i]]
        /\ DOMAIN synced' \subseteq DOMAIN synced
        /\ s.job.ino \notin DOMAIN synced'
    BY <1>5, <2>5 DEF Only
  <2> QED BY <1>1, <1>2, <1>3, <2>1, <2>6, <2>7, <2>8, <2>9, Busy, SameJobs, WorkerMoves
<1> QED BY <1>4, <1>5 DEF WriteLocked

\* A writer goes on with its job.
LEMMA WriterAdvances ==
    ASSUME IInv, NEW w \in Worker, worker[w].pc \in Editing, NEW pc \in Editing,
           Become(w, [worker[w] EXCEPT !.pc = pc]),
           data' = [i \in Ino |-> data'[i]],
           UNCHANGED <<mem, disk, queue, session, reqs, content, unsaved, synced>>
    PROVE  IInv'
<1> DEFINE s == [worker[w] EXCEPT !.pc = pc]
           t == worker[w]
<1>1. worker' = [worker EXCEPT ![w] = s]
  BY DEF Become
<1>2. /\ t = [pc |-> t.pc, job |-> t.job, entry |-> t.entry, plan |-> t.plan, own |-> t.own]
      /\ t.job \in EditJob
      /\ t.job.ino < next_ino
      /\ t.entry \in Entry
      /\ t.plan = Plan(t.job, t.entry.size)
  BY Shapes DEF IInv, Workers
<1>3. Owns(t, entries) /\ t.pc \in Editing
  BY DEF IInv, Workers
<1>4. /\ \A v \in Worker \ {w} : worker[v].pc \in Editing \cup {"read"} => worker[v].job.ino # t.job.ino
      /\ t.job.ino \notin DOMAIN synced
  BY DEF IInv, Exclusion, Ghosts
<1>5. t.pc # "idle"
  BY DEF Editing
<1> HIDE DEF t
<1>6. s = [t EXCEPT !.pc = pc]
  BY DEF t
<1>7. s = [pc |-> pc, job |-> t.job, entry |-> t.entry, plan |-> t.plan, own |-> t.own]
  BY <1>2, <1>6
<1> HIDE DEF s
<1>8. /\ s.pc = pc /\ s.job = t.job /\ s.entry = t.entry /\ s.plan = t.plan /\ s.own = t.own
      /\ s = [pc |-> s.pc, job |-> s.job, entry |-> s.entry, plan |-> s.plan, own |-> s.own]
  BY <1>7
<1>9. GoodState(s, entries, next_ino)
  BY <1>2, <1>8, Zenon DEF GoodState
<1>10. Owns(s, entries) /\ s.pc # "read"
  BY <1>3, <1>8 DEF Owns, Editing
<1>11. session # "down"
  BY <1>5, Busy DEF t
<1>12. Jobs' /\ synced' = [i \in DOMAIN synced' |-> synced'[i]] /\ DOMAIN synced' \subseteq DOMAIN synced
  BY SameJobs, SameSynced
<1>13. /\ \A v \in Worker \ {w} : worker[v].pc \in Editing \cup {"read"} => worker[v].job.ino # s.job.ino
       /\ s.job.ino \notin DOMAIN synced'
  BY <1>4, <1>8
<1> QED BY <1>1, <1>9, <1>10, <1>11, <1>12, <1>13, WorkerMoves

LEMMA ReadReplyKeeps ==
    ASSUME IInv, NEW w \in Worker, ReadReply(w)
    PROVE  IInv'
<1>1. UNCHANGED <<mem, disk, data, queue, session, reqs, content, unsaved, synced>>
  BY DEF ReadReply, aux
<1>2. data' = [i \in Ino |-> data'[i]]
  BY <1>1 DEF IInv, Types
<1> QED BY <1>1, <1>2, Finishes DEF ReadReply

LEMMA CommitGoneKeeps ==
    ASSUME IInv, NEW w \in Worker, CommitGone(w)
    PROVE  IInv'
<1>1. UNCHANGED <<mem, disk, data, queue, session, reqs, content, unsaved, synced>>
  BY DEF CommitGone, aux
<1>2. data' = [i \in Ino |-> data'[i]]
  BY <1>1 DEF IInv, Types
<1> QED BY <1>1, <1>2, Finishes DEF CommitGone

LEMMA OpenDataKeeps ==
    ASSUME IInv, NEW w \in Worker, OpenData(w)
    PROVE  IInv'
<1>1. UNCHANGED <<mem, disk, queue, session, reqs, content, unsaved, synced>>
  BY DEF OpenData, aux
<1>2. data' = [i \in Ino |-> data'[i]]
  BY DEF OpenData, IInv, Types
<1> DEFINE pc == IF worker[w].plan.opens THEN "transfer" ELSE "commit"
<1>3. pc \in Editing /\ worker[w].pc \in Editing
  BY DEF OpenData, Editing
<1>4. Become(w, [worker[w] EXCEPT !.pc = pc])
  BY DEF OpenData
<1> HIDE DEF pc
<1> QED BY <1>1, <1>2, <1>3, <1>4, WriterAdvances

LEMMA TransferKeeps ==
    ASSUME IInv, NEW w \in Worker, Transfer(w)
    PROVE  IInv'
<1>1. UNCHANGED <<mem, disk, queue, session, reqs, content, unsaved, synced>>
  BY DEF Transfer, aux
<1>2. data' = [i \in Ino |-> data'[i]]
  BY DEF Transfer, IInv, Types
<1>3. worker[w].pc \in Editing /\ "commit" \in Editing /\ worker[w].pc # "idle"
  BY DEF Transfer, Editing
<1>4. Become(w, [worker[w] EXCEPT !.pc = "commit"]) \/ Become(w, Idle)
  BY DEF Transfer
<1> QED BY <1>1, <1>2, <1>3, <1>4, WriterAdvances, Finishes

-----------------------------------------------------------------------------
(* Changes of the table *)

\* The index after the table e was saved, or after an attempt that failed.
Saved(e) ==
    /\ disk' \in {disk, e}
    /\ dirty' \in BOOLEAN
    /\ unsaved' \subseteq Ino
    /\ ~dirty' => Agree(disk', e, unsaved')

LEMMA Saves ==
    ASSUME IInv, session # "down", NEW e, NEW S, S \subseteq Ino, Agree(entries, e, S), save_index(e, S)
    PROVE  Saved(e)
<1>1. /\ disk' \in {disk, e}
      /\ unsaved' \subseteq Ino
      /\ dirty' \in BOOLEAN
  BY DEF IInv, Types, save_index
<1>2. ASSUME ~dirty' PROVE Agree(disk', e, unsaved')
  <2>1. CASE disk' = e
    BY <2>1 DEF Agree
  <2>2. CASE disk' = disk /\ unsaved' = unsaved \cup S /\ dirty' = dirty
    <3>1. Agree(disk, entries, unsaved)
      BY <1>2, <2>2 DEF IInv, Clean
    <3> QED BY <2>2, <3>1 DEF Agree
  <2> QED BY <2>1, <2>2 DEF save_index
<1> QED BY <1>1, <1>2 DEF Saved

\* A table agrees with itself.
LEMMA SameTable == \A e : Agree(e, e, {})
  BY DEF Agree

LEMMA TableMoves ==
    ASSUME IInv, session # "down", UNCHANGED <<queue, session>>,
           Table(entries'), next_ino' \in Nat, \A i \in DOMAIN entries' : i < next_ino',
           Evolves(entries, next_ino, entries', next_ino'),
           worker' = [v \in Worker |-> worker'[v]],
           \A v \in Worker :
              /\ GoodState(worker'[v], entries, next_ino)
              /\ Owns(worker'[v], entries')
              /\ worker'[v].pc # "idle" => worker'[v].pc = worker[v].pc /\ worker'[v].job = worker[v].job,
           Saved(entries'),
           content' = [i \in DOMAIN content' |-> content'[i]],
           DOMAIN content' \subseteq DOMAIN entries',
           synced' = [i \in DOMAIN synced' |-> synced'[i]],
           DOMAIN synced' \subseteq DOMAIN synced,
           \A i \in DOMAIN synced' : i \in DOMAIN entries' /\ entries'[i] = entries[i],
           reqs' \in 0 .. MaxReqs,
           data' = [i \in Ino |-> data'[i]]
    PROVE  IInv'
<1> USE DEF IInv
<1>1. Types'
  BY DEF Types, Saved
<1>2. Clean'
  BY DEF Clean, Saved, Agree
<1>3. Jobs'
  <2>1. next_ino \in Nat
    BY DEF Types
  <2>2. \A k \in 1 .. Len(queue) : GoodJob(queue[k], entries', next_ino')
    BY <2>1, JobEvolves DEF Jobs
  <2> QED BY <2>2 DEF Jobs
<1>4. Workers'
  <2>1. next_ino \in Nat
    BY DEF Types
  <2>2. \A v \in Worker : GoodState(worker'[v], entries', next_ino')
    BY <2>1, StateEvolves
  <2> QED BY <2>2 DEF Workers
<1>5. Exclusion'
  <2>1. \A v \in Worker : worker'[v].pc \in Editing \cup {"read"} => worker'[v].pc # "idle"
    BY DEF Editing
  <2> QED BY <2>1 DEF Exclusion
<1>6. DownIsQuiet'
  BY DEF DownIsQuiet
<1>7. Ghosts'
  <2>1. \A v \in Worker : worker'[v].pc \in Editing => worker'[v].pc # "idle"
    BY DEF Editing
  <2>2. ASSUME NEW i \in DOMAIN synced'
        PROVE  /\ i \in DOMAIN entries' /\ i \in DOMAIN disk' /\ entries'[i] = disk'[i]
               /\ \A v \in Worker : worker'[v].pc \in Editing => worker'[v].job.ino # i
    BY <2>1, <2>2 DEF Ghosts, Saved
  <2> QED BY <2>2 DEF Ghosts
<1> QED BY <1>1, <1>2, <1>3, <1>4, <1>5, <1>6, <1>7

\* What a commit does to the table.
LEMMA CommitsTable ==
    ASSUME IInv, NEW w \in Worker, Commits(w)
    PROVE  /\ worker[w].job.ino \in DOMAIN entries
           /\ DOMAIN entries' = DOMAIN entries
           /\ Table(entries')
           /\ \A i \in DOMAIN entries : i # worker[w].job.ino => entries'[i] = entries[i]
           /\ Evolves(entries, next_ino, entries', next_ino)
           /\ entries'[worker[w].job.ino] = [size |-> worker[w].plan.new, key |-> worker[w].entry.key]
           /\ worker[w].entry = entries[worker[w].job.ino]
           /\ SoundPlan(worker[w].plan, Nat)
           /\ worker[w].plan.old = worker[w].entry.size
<1> DEFINE s == worker[w]
           ino == s.job.ino
           e == [size |-> s.plan.new, key |-> s.entry.key]
<1>1. ino \in DOMAIN entries /\ entries' = Put(entries, ino, e) /\ s.pc = "commit"
  BY DEF Commits
<1>2. s.pc \in Editing
  BY <1>1 DEF Editing
<1>3. s.job \in EditJob /\ s.entry \in Entry /\ s.plan = Plan(s.job, s.entry.size)
  BY <1>2, Shapes DEF IInv, Workers
<1>4. s.entry = entries[ino]
  BY <1>1, <1>2 DEF IInv, Workers, Owns
<1> HIDE DEF s
<1>5. SoundPlan(s.plan, Nat) /\ s.plan.old = s.entry.size
  BY <1>2, PlanIsSound DEF s, IInv, Workers
<1>6. s.plan.new \in Nat
  BY <1>5 DEF SoundPlan
<1>7. e \in Entry /\ e.key = entries[ino].key
  <2>1. s.entry.key \in 0 .. MaxReqs
    BY <1>3 DEF Entry
  <2> QED BY <2>1, <1>4, <1>6 DEF Entry
<1> HIDE DEF e, ino
<1>8. Table(entries) /\ next_ino \in Nat
  BY DEF IInv, Types
<1>9. /\ DOMAIN entries' = DOMAIN entries
      /\ entries'[ino] = e
      /\ \A i \in DOMAIN entries : i # ino => entries'[i] = entries[i]
      /\ entries' = [i \in DOMAIN entries' |-> entries'[i]]
  BY <1>1 DEF Put
<1>10. Table(entries')
  BY <1>7, <1>8, <1>9 DEF Table
<1>11. Evolves(entries, next_ino, entries', next_ino)
  BY <1>7, <1>8, <1>9 DEF Evolves
<1> QED BY <1>1, <1>4, <1>5, <1>9, <1>10, <1>11 DEF s, ino, e

LEMMA CommitKeeps ==
    ASSUME IInv, NEW w \in Worker, Commits(w), Saved(entries'),
           UNCHANGED <<next_ino, data, queue, session, reqs, synced>>
    PROVE  IInv'
<1> DEFINE ino == worker[w].job.ino
<1>1. /\ ino \in DOMAIN entries
      /\ DOMAIN entries' = DOMAIN entries
      /\ Table(entries')
      /\ \A i \in DOMAIN entries : i # ino => entries'[i] = entries[i]
      /\ Evolves(entries, next_ino, entries', next_ino)
  BY CommitsTable
<1>2. worker' = [worker EXCEPT ![w] = Idle] /\ worker[w].pc = "commit"
  BY DEF Commits, Become
<1>3. worker[w].pc \in Editing /\ worker[w].pc # "idle"
  BY <1>2 DEF Editing
<1>4. session # "down"
  BY <1>3, Busy
<1>5. /\ worker' = [v \in Worker |-> worker'[v]]
      /\ worker'[w] = Idle
      /\ \A v \in Worker \ {w} : worker'[v] = worker[v]
  BY <1>2 DEF IInv, Workers
<1>6. ASSUME NEW v \in Worker
      PROVE  /\ GoodState(worker'[v], entries, next_ino)
             /\ Owns(worker'[v], entries')
             /\ worker'[v].pc # "idle" => worker'[v].pc = worker[v].pc /\ worker'[v].job = worker[v].job
  <2>1. CASE v = w
    BY <2>1, <1>5, IdleState
  <2>2. CASE v # w
    <3>1. worker'[v] = worker[v] /\ GoodState(worker[v], entries, next_ino) /\ Owns(worker[v], entries)
      BY <2>2, <1>5 DEF IInv, Workers
    <3>2. worker[v].pc \in Editing => worker[v].job.ino # ino
      BY <2>2, <1>3 DEF IInv, Exclusion
    <3> QED BY <3>1, <3>2, <1>1 DEF Owns
  <2> QED BY <2>1, <2>2
<1>7. content' = [i \in DOMAIN content' |-> content'[i]] /\ DOMAIN content' = DOMAIN content
  BY DEF Commits, Put, IInv, Ghosts
<1>8. /\ next_ino' \in Nat /\ reqs' \in 0 .. MaxReqs /\ data' = [i \in Ino |-> data'[i]]
      /\ \A i \in DOMAIN entries' : i < next_ino'
  BY <1>1 DEF IInv, Types
<1>9. /\ DOMAIN content' \subseteq DOMAIN entries'
      /\ synced' = [i \in DOMAIN synced' |-> synced'[i]]
      /\ \A i \in DOMAIN synced' : i \in DOMAIN entries' /\ entries'[i] = entries[i]
  BY <1>1, <1>3, <1>7 DEF IInv, Ghosts
<1> QED BY <1>1, <1>4, <1>5, <1>6, <1>7, <1>8, <1>9, TableMoves

LEMMA CommitWriteKeeps ==
    ASSUME IInv, NEW w \in Worker, CommitWrite(w)
    PROVE  IInv'
<1>1. Saved(entries')
  BY DEF CommitWrite, mark_dirty, Saved, IInv, Types
<1>2. UNCHANGED <<next_ino, data, queue, session, reqs, synced>> /\ Commits(w)
  BY DEF CommitWrite, aux
<1> QED BY <1>1, <1>2, CommitKeeps

LEMMA ApplySetattrKeeps ==
    ASSUME IInv, NEW w \in Worker, ApplySetattr(w)
    PROVE  IInv'
<1> DEFINE ino == worker[w].job.ino
<1>1. /\ UNCHANGED <<next_ino, data, queue, session, reqs, synced>> /\ Commits(w)
      /\ save_index(entries', {ino})
  BY DEF ApplySetattr
<1>2. /\ ino \in DOMAIN entries
      /\ DOMAIN entries' = DOMAIN entries
      /\ Table(entries')
      /\ \A i \in DOMAIN entries : i # ino => entries'[i] = entries[i]
  BY <1>1, CommitsTable
<1>3. worker[w].pc = "commit"
  BY <1>1 DEF Commits
<1>4. session # "down"
  BY <1>3, Busy
<1> HIDE DEF ino
<1>5. {ino} \subseteq Ino /\ Agree(entries, entries', {ino})
  BY <1>2 DEF Agree, Table
<1>6. Saved(entries')
  BY <1>1, <1>4, <1>5, Saves
<1> QED BY <1>1, <1>6, CommitKeeps

LEMMA createKeeps ==
    ASSUME IInv, create
    PROVE  IInv'
<1> DEFINE n == next_ino
           e == [size |-> 0, key |-> reqs + 1]
<1>1. /\ session = "idle" /\ reqs < MaxReqs /\ reqs' = reqs + 1
      /\ n \in Ino /\ next_ino' = n + 1
      /\ entries' = Put(entries, n, e)
      /\ content' = Put(content, n, <<>>)
      /\ UNCHANGED <<data, queue, worker, session, synced>>
  BY DEF create, Request, allocate_ino
<1>3. next_ino \in Nat /\ reqs \in 0 .. MaxReqs /\ Table(entries) /\ \A i \in DOMAIN entries : i < n
  BY DEF IInv, Types
<1>4. n \notin DOMAIN entries /\ n + 1 \in Nat /\ n <= n + 1
  BY <1>3
<1>5. e \in Entry /\ reqs' \in 0 .. MaxReqs
  BY <1>1, <1>3, InoIsNat DEF Entry
<1> HIDE DEF e, n
<1>6. /\ DOMAIN entries' = DOMAIN entries \cup {n}
      /\ entries'[n] = e
      /\ \A i \in DOMAIN entries : entries'[i] = entries[i]
      /\ entries' = [i \in DOMAIN entries' |-> entries'[i]]
  BY <1>1, <1>4 DEF Put
<1>2. Saved(entries')
  <2>1. {n} \subseteq Ino /\ Agree(entries, entries', {n}) /\ session # "down"
    BY <1>1, <1>6 DEF Agree
  <2>2. save_index(entries', {n})
    BY DEF create, n
  <2> QED BY <2>1, <2>2, Saves
<1>7. Table(entries')
  BY <1>1, <1>3, <1>5, <1>6 DEF Table
<1>8. \A i \in DOMAIN entries' : i < next_ino'
  <2>1. \A i \in DOMAIN entries : i \in Nat
    BY <1>3, InoIsNat DEF Table
  <2> QED BY <1>1, <1>3, <1>4, <1>6, <2>1 DEF n
<1>9. Evolves(entries, n, entries', n + 1)
  BY <1>3, <1>4, <1>6 DEF Evolves, n
<1>10. ASSUME NEW v \in Worker
       PROVE  /\ GoodState(worker'[v], entries, next_ino)
              /\ Owns(worker'[v], entries')
              /\ worker'[v].pc # "idle" => worker'[v].pc = worker[v].pc /\ worker'[v].job = worker[v].job
  <2>1. worker'[v] = worker[v] /\ GoodState(worker[v], entries, next_ino) /\ Owns(worker[v], entries)
    BY <1>1 DEF IInv, Workers
  <2>2. worker[v].pc \in Editing => worker[v].job.ino < n /\ worker[v].job.ino \in Nat
    BY <2>1, Shapes, InoIsNat DEF EditJob, n
  <2>3. worker[v].pc \in Editing => worker[v].job.ino # n
    BY <2>2, <1>3 DEF n
  <2> QED BY <2>1, <2>3, <1>6 DEF Owns
<1>11. /\ content' = [i \in DOMAIN content' |-> content'[i]]
       /\ DOMAIN content' \subseteq DOMAIN entries'
  BY <1>1, <1>6 DEF Put, IInv, Ghosts
<1>12. /\ synced' = [i \in DOMAIN synced' |-> synced'[i]]
       /\ DOMAIN synced' \subseteq DOMAIN synced
       /\ \A i \in DOMAIN synced' : i \in DOMAIN entries' /\ entries'[i] = entries[i]
  BY <1>1, <1>6 DEF IInv, Ghosts
<1>13. data' = [i \in Ino |-> data'[i]] /\ worker' = [v \in Worker |-> worker'[v]]
  BY <1>1 DEF IInv, Types, Workers
<1>14. session # "down" /\ next_ino' \in Nat /\ Evolves(entries, next_ino, entries', next_ino')
  BY <1>1, <1>4, <1>9 DEF n
<1> QED BY <1>1, <1>2, <1>5, <1>7, <1>8, <1>10, <1>11, <1>12, <1>13, <1>14, TableMoves

\* A worker whose file loses its name keeps its job and its place.
LEMMA Detached ==
    ASSUME IInv, NEW i, NEW v \in Worker
    PROVE  /\ Detach(i)[v].pc = worker[v].pc
           /\ worker[v].pc # "idle" => Detach(i)[v].job = worker[v].job
           /\ worker[v].pc \in Editing =>
                Detach(i)[v].entry = worker[v].entry /\ Detach(i)[v].plan = worker[v].plan
           /\ worker[v].pc \in Editing /\ worker[v].job.ino # i => Detach(i)[v] = worker[v]
           /\ GoodState(Detach(i)[v], entries, next_ino)
<1> DEFINE t == worker[v]
           s == Detach(i)[v]
<1>1. GoodState(t, entries, next_ino)
  BY DEF IInv, Workers
<1>2. CASE OnFile(v, i) /\ t.pc = "transfer" /\ t.own = Missing
  <2>1. s = [t EXCEPT !.own = data[i]]
    BY <1>2 DEF Detach
  <2>2. t.pc \in Editing
    BY <1>2 DEF Editing
  <2>3. /\ t = [pc |-> t.pc, job |-> t.job, entry |-> t.entry, plan |-> t.plan, own |-> t.own]
        /\ t.job \in EditJob
        /\ t.job.ino < next_ino
        /\ t.entry \in Entry
        /\ t.plan = Plan(t.job, t.entry.size)
    BY <1>1, <2>2, Shapes
  <2>4. t.job.ino = i
    BY <1>2 DEF OnFile
  <2> HIDE DEF t, s
  <2>5. s = [pc |-> t.pc, job |-> t.job, entry |-> t.entry, plan |-> t.plan, own |-> data[i]]
    BY <2>1, <2>3
  <2>6. /\ s.pc = t.pc /\ s.job = t.job /\ s.entry = t.entry /\ s.plan = t.plan
        /\ s = [pc |-> s.pc, job |-> s.job, entry |-> s.entry, plan |-> s.plan, own |-> s.own]
    BY <2>5
  <2>7. GoodState(s, entries, next_ino)
    BY <2>2, <2>3, <2>6, Zenon DEF GoodState
  <2> QED BY <2>4, <2>6, <2>7 DEF s, t
<1>3. CASE ~(OnFile(v, i) /\ t.pc = "transfer" /\ t.own = Missing)
  <2>1. s = t
    BY <1>3 DEF Detach
  <2> QED BY <1>1, <2>1
<1> QED BY <1>2, <1>3

LEMMA unlinkKeeps ==
    ASSUME IInv, NEW ino \in Ino, unlink(ino)
    PROVE  IInv'
<1>1. /\ session = "idle" /\ reqs < MaxReqs /\ reqs' = reqs + 1
      /\ entries' = Only(entries, Ino \ {ino})
      /\ content' = Only(content, Ino \ {ino})
      /\ synced' = Only(synced, Ino \ {ino})
      /\ \/ data' = [data EXCEPT ![ino] = Missing] /\ worker' = Detach(ino)
         \/ UNCHANGED <<data, worker>>
      /\ UNCHANGED <<next_ino, queue, session>>
  BY DEF unlink, Request
<1>3. next_ino \in Nat /\ reqs \in 0 .. MaxReqs /\ Table(entries) /\ \A i \in DOMAIN entries : i < next_ino
  BY DEF IInv, Types
<1>4. /\ DOMAIN entries' = DOMAIN entries \ {ino}
      /\ \A i \in DOMAIN entries' : entries'[i] = entries[i]
      /\ entries' = [i \in DOMAIN entries' |-> entries'[i]]
  BY <1>1, <1>3 DEF Only, Table
<1>2. Saved(entries')
  <2>1. {ino} \subseteq Ino /\ Agree(entries, entries', {ino}) /\ session # "down"
    BY <1>1, <1>4 DEF Agree
  <2>2. save_index(entries', {ino})
    BY DEF unlink
  <2> QED BY <2>1, <2>2, Saves
<1>5. Table(entries') /\ Evolves(entries, next_ino, entries', next_ino')
  <2>1. Table(entries')
    BY <1>3, <1>4 DEF Table
  <2>2. next_ino' = next_ino /\ next_ino <= next_ino
    BY <1>1, <1>3
  <2> QED BY <1>4, <2>1, <2>2 DEF Evolves
<1>6. /\ next_ino' \in Nat /\ \A i \in DOMAIN entries' : i < next_ino'
  BY <1>1, <1>3, <1>4
<1>7. reqs' \in 0 .. MaxReqs
  BY <1>1, <1>3, InoIsNat
<1>8. ASSUME NEW v \in Worker
      PROVE  /\ GoodState(worker'[v], entries, next_ino)
             /\ Owns(worker'[v], entries')
             /\ worker'[v].pc # "idle" => worker'[v].pc = worker[v].pc /\ worker'[v].job = worker[v].job
  <2>1. GoodState(worker[v], entries, next_ino) /\ Owns(worker[v], entries)
    BY DEF IInv, Workers
  <2>2. CASE worker'[v] = Detach(ino)[v]
    <3>1. worker[v].pc \in Editing => worker[v].pc # "idle"
      BY DEF Editing
    <3>2. Owns(worker'[v], entries')
      BY <2>1, <2>2, <3>1, <1>4, Detached DEF Owns
    <3> QED BY <2>2, <3>2, Detached
  <2>3. CASE worker'[v] = worker[v]
    BY <2>1, <2>3, <1>4 DEF Owns
  <2> QED BY <1>1, <2>2, <2>3
<1>9. /\ content' = [i \in DOMAIN content' |-> content'[i]]
      /\ DOMAIN content' \subseteq DOMAIN entries'
      /\ synced' = [i \in DOMAIN synced' |-> synced'[i]]
      /\ DOMAIN synced' \subseteq DOMAIN synced
      /\ \A i \in DOMAIN synced' : i \in DOMAIN entries' /\ entries'[i] = entries[i]
  BY <1>1, <1>4 DEF Only, IInv, Ghosts
<1>10. data' = [i \in Ino |-> data'[i]] /\ worker' = [v \in Worker |-> worker'[v]]
  BY <1>1 DEF IInv, Types, Workers, Detach
<1>11. session # "down"
  BY <1>1
<1> QED BY <1>1, <1>2, <1>5, <1>6, <1>7, <1>8, <1>9, <1>10, <1>11, TableMoves

-----------------------------------------------------------------------------
(* The session thread *)

LEMMA NothingToSave ==
    ASSUME IInv, session # "down", UNCHANGED <<entries, disk, dirty, unsaved>>
    PROVE  Saved(entries)
  BY DEF IInv, Types, Clean, Saved, Agree

LEMMA FlushSaves ==
    ASSUME IInv, session # "down", flush_index, UNCHANGED entries
    PROVE  Saved(entries)
<1>1. CASE dirty
  BY <1>1, Saves, SameTable DEF flush_index
<1>2. CASE ~dirty
  BY <1>2, NothingToSave DEF flush_index
<1> QED BY <1>1, <1>2, Zenon DEF IInv, Types

\* A step that leaves the table in memory and the workers alone.
LEMMA SessionMoves ==
    ASSUME IInv, session # "down", session' \in {"idle", "fsync", "drop", "join"},
           Saved(entries),
           Jobs',
           UNCHANGED <<entries, next_ino, data, worker, content>>,
           reqs' \in 0 .. MaxReqs,
           synced' = [i \in DOMAIN synced' |-> synced'[i]],
           \A i \in DOMAIN synced' :
              \/ i \in DOMAIN synced
              \/ /\ i \in DOMAIN entries
                 /\ i \in DOMAIN disk' /\ disk'[i] = entries[i]
                 /\ \A w \in Worker : worker[w].pc \in Editing => worker[w].job.ino # i
    PROVE  IInv'
<1> USE DEF IInv
<1>1. Types'
  <2>1. Table(disk')
    BY DEF Types, Saved
  <2> QED BY <2>1 DEF Types, Saved, Table
<1>2. Clean'
  BY DEF Clean, Saved, Agree
<1>3. Workers' /\ Exclusion'
  BY DEF Workers, Exclusion
<1>4. DownIsQuiet'
  BY DEF DownIsQuiet
<1>5. Ghosts'
  BY DEF Ghosts, Saved
<1> QED BY <1>1, <1>2, <1>3, <1>4, <1>5

LEMMA EnqueueKeeps ==
    ASSUME IInv, NEW j, Enqueue(j), GoodJob(j, entries, next_ino)
    PROVE  IInv'
<1>1. /\ session = "idle" /\ reqs < MaxReqs /\ reqs' = reqs + 1 /\ queue' = Append(queue, j)
      /\ UNCHANGED <<entries, next_ino, dirty, disk, data, worker, session, content, unsaved, synced>>
  BY DEF Enqueue, Request, mem
<1>2. Saved(entries)
  BY <1>1, NothingToSave
<1>3. reqs' \in 0 .. MaxReqs
  BY <1>1, InoIsNat DEF IInv, Types
<1>4. Jobs'
  <2>1. queue \in Seq(ReadJob \cup EditJob) /\ j \in ReadJob \cup EditJob
    BY DEF IInv, Jobs, GoodJob
  <2>2. /\ queue' \in Seq(ReadJob \cup EditJob)
        /\ Len(queue') = Len(queue) + 1
        /\ \A k \in 1 .. Len(queue) : queue'[k] = queue[k]
        /\ queue'[Len(queue) + 1] = j
    BY <1>1, <2>1
  <2>3. Len(queue) \in Nat
    BY <2>1
  <2>4. ASSUME NEW k \in 1 .. Len(queue')
        PROVE  GoodJob(queue'[k], entries, next_ino)
    <3>1. CASE k = Len(queue) + 1
      BY <3>1, <2>2
    <3>2. CASE k # Len(queue) + 1
      <4>1. k \in 1 .. Len(queue)
        BY <3>2, <2>2, <2>3
      <4> QED BY <4>1, <2>2 DEF IInv, Jobs
    <3> QED BY <3>1, <3>2
  <2> QED BY <1>1, <2>2, <2>4 DEF Jobs
<1>5. session' \in {"idle", "fsync", "drop", "join"} /\ session # "down"
  BY <1>1
<1> QED BY <1>1, <1>2, <1>3, <1>4, <1>5, SessionMoves DEF IInv, Ghosts

LEMMA readKeeps ==
    ASSUME IInv, NEW ino \in Ino, NEW op \in ReadOps, read(ino, op)
    PROVE  IInv'
<1> DEFINE j == [op |-> "read", ino |-> ino, offset |-> op[1], len |-> op[2], snap |-> entries[ino]]
<1>1. ino \in DOMAIN entries /\ Enqueue(j)
  BY DEF read
<1>2. op[1] \in Nat /\ op[2] \in Nat
  BY PqfsAssumption
<1>3. entries[ino] \in Entry /\ ino < next_ino
  BY <1>1 DEF IInv, Types, Table
<1>4. j \in ReadJob /\ j.ino = ino /\ j.snap = entries[ino]
  BY <1>2, <1>3 DEF ReadJob
<1> HIDE DEF j
<1>5. GoodJob(j, entries, next_ino)
  BY <1>3, <1>4 DEF GoodJob
<1> QED BY <1>1, <1>5, EnqueueKeeps

LEMMA writeKeeps ==
    ASSUME IInv, NEW ino \in Ino, NEW op \in WriteOps, write(ino, op)
    PROVE  IInv'
<1> DEFINE bytes == [p \in 1 .. op[2] |-> reqs + 1]
           j == [op |-> "write", ino |-> ino, offset |-> op[1], bytes |-> bytes]
<1>1. Enqueue(j)
  BY DEF write
<1>2. op[1] \in Nat /\ op[2] \in Nat
  BY PqfsAssumption
<1>3. reqs + 1 \in Nat
  BY InoIsNat DEF IInv, Types
<1>4. bytes \in Seq(Nat)
  <2>1. bytes \in [1 .. op[2] -> Nat]
    BY <1>3
  <2> QED BY <1>2, <2>1
<1> HIDE DEF bytes
<1>5. j \in EditJob /\ j.ino = ino /\ j.op = "write"
  BY <1>2, <1>4 DEF EditJob
<1> HIDE DEF j
<1>6. ino < next_ino
  BY <1>1, <1>5 DEF Enqueue, IInv, Types
<1>7. GoodJob(j, entries, next_ino)
  BY <1>5, <1>6 DEF GoodJob
<1> QED BY <1>1, <1>7, EnqueueKeeps

LEMMA setattrKeeps ==
    ASSUME IInv, NEW ino \in Ino, NEW size \in Sizes, setattr(ino, size)
    PROVE  IInv'
<1> DEFINE j == [op |-> "truncate", ino |-> ino, size |-> size]
<1>1. Enqueue(j)
  BY DEF setattr
<1>2. size \in Nat
  BY PqfsAssumption
<1>3. j \in EditJob /\ j.ino = ino /\ j.op = "truncate"
  BY <1>2 DEF EditJob
<1> HIDE DEF j
<1>4. ino < next_ino
  BY <1>1, <1>3 DEF Enqueue, IInv, Types
<1>5. GoodJob(j, entries, next_ino)
  BY <1>3, <1>4 DEF GoodJob
<1> QED BY <1>1, <1>5, EnqueueKeeps

LEMMA SaveAttributesKeeps ==
    ASSUME IInv, NEW ino \in Ino, SaveAttributes(ino)
    PROVE  IInv'
<1>1. /\ session = "idle" /\ reqs < MaxReqs /\ reqs' = reqs + 1 /\ session' = session
      /\ UNCHANGED <<entries, next_ino, data, queue, worker, content, synced>>
  BY DEF SaveAttributes, Request
<1>2. Saved(entries)
  BY <1>1, Saves, SameTable DEF SaveAttributes
<1>3. reqs' \in 0 .. MaxReqs
  BY <1>1, InoIsNat DEF IInv, Types
<1>4. Jobs'
  BY <1>1 DEF IInv, Jobs
<1> QED BY <1>1, <1>2, <1>3, <1>4, SessionMoves DEF IInv, Ghosts

LEMMA fsyncdirKeeps ==
    ASSUME IInv, fsyncdir
    PROVE  IInv'
<1>1. /\ session = "idle" /\ reqs < MaxReqs /\ reqs' = reqs + 1 /\ session' = session
      /\ UNCHANGED <<entries, next_ino, data, queue, worker, content, synced>>
  BY DEF fsyncdir, Request
<1>2. Saved(entries)
  BY <1>1, FlushSaves DEF fsyncdir
<1>3. reqs' \in 0 .. MaxReqs
  BY <1>1, InoIsNat DEF IInv, Types
<1>4. Jobs'
  BY <1>1 DEF IInv, Jobs
<1> QED BY <1>1, <1>2, <1>3, <1>4, SessionMoves DEF IInv, Ghosts

LEMMA fsyncKeeps ==
    ASSUME IInv, NEW ino \in Ino, fsync(ino)
    PROVE  IInv'
<1>1. /\ session = "idle" /\ reqs < MaxReqs /\ reqs' = reqs + 1 /\ session' = "fsync"
      /\ UNCHANGED <<entries, next_ino, dirty, disk, data, queue, worker, content, unsaved, synced>>
  BY DEF fsync, Request, mem
<1>2. Saved(entries)
  BY <1>1, NothingToSave
<1>3. reqs' \in 0 .. MaxReqs
  BY <1>1, InoIsNat DEF IInv, Types
<1>4. Jobs'
  BY <1>1 DEF IInv, Jobs
<1> QED BY <1>1, <1>2, <1>3, <1>4, SessionMoves DEF IInv, Ghosts

LEMMA CloseKeeps ==
    ASSUME IInv, Close
    PROVE  IInv'
<1>1. /\ session = "idle" /\ session' = "drop"
      /\ UNCHANGED <<entries, next_ino, dirty, disk, data, queue, worker, reqs, content, unsaved, synced>>
  BY DEF Close, mem, aux
<1>2. Saved(entries)
  BY <1>1, NothingToSave
<1>3. reqs' \in 0 .. MaxReqs
  BY <1>1 DEF IInv, Types
<1>4. Jobs'
  BY <1>1 DEF IInv, Jobs
<1> QED BY <1>1, <1>2, <1>3, <1>4, SessionMoves DEF IInv, Ghosts

LEMMA DropFlushKeeps ==
    ASSUME IInv, DropFlush
    PROVE  IInv'
<1>1. /\ session = "drop" /\ session' = "join"
      /\ UNCHANGED <<entries, next_ino, data, queue, worker, reqs, content, synced>>
  BY DEF DropFlush
<1>2. Saved(entries)
  BY <1>1, FlushSaves DEF DropFlush
<1>3. reqs' \in 0 .. MaxReqs
  BY <1>1 DEF IInv, Types
<1>4. Jobs'
  BY <1>1 DEF IInv, Jobs
<1> QED BY <1>1, <1>2, <1>3, <1>4, SessionMoves DEF IInv, Ghosts

LEMMA FsyncLockedKeeps ==
    ASSUME IInv, FsyncLocked
    PROVE  IInv'
<1>1. /\ session = "fsync" /\ session' = "idle" /\ Shared(target)
      /\ flush_index \/ UNCHANGED <<disk, dirty, unsaved>>
      /\ UNCHANGED <<entries, next_ino, data, queue, worker, reqs, content>>
  BY DEF FsyncLocked, FsyncAnswered
<1>2. Saved(entries)
  BY <1>1, FlushSaves, NothingToSave
<1>3. reqs' \in 0 .. MaxReqs
  BY <1>1 DEF IInv, Types
<1>4. Jobs'
  BY <1>1 DEF IInv, Jobs
<1>5. /\ synced' = [i \in DOMAIN synced' |-> synced'[i]]
      /\ \A i \in DOMAIN synced' :
            \/ i \in DOMAIN synced
            \/ /\ i \in DOMAIN entries
               /\ i \in DOMAIN disk' /\ disk'[i] = entries[i]
               /\ \A w \in Worker : worker[w].pc \in Editing => worker[w].job.ino # i
  <2>1. CASE /\ ~dirty' /\ target \in DOMAIN content \ unsaved'
             /\ synced' = Put(synced, target, content[target])
    <3>1. synced' = Put(synced, target, content[target])
      BY <2>1
    <3>2. target \in DOMAIN entries /\ target \in DOMAIN disk' /\ disk'[target] = entries[target]
      <4>1. target \in DOMAIN entries /\ DOMAIN entries \subseteq Ino
        BY <2>1 DEF IInv, Ghosts, Types, Table
      <4>2. Agree(disk', entries, unsaved')
        BY <2>1, <1>2 DEF Saved
      <4> QED BY <2>1, <4>1, <4>2 DEF Agree
    <3>3. \A w \in Worker : worker[w].pc \in Editing => worker[w].job.ino # target
      BY <1>1, SharedLock
    <3> QED BY <3>1, <3>2, <3>3 DEF Put
  <2>2. CASE synced' = synced
    BY <2>2 DEF IInv, Ghosts
  <2> QED BY <2>1, <2>2 DEF FsyncLocked, FsyncAnswered
<1> QED BY <1>1, <1>2, <1>3, <1>4, <1>5, SessionMoves

LEMMA DropJoinKeeps ==
    ASSUME IInv, DropJoin
    PROVE  IInv'
<1>1. /\ session' = "down" /\ queue = <<>> /\ \A w \in Worker : worker[w] = Idle
      /\ UNCHANGED <<entries, next_ino, dirty, disk, data, queue, worker, reqs, content, unsaved, synced>>
  BY DEF DropJoin, mem, aux
<1> USE DEF IInv
<1>2. Types'
  BY <1>1 DEF Types, Table
<1>3. Clean' /\ DownIsQuiet'
  BY <1>1 DEF Clean, DownIsQuiet
<1>4. Jobs' /\ Workers' /\ Exclusion'
  BY <1>1 DEF Jobs, Workers, Exclusion
<1>5. Ghosts'
  BY <1>1 DEF Ghosts
<1> QED BY <1>2, <1>3, <1>4, <1>5

LEMMA KillKeeps ==
    ASSUME IInv, Kill
    PROVE  IInv'
<1>1. /\ session' = "down" /\ queue' = <<>> /\ worker' = [w \in Worker |-> Idle]
      /\ content' = Only(content, {ino \in Ino : Writing(ino) = {}})
      /\ UNCHANGED <<entries, next_ino, dirty, disk, reqs, unsaved, synced>>
  BY DEF Kill, mem
<1> USE DEF IInv
<1>2. Types'
  <2>1. data' = [i \in Ino |-> data'[i]]
    BY DEF Kill
  <2> QED BY <1>1, <2>1 DEF Types, Table
<1>3. Clean' /\ DownIsQuiet'
  BY <1>1 DEF Clean, DownIsQuiet
<1>4. Jobs'
  BY <1>1 DEF Jobs
<1>5. \A w \in Worker : worker'[w] = Idle /\ worker'[w].pc \notin Editing
  BY <1>1 DEF Idle, Editing
<1>6. Workers'
  <2>1. worker' = [w \in Worker |-> worker'[w]]
    BY <1>1
  <2>2. \A w \in Worker : GoodState(worker'[w], entries', next_ino') /\ Owns(worker'[w], entries')
    BY <1>5, IdleState
  <2> QED BY <2>1, <2>2 DEF Workers
<1>7. Exclusion'
  BY <1>5 DEF Exclusion
<1>8. Ghosts'
  BY <1>1, <1>5 DEF Ghosts, Only
<1> QED BY <1>2, <1>3, <1>4, <1>6, <1>7, <1>8

LEMMA MountKeeps ==
    ASSUME IInv, Mount
    PROVE  IInv'
<1>1. /\ session = "down" /\ session' = "idle" /\ entries' = disk /\ dirty' = FALSE /\ unsaved' = {}
      /\ content' = Only(content, {i \in DOMAIN entries \cap DOMAIN disk : entries[i] = disk[i]})
      /\ UNCHANGED <<disk, data, queue, worker, reqs, synced>>
  BY DEF Mount
<1>2. next_ino' \in Nat /\ \A i \in DOMAIN disk : i < next_ino'
  <2>1. PICK last \in DOMAIN disk \cup {Root} :
          (\A i \in DOMAIN disk : i <= last) /\ next_ino' = last + 1
    BY DEF Mount
  <2>2. DOMAIN disk \subseteq Nat /\ last \in Nat
    BY InoIsNat DEF IInv, Types, Table, Root
  <2> QED BY <2>1, <2>2
<1>3. queue = <<>> /\ \A w \in Worker : worker[w] = Idle
  BY <1>1 DEF IInv, DownIsQuiet
<1> USE DEF IInv
<1>4. Types'
  <2>1. Table(entries') /\ \A i \in DOMAIN entries' : i < next_ino'
    BY <1>1, <1>2 DEF Types
  <2> QED BY <1>1, <1>2, <2>1 DEF Types, Table
<1>5. Clean' /\ DownIsQuiet'
  BY <1>1 DEF Clean, DownIsQuiet, Agree
<1>6. Jobs'
  BY <1>1, <1>3 DEF Jobs
<1>7. \A w \in Worker : worker'[w] = Idle /\ worker'[w].pc \notin Editing
  BY <1>1, <1>3 DEF Idle, Editing
<1>8. Workers'
  <2>1. worker' = [w \in Worker |-> worker'[w]]
    BY <1>1 DEF Workers
  <2>2. \A w \in Worker : GoodState(worker'[w], entries', next_ino') /\ Owns(worker'[w], entries')
    BY <1>7, IdleState
  <2> QED BY <2>1, <2>2 DEF Workers
<1>9. Exclusion'
  BY <1>7 DEF Exclusion
<1>10. Ghosts'
  BY <1>1, <1>7 DEF Ghosts, Only
<1> QED BY <1>4, <1>5, <1>6, <1>8, <1>9, <1>10

LEMMA StartsWithIInv ==
    ASSUME Init
    PROVE  IInv
<1>1. /\ DOMAIN entries = {Root + 1}
      /\ entries[Root + 1] = [size |-> 0, key |-> 0]
      /\ entries = [i \in DOMAIN entries |-> entries[i]]
      /\ disk = entries
  BY DEF Init
<1>2. Root \in Nat /\ Root + 1 \in Ino
  BY InoIsNat DEF Root
<1>3. [size |-> 0, key |-> 0] \in Entry
  BY InoIsNat DEF Entry
<1>4. Table(entries)
  BY <1>1, <1>2, <1>3 DEF Table
<1>5. Types
  <2>1. next_ino \in Nat /\ \A i \in DOMAIN entries : i < next_ino
    BY <1>1, <1>2 DEF Init
  <2>2. Table(disk)
    BY <1>1, <1>4
  <2>3. reqs \in 0 .. MaxReqs
    BY InoIsNat DEF Init
  <2> QED BY <1>4, <2>1, <2>2, <2>3 DEF Types, Init
<1>6. Clean /\ DownIsQuiet
  BY <1>1 DEF Clean, DownIsQuiet, Agree, Init
<1>7. Jobs
  BY DEF Jobs, Init
<1>8. \A w \in Worker : worker[w] = Idle /\ worker[w].pc \notin Editing
  BY DEF Init, Idle, Editing
<1>9. Workers
  <2>1. worker = [w \in Worker |-> worker[w]]
    BY DEF Init
  <2> QED BY <1>8, <2>1, IdleState DEF Workers
<1>10. Exclusion
  BY <1>8 DEF Exclusion
<1>11. Ghosts
  BY <1>1 DEF Ghosts, Init, Only
<1> QED BY <1>5, <1>6, <1>7, <1>9, <1>10, <1>11 DEF IInv

LEMMA StutterKeeps ==
    ASSUME IInv, UNCHANGED vars
    PROVE  IInv'
<1>1. UNCHANGED <<entries, next_ino, dirty, disk, data, queue, worker, session, reqs, content, unsaved, synced>>
  BY DEF vars, mem, aux
<1> USE DEF IInv
<1>2. Types' /\ Clean'
  BY <1>1 DEF Types, Table, Clean
<1>3. Jobs' /\ Workers'
  BY <1>1 DEF Jobs, Workers
<1>4. Exclusion' /\ DownIsQuiet' /\ Ghosts'
  BY <1>1 DEF Exclusion, DownIsQuiet, Ghosts
<1> QED BY <1>2, <1>3, <1>4

LEMMA NextKeepsIInv ==
    ASSUME IInv, [Next]_vars
    PROVE  IInv'
<1>1. CASE UNCHANGED vars
  BY <1>1, StutterKeeps
<1>2. ASSUME NEW ino \in Ino,
             \/ \E op \in ReadOps : read(ino, op)
             \/ \E op \in WriteOps : write(ino, op)
             \/ \E size \in Sizes : setattr(ino, size)
             \/ SaveAttributes(ino)
             \/ unlink(ino)
             \/ fsync(ino)
      PROVE  IInv'
  BY <1>2, readKeeps, writeKeeps, setattrKeeps, SaveAttributesKeeps, unlinkKeeps, fsyncKeeps
<1>3. ASSUME NEW w \in Worker, WorkerStep(w) PROVE IInv'
  BY <1>3, TakeKeeps, ReadLockedKeeps, ReadReplyKeeps, WriteLockedKeeps, OpenDataKeeps,
     TransferKeeps, CommitWriteKeeps, ApplySetattrKeeps, CommitGoneKeeps DEF WorkerStep
<1>4. CASE create \/ fsyncdir
  BY <1>4, createKeeps, fsyncdirKeeps
<1>5. CASE SessionStep \/ Close \/ Kill \/ Mount
  BY <1>5, FsyncLockedKeeps, DropFlushKeeps, DropJoinKeeps, CloseKeeps, KillKeeps, MountKeeps
     DEF SessionStep
<1> QED BY <1>1, <1>2, <1>3, <1>4, <1>5 DEF Next

-----------------------------------------------------------------------------

\* The inductive invariant holds in every behaviour, whatever the scheduling.
THEOREM Invariance == Spec => []IInv
<1>1. Init => IInv
  BY StartsWithIInv
<1>2. IInv /\ [Next]_vars => IInv'
  BY NextKeepsIInv
<1> QED BY <1>1, <1>2, PTL DEF Spec

\* Tables, locks and ghosts keep their types, and every inode number in the table
\* is below the counter.
THEOREM TypeCorrect == Spec => []TypeOK
<1>1. IInv => TypeOK
  <2> SUFFICES ASSUME IInv PROVE TypeOK
    OBVIOUS
  <2> USE DEF IInv
  <2>1. /\ DOMAIN entries \subseteq Ino /\ DOMAIN disk \subseteq Ino /\ DOMAIN data = Ino
        /\ dirty \in BOOLEAN
        /\ session \in {"idle", "fsync", "drop", "join", "down"}
        /\ \A i \in DOMAIN entries : i < next_ino /\ entries[i] \in [size : Nat, key : 0 .. MaxReqs]
    BY DEF Types, Table, Entry
  <2>2. \A w \in Worker : worker[w].pc \in {"idle", "lock", "read", "open", "transfer", "commit"}
    BY Shapes DEF Workers, Editing
  <2>3. DOMAIN content \subseteq Ino /\ DOMAIN synced \subseteq Ino /\ unsaved \subseteq Ino
    BY <2>1 DEF Ghosts, Types
  <2> QED BY <2>1, <2>2, <2>3 DEF TypeOK
<1> QED BY <1>1, Invariance, PTL

\* A write or truncate commits to the entry it has copied: between its lock and its
\* commit no other request gives the file another size or key, though unlink takes
\* no lock of the file.
THEOREM CommitsToItsOwn == Spec => []WriterOwnsEntry
<1>1. IInv => WriterOwnsEntry
  BY DEF IInv, Workers, Owns, Editing, WriterOwnsEntry
<1> QED BY <1>1, Invariance, PTL

\* A clean index is on disk but for the files whose own save failed: fsync, close and
\* unmount miss no commit to any other.
THEOREM CleanIsSaved == Spec => []CleanMeansSaved
<1>1. IInv => CleanMeansSaved
  <2> SUFFICES ASSUME IInv, session # "down", ~dirty
               PROVE  Only(disk, Ino \ unsaved) = Only(entries, Ino \ unsaved)
    BY DEF CleanMeansSaved
  <2>1. Agree(disk, entries, unsaved)
    BY DEF IInv, Clean
  <2>2. DOMAIN disk \cap (Ino \ unsaved) = DOMAIN entries \cap (Ino \ unsaved)
    BY <2>1 DEF Agree
  <2>3. \A i \in DOMAIN disk \cap (Ino \ unsaved) : disk[i] = entries[i]
    BY <2>1 DEF Agree
  <2> QED BY <2>2, <2>3 DEF Only
<1> QED BY <1>1, Invariance, PTL

-----------------------------------------------------------------------------
(* The bytes.  A second induction, on top of the first, about what is in the *)
(* data files.                                                               *)

LEMMA GoodFileStays ==
    ASSUME NEW f, NEW r \in Nat, NEW r2 \in Nat, r <= r2, GoodFile(f, r)
    PROVE  GoodFile(f, r2)
  BY DEF GoodFile

\* Blocks that a writer with a drawn key re-seals leave a good file.
LEMMA ResealedIsGood ==
    ASSUME NoFileIsMissing, NEW r \in Nat, NEW f, f # Missing, GoodFile(f, r), NEW key \in 0 .. r,
           NEW plan, plan.from \in Nat, NEW k \in Nat
    PROVE  /\ Resealed(f, key, plan, k) # Missing
           /\ GoodFile(Resealed(f, key, plan, k), r)
<1> DEFINE g == Resealed(f, key, plan, k)
           S == plan.from .. k - 1
<1>1. S \subseteq Nat
  OBVIOUS
<1>2. g = [j \in DOMAIN f \cup S |-> IF j \in S THEN Sealed(key, j, edited(f, plan, j)) ELSE f[j]]
  BY DEF Resealed
<1> HIDE DEF g, S
<1>3. /\ g = [b \in DOMAIN g |-> g[b]]
      /\ DOMAIN g \subseteq Nat
  BY <1>1, <1>2 DEF GoodFile
<1>4. \A b \in DOMAIN g : g[b].key \in 0 .. r
  BY <1>2 DEF GoodFile, Sealed
<1> QED BY <1>3, <1>4 DEF GoodFile, NoFileIsMissing, g

LEMMA SetLenIsGood ==
    ASSUME NoFileIsMissing, NEW r \in Nat, NEW f, f # Missing, GoodFile(f, r), NEW n \in Nat
    PROVE  /\ set_len(f, n) # Missing
           /\ GoodFile(set_len(f, n), r)
<1> DEFINE g == set_len(f, n)
<1>1. g = [j \in DOMAIN f \cap (0 .. n - 1) |-> f[j]]
  BY DEF set_len
<1> HIDE DEF g
<1>2. /\ g = [b \in DOMAIN g |-> g[b]]
      /\ DOMAIN g \subseteq Nat
  BY <1>1 DEF GoodFile
<1>3. \A b \in DOMAIN g : g[b].key \in 0 .. r
  BY <1>1 DEF GoodFile
<1> QED BY <1>2, <1>3 DEF GoodFile, NoFileIsMissing, g

LEMMA AppliedIsGood ==
    ASSUME NoFileIsMissing, NEW r \in Nat, NEW f, f # Missing, GoodFile(f, r), NEW key \in 0 .. r,
           NEW plan, plan.from \in Nat, plan.until \in Nat
    PROVE  /\ Applied(f, key, plan) # Missing
           /\ GoodFile(Applied(f, key, plan), r)
<1> DEFINE g == Resealed(f, key, plan, plan.until)
           n == plan.until
<1>1. g # Missing /\ GoodFile(g, r) /\ n \in Nat
  BY ResealedIsGood
<1>2. Applied(f, key, plan) = set_len(g, n) \/ Applied(f, key, plan) = f
  BY DEF Applied, open_rw
<1> HIDE DEF g, n
<1>3. set_len(g, n) # Missing /\ GoodFile(set_len(g, n), r)
  BY <1>1, SetLenIsGood
<1> QED BY <1>2, <1>3

LEMMA EmptyIsGood ==
    ASSUME NoFileIsMissing, NEW r
    PROVE  /\ Empty # Missing
           /\ GoodFile(Empty, r)
<1>1. Empty = [b \in DOMAIN Empty |-> Empty[b]] /\ DOMAIN Empty = {}
  BY DEF Empty
<1> QED BY <1>1 DEF GoodFile, NoFileIsMissing

\* No bytes: nothing of what an earlier file left behind opens under the new key.
LEMMA NothingKept ==
    ASSUME NEW f, NEW key, f # Missing => \A b \in DOMAIN f : b \in Nat /\ f[b].key # key
    PROVE  Kept(f, key, <<>>)
<1>1. \A i \in Nat : ~(i * B < Len(<<>>))
  BY Multiple
<1>2. <<>> \in Seq(Nat)
  OBVIOUS
<1> QED BY <1>1, <1>2 DEF Kept, Stores

LEMMA OpenedIsKept ==
    ASSUME NEW f, NEW key, NEW c, Kept(f, key, c)
    PROVE  Kept(open_rw(f), key, c)
<1>1. CASE f = Missing
  <2>1. open_rw(f) = Empty /\ c = <<>>
    BY <1>1 DEF open_rw, Kept
  <2>2. DOMAIN Empty = {}
    BY DEF Empty
  <2>3. Kept(Empty, key, <<>>)
    BY <2>2, NothingKept
  <2> QED BY <2>1, <2>3
<1>2. CASE f # Missing
  BY <1>2 DEF open_rw
<1> QED BY <1>1, <1>2

\* A plan that does not open the file changes no byte.
LEMMA AfterNothing ==
    ASSUME NEW c \in Seq(Nat), NEW plan, SoundPlan(plan, Nat), plan.old = Len(c), ~Opens(plan)
    PROVE  After(c, plan) = c
<1>1. plan.new = Len(c) /\ plan.offset = Len(c) /\ plan.data = <<>>
  BY DEF SoundPlan, Opens
<1>2. \A q \in 1 .. Len(c) : ~Covers(plan, q) /\ q <= plan.old
  BY <1>1 DEF Covers
<1>3. After(c, plan) = [q \in 1 .. Len(c) |-> c[q]]
  BY <1>1, <1>2 DEF After, ByteAfter
<1> QED BY <1>3

\* The ghost of a commit is what the block format promises.
LEMMA BytewiseIsAfter ==
    ASSUME NEW c, NEW plan, plan.old = Len(c)
    PROVE  Bytewise(c, plan) = After(c, plan)
  BY DEF Bytewise, After, ByteAfter, Covers

\* A completed block loop leaves the changed bytes.
LEMMA AppliedIsKept ==
    ASSUME NoFileIsMissing, NEW r \in Nat, NEW f, f # Missing, GoodFile(f, r), NEW key \in 0 .. r,
           NEW c, Kept(f, key, c), NEW plan, SoundPlan(plan, Nat), plan.old = Len(c)
    PROVE  Kept(Applied(f, key, plan), key, After(c, plan))
<1>1. Stores(f, key, c, Nat)
  BY DEF Kept
<1>2. CASE Opens(plan)
  <2>1. Stores(Applied(f, key, plan), key, After(c, plan), Nat)
    BY <1>1, <1>2, StoredAfterPlan
  <2>2. plan.from \in Nat /\ plan.until \in Nat
    BY BlockCount DEF SoundPlan
  <2>3. Applied(f, key, plan) # Missing
    BY <2>2, AppliedIsGood
  <2> QED BY <2>1, <2>3 DEF Kept
<1>3. CASE ~Opens(plan)
  <2>1. c \in Seq(Nat)
    BY <1>1 DEF Stores
  <2>2. After(c, plan) = c
    BY <2>1, <1>3, AfterNothing
  <2>3. Applied(f, key, plan) = f
    BY <1>3 DEF Applied, Opens, SoundPlan
  <2> QED BY <2>2, <2>3
<1> QED BY <1>2, <1>3

-----------------------------------------------------------------------------
(* Steps and bytes *)

LEMMA StoredStays ==
    ASSUME NEW i, StoredAt(i), content'[i] = content[i], entries'[i] = entries[i], data'[i] = data[i],
           \A w \in Worker : (worker'[w].pc = "commit" /\ worker'[w].job.ino = i)
                              <=> (worker[w].pc = "commit" /\ worker[w].job.ino = i),
           \A w \in Worker : worker'[w].pc = "commit" /\ worker'[w].job.ino = i
                              => worker'[w].plan = worker[w].plan
    PROVE  StoredAt(i)'
  BY DEF StoredAt

\* Keys and numbers that the arithmetic of the steps below needs.
LEMMA Numbers ==
    ASSUME IInv
    PROVE  /\ reqs \in Nat
           /\ \A i \in DOMAIN entries : entries[i].key \in Nat /\ i \in Ino
           /\ \A i \in DOMAIN disk : disk[i].key \in Nat /\ i \in Ino
           /\ \A w \in Worker : worker[w].pc \in Editing =>
                worker[w].entry.key \in Nat /\ worker[w].job.ino \in Ino
<1>1. reqs \in Nat
  BY DEF IInv, Types
<1>2. Table(entries) /\ Table(disk)
  BY DEF IInv, Types
<1>3. \A e \in Entry : e.key \in Nat
  BY DEF Entry
<1>4. ASSUME NEW w \in Worker, worker[w].pc \in Editing
      PROVE  worker[w].entry.key \in Nat /\ worker[w].job.ino \in Ino
  <2>1. worker[w].entry \in Entry /\ worker[w].job \in EditJob
    BY <1>4, Shapes DEF IInv, Workers
  <2> QED BY <2>1, <1>3 DEF EditJob
<1> QED BY <1>1, <1>2, <1>3, <1>4 DEF Table

\* A step that changes no table in memory, no data file and no bytes, and lets no
\* worker come to its transfer or leave its commit on a file of the table.
LEMMA QuietKeeps ==
    ASSUME IInv, DInv, UNCHANGED <<entries, data, content>>,
           reqs' \in {reqs, reqs + 1}, disk' \in {disk, entries},
           \A w \in Worker :
              \/ worker'[w] = worker[w]
              \/ /\ worker'[w].pc \notin {"transfer", "commit"}
                 /\ worker[w].pc = "commit" => worker[w].job.ino \notin DOMAIN entries
                 /\ worker'[w].pc \in Editing => worker'[w].entry.key <= reqs,
           \A i \in DOMAIN synced' :
              \/ i \in DOMAIN synced /\ synced'[i] = synced[i]
              \/ i \in DOMAIN content /\ synced'[i] = content[i],
           \A w \in Worker : worker'[w].pc \in Editing => worker'[w].entry.key \in Nat
    PROVE  DInv'
<1> USE DEF DInv
<1>1. reqs \in Nat /\ reqs' \in Nat /\ reqs <= reqs' /\ \A n \in Nat : n <= reqs => n <= reqs'
  BY Numbers
<1>2. Drawn'
  <2>1. \A i \in DOMAIN entries' : entries'[i].key <= reqs'
    BY <1>1, Numbers DEF Drawn
  <2>2. \A i \in DOMAIN disk' : disk'[i].key <= reqs'
    BY <1>1, Numbers DEF Drawn
  <2>3. \A w \in Worker : worker'[w].pc \in Editing => worker'[w].entry.key <= reqs'
    BY <1>1, Numbers DEF Drawn
  <2>4. \A i \in Ino : GoodFile(data'[i], reqs')
    BY <1>1, GoodFileStays DEF Drawn
  <2>5. \A w \in Worker :
          worker'[w].pc = "transfer" /\ worker'[w].own = Missing => data'[worker'[w].job.ino] # Missing
    BY DEF Drawn
  <2> QED BY <2>1, <2>2, <2>3, <2>4, <2>5 DEF Drawn
<1>3. Stored'
  <2>1. DOMAIN content \subseteq DOMAIN entries
    BY DEF IInv, Ghosts
  <2>2. ASSUME NEW i \in DOMAIN content PROVE StoredAt(i)'
    <3>1. StoredAt(i)
      BY DEF Stored
    <3>2. \A w \in Worker : (worker'[w].pc = "commit" /\ worker'[w].job.ino = i)
                              => worker'[w] = worker[w]
      OBVIOUS
    <3>3. \A w \in Worker : (worker[w].pc = "commit" /\ worker[w].job.ino = i)
                              => worker'[w] = worker[w]
      BY <2>1
    <3> QED BY <3>1, <3>2, <3>3, StoredStays
  <2> QED BY <2>2 DEF Stored
<1>4. SyncedStored'
  BY DEF SyncedStored
<1> QED BY <1>2, <1>3, <1>4

\* The session thread changes no file and no worker.
LEMMA SessionBytes ==
    ASSUME IInv, DInv,
           \/ \E ino \in Ino : \/ \E op \in ReadOps : read(ino, op)
                               \/ \E op \in WriteOps : write(ino, op)
                               \/ \E size \in Sizes : setattr(ino, size)
                               \/ SaveAttributes(ino)
                               \/ fsync(ino)
           \/ fsyncdir \/ FsyncLocked \/ DropFlush \/ DropJoin \/ Close
    PROVE  DInv'
<1>1. UNCHANGED <<entries, data, content, worker>>
  BY DEF read, write, setattr, Enqueue, SaveAttributes, fsync, fsyncdir, FsyncLocked, FsyncAnswered,
         DropFlush, DropJoin, Close, mem
<1>2. reqs' \in {reqs, reqs + 1}
  BY DEF read, write, setattr, Enqueue, SaveAttributes, fsync, fsyncdir, FsyncLocked, FsyncAnswered,
         DropFlush, DropJoin, Close, Request, aux
<1>3. disk' \in {disk, entries}
  BY DEF read, write, setattr, Enqueue, SaveAttributes, fsync, fsyncdir, FsyncLocked, FsyncAnswered,
         DropFlush, DropJoin, Close, flush_index, save_index
<1>4. \A i \in DOMAIN synced' :
        \/ i \in DOMAIN synced /\ synced'[i] = synced[i]
        \/ i \in DOMAIN content /\ synced'[i] = content[i]
  <2>1. synced' = synced \/ (target \in DOMAIN content /\ synced' = Put(synced, target, content[target]))
    BY DEF read, write, setattr, Enqueue, SaveAttributes, fsync, fsyncdir, FsyncLocked, FsyncAnswered,
           DropFlush, DropJoin, Close
  <2> QED BY <2>1 DEF Put
<1>5. \A w \in Worker : worker'[w].pc \in Editing => worker'[w].entry.key \in Nat
  BY <1>1, Numbers
<1> QED BY <1>1, <1>2, <1>3, <1>4, <1>5, QuietKeeps

\* The steps of a worker before it has opened the data file, and its last one when
\* the entry is gone.
LEMMA WaitingBytes ==
    ASSUME IInv, DInv, NEW w \in Worker,
           Take(w) \/ ReadLocked(w) \/ ReadReply(w) \/ WriteLocked(w) \/ CommitGone(w)
    PROVE  DInv'
<1>1. UNCHANGED <<entries, data, content, disk, reqs>>
  BY DEF Take, ReadLocked, ReadReply, WriteLocked, CommitGone, mem, aux
<1>2. \A v \in Worker \ {w} : worker'[v] = worker[v]
  BY DEF Take, ReadLocked, ReadReply, WriteLocked, CommitGone, Become, IInv, Workers
<1>3. worker[w].pc = "commit" => worker[w].job.ino \notin DOMAIN entries
  BY DEF Take, ReadLocked, ReadReply, WriteLocked, CommitGone, Idle
<1>4. /\ worker'[w].pc \notin {"transfer", "commit"}
      /\ worker'[w].pc \in Editing => worker'[w].entry.key <= reqs /\ worker'[w].entry.key \in Nat
  <2>1. CASE Take(w)
    <3>1. worker'[w] = [pc |-> "lock", job |-> Head(queue)]
      BY <2>1 DEF Take, Become, IInv, Workers
    <3> QED BY <3>1 DEF Editing
  <2>2. CASE ReadReply(w) \/ CommitGone(w)
    <3>1. worker'[w] = Idle
      BY <2>2 DEF ReadReply, CommitGone, Become, IInv, Workers
    <3> QED BY <3>1 DEF Editing, Idle
  <2>3. CASE ReadLocked(w)
    <3>1. worker'[w] = Idle \/ worker'[w] = [worker[w] EXCEPT !.pc = "read"]
      BY <2>3 DEF ReadLocked, Become, IInv, Workers
    <3>2. worker[w] = [pc |-> worker[w].pc, job |-> worker[w].job]
      BY <2>3, Shapes DEF ReadLocked, IInv, Workers
    <3> QED BY <3>1, <3>2 DEF Editing, Idle
  <2>4. CASE WriteLocked(w)
    <3> DEFINE job == worker[w].job
               e == entries[job.ino]
               plan == Plan(job, e.size)
    <3> HIDE DEF plan
    <3>1. \/ worker'[w] = Idle
          \/ /\ job.ino \in DOMAIN entries
             /\ worker'[w] = [pc |-> "open", job |-> job, entry |-> e, plan |-> plan, own |-> Missing]
      BY <2>4 DEF WriteLocked, Become, IInv, Workers, plan
    <3>2. job.ino \in DOMAIN entries => e.key \in Nat /\ e.key <= reqs
      BY Numbers DEF DInv, Drawn
    <3> QED BY <3>1, <3>2 DEF Editing, Idle
  <2> QED BY <2>1, <2>2, <2>3, <2>4
<1>5. \A i \in DOMAIN synced' : i \in DOMAIN synced /\ synced'[i] = synced[i]
  BY DEF Take, ReadLocked, ReadReply, WriteLocked, CommitGone, Only
<1>6. \A v \in Worker : worker'[v].pc \in Editing => worker'[v].entry.key \in Nat
  BY <1>2, <1>4, Numbers
<1> QED BY <1>1, <1>2, <1>3, <1>4, <1>5, <1>6, QuietKeeps

\* A step of a writer at its data file touches no other file: all that is left to
\* show is about that file.
LEMMA WriterBytes ==
    ASSUME IInv, DInv, NEW w \in Worker, worker[w].pc \in Editing,
           NEW ino, ino = worker[w].job.ino,
           UNCHANGED <<entries, content, disk, reqs, synced>>,
           \A i \in Ino \ {ino} : data'[i] = data[i],
           \A v \in Worker \ {w} : worker'[v] = worker[v],
           worker'[w].pc \in Editing => worker'[w].job = worker[w].job /\ worker'[w].entry = worker[w].entry,
           GoodFile(data'[ino], reqs),
           worker'[w].pc = "transfer" /\ worker'[w].own = Missing => data'[ino] # Missing,
           ino \in DOMAIN content => StoredAt(ino)'
    PROVE  DInv'
<1> USE DEF DInv
<1>1. "commit" \in Editing /\ "transfer" \in Editing
  BY DEF Editing
<1>2. \A v \in Worker \ {w} : worker[v].pc \in Editing => worker[v].job.ino # ino /\ worker[v].job.ino \in Ino
  BY Numbers DEF IInv, Exclusion
<1>3. Drawn'
  <2>1. /\ \A i \in DOMAIN entries' : entries'[i].key <= reqs'
        /\ \A i \in DOMAIN disk' : disk'[i].key <= reqs'
    BY DEF Drawn
  <2>2. \A v \in Worker : worker'[v].pc \in Editing => worker'[v].entry.key <= reqs'
    BY DEF Drawn
  <2>3. \A i \in Ino : GoodFile(data'[i], reqs')
    BY DEF Drawn
  <2>4. ASSUME NEW v \in Worker, worker'[v].pc = "transfer", worker'[v].own = Missing
        PROVE  data'[worker'[v].job.ino] # Missing
    <3>1. CASE v = w
      BY <3>1, <2>4, <1>1
    <3>2. CASE v # w
      <4>1. worker'[v] = worker[v] /\ worker[v].pc = "transfer" /\ worker[v].own = Missing
        BY <3>2, <2>4
      <4>2. data[worker[v].job.ino] # Missing
        BY <4>1 DEF Drawn
      <4>3. data'[worker[v].job.ino] = data[worker[v].job.ino]
        BY <4>1, <3>2, <1>1, <1>2
      <4> QED BY <4>1, <4>2, <4>3
    <3> QED BY <3>1, <3>2
  <2> QED BY <2>1, <2>2, <2>3, <2>4 DEF Drawn
<1>4. Stored'
  <2>1. ASSUME NEW i \in DOMAIN content, i # ino PROVE StoredAt(i)'
    <3>1. StoredAt(i) /\ i \in Ino
      BY Numbers DEF Stored, IInv, Ghosts
    <3>2. data'[i] = data[i]
      BY <2>1, <3>1
    <3>3. worker'[w].pc = "commit" => worker'[w].job.ino # i
      BY <2>1, <1>1
    <3> QED BY <2>1, <3>1, <3>2, <3>3, StoredStays
  <2> QED BY <2>1 DEF Stored
<1>5. SyncedStored'
  BY DEF SyncedStored
<1> QED BY <1>3, <1>4, <1>5

\* The bytes of the file a writer is at, before it commits.
LEMMA WriterFinds ==
    ASSUME IInv, DInv, NEW w \in Worker, worker[w].pc \in {"open", "transfer"},
           worker[w].job.ino \in DOMAIN content
    PROVE  /\ content[worker[w].job.ino] \in Seq(Nat)
           /\ entries[worker[w].job.ino] = worker[w].entry
           /\ worker[w].own = Missing
           /\ Len(content[worker[w].job.ino]) = worker[w].plan.old
           /\ Kept(data[worker[w].job.ino], worker[w].entry.key, content[worker[w].job.ino])
<1> DEFINE ino == worker[w].job.ino
<1>1. worker[w].pc \in Editing /\ "commit" \in Editing
  BY DEF Editing
<1>2. ino \in DOMAIN entries
  BY DEF IInv, Ghosts
<1>3. entries[ino] = worker[w].entry /\ worker[w].own = Missing
  BY <1>1, <1>2 DEF IInv, Workers, Owns
<1>4. worker[w].plan.old = worker[w].entry.size
  BY <1>1, PlanIsSound DEF IInv, Workers
<1>5. \A v \in Worker : ~(worker[v].pc = "commit" /\ worker[v].job.ino = ino)
  BY <1>1 DEF IInv, Exclusion
<1>6. StoredAt(ino)
  BY DEF DInv, Stored
<1> QED BY <1>3, <1>4, <1>5, <1>6 DEF StoredAt

LEMMA OpenDataBytes ==
    ASSUME NoFileIsMissing, IInv, DInv, NEW w \in Worker, OpenData(w)
    PROVE  DInv'
<1> DEFINE s == worker[w]
<1>0. PICK ino : ino = worker[w].job.ino
  OBVIOUS
<1> USE <1>0
<1>1. /\ UNCHANGED <<entries, content, disk, reqs, synced>>
      /\ s.pc = "open" /\ s.pc \in Editing
  BY DEF OpenData, mem, aux, Editing
<1>2. ino \in Ino
  BY <1>1, Numbers
<1>3. /\ s = [pc |-> s.pc, job |-> s.job, entry |-> s.entry, plan |-> s.plan, own |-> s.own]
      /\ SoundPlan(s.plan, Nat)
  BY <1>1, Shapes, PlanIsSound DEF IInv, Workers
<1>4. s.plan.opens <=> Opens(s.plan)
  BY <1>3, Zenon DEF SoundPlan, Opens
<1>5. worker'[w] = [s EXCEPT !.pc = IF s.plan.opens THEN "transfer" ELSE "commit"]
  BY DEF OpenData, Become, IInv, Workers
<1>6. \A v \in Worker \ {w} : worker'[v] = worker[v]
  BY DEF OpenData, Become, IInv, Workers
<1>7. data' = IF s.plan.opens THEN [data EXCEPT ![ino] = open_rw(@)] ELSE data
  BY DEF OpenData
<1>8. data = [i \in Ino |-> data[i]] /\ GoodFile(data[ino], reqs)
  BY <1>2 DEF IInv, Types, DInv, Drawn
<1>9. ino \in DOMAIN content =>
        /\ content[ino] \in Seq(Nat)
        /\ entries[ino] = s.entry
        /\ Len(content[ino]) = s.plan.old
        /\ Kept(data[ino], s.entry.key, content[ino])
        /\ Len(content[ino]) = entries[ino].size
  BY <1>1, WriterFinds DEF DInv, Stored, StoredAt
<1>10. \A v \in Worker \ {w} : ~(worker[v].pc = "commit" /\ worker[v].job.ino = ino)
  BY <1>1 DEF IInv, Exclusion, Editing
<1>11. CASE Opens(s.plan)
  <2>1. /\ worker'[w] = [s EXCEPT !.pc = "transfer"]
        /\ data' = [data EXCEPT ![ino] = open_rw(@)]
    BY <1>11, <1>4, <1>5, <1>7
  <2>2. /\ worker'[w].pc = "transfer" /\ worker'[w].job = s.job /\ worker'[w].entry = s.entry
    BY <2>1, <1>3
  <2>3. data'[ino] = open_rw(data[ino]) /\ \A i \in Ino \ {ino} : data'[i] = data[i]
    BY <2>1, <1>2, <1>8
  <2>4. data'[ino] # Missing /\ GoodFile(data'[ino], reqs)
    BY <2>3, <1>8, EmptyIsGood DEF open_rw
  <2>5. ino \in DOMAIN content => StoredAt(ino)'
    <3>1. ino \in DOMAIN content => Kept(data'[ino], s.entry.key, content[ino])
      BY <2>3, <1>9, OpenedIsKept
    <3>2. \A v \in Worker : ~(worker'[v].pc = "commit" /\ worker'[v].job.ino = ino)
      BY <2>2, <1>6, <1>10
    <3> QED BY <3>1, <3>2, <1>1, <1>9 DEF StoredAt
  <2> QED BY <1>1, <1>6, <2>2, <2>3, <2>4, <2>5, WriterBytes
<1>12. CASE ~Opens(s.plan)
  <2>1. /\ worker'[w] = [s EXCEPT !.pc = "commit"]
        /\ data' = data
    BY <1>12, <1>4, <1>5, <1>7
  <2>2. /\ worker'[w].pc = "commit" /\ worker'[w].job = s.job /\ worker'[w].entry = s.entry
        /\ worker'[w].plan = s.plan
    BY <2>1, <1>3
  <2>3. GoodFile(data'[ino], reqs) /\ worker'[w].pc # "transfer"
    BY <2>1, <2>2, <1>8
  <2>4. ino \in DOMAIN content => StoredAt(ino)'
    <3>1. ino \in DOMAIN content => After(content[ino], s.plan) = content[ino]
      BY <1>3, <1>9, <1>12, AfterNothing
    <3>2. \A v \in Worker : worker'[v].pc = "commit" /\ worker'[v].job.ino = ino => v = w
      BY <1>6, <1>10
    <3>3. worker'[w].pc = "commit" /\ worker'[w].job.ino = ino /\ worker'[w].plan = s.plan
      BY <2>2
    <3>4. ino \in DOMAIN content =>
            /\ Kept(data'[ino], entries'[ino].key, After(content'[ino], s.plan))
            /\ content'[ino] \in Seq(Nat) /\ Len(content'[ino]) = entries'[ino].size
      BY <3>1, <2>1, <1>1, <1>9
    <3> HIDE DEF s
    <3> QED BY <3>2, <3>3, <3>4 DEF StoredAt
  <2> QED BY <1>1, <1>6, <2>1, <2>2, <2>3, <2>4, WriterBytes
<1> QED BY <1>11, <1>12

LEMMA TransferBytes ==
    ASSUME NoFileIsMissing, IInv, DInv, NEW w \in Worker, Transfer(w)
    PROVE  DInv'
<1>0. PICK ino : ino = worker[w].job.ino
  OBVIOUS
<1> USE <1>0
<1> DEFINE s == worker[w]
           key == s.entry.key
           plan == s.plan
           f == data[ino]
<1>1. /\ UNCHANGED <<entries, content, disk, reqs, synced>>
      /\ s.pc = "transfer" /\ s.pc \in Editing
  BY DEF Transfer, mem, aux, Editing
<1>2. ino \in Ino /\ key \in Nat /\ reqs \in Nat
  BY <1>1, Numbers
<1>3. /\ s = [pc |-> s.pc, job |-> s.job, entry |-> s.entry, plan |-> s.plan, own |-> s.own]
      /\ SoundPlan(plan, Nat)
  BY <1>1, Shapes, PlanIsSound DEF IInv, Workers
<1>4. plan.from \in Nat /\ plan.until \in Nat /\ plan.from <= plan.until
  BY <1>3, BlockCount DEF SoundPlan
<1>5. PICK k \in plan.from .. plan.until :
        /\ Stops(Opened(w), key, plan, k)
        /\ data' = IF s.own = Missing
                   THEN [data EXCEPT ![ino] = IF k = plan.until
                                              THEN Applied(Opened(w), key, plan)
                                              ELSE Resealed(Opened(w), key, plan, k)]
                   ELSE data
        /\ worker' = [worker EXCEPT ![w] = IF k = plan.until THEN [s EXCEPT !.pc = "commit"] ELSE Idle]
  BY DEF Transfer, Become
<1>6. k \in Nat
  BY <1>4
<1>7. /\ worker'[w] = IF k = plan.until THEN [s EXCEPT !.pc = "commit"] ELSE Idle
      /\ \A v \in Worker \ {w} : worker'[v] = worker[v]
  BY <1>5 DEF IInv, Workers
<1>8. /\ k = plan.until => /\ worker'[w].pc = "commit"
                           /\ worker'[w].job = s.job /\ worker'[w].entry = s.entry
                           /\ worker'[w].plan = plan
      /\ k # plan.until => worker'[w].pc = "idle"
  BY <1>3, <1>7 DEF Idle
<1>9. /\ worker'[w].pc # "transfer"
      /\ worker'[w].pc \in Editing => worker'[w].job = s.job /\ worker'[w].entry = s.entry
  BY <1>8 DEF Editing
<1>10. data = [i \in Ino |-> data[i]] /\ GoodFile(f, reqs) /\ key <= reqs
  BY <1>1, <1>2 DEF IInv, Types, DInv, Drawn
<1>11. \A v \in Worker \ {w} : ~(worker[v].pc = "commit" /\ worker[v].job.ino = ino)
  BY <1>1 DEF IInv, Exclusion, Editing
<1>12. CASE s.own = Missing
  <2> DEFINE g == IF k = plan.until THEN Applied(f, key, plan) ELSE Resealed(f, key, plan, k)
  <2>1. f # Missing
    BY <1>1, <1>12 DEF DInv, Drawn
  <2>2. data' = [data EXCEPT ![ino] = g]
    BY <1>5, <1>12 DEF Opened
  <2>3. key \in 0 .. reqs
    BY <1>2, <1>10
  <2>4. GoodFile(g, reqs)
    <3>1. GoodFile(Applied(f, key, plan), reqs)
      BY <1>2, <1>4, <1>10, <2>1, <2>3, AppliedIsGood
    <3>2. GoodFile(Resealed(f, key, plan, k), reqs)
      BY <1>2, <1>4, <1>6, <1>10, <2>1, <2>3, ResealedIsGood
    <3> QED BY <3>1, <3>2
  <2>5. data'[ino] = g /\ \A i \in Ino \ {ino} : data'[i] = data[i]
    BY <2>2, <1>2, <1>10
  <2>6. ino \in DOMAIN content => StoredAt(ino)'
    <3> SUFFICES ASSUME ino \in DOMAIN content PROVE StoredAt(ino)'
      OBVIOUS
    <3> DEFINE c == content[ino]
    <3>1. /\ c \in Seq(Nat) /\ entries[ino] = s.entry /\ Len(c) = plan.old
          /\ Kept(f, key, c) /\ Len(c) = entries[ino].size
      BY <1>1, WriterFinds DEF DInv, Stored, StoredAt
    <3>2. Stores(f, key, c, Nat)
      BY <2>1, <3>1 DEF Kept
    <3>3. CanEdit(f, key, plan, k)
      BY <1>6, <3>1, <3>2, StoredIsEditable
    <3>4. k = plan.until
      BY <1>5, <1>12, <3>3 DEF Stops, Opened
    <3>5. Kept(Applied(f, key, plan), key, After(c, plan))
      BY <1>2, <1>3, <1>10, <2>1, <2>3, <3>1, AppliedIsKept
    <3>6. Kept(data'[ino], entries'[ino].key, After(content'[ino], plan))
      BY <1>1, <2>5, <3>1, <3>4, <3>5
    <3>7. \A v \in Worker : worker'[v].pc = "commit" /\ worker'[v].job.ino = ino => v = w
      BY <1>7, <1>11
    <3>8. worker'[w].pc = "commit" /\ worker'[w].job.ino = ino /\ worker'[w].plan = plan
      BY <1>8, <3>4
    <3> QED BY <1>1, <3>1, <3>6, <3>7, <3>8 DEF StoredAt
  <2>7. GoodFile(data'[ino], reqs)
    BY <2>4, <2>5
  <2>8. \A i \in Ino \ {ino} : data'[i] = data[i]
    BY <2>5
  <2> QED BY <1>1, <1>7, <1>9, <2>6, <2>7, <2>8, WriterBytes
<1>13. CASE s.own # Missing
  <2>1. data' = data
    BY <1>5, <1>13
  <2>2. ino \notin DOMAIN content
    BY <1>1, <1>13 DEF IInv, Workers, Owns, Ghosts
  <2> QED BY <1>1, <1>7, <1>9, <1>10, <2>1, <2>2, WriterBytes
<1> QED BY <1>12, <1>13

\* A commit brings the table in line with the bytes that are already in the file.
LEMMA CommitBytes ==
    ASSUME IInv, DInv, NEW w \in Worker, Commits(w), disk' \in {disk, entries'},
           UNCHANGED <<data, reqs, synced>>
    PROVE  DInv'
<1>0. PICK ino : ino = worker[w].job.ino
  OBVIOUS
<1> USE <1>0
<1> DEFINE s == worker[w]
<1>1. /\ ino \in DOMAIN entries
      /\ DOMAIN entries' = DOMAIN entries
      /\ \A i \in DOMAIN entries : i # ino => entries'[i] = entries[i]
      /\ entries'[ino] = [size |-> s.plan.new, key |-> s.entry.key]
      /\ s.entry = entries[ino]
      /\ SoundPlan(s.plan, Nat)
      /\ s.plan.old = s.entry.size
  BY CommitsTable
<1>2. s.pc = "commit" /\ s.pc \in Editing /\ "transfer" \in Editing
  BY DEF Commits, Editing
<1>3. /\ worker'[w] = Idle
      /\ \A v \in Worker \ {w} : worker'[v] = worker[v]
  BY DEF Commits, Become, IInv, Workers
<1>4. worker'[w].pc = "idle" /\ worker'[w].pc \notin Editing
  BY <1>3 DEF Idle, Editing
<1>5. entries'[ino].key = entries[ino].key /\ entries'[ino].size = s.plan.new
  BY <1>1
<1>6. Drawn'
  <2>1. \A i \in DOMAIN entries' : entries'[i].key <= reqs'
    BY <1>1, <1>5 DEF DInv, Drawn
  <2>2. \A i \in DOMAIN disk' : disk'[i].key <= reqs'
    BY <2>1 DEF DInv, Drawn
  <2>3. \A v \in Worker : worker'[v].pc \in Editing => worker'[v].entry.key <= reqs'
    BY <1>3, <1>4 DEF DInv, Drawn
  <2>4. \A i \in Ino : GoodFile(data'[i], reqs')
    BY DEF DInv, Drawn
  <2>5. \A v \in Worker :
          worker'[v].pc = "transfer" /\ worker'[v].own = Missing => data'[worker'[v].job.ino] # Missing
    BY <1>3, <1>4 DEF DInv, Drawn
  <2> QED BY <2>1, <2>2, <2>3, <2>4, <2>5 DEF Drawn
<1>7. /\ DOMAIN content' = DOMAIN content
      /\ \A i \in DOMAIN content : i # ino => content'[i] = content[i]
      /\ ino \in DOMAIN content => content'[ino] = Bytewise(content[ino], s.plan)
  BY DEF Commits, Put
<1>8. Stored'
  <2>1. ASSUME NEW i \in DOMAIN content, i # ino PROVE StoredAt(i)'
    <3>1. StoredAt(i) /\ i \in DOMAIN entries
      BY DEF DInv, Stored, IInv, Ghosts
    <3>2. content'[i] = content[i] /\ entries'[i] = entries[i] /\ data'[i] = data[i]
      BY <2>1, <3>1, <1>1, <1>7
    <3> QED BY <2>1, <3>1, <3>2, <1>3, <1>4, StoredStays
  <2>2. ASSUME ino \in DOMAIN content PROVE StoredAt(ino)'
    <3>1. StoredAt(ino)
      BY <2>2 DEF DInv, Stored
    <3>2. content[ino] \in Seq(Nat) /\ Len(content[ino]) = s.plan.old
      BY <3>1, <1>1 DEF StoredAt
    <3>3. content'[ino] = After(content[ino], s.plan)
      BY <3>2, <2>2, <1>7, BytewiseIsAfter
    <3>4. content'[ino] \in Seq(Nat) /\ Len(content'[ino]) = entries'[ino].size
      <4>1. \A c \in Seq(Nat) : \A p :
              SoundPlan(p, Nat) /\ p.old = Len(c) => After(c, p) \in Seq(Nat) /\ Len(After(c, p)) = p.new
        BY AfterIsSeq
      <4>2. After(content[ino], s.plan) \in Seq(Nat) /\ Len(After(content[ino], s.plan)) = s.plan.new
        BY <4>1, <3>2, <1>1
      <4> QED BY <4>2, <3>3, <1>5
    <3>5. Kept(data'[ino], entries'[ino].key, content'[ino])
      BY <3>1, <3>3, <1>2, <1>5 DEF StoredAt
    <3>6. \A v \in Worker : ~(worker'[v].pc = "commit" /\ worker'[v].job.ino = ino)
      BY <1>2, <1>3, <1>4 DEF IInv, Exclusion
    <3> QED BY <3>4, <3>5, <3>6 DEF StoredAt
  <2> QED BY <2>1, <2>2, <1>7 DEF Stored
<1>9. SyncedStored'
  <2>1. ino \notin DOMAIN synced
    BY <1>2 DEF IInv, Ghosts
  <2> QED BY <2>1, <1>7 DEF DInv, SyncedStored
<1> QED BY <1>6, <1>8, <1>9 DEF DInv

\* A new file under a number that may have been used before starts empty: what the
\* earlier file left at the data path was sealed under another key.
LEMMA createBytes ==
    ASSUME IInv, DInv, create
    PROVE  DInv'
<1>0. PICK n : n = next_ino
  OBVIOUS
<1> USE <1>0
<1>1. /\ reqs' = reqs + 1 /\ n \in Ino
      /\ entries' = Put(entries, n, [size |-> 0, key |-> reqs + 1])
      /\ content' = Put(content, n, <<>>)
      /\ disk' \in {disk, entries'}
      /\ UNCHANGED <<data, worker, synced>>
  BY DEF create, Request, save_index
<1>2. reqs \in Nat /\ reqs + 1 \in Nat /\ \A k \in Nat : k <= reqs => k <= reqs + 1
  BY Numbers
<1>3. n \notin DOMAIN entries /\ n \notin DOMAIN content /\ n \in Nat
  BY DEF IInv, Types, Ghosts
<1>4. /\ DOMAIN entries' = DOMAIN entries \cup {n}
      /\ entries'[n].key = reqs + 1 /\ entries'[n].size = 0
      /\ \A i \in DOMAIN entries : entries'[i] = entries[i]
  BY <1>1, <1>3 DEF Put
<1>5. /\ DOMAIN content' = DOMAIN content \cup {n}
      /\ content'[n] = <<>>
      /\ \A i \in DOMAIN content : content'[i] = content[i]
  BY <1>1, <1>3 DEF Put
<1>6. \A w \in Worker : worker[w].pc = "commit" => worker[w].job.ino # n
  <2>1. ASSUME NEW w \in Worker, worker[w].pc = "commit" PROVE worker[w].job.ino # n
    <3>1. worker[w].pc \in Editing
      BY <2>1 DEF Editing
    <3>2. worker[w].job \in EditJob /\ worker[w].job.ino < n
      BY <3>1, Shapes DEF IInv, Workers
    <3>3. worker[w].job.ino \in Nat
      BY <3>2, InoIsNat DEF EditJob
    <3> QED BY <3>2, <3>3, <1>3
  <2> QED BY <2>1
<1>7. Drawn'
  <2>1. \A i \in DOMAIN entries' : entries'[i].key <= reqs'
    BY <1>1, <1>2, <1>4, Numbers DEF DInv, Drawn
  <2>2. \A i \in DOMAIN disk' : disk'[i].key <= reqs'
    BY <1>1, <1>2, <2>1, Numbers DEF DInv, Drawn
  <2>3. \A w \in Worker : worker'[w].pc \in Editing => worker'[w].entry.key <= reqs'
    BY <1>1, <1>2, Numbers DEF DInv, Drawn
  <2>4. \A i \in Ino : GoodFile(data'[i], reqs')
    BY <1>1, <1>2, GoodFileStays DEF DInv, Drawn
  <2>5. \A w \in Worker :
          worker'[w].pc = "transfer" /\ worker'[w].own = Missing => data'[worker'[w].job.ino] # Missing
    BY <1>1 DEF DInv, Drawn
  <2> QED BY <2>1, <2>2, <2>3, <2>4, <2>5 DEF Drawn
<1>8. Stored'
  <2>1. ASSUME NEW i \in DOMAIN content PROVE StoredAt(i)'
    <3>1. StoredAt(i) /\ i \in DOMAIN entries
      BY DEF DInv, Stored, IInv, Ghosts
    <3> QED BY <3>1, <1>1, <1>4, <1>5, StoredStays
  <2>2. StoredAt(n)'
    <3>1. GoodFile(data[n], reqs)
      BY <1>1 DEF DInv, Drawn
    <3>2. data[n] # Missing => \A b \in DOMAIN data[n] : b \in Nat /\ data[n][b].key # reqs + 1
      BY <3>1, <1>2 DEF GoodFile
    <3>3. Kept(data[n], reqs + 1, <<>>)
      BY <3>2, NothingKept
    <3>4. <<>> \in Seq(Nat) /\ Len(<<>>) = 0
      OBVIOUS
    <3> QED BY <3>3, <3>4, <1>1, <1>4, <1>5, <1>6 DEF StoredAt
  <2> QED BY <2>1, <2>2, <1>5 DEF Stored
<1>9. SyncedStored'
  BY <1>1, <1>5 DEF DInv, SyncedStored
<1> QED BY <1>7, <1>8, <1>9 DEF DInv

\* A file loses its name; a writer that has it open keeps it under none, and what
\* it goes on writing reaches no other file.
LEMMA unlinkBytes ==
    ASSUME IInv, DInv, NEW ino \in Ino, unlink(ino)
    PROVE  DInv'
<1>1. /\ reqs' = reqs + 1
      /\ entries' = Only(entries, Ino \ {ino})
      /\ content' = Only(content, Ino \ {ino})
      /\ synced' = Only(synced, Ino \ {ino})
      /\ \/ data' = [data EXCEPT ![ino] = Missing] /\ worker' = Detach(ino)
         \/ UNCHANGED <<data, worker>>
      /\ disk' \in {disk, entries'}
  BY DEF unlink, Request, save_index
<1>2. reqs \in Nat /\ reqs + 1 \in Nat /\ \A k \in Nat : k <= reqs => k <= reqs + 1
  BY Numbers
<1>3. /\ DOMAIN entries' \subseteq DOMAIN entries
      /\ \A i \in DOMAIN entries' : entries'[i] = entries[i]
      /\ \A i \in DOMAIN content' : i \in DOMAIN content /\ content'[i] = content[i] /\ i # ino
      /\ \A i \in DOMAIN synced' : i \in DOMAIN synced /\ synced'[i] = synced[i] /\ i # ino
      /\ \A i \in DOMAIN content : i # ino /\ i \in Ino => i \in DOMAIN content'
      /\ \A i \in DOMAIN content : i \in DOMAIN entries /\ i \in Ino
      /\ \A i \in DOMAIN content' : i \in DOMAIN entries'
  BY <1>1, Numbers DEF Only, IInv, Ghosts
<1>4. data'[ino] \in {Missing, data[ino]} /\ \A i \in Ino \ {ino} : data'[i] = data[i]
  BY <1>1 DEF IInv, Types
<1>5. \A v \in Worker : worker'[v] \in {Detach(ino)[v], worker[v]}
  BY <1>1
<1>6. ASSUME NEW v \in Worker, worker[v].pc \in Editing
      PROVE  /\ worker'[v].pc = worker[v].pc
             /\ worker'[v].job = worker[v].job
             /\ worker'[v].entry = worker[v].entry
             /\ worker'[v].plan = worker[v].plan
  <2>1. worker[v].pc # "idle"
    BY <1>6 DEF Editing
  <2> QED BY <1>5, <1>6, <2>1, Detached
<1>7. \A v \in Worker : worker'[v].pc = worker[v].pc
  BY <1>5, Detached
<1>8. "commit" \in Editing /\ "transfer" \in Editing
  BY DEF Editing
<1>9. Drawn'
  <2>1. \A i \in DOMAIN entries' : entries'[i].key <= reqs'
    BY <1>1, <1>2, <1>3, Numbers DEF DInv, Drawn
  <2>2. \A i \in DOMAIN disk' : disk'[i].key <= reqs'
    BY <1>1, <1>2, <2>1, Numbers DEF DInv, Drawn
  <2>3. \A v \in Worker : worker'[v].pc \in Editing => worker'[v].entry.key <= reqs'
    BY <1>1, <1>2, <1>6, <1>7, Numbers DEF DInv, Drawn
  <2>4. \A i \in Ino : GoodFile(data'[i], reqs')
    <3>1. GoodFile(Missing, reqs')
      BY DEF GoodFile
    <3> QED BY <3>1, <1>1, <1>2, <1>4, GoodFileStays DEF DInv, Drawn
  <2>5. ASSUME NEW v \in Worker, worker'[v].pc = "transfer", worker'[v].own = Missing
        PROVE  data'[worker'[v].job.ino] # Missing
    <3> SUFFICES ASSUME worker'[v] = Detach(ino)[v]
                 PROVE  data'[worker'[v].job.ino] # Missing
      BY <1>1, <2>5 DEF DInv, Drawn
    <3>1. worker[v].pc = "transfer" /\ worker'[v].job = worker[v].job /\ worker[v].job.ino \in Ino
      BY <2>5, <1>6, <1>7, <1>8, Numbers
    <3>2. CASE worker[v].job.ino = ino
      <4>1. OnFile(v, ino)
        BY <3>1, <3>2 DEF OnFile, Holding
      <4>2. worker[v] = [pc |-> worker[v].pc, job |-> worker[v].job, entry |-> worker[v].entry,
                         plan |-> worker[v].plan, own |-> worker[v].own]
        BY <3>1, <1>8, Shapes DEF IInv, Workers
      <4>3. CASE worker[v].own = Missing
        <5>1. worker'[v] = [worker[v] EXCEPT !.own = data[ino]]
          BY <3>1, <4>1, <4>3 DEF Detach
        <5>2. worker'[v].own = data[ino]
          BY <5>1, <4>2
        <5>3. data[ino] # Missing
          BY <3>1, <3>2, <4>3 DEF DInv, Drawn
        <5> QED BY <2>5, <5>2, <5>3
      <4>4. CASE worker[v].own # Missing
        BY <2>5, <4>4 DEF Detach
      <4> QED BY <4>3, <4>4
    <3>3. CASE worker[v].job.ino # ino
      <4>1. worker'[v] = worker[v]
        BY <1>8, <3>1, <3>3, Detached
      <4> QED BY <1>4, <2>5, <3>1, <3>3, <4>1 DEF DInv, Drawn
    <3> QED BY <3>2, <3>3
  <2> QED BY <2>1, <2>2, <2>3, <2>4, <2>5 DEF Drawn
<1>10. Stored'
  <2>1. ASSUME NEW i \in DOMAIN content' PROVE StoredAt(i)'
    <3>1. /\ StoredAt(i) /\ content'[i] = content[i] /\ entries'[i] = entries[i] /\ data'[i] = data[i]
      BY <1>3, <1>4 DEF DInv, Stored
    <3>2. \A v \in Worker : worker[v].pc = "commit" => worker'[v].job = worker[v].job /\ worker'[v].plan = worker[v].plan
      BY <1>6, <1>8
    <3> QED BY <3>1, <3>2, <1>7, StoredStays
  <2> QED BY <2>1 DEF Stored
<1>11. SyncedStored'
  BY <1>3 DEF DInv, SyncedStored
<1> QED BY <1>9, <1>10, <1>11 DEF DInv

\* A writer holds the lock of its file.
LEMMA WritersHold ==
    ASSUME IInv, NEW w \in Worker, worker[w].pc \in Editing
    PROVE  w \in Writing(worker[w].job.ino)
<1>1. worker[w].job \in EditJob
  BY Shapes DEF IInv, Workers
<1>2. worker[w].job.op # "read" /\ worker[w].pc \notin {"idle", "lock"}
  BY <1>1 DEF EditJob, Editing
<1> QED BY <1>2 DEF Writing, OnFile, Holding

\* A kill leaves every file alone that no writer was at; of the others it says no
\* more than that they are data files.
LEMMA KillBytes ==
    ASSUME NoFileIsMissing, IInv, DInv, Kill
    PROVE  DInv'
<1>1. /\ worker' = [w \in Worker |-> Idle]
      /\ content' = Only(content, {ino \in Ino : Writing(ino) = {}})
      /\ UNCHANGED <<entries, disk, reqs, synced>>
  BY DEF Kill, mem
<1>2. \A w \in Worker : worker'[w].pc = "idle"
  BY <1>1 DEF Idle
<1>3. PICK cut \in [Transferring -> UNION {Blocks(w) : w \in Transferring}] :
        data' = [ino \in Ino |->
                    IF \E w \in Transferring : worker[w].job.ino = ino
                    THEN LET w == CHOOSE v \in Transferring : worker[v].job.ino = ino
                         IN  Resealed(data[ino], worker[w].entry.key, worker[w].plan, cut[w])
                    ELSE data[ino]]
  BY DEF Kill
<1>4. \A ino \in Ino : GoodFile(data'[ino], reqs)
  <2> SUFFICES ASSUME NEW ino \in Ino PROVE GoodFile(data'[ino], reqs)
    OBVIOUS
  <2>1. GoodFile(data[ino], reqs) /\ reqs \in Nat
    BY Numbers DEF DInv, Drawn
  <2>2. CASE \E w \in Transferring : worker[w].job.ino = ino
    <3> DEFINE w == CHOOSE v \in Transferring : worker[v].job.ino = ino
    <3>1. w \in Transferring /\ worker[w].job.ino = ino
      BY <2>2
    <3>2. data'[ino] = Resealed(data[ino], worker[w].entry.key, worker[w].plan, cut[w])
      BY <1>3, <2>2
    <3> HIDE DEF w
    <3>3. w \in Worker /\ worker[w].pc = "transfer" /\ worker[w].own = Missing /\ worker[w].pc \in Editing
      BY <3>1 DEF Transferring, Editing
    <3>4. data[ino] # Missing /\ worker[w].entry.key \in 0 .. reqs
      BY <2>1, <3>1, <3>3, Numbers DEF DInv, Drawn
    <3>5. SoundPlan(worker[w].plan, Nat)
      BY <3>3, PlanIsSound DEF IInv, Workers
    <3>6. worker[w].plan.from \in Nat
      BY <3>5 DEF SoundPlan
    <3>7. cut[w] \in Nat
      <4>1. PICK v \in Transferring : cut[w] \in Blocks(v)
        BY <3>1
      <4>2. v \in Worker /\ worker[v].pc \in Editing
        BY DEF Transferring, Editing
      <4>3. SoundPlan(worker[v].plan, Nat)
        BY <4>2, PlanIsSound DEF IInv, Workers
      <4>4. worker[v].plan.from \in Nat
        BY <4>3 DEF SoundPlan
      <4> QED BY <4>1, <4>4 DEF Blocks
    <3> QED BY <2>1, <3>2, <3>4, <3>6, <3>7, ResealedIsGood
  <2>3. CASE ~\E w \in Transferring : worker[w].job.ino = ino
    BY <1>3, <2>1, <2>3
  <2> QED BY <2>2, <2>3
<1>5. Drawn'
  BY <1>1, <1>2, <1>4 DEF DInv, Drawn, Editing
<1>6. \A i \in DOMAIN content' : i \in DOMAIN content /\ content'[i] = content[i] /\ i \in Ino /\ Writing(i) = {}
  BY <1>1 DEF Only
<1>7. Stored'
  <2> SUFFICES ASSUME NEW i \in DOMAIN content' PROVE StoredAt(i)'
    BY DEF Stored
  <2>1. \A w \in Worker : worker[w].pc \in Editing => worker[w].job.ino # i
    BY <1>6, WritersHold
  <2>2. ~\E w \in Transferring : worker[w].job.ino = i
    BY <2>1 DEF Transferring, Editing
  <2>3. data'[i] = data[i]
    BY <1>3, <1>6, <2>2
  <2>4. \A w \in Worker : /\ ~(worker[w].pc = "commit" /\ worker[w].job.ino = i)
                          /\ ~(worker'[w].pc = "commit" /\ worker'[w].job.ino = i)
    BY <1>2, <2>1 DEF Editing
  <2>5. StoredAt(i)
    BY <1>6 DEF DInv, Stored
  <2> QED BY <1>1, <1>6, <2>3, <2>4, <2>5, StoredStays
<1>8. SyncedStored'
  <2> SUFFICES ASSUME NEW i \in DOMAIN synced PROVE i \in DOMAIN content' /\ synced[i] = content'[i]
    BY <1>1 DEF SyncedStored
  <2>1. i \in DOMAIN content /\ synced[i] = content[i] /\ i \in Ino
    BY Numbers DEF DInv, SyncedStored, IInv, Ghosts
  <2>2. Writing(i) = {}
    <3>1. ASSUME NEW w \in Worker, w \in Writing(i) PROVE FALSE
      <4>1. worker[w].pc \notin {"idle", "lock"} /\ worker[w].job.op # "read" /\ worker[w].job.ino = i
        BY <3>1 DEF Writing, OnFile, Holding
      <4>2. worker[w].pc \in Editing
        BY <4>1, Shapes DEF IInv, Workers
      <4> QED BY <4>1, <4>2 DEF IInv, Ghosts
    <3> QED BY <3>1 DEF Writing
  <2> QED BY <1>1, <2>1, <2>2 DEF Only
<1> QED BY <1>5, <1>7, <1>8 DEF DInv

LEMMA MountBytes ==
    ASSUME IInv, DInv, Mount
    PROVE  DInv'
<1>1. /\ session = "down" /\ entries' = disk
      /\ content' = Only(content, {i \in DOMAIN entries \cap DOMAIN disk : entries[i] = disk[i]})
      /\ UNCHANGED <<disk, data, worker, reqs, synced>>
  BY DEF Mount
<1>2. Drawn'
  BY <1>1 DEF DInv, Drawn
<1>3. \A i \in DOMAIN content' : i \in DOMAIN content /\ content'[i] = content[i] /\ entries'[i] = entries[i]
  BY <1>1 DEF Only
<1>4. Stored'
  BY <1>1, <1>3, StoredStays DEF DInv, Stored
<1>5. SyncedStored'
  BY <1>1 DEF DInv, SyncedStored, Only, IInv, Ghosts
<1> QED BY <1>2, <1>4, <1>5 DEF DInv

LEMMA StartsWithDInv ==
    ASSUME Init
    PROVE  DInv
<1>1. /\ DOMAIN entries = {Root + 1} /\ entries[Root + 1].key = 0 /\ entries[Root + 1].size = 0
      /\ disk = entries /\ reqs = 0
      /\ DOMAIN content = {Root + 1} /\ content[Root + 1] = <<>>
      /\ DOMAIN synced = {}
      /\ \A i \in Ino : data[i] = Missing
  BY DEF Init, Only
<1>2. \A w \in Worker : worker[w].pc = "idle"
  BY DEF Init, Idle
<1>3. Drawn
  BY <1>1, <1>2 DEF Drawn, GoodFile, Editing
<1>4. StoredAt(Root + 1)
  <2>1. data[Root + 1] = Missing
    BY <1>1, InoIsNat
  <2>2. <<>> \in Seq(Nat) /\ Len(<<>>) = 0
    OBVIOUS
  <2> QED BY <1>1, <1>2, <2>1, <2>2 DEF StoredAt, Kept
<1>5. Stored /\ SyncedStored
  BY <1>1, <1>4 DEF Stored, SyncedStored
<1> QED BY <1>3, <1>5 DEF DInv

LEMMA NextKeepsDInv ==
    ASSUME NoFileIsMissing, IInv, DInv, [Next]_vars
    PROVE  DInv'
<1>1. CASE UNCHANGED vars
  <2>1. UNCHANGED <<entries, data, content, reqs, disk, worker, synced>>
    BY <1>1 DEF vars, mem, aux
  <2> QED BY <2>1, Numbers, QuietKeeps
<1>2. ASSUME NEW ino \in Ino,
             \/ \E op \in ReadOps : read(ino, op)
             \/ \E op \in WriteOps : write(ino, op)
             \/ \E size \in Sizes : setattr(ino, size)
             \/ SaveAttributes(ino)
             \/ unlink(ino)
             \/ fsync(ino)
      PROVE  DInv'
  BY <1>2, SessionBytes, unlinkBytes
<1>3. ASSUME NEW w \in Worker, WorkerStep(w) PROVE DInv'
  <2>1. CASE CommitWrite(w) \/ ApplySetattr(w)
    <3>1. Commits(w) /\ disk' \in {disk, entries'} /\ UNCHANGED <<data, reqs, synced>>
      BY <2>1 DEF CommitWrite, ApplySetattr, save_index, aux
    <3> QED BY <3>1, CommitBytes
  <2> QED BY <1>3, <2>1, WaitingBytes, OpenDataBytes, TransferBytes DEF WorkerStep
<1>4. CASE create
  BY <1>4, createBytes
<1>5. CASE fsyncdir \/ SessionStep \/ Close \/ Kill \/ Mount
  BY <1>5, SessionBytes, KillBytes, MountBytes DEF SessionStep
<1> QED BY <1>1, <1>2, <1>3, <1>4, <1>5 DEF Next

\* The inductive invariant about bytes holds in every behaviour.
THEOREM BytesInvariance ==
    ASSUME NoFileIsMissing
    PROVE  Spec => [](IInv /\ DInv)
<1>1. Init => IInv /\ DInv
  BY StartsWithIInv, StartsWithDInv
<1>2. IInv /\ DInv /\ [Next]_vars => (IInv /\ DInv)'
  BY NextKeepsIInv, NextKeepsDInv
<1> QED BY <1>1, <1>2, PTL DEF Spec

\* A file that nobody is changing decodes to its bytes.
LEMMA Decodes ==
    ASSUME IInv, DInv, NEW ino \in DOMAIN content,
           \A w \in Worker : ~(worker[w].pc = "commit" /\ worker[w].job.ino = ino)
    PROVE  Decoded(ino, entries[ino]) = Bytes(content[ino])
<1> DEFINE f == data[ino]
           key == entries[ino].key
           c == content[ino]
<1>1. c \in Seq(Nat) /\ Len(c) = entries[ino].size /\ Kept(f, key, c)
  BY DEF DInv, Stored, StoredAt
<1>2. Decoded(ino, entries[ino]) = do_read(f, key, Len(c), 0, Len(c))
  BY <1>1 DEF Decoded
<1> HIDE DEF f, key, c
<1>3. CASE f = Missing
  BY <1>1, <1>2, <1>3 DEF Kept, do_read, c
<1>4. CASE f # Missing
  <2>1. Stores(f, key, c, Nat)
    BY <1>1, <1>4 DEF Kept
  <2>2. do_read(f, key, Len(c), 0, Len(c)) = Bytes(c)
    BY <1>4, <2>1, StoredReadsBack
  <2> QED BY <1>2, <2>2 DEF c
<1> QED BY <1>3, <1>4

\* Whenever no worker is at it, a file's data fits its entry and holds exactly the
\* bytes of the writes and truncates committed so far, for any number of workers,
\* any block length and any interleaving with unlink, kills and remounts.
THEOREM FilesHoldWhatWasCommitted ==
    ASSUME NoFileIsMissing
    PROVE  Spec => []CommittedMatches
<1>1. IInv /\ DInv => CommittedMatches
  <2> SUFFICES ASSUME IInv, DInv, NEW ino \in DOMAIN content, ~Changing(ino)
               PROVE  Decoded(ino, entries[ino]) = Bytes(content[ino])
    BY DEF CommittedMatches
  <2>1. \A w \in Worker : ~(worker[w].pc = "commit" /\ worker[w].job.ino = ino)
    BY WritersHold DEF Changing, Editing
  <2> QED BY <2>1, Decodes
<1> QED BY <1>1, BytesInvariance, PTL

\* A read that succeeds returns bytes the file has at that moment, and a read of a
\* sound file fails only when the size changed after the request came in, though the
\* entry it uses was copied before it had the lock.
THEOREM ReadsSeeCommitted ==
    ASSUME NoFileIsMissing
    PROVE  Spec => []ReadsCommitted
<1>1. IInv /\ DInv => ReadsCommitted
  <2> SUFFICES ASSUME IInv, DInv, NEW w \in Worker, worker[w].pc = "read",
                      worker[w].job.ino \in DOMAIN content, worker[w].job.ino \in DOMAIN entries
               PROVE  LET job == worker[w].job
                          got == ReadResult(w)
                      IN  IF got.ok
                          THEN got.data = SubSeq(content[job.ino], job.offset + 1,
                                                 Least(job.offset + job.len, job.snap.size))
                          ELSE job.snap.size # entries[job.ino].size
    BY DEF ReadsCommitted
  <2> DEFINE job == worker[w].job
             c == content[job.ino]
             f == open_rw(data[job.ino])
             key == job.snap.key
             size == job.snap.size
             offset == job.offset
             len == job.len
             got == ReadResult(w)
  <2>1. job.op = "read" /\ GoodJob(job, entries, next_ino)
    BY Shapes DEF IInv, Workers
  <2>2. job \in ReadJob /\ key = entries[job.ino].key
    BY <2>1 DEF GoodJob, EditJob
  <2>3. size \in Nat /\ offset \in Nat /\ len \in Nat
    BY <2>2 DEF ReadJob, Entry
  <2>4. \A v \in Worker : ~(worker[v].pc = "commit" /\ worker[v].job.ino = job.ino)
    BY DEF IInv, Exclusion, Editing
  <2>5. c \in Seq(Nat) /\ Len(c) = entries[job.ino].size /\ Kept(data[job.ino], key, c)
    BY <2>2, <2>4 DEF DInv, Stored, StoredAt
  <2>6. Kept(f, key, c)
    BY <2>5, OpenedIsKept
  <2>7. f # Missing
    BY EmptyIsGood DEF open_rw
  <2>8. got = read_range(f, key, size, offset, len)
    BY DEF ReadResult, open_rw
  <2> HIDE DEF got, f, key, size, offset, len, c
  <2>9. Stores(f, key, c, Nat)
    BY <2>6, <2>7 DEF Kept
  <2>10. HonestRead(got, c, size, offset, len)
    BY <2>3, <2>8, <2>9, StoredRead
  <2> QED BY <2>5, <2>10 DEF HonestRead, got, size, offset, len, c
<1> QED BY <1>1, BytesInvariance, PTL

\* A file that was synced, and not changed since, has its bytes under the saved
\* index at every step that other requests take: a kill at any of them keeps it.
THEOREM SyncedBytesSurvive ==
    ASSUME NoFileIsMissing
    PROVE  Spec => []SyncedSurvivesKill
<1>1. IInv /\ DInv => SyncedSurvivesKill
  <2> SUFFICES ASSUME IInv, DInv, NEW ino \in DOMAIN synced
               PROVE  ino \in DOMAIN disk /\ Decoded(ino, disk[ino]) = Bytes(synced[ino])
    BY DEF SyncedSurvivesKill
  <2>1. ino \in DOMAIN disk /\ entries[ino] = disk[ino]
    BY DEF IInv, Ghosts
  <2>2. ino \in DOMAIN content /\ synced[ino] = content[ino]
    BY DEF DInv, SyncedStored
  <2>3. \A w \in Worker : ~(worker[w].pc = "commit" /\ worker[w].job.ino = ino)
    BY DEF IInv, Ghosts, Editing
  <2>4. Decoded(ino, entries[ino]) = Bytes(content[ino])
    BY <2>2, <2>3, Decodes
  <2> QED BY <2>1, <2>2, <2>4
<1> QED BY <1>1, BytesInvariance, PTL

-----------------------------------------------------------------------------
(* The store of byte sequences that the volume implements *)

CommitsOn(w, i) == worker[w].pc = "commit" /\ worker[w].job.ino = i

\* What can be read of the files: their bytes, with a change that is through with
\* its blocks counted as made.
Shows ==
    \A i \in DOMAIN content :
        /\ (\A w \in Worker : ~CommitsOn(w, i)) => Now(i) = content[i]
        /\ \A w \in Worker : CommitsOn(w, i) => Now(i) = After(content[i], worker[w].plan)

\* The edits on their way are ones the kernel asked for.
Asked(j) ==
    /\ j.op = "write" => \E op \in WriteOps, r \in 1 .. MaxReqs :
                            j.offset = op[1] /\ j.bytes = [p \in 1 .. op[2] |-> r]
    /\ j.op = "truncate" => j.size \in Sizes

JobsAsked ==
    /\ \A k \in 1 .. Len(queue) : Asked(queue[k])
    /\ \A w \in Worker : worker[w].pc # "idle" => Asked(worker[w].job)

\* Bytes in a data file, or in the absence of one, read back.
LEMMA KeptReadsBack ==
    ASSUME NEW f, NEW key, NEW c \in Seq(Nat), Kept(f, key, c)
    PROVE  do_read(f, key, Len(c), 0, Len(c)) = Bytes(c)
<1>1. CASE f = Missing
  BY <1>1 DEF Kept, do_read
<1>2. CASE f # Missing
  <2>1. Stores(f, key, c, Nat)
    BY <1>2 DEF Kept
  <2> QED BY <1>2, <2>1, StoredReadsBack
<1> QED BY <1>1, <1>2

LEMMA BytesShow ==
    ASSUME IInv, DInv
    PROVE  Shows
<1> SUFFICES ASSUME NEW i \in DOMAIN content
             PROVE  /\ (\A w \in Worker : ~CommitsOn(w, i)) => Now(i) = content[i]
                    /\ \A w \in Worker : CommitsOn(w, i) => Now(i) = After(content[i], worker[w].plan)
  BY DEF Shows
<1>1. StoredAt(i)
  BY DEF DInv, Stored
<1>2. ASSUME \A w \in Worker : ~CommitsOn(w, i)
      PROVE  Now(i) = content[i]
  <2>1. Committing(i) = {}
    BY <1>2 DEF Committing, CommitsOn
  <2>2. Kept(data[i], entries[i].key, content[i]) /\ content[i] \in Seq(Nat)
        /\ Len(content[i]) = entries[i].size
    BY <1>1, <1>2 DEF StoredAt, CommitsOn
  <2>3. do_read(data[i], entries[i].key, entries[i].size, 0, entries[i].size) = Bytes(content[i])
    BY <2>2, KeptReadsBack
  <2> QED BY <2>1, <2>3 DEF Now, Bytes
<1>3. ASSUME NEW w \in Worker, CommitsOn(w, i)
      PROVE  Now(i) = After(content[i], worker[w].plan)
  <2>1. Committing(i) = {w}
    BY <1>3 DEF Committing, CommitsOn, IInv, Exclusion, Editing
  <2>2. (CHOOSE v \in Committing(i) : TRUE) = w
    BY <2>1
  <2>3. worker[w].pc \in Editing /\ i \in DOMAIN entries
    BY <1>3 DEF CommitsOn, Editing, IInv, Ghosts
  <2>4. worker[w].plan.old = worker[w].entry.size /\ SoundPlan(worker[w].plan, Nat)
    BY <2>3, PlanIsSound DEF IInv, Workers
  <2>5. worker[w].entry = entries[i]
    BY <1>3, <2>3 DEF IInv, Workers, Owns, CommitsOn
  <2> DEFINE c == After(content[i], worker[w].plan)
  <2>6. Kept(data[i], entries[i].key, c)
    BY <1>1, <1>3 DEF StoredAt, CommitsOn
  <2>7. c \in Seq(Nat) /\ Len(c) = worker[w].plan.new
    <3>1. content[i] \in Seq(Nat) /\ Len(content[i]) = worker[w].plan.old
      BY <1>1, <2>4, <2>5 DEF StoredAt
    <3> QED BY <2>4, <3>1, AfterIsSeq
  <2> HIDE DEF c
  <2>8. do_read(data[i], entries[i].key, worker[w].plan.new, 0, worker[w].plan.new) = Bytes(c)
    BY <2>6, <2>7, KeptReadsBack
  <2> QED BY <2>1, <2>2, <2>8 DEF Now, Bytes, c
<1> QED BY <1>2, <1>3

-----------------------------------------------------------------------------

LEMMA EnqueueAsked ==
    ASSUME IInv, JobsAsked, NEW j, Enqueue(j), Asked(j)
    PROVE  JobsAsked'
<1>1. queue' = Append(queue, j) /\ worker' = worker
  BY DEF Enqueue
<1>2. queue \in Seq(ReadJob \cup EditJob)
  BY DEF IInv, Jobs
<1>3. /\ Len(queue) \in Nat
      /\ Len(queue') = Len(queue) + 1
      /\ \A k \in 1 .. Len(queue) : queue'[k] = queue[k]
      /\ queue'[Len(queue) + 1] = j
  BY <1>1, <1>2
<1>4. ASSUME NEW k \in 1 .. Len(queue') PROVE Asked(queue'[k])
  <2>1. CASE k = Len(queue) + 1
    BY <2>1, <1>3
  <2>2. CASE k # Len(queue) + 1
    <3>1. k \in 1 .. Len(queue)
      BY <2>2, <1>3
    <3> QED BY <3>1, <1>3 DEF JobsAsked
  <2> QED BY <2>1, <2>2
<1> QED BY <1>1, <1>4 DEF JobsAsked

LEMMA RequestsAsked ==
    ASSUME IInv, JobsAsked, NEW ino \in Ino,
           \/ \E op \in ReadOps : read(ino, op)
           \/ \E op \in WriteOps : write(ino, op)
           \/ \E size \in Sizes : setattr(ino, size)
    PROVE  JobsAsked'
<1>1. ASSUME NEW op \in ReadOps, read(ino, op) PROVE JobsAsked'
  <2> DEFINE j == [op |-> "read", ino |-> ino, offset |-> op[1], len |-> op[2], snap |-> entries[ino]]
  <2>1. Enqueue(j)
    BY <1>1 DEF read
  <2>2. j.op = "read"
    OBVIOUS
  <2> HIDE DEF j
  <2>3. Asked(j)
    BY <2>2 DEF Asked
  <2> QED BY <2>1, <2>3, EnqueueAsked
<1>2. ASSUME NEW op \in WriteOps, write(ino, op) PROVE JobsAsked'
  <2> DEFINE bytes == [p \in 1 .. op[2] |-> reqs + 1]
             j == [op |-> "write", ino |-> ino, offset |-> op[1], bytes |-> bytes]
  <2>1. Enqueue(j) /\ reqs < MaxReqs
    BY <1>2 DEF write, Enqueue, Request
  <2>2. PICK r : r = reqs + 1
    OBVIOUS
  <2>3. r \in 1 .. MaxReqs
    BY <2>1, <2>2, InoIsNat DEF IInv, Types
  <2>4. bytes = [p \in 1 .. op[2] |-> r]
    BY <2>2
  <2> HIDE DEF bytes
  <2>5. j.op = "write" /\ j.offset = op[1] /\ j.bytes = bytes
    OBVIOUS
  <2> HIDE DEF j
  <2>6. Asked(j)
    BY <2>3, <2>4, <2>5 DEF Asked
  <2> QED BY <2>1, <2>6, EnqueueAsked
<1>3. ASSUME NEW size \in Sizes, setattr(ino, size) PROVE JobsAsked'
  <2> DEFINE j == [op |-> "truncate", ino |-> ino, size |-> size]
  <2>1. Enqueue(j)
    BY <1>3 DEF setattr
  <2>2. j.op = "truncate" /\ j.size = size
    OBVIOUS
  <2> HIDE DEF j
  <2>3. Asked(j)
    BY <2>2 DEF Asked
  <2> QED BY <2>1, <2>3, EnqueueAsked
<1> QED BY <1>1, <1>2, <1>3

LEMMA TakeAsked ==
    ASSUME IInv, JobsAsked, NEW w \in Worker, Take(w)
    PROVE  JobsAsked'
<1>1. /\ queue \in Seq(ReadJob \cup EditJob) /\ queue # <<>> /\ queue' = Tail(queue)
      /\ worker'[w] = [pc |-> "lock", job |-> Head(queue)]
      /\ \A v \in Worker \ {w} : worker'[v] = worker[v]
  BY DEF Take, Become, IInv, Jobs, Workers
<1>2. /\ Head(queue) = queue[1] /\ 1 \in 1 .. Len(queue)
      /\ \A k \in 1 .. Len(queue') : queue'[k] = queue[k + 1] /\ k + 1 \in 1 .. Len(queue)
  BY <1>1
<1>3. worker'[w].job = queue[1]
  BY <1>1, <1>2
<1> QED BY <1>1, <1>2, <1>3 DEF JobsAsked

\* A worker keeps its job until it is done with it.
LEMMA WorkerGoesOn ==
    ASSUME IInv, NEW w \in Worker, WorkerStep(w), ~Take(w)
    PROVE  /\ UNCHANGED queue
           /\ \A v \in Worker \ {w} : worker'[v] = worker[v]
           /\ \/ worker'[w].pc = "idle"
              \/ worker[w].pc # "idle" /\ worker'[w].job = worker[w].job
<1> DEFINE s == worker[w]
           t == worker'[w]
<1>1. UNCHANGED queue
  BY DEF WorkerStep, ReadLocked, ReadReply, WriteLocked, OpenData, Transfer, CommitWrite, ApplySetattr,
         CommitGone
<1>2. PICK x : worker' = [worker EXCEPT ![w] = x]
  <2>1. CASE Transfer(w)
    BY <2>1 DEF Transfer, Become
  <2> QED BY <2>1 DEF WorkerStep, ReadLocked, ReadReply, WriteLocked, OpenData, CommitWrite,
                      ApplySetattr, Commits, CommitGone, Become
<1>3. \A v \in Worker \ {w} : worker'[v] = worker[v]
  BY <1>2 DEF IInv, Workers
<1>4. CASE ReadReply(w) \/ CommitGone(w) \/ CommitWrite(w) \/ ApplySetattr(w)
  <2>1. t = Idle
    BY <1>4 DEF ReadReply, CommitGone, CommitWrite, ApplySetattr, Commits, Become, IInv, Workers
  <2> QED BY <1>1, <1>3, <2>1 DEF Idle
<1>5. CASE ReadLocked(w)
  <2>1. (t = Idle \/ t = [s EXCEPT !.pc = "read"]) /\ s.pc = "lock"
    BY <1>5 DEF ReadLocked, Become, IInv, Workers
  <2>2. s = [pc |-> s.pc, job |-> s.job]
    BY <2>1, Shapes DEF IInv, Workers
  <2> HIDE DEF s, t
  <2>3. t.pc = "idle" \/ t.job = s.job
    BY <2>1, <2>2 DEF Idle
  <2> QED BY <1>1, <1>3, <2>1, <2>3 DEF s, t
<1>6. CASE WriteLocked(w)
  <2> DEFINE e == entries[s.job.ino]
             plan == Plan(s.job, e.size)
  <2> HIDE DEF plan
  <2>1. /\ t = Idle \/ t = [pc |-> "open", job |-> s.job, entry |-> e, plan |-> plan, own |-> Missing]
        /\ s.pc = "lock"
    BY <1>6 DEF WriteLocked, Become, IInv, Workers, plan
  <2>2. t.pc = "idle" \/ t.job = s.job
    BY <2>1 DEF Idle
  <2> QED BY <1>1, <1>3, <2>1, <2>2
<1>7. CASE OpenData(w) \/ Transfer(w)
  <2>1. s.pc \in Editing /\ s.pc # "idle"
    BY <1>7 DEF OpenData, Transfer, Editing
  <2>2. \E pc : t = Idle \/ t = [s EXCEPT !.pc = pc]
    <3>1. CASE OpenData(w)
      BY <3>1 DEF OpenData, Become, IInv, Workers
    <3>2. CASE Transfer(w)
      BY <3>2 DEF Transfer, Become, IInv, Workers
    <3> QED BY <1>7, <3>1, <3>2
  <2>3. s = [pc |-> s.pc, job |-> s.job, entry |-> s.entry, plan |-> s.plan, own |-> s.own]
    BY <2>1, Shapes DEF IInv, Workers
  <2> HIDE DEF s, t
  <2>4. t.pc = "idle" \/ t.job = s.job
    BY <2>2, <2>3 DEF Idle
  <2> QED BY <1>1, <1>3, <2>1, <2>4 DEF s, t
<1> QED BY <1>4, <1>5, <1>6, <1>7 DEF WorkerStep

LEMMA NextKeepsAsked ==
    ASSUME IInv, JobsAsked, [Next]_vars
    PROVE  JobsAsked'
<1>1. CASE UNCHANGED vars
  BY <1>1 DEF vars, JobsAsked
<1>2. ASSUME NEW ino \in Ino,
             \/ \E op \in ReadOps : read(ino, op)
             \/ \E op \in WriteOps : write(ino, op)
             \/ \E size \in Sizes : setattr(ino, size)
      PROVE  JobsAsked'
  BY <1>2, RequestsAsked
<1>3. ASSUME NEW ino \in Ino, unlink(ino) PROVE JobsAsked'
  <2>1. worker' \in {Detach(ino), worker} /\ queue' = queue
    BY <1>3 DEF unlink
  <2>2. \A v \in Worker : /\ worker'[v].pc = worker[v].pc
                          /\ worker[v].pc # "idle" => worker'[v].job = worker[v].job
    BY <2>1, Detached
  <2> QED BY <2>1, <2>2 DEF JobsAsked
<1>4. ASSUME \/ \E ino \in Ino : SaveAttributes(ino) \/ fsync(ino)
             \/ create \/ fsyncdir \/ SessionStep \/ Close \/ Mount
      PROVE  JobsAsked'
  <2>1. UNCHANGED <<queue, worker>>
    BY <1>4 DEF SaveAttributes, fsync, create, fsyncdir, SessionStep, FsyncLocked, FsyncAnswered,
                DropFlush, DropJoin, Close, Mount
  <2> QED BY <2>1 DEF JobsAsked
<1>5. ASSUME NEW w \in Worker, WorkerStep(w) PROVE JobsAsked'
  <2>1. CASE Take(w)
    BY <2>1, TakeAsked
  <2>2. CASE ~Take(w)
    <3>1. /\ UNCHANGED queue
          /\ \A v \in Worker \ {w} : worker'[v] = worker[v]
          /\ \/ worker'[w].pc = "idle"
             \/ worker[w].pc # "idle" /\ worker'[w].job = worker[w].job
      BY <1>5, <2>2, WorkerGoesOn
    <3> QED BY <3>1 DEF JobsAsked
  <2> QED BY <2>1, <2>2
<1>6. CASE Kill
  <2>1. queue' = <<>> /\ worker' = [w \in Worker |-> Idle]
    BY <1>6 DEF Kill
  <2>2. Len(queue') = 0 /\ \A w \in Worker : worker'[w].pc = "idle"
    BY <2>1 DEF Idle
  <2> QED BY <2>2 DEF JobsAsked
<1> QED BY <1>1, <1>2, <1>3, <1>4, <1>5, <1>6 DEF Next

-----------------------------------------------------------------------------

Files == [ino \in DOMAIN content |-> Now(ino)]

\* The view of a file that keeps its bytes, and its change if there is one that is
\* through with the blocks.
LEMMA NowStays ==
    ASSUME Shows, Shows', NEW i \in DOMAIN content, i \in DOMAIN content', content'[i] = content[i],
           \A w \in Worker : CommitsOn(w, i)' <=> CommitsOn(w, i),
           \A w \in Worker : CommitsOn(w, i) => worker'[w].plan = worker[w].plan
    PROVE  Now(i)' = Now(i)
<1>1. CASE \A w \in Worker : ~CommitsOn(w, i)
  BY <1>1 DEF Shows
<1>2. ASSUME NEW w \in Worker, CommitsOn(w, i) PROVE Now(i)' = Now(i)
  BY <1>2 DEF Shows
<1> QED BY <1>1, <1>2

\* A step that no reader of the files can see.
LEMMA Unseen ==
    ASSUME session # "down", session' # "down", DOMAIN content' = DOMAIN content,
           DOMAIN entries' = DOMAIN entries, synced' = synced,
           \A i \in DOMAIN content : Now(i)' = Now(i)
    PROVE  [Store!Next]_(Store!vars)
<1>1. Files' = Files
  BY DEF Files
<1> QED BY <1>1 DEF Store!vars, Files

\* A write or truncate is made in the step that is through with its blocks.
LEMMA PlanIsPwrite ==
    ASSUME NEW c \in Seq(Nat), NEW offset \in Nat, NEW bytes \in Seq(Nat)
    PROVE  After(c, write_range(Len(c), offset, bytes)) = Store!pwrite(c, offset, bytes)
<1> DEFINE plan == write_range(Len(c), offset, bytes)
<1>1. /\ plan.old = Len(c) /\ plan.new = Most(Len(c), offset + Len(bytes))
      /\ plan.data = bytes /\ plan.offset = offset
  BY DEF write_range
<1> HIDE DEF plan
<1>2. Len(c) \in Nat /\ Len(bytes) \in Nat
  OBVIOUS
<1>3. Most(Len(c), offset + Len(bytes))
        = IF Len(c) <= offset + Len(bytes) THEN offset + Len(bytes) ELSE Len(c)
  <2>1. \A x, y \in Nat : Most(x, y) = IF x <= y THEN y ELSE x
    BY DEF Most
  <2>2. offset + Len(bytes) \in Nat
    BY <1>2
  <2> QED BY <1>2, <2>1, <2>2
<1>4. After(c, plan) = Store!pwrite(c, offset, bytes)
  BY <1>1, <1>3 DEF After, ByteAfter, Covers, Store!pwrite
<1> QED BY <1>4 DEF plan

LEMMA PlanIsFtruncate ==
    ASSUME NEW c \in Seq(Nat), NEW size \in Nat
    PROVE  After(c, truncate(Len(c), size)) = Store!ftruncate(c, size)
<1> DEFINE plan == truncate(Len(c), size)
<1>0. Len(c) \in Nat /\ Len(<<>>) = 0
  OBVIOUS
<1>1. /\ plan.old = Len(c) /\ plan.new = size
      /\ plan.data = <<>> /\ plan.offset = size
  BY <1>0, TruncatePlan
<1> HIDE DEF plan
<1>2. \A q \in 1 .. size : ~Covers(plan, q)
  BY <1>0, <1>1 DEF Covers
<1>3. After(c, plan) = Store!ftruncate(c, size)
  BY <1>1, <1>2 DEF After, ByteAfter, Store!ftruncate
<1> QED BY <1>3 DEF plan

LEMMA StoreBegins ==
    ASSUME Init
    PROVE  Store!Init
<1>1. /\ session = "idle" /\ DOMAIN entries = {Root + 1} /\ DOMAIN content = {Root + 1}
      /\ content[Root + 1] = <<>> /\ DOMAIN synced = {}
  BY DEF Init, Only
<1>2. \A w \in Worker : ~CommitsOn(w, Root + 1)
  BY DEF Init, Idle, CommitsOn
<1>3. Now(Root + 1) = <<>>
  BY <1>1, <1>2, StartsWithIInv, StartsWithDInv, BytesShow DEF Shows
<1>4. DOMAIN Files = {Root + 1} /\ Files[Root + 1] = <<>>
  BY <1>1, <1>3 DEF Files
<1> QED BY <1>1, <1>4, InoIsNat DEF Store!Init, Files

LEMMA SessionIsStore ==
    ASSUME IInv, Shows, Shows',
           \/ \E ino \in Ino : \/ \E op \in ReadOps : read(ino, op)
                               \/ \E op \in WriteOps : write(ino, op)
                               \/ \E size \in Sizes : setattr(ino, size)
                               \/ SaveAttributes(ino)
                               \/ fsync(ino)
           \/ fsyncdir \/ DropFlush \/ Close
    PROVE  [Store!Next]_(Store!vars)
<1>1. UNCHANGED <<entries, content, worker, synced>> /\ session # "down" /\ session' # "down"
  BY DEF read, write, setattr, Enqueue, SaveAttributes, fsync, fsyncdir, DropFlush, Close, Request, mem
<1>2. \A i \in DOMAIN content : Now(i)' = Now(i)
  BY <1>1, NowStays DEF CommitsOn
<1> QED BY <1>1, <1>2, Unseen

LEMMA FsyncIsStore ==
    ASSUME IInv, Shows, Shows', FsyncLocked
    PROVE  [Store!Next]_(Store!vars)
<1>1. UNCHANGED <<entries, content, worker>> /\ session # "down" /\ session' # "down" /\ Shared(target)
  BY DEF FsyncLocked, FsyncAnswered, mem
<1>2. \A i \in DOMAIN content : Now(i)' = Now(i)
  BY <1>1, NowStays DEF CommitsOn
<1>3. CASE synced' = synced
  BY <1>1, <1>2, <1>3, Unseen
<1>4. CASE synced' # synced
  <2>1. target \in DOMAIN content /\ synced' = Put(synced, target, content[target])
    BY <1>4 DEF FsyncLocked, FsyncAnswered
  <2>2. \A w \in Worker : ~CommitsOn(w, target)
    BY <1>1, SharedLock DEF CommitsOn, Editing
  <2>3. Now(target) = content[target]
    BY <2>1, <2>2 DEF Shows
  <2>4. target \in DOMAIN Files /\ Files[target] = content[target] /\ Files' = Files
    BY <1>1, <1>2, <2>1, <2>3 DEF Files
  <2>5. target \in Ino
    BY <2>1, Numbers DEF IInv, Ghosts
  <2>6. synced' = Store!Set(synced, target, Files[target])
    BY <2>1, <2>4 DEF Put, Store!Set
  <2>7. Store!Sync(target)
    BY <1>1, <2>4, <2>6 DEF Store!Sync, Files
  <2> QED BY <2>5, <2>7 DEF Store!Next
<1> QED BY <1>3, <1>4

LEMMA createIsStore ==
    ASSUME IInv, Shows, Shows', create
    PROVE  [Store!Next]_(Store!vars)
<1>0. PICK n : n = next_ino
  OBVIOUS
<1>1. /\ session = "idle" /\ session' = session /\ synced' = synced /\ worker' = worker /\ n \in Ino
      /\ entries' = Put(entries, n, [size |-> 0, key |-> reqs + 1])
      /\ content' = Put(content, n, <<>>)
  BY <1>0 DEF create, Request
<1>2. /\ DOMAIN entries' = DOMAIN entries \cup {n} /\ DOMAIN content' = DOMAIN content \cup {n}
      /\ content'[n] = <<>> /\ \A i \in DOMAIN content : i # n => content'[i] = content[i]
  BY <1>1 DEF Put
<1>3. n \notin DOMAIN entries /\ DOMAIN content \subseteq DOMAIN entries
  BY <1>0 DEF IInv, Types, Ghosts
<1>4. \A w \in Worker : ~CommitsOn(w, n)
  <2>1. ASSUME NEW w \in Worker, worker[w].pc = "commit" PROVE worker[w].job.ino < n
    BY <1>0, <2>1, Shapes DEF IInv, Workers, Editing
  <2> QED BY <2>1, InoIsNat, <1>1 DEF CommitsOn
<1>5. Now(n)' = <<>>
  BY <1>1, <1>2, <1>4 DEF Shows, CommitsOn
<1>6. \A i \in DOMAIN content : Now(i)' = Now(i)
  BY <1>1, <1>2, <1>3, NowStays DEF CommitsOn
<1>7. Files' = Store!Set(Files, n, <<>>)
  <2>1. DOMAIN Files = DOMAIN content /\ \A i \in DOMAIN content : Files[i] = Now(i)
    BY DEF Files
  <2>2. Files' = [i \in DOMAIN content \cup {n} |-> IF i = n THEN <<>> ELSE Now(i)]
    BY <1>2, <1>3, <1>5, <1>6 DEF Files
  <2> QED BY <1>3, <2>1, <2>2 DEF Store!Set
<1>8. DOMAIN entries' \ DOMAIN content' = DOMAIN entries \ DOMAIN content
  BY <1>2, <1>3
<1>9. n \notin DOMAIN Files \cup (DOMAIN entries \ DOMAIN content)
  BY <1>3 DEF Files
<1>10. Store!Create(n)
  BY <1>1, <1>7, <1>8, <1>9 DEF Store!Create, Files
<1> QED BY <1>1, <1>10 DEF Store!Next

LEMMA unlinkIsStore ==
    ASSUME IInv, Shows, Shows', NEW ino \in Ino, unlink(ino)
    PROVE  [Store!Next]_(Store!vars)
<1>1. /\ session = "idle" /\ session' = session
      /\ synced' = Only(synced, Ino \ {ino}) /\ worker' \in {Detach(ino), worker}
      /\ entries' = Only(entries, Ino \ {ino})
      /\ content' = Only(content, Ino \ {ino})
  BY DEF unlink, Request
<1>2. /\ DOMAIN entries' = DOMAIN entries \ {ino} /\ DOMAIN content' = DOMAIN content \ {ino}
      /\ \A i \in DOMAIN content' : content'[i] = content[i]
  BY <1>1, Numbers DEF Only, IInv, Ghosts
<1>3. \A w \in Worker : /\ worker'[w].pc = worker[w].pc
                        /\ worker[w].pc # "idle" => worker'[w].job = worker[w].job
                        /\ worker[w].pc \in Editing => worker'[w].plan = worker[w].plan
  BY <1>1, Detached
<1>4. \A i \in DOMAIN content' : Now(i)' = Now(i)
  BY <1>2, <1>3, NowStays DEF CommitsOn, Editing
<1>5. Files' = Store!Keep(Files, Ino \ {ino})
  <2>1. DOMAIN Files = DOMAIN content /\ \A i \in DOMAIN content : Files[i] = Now(i)
    BY DEF Files
  <2>2. DOMAIN content' = DOMAIN content \cap (Ino \ {ino})
    BY <1>2, Numbers DEF IInv, Ghosts
  <2>3. Files' = [i \in DOMAIN content' |-> Now(i)]
    BY <1>4 DEF Files
  <2> QED BY <2>1, <2>2, <2>3 DEF Store!Keep
<1>6. DOMAIN entries' \ DOMAIN content' = (DOMAIN entries \ DOMAIN content) \ {ino}
  BY <1>2
<1>7. synced' = Store!Keep(synced, Ino \ {ino})
  BY <1>1 DEF Only, Store!Keep
<1>8. Store!Unlink(ino)
  BY <1>1, <1>5, <1>6, <1>7 DEF Store!Unlink, Files
<1> QED BY <1>8 DEF Store!Next

LEMMA WaitingMoves ==
    ASSUME IInv, NEW w \in Worker,
           Take(w) \/ ReadLocked(w) \/ ReadReply(w) \/ WriteLocked(w) \/ CommitGone(w)
    PROVE  /\ \A v \in Worker \ {w} : worker'[v] = worker[v]
           /\ worker'[w].pc # "commit"
           /\ worker[w].pc = "commit" => worker[w].job.ino \notin DOMAIN entries
<1>1. \A v \in Worker \ {w} : worker'[v] = worker[v]
  BY DEF Take, ReadLocked, ReadReply, WriteLocked, CommitGone, Become, IInv, Workers
<1>2. worker[w].pc = "commit" => worker[w].job.ino \notin DOMAIN entries
  BY DEF Take, ReadLocked, ReadReply, WriteLocked, CommitGone, Idle
<1>3. CASE Take(w)
  <2>1. worker'[w] = [pc |-> "lock", job |-> Head(queue)]
    BY <1>3 DEF Take, Become, IInv, Workers
  <2> QED BY <1>1, <1>2, <2>1
<1>4. CASE ReadReply(w) \/ CommitGone(w)
  <2>1. worker'[w] = Idle
    BY <1>4 DEF ReadReply, CommitGone, Become, IInv, Workers
  <2> QED BY <1>1, <1>2, <2>1 DEF Idle
<1>5. CASE ReadLocked(w)
  <2>1. worker'[w] = Idle \/ worker'[w] = [worker[w] EXCEPT !.pc = "read"]
    BY <1>5 DEF ReadLocked, Become, IInv, Workers
  <2>2. worker[w] = [pc |-> worker[w].pc, job |-> worker[w].job]
    BY <1>5, Shapes DEF ReadLocked, IInv, Workers
  <2> QED BY <1>1, <1>2, <2>1, <2>2 DEF Idle
<1>6. CASE WriteLocked(w)
  <2> DEFINE job == worker[w].job
             e == entries[job.ino]
             plan == Plan(job, e.size)
  <2> HIDE DEF plan
  <2>1. \/ worker'[w] = Idle
        \/ worker'[w] = [pc |-> "open", job |-> job, entry |-> e, plan |-> plan, own |-> Missing]
    BY <1>6 DEF WriteLocked, Become, IInv, Workers, plan
  <2> QED BY <1>1, <1>2, <2>1 DEF Idle
<1> QED BY <1>3, <1>4, <1>5, <1>6

\* The steps of a worker that bring no change through.
LEMMA WaitingIsStore ==
    ASSUME IInv, Shows, Shows', NEW w \in Worker,
           Take(w) \/ ReadLocked(w) \/ ReadReply(w) \/ WriteLocked(w) \/ CommitGone(w)
    PROVE  [Store!Next]_(Store!vars)
<1>1. UNCHANGED <<entries, content, session>>
  BY DEF Take, ReadLocked, ReadReply, WriteLocked, CommitGone, mem
<1>2. /\ \A v \in Worker \ {w} : worker'[v] = worker[v]
      /\ worker'[w].pc # "commit"
      /\ worker[w].pc = "commit" => worker[w].job.ino \notin DOMAIN content
  BY WaitingMoves DEF IInv, Ghosts
<1>3. \A i \in DOMAIN content : Now(i)' = Now(i)
  BY <1>1, <1>2, NowStays DEF CommitsOn
<1>4. session # "down"
  BY Busy DEF Take, ReadLocked, ReadReply, WriteLocked, CommitGone, IInv, DownIsQuiet
<1>5. CASE synced' = synced
  BY <1>1, <1>3, <1>4, <1>5, Unseen
<1>6. CASE synced' # synced
  <2> DEFINE ino == worker[w].job.ino
  <2>1. ino \in DOMAIN entries /\ synced' = Only(synced, Ino \ {ino})
    BY <1>6 DEF Take, ReadLocked, ReadReply, WriteLocked, CommitGone
  <2>2. Files' = Files
    BY <1>1, <1>3 DEF Files
  <2>3. synced' = Store!Keep(synced, Ino \ {ino})
    BY <2>1 DEF Only, Store!Keep
  <2>4. Store!Begin(ino)
    BY <1>1, <1>4, <2>2, <2>3 DEF Store!Begin, Files
  <2>5. ino \in Ino
    BY <2>1, Numbers
  <2> QED BY <2>4, <2>5 DEF Store!Next
<1> QED BY <1>5, <1>6

\* A file with a writer that is not through with its blocks shows its bytes.
LEMMA WriterShows ==
    ASSUME IInv, DInv, Shows, NEW w \in Worker, worker[w].pc \in {"open", "transfer"},
           worker[w].job.ino \in DOMAIN content
    PROVE  Now(worker[w].job.ino) = content[worker[w].job.ino]
<1>1. \A v \in Worker : ~CommitsOn(v, worker[w].job.ino)
  BY DEF CommitsOn, IInv, Exclusion, Editing
<1> QED BY <1>1 DEF Shows

LEMMA OpenDataIsStore ==
    ASSUME IInv, DInv, Shows, Shows', NEW w \in Worker, OpenData(w)
    PROVE  [Store!Next]_(Store!vars)
<1> DEFINE s == worker[w]
<1>0. PICK ino : ino = worker[w].job.ino
  OBVIOUS
<1>1. UNCHANGED <<entries, content, session, synced>> /\ s.pc = "open" /\ s.pc \in Editing
  BY DEF OpenData, mem, Editing
<1>2. /\ s = [pc |-> s.pc, job |-> s.job, entry |-> s.entry, plan |-> s.plan, own |-> s.own]
      /\ SoundPlan(s.plan, Nat)
  BY <1>1, Shapes, PlanIsSound DEF IInv, Workers
<1>3. s.plan.opens <=> Opens(s.plan)
  BY <1>2, Zenon DEF SoundPlan, Opens
<1>4. /\ worker'[w] = [s EXCEPT !.pc = IF s.plan.opens THEN "transfer" ELSE "commit"]
      /\ \A v \in Worker \ {w} : worker'[v] = worker[v]
  BY DEF OpenData, Become, IInv, Workers
<1>5. /\ Opens(s.plan) => worker'[w].pc = "transfer"
      /\ ~Opens(s.plan) => worker'[w].pc = "commit"
      /\ worker'[w].job = s.job /\ worker'[w].plan = s.plan
  BY <1>2, <1>3, <1>4
<1>6. ASSUME NEW i \in DOMAIN content, i # ino PROVE Now(i)' = Now(i)
  <2>1. \A v \in Worker \ {w} : (CommitsOn(v, i)' <=> CommitsOn(v, i)) /\ worker'[v].plan = worker[v].plan
    BY <1>4 DEF CommitsOn
  <2>2. ~CommitsOn(w, i)' /\ ~CommitsOn(w, i)
    BY <1>0, <1>5, <1>6 DEF CommitsOn
  <2> QED BY <1>1, <1>6, <2>1, <2>2, NowStays
<1>7. ASSUME ino \in DOMAIN content PROVE Now(ino)' = Now(ino)
  <2>1. Now(ino) = content[ino]
    BY <1>0, <1>1, <1>7, WriterShows
  <2>2. CASE Opens(s.plan)
    BY <1>0, <1>1, <1>4, <1>5, <1>7, <2>2, NowStays DEF CommitsOn
  <2>3. CASE ~Opens(s.plan)
    <3>1. content[ino] \in Seq(Nat) /\ Len(content[ino]) = s.plan.old
      BY <1>0, <1>1, <1>7, WriterFinds
    <3>2. After(content[ino], s.plan) = content[ino]
      BY <1>2, <2>3, <3>1, AfterNothing
    <3>3. CommitsOn(w, ino)' /\ worker'[w].plan = s.plan
      BY <1>0, <1>5, <2>3 DEF CommitsOn
    <3>4. Now(ino)' = After(content'[ino], worker'[w].plan)
      BY <1>1, <1>7, <3>3 DEF Shows
    <3> QED BY <1>1, <2>1, <3>2, <3>3, <3>4
  <2> QED BY <2>2, <2>3
<1>8. session # "down" /\ session' # "down"
  BY <1>1, Busy
<1> QED BY <1>1, <1>6, <1>7, <1>8, Unseen

LEMMA TransferIsStore ==
    ASSUME IInv, DInv, JobsAsked, Shows, Shows', NEW w \in Worker, Transfer(w)
    PROVE  [Store!Next]_(Store!vars)
<1>0. PICK ino : ino = worker[w].job.ino
  OBVIOUS
<1> DEFINE s == worker[w]
           key == s.entry.key
           plan == s.plan
           f == data[ino]
<1>1. UNCHANGED <<entries, content, session, synced>> /\ s.pc = "transfer" /\ s.pc \in Editing
  BY DEF Transfer, mem, Editing
<1>2. /\ s = [pc |-> s.pc, job |-> s.job, entry |-> s.entry, plan |-> s.plan, own |-> s.own]
      /\ s.job \in EditJob /\ s.entry \in Entry /\ plan = Plan(s.job, s.entry.size)
      /\ SoundPlan(plan, Nat) /\ plan.old = s.entry.size
  BY <1>1, Shapes, PlanIsSound DEF IInv, Workers
<1>3. plan.from \in Nat /\ plan.until \in Nat
  BY <1>2, BlockCount DEF SoundPlan
<1>4. PICK k \in plan.from .. plan.until :
        /\ Stops(Opened(w), key, plan, k)
        /\ worker' = [worker EXCEPT ![w] = IF k = plan.until THEN [s EXCEPT !.pc = "commit"] ELSE Idle]
  BY DEF Transfer, Become
<1>5. /\ \A v \in Worker \ {w} : worker'[v] = worker[v]
      /\ k # plan.until => worker'[w].pc = "idle"
      /\ k = plan.until => worker'[w].pc = "commit" /\ worker'[w].job = s.job /\ worker'[w].plan = plan
  BY <1>2, <1>4 DEF Idle, IInv, Workers
<1>6. ASSUME NEW i \in DOMAIN content, i # ino PROVE Now(i)' = Now(i)
  BY <1>0, <1>1, <1>5, <1>6, NowStays DEF CommitsOn
<1>7. session # "down" /\ session' # "down"
  BY <1>1, Busy
<1>8. CASE ino \notin DOMAIN content
  BY <1>1, <1>6, <1>7, <1>8, Unseen
<1>9. CASE ino \in DOMAIN content
  <2> DEFINE c == content[ino]
  <2>1. /\ c \in Seq(Nat) /\ entries[ino] = s.entry /\ s.own = Missing
        /\ Len(c) = plan.old /\ Kept(f, key, c)
    BY <1>0, <1>1, <1>9, WriterFinds
  <2>2. f # Missing
    BY <1>0, <1>1, <2>1 DEF DInv, Drawn
  <2>3. k = plan.until
    <3>1. Stores(f, key, c, Nat) /\ k \in Nat
      BY <1>3, <2>1, <2>2 DEF Kept
    <3>2. CanEdit(f, key, plan, k)
      BY <2>1, <3>1, StoredIsEditable
    <3> QED BY <1>0, <1>4, <2>1, <3>2 DEF Stops, Opened
  <2>4. Now(ino) = c /\ Now(ino)' = After(c, plan)
    <3>1. Now(ino) = c
      BY <1>0, <1>1, <1>9, WriterShows
    <3>2. CommitsOn(w, ino)' /\ worker'[w].plan = plan
      BY <1>0, <1>5, <2>3 DEF CommitsOn
    <3>3. Now(ino)' = After(content'[ino], worker'[w].plan)
      BY <1>1, <1>9, <3>2 DEF Shows
    <3> QED BY <1>1, <3>1, <3>2, <3>3
  <2>5. Files' = Store!Set(Files, ino, After(c, plan)) /\ Files[ino] = c /\ ino \in DOMAIN Files
    <3>1. DOMAIN Files = DOMAIN content /\ \A i \in DOMAIN content : Files[i] = Now(i)
      BY DEF Files
    <3>2. Files' = [i \in DOMAIN content |-> IF i = ino THEN After(c, plan) ELSE Now(i)]
      BY <1>1, <1>6, <1>9, <2>4 DEF Files
    <3> QED BY <1>9, <2>4, <3>1, <3>2 DEF Store!Set
  <2>6. ino \notin DOMAIN synced
    BY <1>0, <1>1 DEF IInv, Ghosts
  <2>7. Store!Change(ino, After(c, plan))
    BY <1>1, <1>7, <2>5, <2>6 DEF Store!Change, Files
  <2>8. ino \in Ino
    BY <1>9, Numbers DEF IInv, Ghosts
  <2>9. Asked(s.job)
    BY <1>1 DEF JobsAsked
  <2>10. CASE s.job.op = "write"
    <3> DEFINE offset == s.job.offset
               bytes == s.job.bytes
    <3>1. offset \in Nat /\ bytes \in Seq(Nat)
      BY <1>2, <2>10 DEF EditJob
    <3>2. plan = write_range(Len(c), offset, bytes)
      BY <1>2, <2>1, <2>10 DEF Plan
    <3>3. PICK op \in WriteOps, r \in 1 .. MaxReqs : offset = op[1] /\ bytes = [p \in 1 .. op[2] |-> r]
      BY <2>9, <2>10 DEF Asked
    <3> HIDE DEF offset, bytes, c, plan
    <3>4. After(c, plan) = Store!pwrite(c, offset, bytes)
      BY <2>1, <3>1, <3>2, PlanIsPwrite
    <3> DEFINE u == <<op[1], [p \in 1 .. op[2] |-> r]>>
    <3>5. u \in {<<x[1], [p \in 1 .. x[2] |-> y]>> : x \in WriteOps, y \in 1 .. MaxReqs}
      BY <3>3
    <3>6. u[1] = offset /\ u[2] = bytes
      BY <3>3
    <3> HIDE DEF u
    <3>7. Store!Change(ino, Store!pwrite(Files[ino], u[1], u[2]))
      BY <2>5, <2>7, <3>4, <3>6
    <3>8. Store!Write(ino)
      BY <3>5, <3>7 DEF Store!Write, Files
    <3> QED BY <2>8, <3>8 DEF Store!Next
  <2>11. CASE s.job.op # "write"
    <3> DEFINE size == s.job.size
    <3>1. size \in Nat /\ s.job.op = "truncate"
      BY <1>2, <2>11 DEF EditJob
    <3>2. plan = truncate(Len(c), size)
      BY <1>2, <2>1, <2>11 DEF Plan
    <3>3. size \in Sizes
      BY <2>9, <3>1 DEF Asked
    <3> HIDE DEF size, c, plan
    <3>4. After(c, plan) = Store!ftruncate(c, size)
      BY <2>1, <3>1, <3>2, PlanIsFtruncate
    <3>5. Store!Change(ino, Store!ftruncate(Files[ino], size))
      BY <2>5, <2>7, <3>4
    <3>6. Store!Truncate(ino)
      BY <3>3, <3>5 DEF Store!Truncate, Files
    <3> QED BY <2>8, <3>6 DEF Store!Next
  <2> QED BY <2>10, <2>11
<1> QED BY <1>8, <1>9

LEMMA CommitIsStore ==
    ASSUME IInv, DInv, Shows, Shows', NEW w \in Worker, Commits(w), UNCHANGED <<session, synced>>
    PROVE  [Store!Next]_(Store!vars)
<1>0. PICK ino : ino = worker[w].job.ino
  OBVIOUS
<1> DEFINE s == worker[w]
<1>1. s.pc = "commit" /\ s.pc \in Editing
  BY DEF Commits, Editing
<1>2. /\ DOMAIN entries' = DOMAIN entries
      /\ s.entry = entries[ino] /\ s.plan.old = s.entry.size
  BY <1>0, CommitsTable
<1>3. /\ worker'[w].pc = "idle"
      /\ \A v \in Worker \ {w} : worker'[v] = worker[v]
  BY DEF Commits, Become, IInv, Workers, Idle
<1>4. /\ DOMAIN content' = DOMAIN content
      /\ \A i \in DOMAIN content : i # ino => content'[i] = content[i]
      /\ ino \in DOMAIN content => content'[ino] = Bytewise(content[ino], s.plan)
  BY <1>0 DEF Commits, Put
<1>5. ASSUME NEW i \in DOMAIN content, i # ino PROVE Now(i)' = Now(i)
  BY <1>0, <1>1, <1>3, <1>4, <1>5, NowStays DEF CommitsOn
<1>6. ASSUME ino \in DOMAIN content PROVE Now(ino)' = Now(ino)
  <2>1. Len(content[ino]) = s.plan.old
    BY <1>2, <1>6 DEF DInv, Stored, StoredAt
  <2>2. content'[ino] = After(content[ino], s.plan)
    BY <1>4, <1>6, <2>1, BytewiseIsAfter
  <2>3. CommitsOn(w, ino)
    BY <1>0, <1>1 DEF CommitsOn
  <2>4. Now(ino) = After(content[ino], s.plan)
    BY <1>6, <2>3 DEF Shows
  <2>5. \A v \in Worker : ~CommitsOn(v, ino)'
    BY <1>0, <1>1, <1>3 DEF CommitsOn, IInv, Exclusion, Editing
  <2>6. Now(ino)' = content'[ino]
    BY <1>4, <1>6, <2>5 DEF Shows
  <2> QED BY <2>2, <2>4, <2>6
<1>7. session # "down" /\ session' # "down"
  BY <1>1, Busy
<1> QED BY <1>2, <1>4, <1>5, <1>6, <1>7, Unseen

\* The process ends, and forgets at most the bytes of files it was changing.
LEMMA StopIsStore ==
    ASSUME IInv, DInv', session # "down", session' = "down",
           DOMAIN content' \subseteq DOMAIN content, UNCHANGED <<entries, synced>>,
           \A i \in DOMAIN content' : Now(i)' = Now(i)
    PROVE  [Store!Next]_(Store!vars)
<1> DEFINE kept == DOMAIN content'
<1>1. DOMAIN Files = DOMAIN content /\ \A i \in DOMAIN content : Files[i] = Now(i)
  BY DEF Files
<1>2. Files' = Store!Keep(Files, kept)
  <2>1. Files' = [i \in kept |-> Now(i)]
    BY DEF Files
  <2> QED BY <1>1, <2>1 DEF Store!Keep
<1>3. DOMAIN synced \subseteq kept
  BY DEF DInv, SyncedStored
<1>4. DOMAIN entries' \ DOMAIN content'
        = (DOMAIN entries \ DOMAIN content) \cup (DOMAIN Files \ kept)
  BY <1>1 DEF IInv, Ghosts
<1>5. kept \in SUBSET DOMAIN Files
  BY <1>1
<1>6. Store!Stop
  BY <1>2, <1>3, <1>4, <1>5 DEF Store!Stop, Files
<1> QED BY <1>6 DEF Store!Next

LEMMA DropJoinIsStore ==
    ASSUME IInv, DInv', Shows, Shows', DropJoin
    PROVE  [Store!Next]_(Store!vars)
<1>1. session # "down" /\ session' = "down" /\ UNCHANGED <<entries, content, worker, synced>>
  BY DEF DropJoin, mem
<1>2. \A i \in DOMAIN content : Now(i)' = Now(i)
  BY <1>1, NowStays DEF CommitsOn
<1> QED BY <1>1, <1>2, StopIsStore

LEMMA KillIsStore ==
    ASSUME IInv, DInv', Shows, Shows', Kill
    PROVE  [Store!Next]_(Store!vars)
<1>1. /\ session # "down" /\ session' = "down" /\ UNCHANGED <<entries, synced>>
      /\ worker' = [w \in Worker |-> Idle]
      /\ content' = Only(content, {ino \in Ino : Writing(ino) = {}})
  BY DEF Kill, mem
<1>2. \A i \in DOMAIN content' : i \in DOMAIN content /\ content'[i] = content[i] /\ Writing(i) = {}
  BY <1>1 DEF Only
<1>3. ASSUME NEW i \in DOMAIN content' PROVE Now(i)' = Now(i)
  <2>1. \A w \in Worker : ~CommitsOn(w, i)
    BY <1>2, <1>3, WritersHold DEF CommitsOn, Editing
  <2>2. \A w \in Worker : ~CommitsOn(w, i)'
    BY <1>1 DEF CommitsOn, Idle
  <2> QED BY <1>2, <1>3, <2>1, <2>2, NowStays
<1> QED BY <1>1, <1>2, <1>3, StopIsStore

LEMMA MountIsStore ==
    ASSUME IInv, DInv', Shows, Shows', Mount
    PROVE  [Store!Next]_(Store!vars)
<1> DEFINE kept == DOMAIN content'
<1>1. /\ session = "down" /\ session' = "idle" /\ entries' = disk
      /\ content' = Only(content, {i \in DOMAIN entries \cap DOMAIN disk : entries[i] = disk[i]})
      /\ UNCHANGED <<worker, synced>>
  BY DEF Mount
<1>2. \A i \in DOMAIN content' : i \in DOMAIN content /\ content'[i] = content[i]
  BY <1>1 DEF Only
<1>3. \A i \in DOMAIN content' : Now(i)' = Now(i)
  BY <1>1, <1>2, NowStays DEF CommitsOn
<1>4. DOMAIN Files = DOMAIN content /\ \A i \in DOMAIN content : Files[i] = Now(i)
  BY DEF Files
<1>5. Files' = Store!Keep(Files, kept)
  <2>1. Files' = [i \in kept |-> Now(i)]
    BY <1>3 DEF Files
  <2> QED BY <1>2, <1>4, <2>1 DEF Store!Keep
<1>6. DOMAIN synced \subseteq kept
  BY <1>1 DEF DInv, SyncedStored
<1>7. DOMAIN entries' \ DOMAIN content' \in SUBSET (Ino \ kept)
  BY <1>1, Numbers
<1>8. kept \in SUBSET DOMAIN Files
  BY <1>2, <1>4
<1>9. Store!Start
  BY <1>1, <1>5, <1>6, <1>7, <1>8 DEF Store!Start, Files
<1> QED BY <1>9 DEF Store!Next

LEMMA NextIsStore ==
    ASSUME IInv, DInv, DInv', JobsAsked, Shows, Shows', [Next]_vars
    PROVE  [Store!Next]_(Store!vars)
<1>1. CASE UNCHANGED vars
  <2>1. UNCHANGED <<entries, content, worker, session, synced>>
    BY <1>1 DEF vars, mem
  <2>2. \A i \in DOMAIN content : Now(i)' = Now(i)
    BY <2>1, NowStays DEF CommitsOn
  <2>3. Files' = Files
    BY <2>1, <2>2 DEF Files
  <2> QED BY <2>1, <2>3 DEF Store!vars, Files
<1>2. ASSUME NEW ino \in Ino,
             \/ \E op \in ReadOps : read(ino, op)
             \/ \E op \in WriteOps : write(ino, op)
             \/ \E size \in Sizes : setattr(ino, size)
             \/ SaveAttributes(ino)
             \/ unlink(ino)
             \/ fsync(ino)
      PROVE  [Store!Next]_(Store!vars)
  BY <1>2, SessionIsStore, unlinkIsStore
<1>3. ASSUME NEW w \in Worker, WorkerStep(w) PROVE [Store!Next]_(Store!vars)
  <2>1. CASE CommitWrite(w) \/ ApplySetattr(w)
    <3>1. Commits(w) /\ UNCHANGED <<session, synced>>
      BY <2>1 DEF CommitWrite, ApplySetattr
    <3> QED BY <3>1, CommitIsStore
  <2> QED BY <1>3, <2>1, WaitingIsStore, OpenDataIsStore, TransferIsStore DEF WorkerStep
<1>4. CASE create
  BY <1>4, createIsStore
<1>5. CASE fsyncdir \/ SessionStep \/ Close
  BY <1>5, SessionIsStore, FsyncIsStore, DropJoinIsStore DEF SessionStep
<1>6. CASE Kill \/ Mount
  BY <1>6, KillIsStore, MountIsStore
<1> QED BY <1>1, <1>2, <1>3, <1>4, <1>5, <1>6 DEF Next

\* A volume is a store of byte sequences: whatever the workers, the session, unlink,
\* failed saves, kills and remounts do, what the data files hold changes as if each
\* write and each truncate happened at one moment, and a restart spoils no file that
\* was synced.
THEOREM FileStoreImplemented ==
    ASSUME NoFileIsMissing
    PROVE  Spec => ImplementsFileStore
<1> DEFINE All == IInv /\ DInv /\ JobsAsked /\ Shows
<1>1. Init => All
  <2>1. Init => IInv /\ DInv
    BY StartsWithIInv, StartsWithDInv
  <2>2. Init => JobsAsked
    <3> SUFFICES ASSUME Init PROVE JobsAsked
      OBVIOUS
    <3>1. Len(queue) = 0 /\ \A w \in Worker : worker[w].pc = "idle"
      BY DEF Init, Idle
    <3> QED BY <3>1 DEF JobsAsked
  <2> QED BY <2>1, <2>2, BytesShow
<1>2. IInv /\ DInv => Shows
  BY BytesShow
<1>3. IInv /\ DInv /\ JobsAsked /\ [Next]_vars => (IInv /\ DInv /\ JobsAsked)'
  BY NextKeepsIInv, NextKeepsDInv, NextKeepsAsked
<1>4. IInv /\ DInv /\ DInv' /\ JobsAsked /\ Shows /\ Shows' /\ [Next]_vars => [Store!Next]_(Store!vars)
  BY NextIsStore
<1>5. Init => Store!Init
  BY StoreBegins
<1> QED BY <1>1, <1>2, <1>3, <1>4, <1>5, PTL DEF Spec, ImplementsFileStore, Store!Spec
=============================================================================
