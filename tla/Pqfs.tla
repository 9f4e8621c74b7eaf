-------------------------------- MODULE Pqfs --------------------------------
(***************************************************************************)
(* A mounted volume under concurrent requests (src/fs/wrapper.rs, with the *)
(* halves of src/fs/ops.rs that the workers run).                          *)
(*                                                                         *)
(* One session thread takes requests from the kernel.  It answers requests *)
(* for metadata itself, under the metadata lock, and queues read, write    *)
(* and truncate for a pool of workers.  A worker takes the lock of the     *)
(* file's inode, works on the data file without the metadata lock, and     *)
(* takes that lock again to commit.  unlink takes only the metadata lock,  *)
(* so it runs between the steps of a worker on the same file.              *)
(*                                                                         *)
(* Critical sections of the metadata lock are atomic; who holds an inode   *)
(* lock is read off the workers' program counters.  The process can be     *)
(* killed at any point, saving the index can fail, and the session can end *)
(* with jobs still queued.  Directory structure is in module Namespace,    *)
(* I/O errors on data files are in module BlockFile.                       *)
(***************************************************************************)
EXTENDS FileBlocks, FiniteSets

CONSTANTS Worker,      \* the threads of the pool, at least two
          MaxIno,      \* bound: largest inode number
          MaxReqs,     \* bound: requests of the kernel
          MaxFaults,   \* bound: failed saves and kills
          MaxMounts,   \* bound: times the volume is mounted
          ReadOps,     \* (offset, length) of the reads tried
          WriteOps,    \* (offset, length) of the writes tried
          Sizes        \* sizes of the truncates tried

ASSUME PqfsAssumption ==
    /\ IsFiniteSet(Worker)
    /\ MaxIno \in Nat /\ MaxIno >= 2
    /\ MaxReqs \in Nat /\ MaxFaults \in Nat /\ MaxMounts \in Nat
    /\ ReadOps \subseteq Nat \X Nat
    /\ WriteOps \subseteq Nat \X (Nat \ {0})
    /\ Sizes \subseteq Nat

Root == 1

Ino == Root + 1 .. MaxIno     \* inode numbers of regular files

VARIABLES
    entries,    \* ino -> [size, key]: the files of the table in memory
    next_ino,
    dirty,
    disk,       \* the table in pqfs.index
    data,       \* ino -> the data file at data/<ino>, or Missing
    queue,      \* the jobs sent to the workers
    worker,     \* the state of each worker
    session,    \* the session thread: "idle", "fsync", "drop", "join", "down"
    target,     \* the inode that fsync waits for
    reqs, faults, mounts,
    content,    \* ghost: ino -> the bytes of the file, where a crash has not
                \* left them in doubt
    unsaved,    \* ghost: files whose change a failed save left out, with no
                \* save since
    synced      \* ghost: ino -> the bytes it had at an fsync answered with
                \* success, until it is next changed

mem  == <<entries, next_ino, dirty>>
aux  == <<reqs, faults, mounts>>
vars == <<mem, disk, data, queue, worker, session, target, aux, content, unsaved, synced>>

Idle == [pc |-> "idle"]

Only(f, S) == [x \in DOMAIN f \cap S |-> f[x]]

Put(f, x, v) == [y \in DOMAIN f \cup {x} |-> IF y = x THEN v ELSE f[y]]

-----------------------------------------------------------------------------
(* Locks.  A read job holds the inode lock shared, a write or truncate job  *)
(* holds it alone, from the step that takes it to the reply.                *)

\* Mutant: the guard is dropped before the commit.
HoldingUntilCommit(w) == worker[w].pc \notin {"idle", "lock", "commit"}

Holding(w) == worker[w].pc \notin {"idle", "lock"}

OnFile(w, ino) == Holding(w) /\ worker[w].job.ino = ino

Reading(ino) == {w \in Worker : OnFile(w, ino) /\ worker[w].job.op = "read"}

Writing(ino) == {w \in Worker : OnFile(w, ino) /\ worker[w].job.op # "read"}

\* Mutant: nobody asks for the lock.
Unlocked(ino) == ino \in Ino

\* lock.read() returns.
Shared(ino) == Writing(ino) = {}

\* lock.write() returns.
Exclusive(ino) == Reading(ino) \cup Writing(ino) = {}

-----------------------------------------------------------------------------
(* The index *)

Fault == faults < MaxFaults /\ faults' = faults + 1

\* save_index of the table e, for a change of the files in S: temporary file,
\* rename, sync of the directory.
save_index(e, S) ==
    \/ /\ disk' = e
       /\ dirty' = FALSE
       /\ unsaved' = {}
       /\ UNCHANGED faults
    \/ /\ Fault
       /\ disk' \in {disk, e}
       /\ unsaved' = unsaved \cup S
       /\ UNCHANGED dirty

flush_index ==
    IF dirty THEN save_index(entries, {}) ELSE UNCHANGED <<disk, dirty, unsaved, faults>>

\* Mutant: a write leaves the index as clean as it was.
forget_dirty == UNCHANGED dirty

mark_dirty == dirty' = TRUE

\* Mutant: the counter stands still.
allocate_same == next_ino' = next_ino

allocate_ino == next_ino' = next_ino + 1

-----------------------------------------------------------------------------
(* Requests, taken by the session thread one at a time *)

Request ==
    /\ session = "idle"
    /\ reqs < MaxReqs
    /\ reqs' = reqs + 1
    /\ UNCHANGED mounts

\* The kernel names a file it has looked up or created in this session.  It may
\* still hold one open that was unlinked; such a request is answered ENOENT.
Enqueue(job) ==
    /\ Request
    /\ job.ino \in DOMAIN entries
    /\ queue' = Append(queue, job)
    /\ UNCHANGED <<mem, disk, data, worker, session, target, faults, content, unsaved, synced>>

\* The entry of a read is copied here, before the job has the inode lock.
read(ino, op) ==
    /\ ino \in DOMAIN entries
    /\ Enqueue([op |-> "read", ino |-> ino, offset |-> op[1], len |-> op[2],
                snap |-> entries[ino]])

\* The bytes of a write are its request number, to tell writes apart.
write(ino, op) ==
    Enqueue([op |-> "write", ino |-> ino, offset |-> op[1],
             bytes |-> [p \in 1 .. op[2] |-> reqs + 1]])

\* setattr with a size.
setattr(ino, size) == Enqueue([op |-> "truncate", ino |-> ino, size |-> size])

\* setattr without a size, and whatever else changes just names or attributes: the
\* whole table is saved, with the sizes that earlier writes left unsaved.
SaveAttributes(ino) ==
    /\ Request
    /\ ino \in DOMAIN entries
    /\ save_index(entries, {})
    /\ UNCHANGED <<entries, next_ino, data, queue, worker, session, target, content, synced>>

\* create: a fresh inode number and a fresh content key, named by the request.
create ==
    /\ Request
    /\ next_ino \in Ino
    /\ allocate_ino
    /\ entries' = Put(entries, next_ino, [size |-> 0, key |-> reqs + 1])
    /\ content' = Put(content, next_ino, <<>>)
    /\ save_index(entries', {next_ino})
    /\ UNCHANGED <<data, queue, worker, session, target, synced>>

\* A worker that has the data file open keeps it when its name goes.
Detach(ino) ==
    [w \in Worker |->
        IF OnFile(w, ino) /\ worker[w].pc = "transfer" /\ worker[w].own = Missing
        THEN [worker[w] EXCEPT !.own = data[ino]]
        ELSE worker[w]]

\* unlink, and the replacement of a file by rename: the entry and then the data
\* file go, without the inode lock.  A data file that cannot be removed stays.
unlink(ino) ==
    /\ Request
    /\ ino \in DOMAIN entries
    /\ entries' = Only(entries, Ino \ {ino})
    /\ content' = Only(content, Ino \ {ino})
    /\ \/ /\ data' = [data EXCEPT ![ino] = Missing]
          /\ worker' = Detach(ino)
       \/ UNCHANGED <<data, worker>>
    /\ synced' = Only(synced, Ino \ {ino})
    /\ save_index(entries', {ino})
    /\ UNCHANGED <<next_ino, queue, session, target>>

\* fsync and flush wait for the inode lock; the session takes no request
\* meanwhile.  Then the data file is synced and a dirty index saved.
fsync(ino) ==
    /\ Request
    /\ session' = "fsync"
    /\ target' = ino
    /\ UNCHANGED <<mem, disk, data, queue, worker, faults, content, unsaved, synced>>

FsyncAnswered ==
    /\ \/ /\ flush_index
          /\ synced' = IF ~dirty' /\ target \in DOMAIN content \ unsaved'
                       THEN Put(synced, target, content[target])
                       ELSE synced
       \/ /\ data[target] # Missing             \* blocks::sync fails: EIO
          /\ UNCHANGED <<disk, dirty, unsaved, faults, synced>>
    /\ session' = "idle"
    /\ UNCHANGED <<entries, next_ino, data, queue, worker, target, reqs, mounts, content>>

\* Mutant: the session does not wait for the inode lock.
FsyncUnlocked == session = "fsync" /\ FsyncAnswered

FsyncLocked == session = "fsync" /\ Shared(target) /\ FsyncAnswered

fsyncdir ==
    /\ Request
    /\ flush_index
    /\ UNCHANGED <<entries, next_ino, data, queue, worker, session, target, content, synced>>

-----------------------------------------------------------------------------
(* The workers *)

Become(w, state) == worker' = [worker EXCEPT ![w] = state]

\* recv hands the first job of the queue to one worker.
Take(w) ==
    /\ worker[w] = Idle
    /\ queue # <<>>
    /\ Become(w, [pc |-> "lock", job |-> Head(queue)])
    /\ queue' = Tail(queue)
    /\ UNCHANGED <<mem, disk, data, session, target, aux, content, unsaved, synced>>

\* do_read, once the lock is held shared: no data file, no bytes.
ReadLocked(w) ==
    /\ worker[w].pc = "lock"
    /\ worker[w].job.op = "read"
    /\ Shared(worker[w].job.ino)
    /\ \/ /\ data[worker[w].job.ino] = Missing
          /\ Become(w, Idle)
       \/ /\ data[worker[w].job.ino] # Missing
          /\ Become(w, [worker[w] EXCEPT !.pc = "read"])
    /\ UNCHANGED <<mem, disk, data, queue, session, target, aux, content, unsaved, synced>>

\* The answer read_range gives for the entry copied at dispatch.  If the data file
\* has gone since, it cannot be opened: no block of it is readable.
ReadResult(w) ==
    LET job  == worker[w].job
        file == IF data[job.ino] = Missing THEN Empty ELSE data[job.ino]
    IN  read_range(file, job.snap.key, job.snap.size, job.offset, job.len)

ReadReply(w) ==
    /\ worker[w].pc = "read"
    /\ Become(w, Idle)
    /\ UNCHANGED <<mem, disk, data, queue, session, target, aux, content, unsaved, synced>>

Plan(job, size) ==
    IF job.op = "write"
    THEN write_range(size, job.offset, job.bytes)
    ELSE truncate(size, job.size)

\* A write or truncate copies the entry once it holds the lock alone, and then
\* opens the data file, if it has anything to do there.
WriteLocked(w) ==
    LET job == worker[w].job IN
    /\ worker[w].pc = "lock"
    /\ job.op # "read"
    /\ Exclusive(job.ino)
    /\ \/ /\ job.ino \notin DOMAIN entries       \* ENOENT
          /\ Become(w, Idle)
          /\ UNCHANGED synced
       \/ /\ job.ino \in DOMAIN entries
          /\ Become(w, [pc |-> "open", job |-> job, entry |-> entries[job.ino],
                        plan |-> Plan(job, entries[job.ino].size), own |-> Missing])
          /\ synced' = Only(synced, Ino \ {job.ino})
    /\ UNCHANGED <<mem, disk, data, queue, session, target, aux, content, unsaved>>

OpenData(w) ==
    LET ino == worker[w].job.ino IN
    /\ worker[w].pc = "open"
    /\ Become(w, [worker[w] EXCEPT !.pc = IF worker[w].plan.opens THEN "transfer" ELSE "commit"])
    /\ data' = IF worker[w].plan.opens THEN [data EXCEPT ![ino] = open_rw(@)] ELSE data
    /\ UNCHANGED <<mem, disk, queue, session, target, aux, content, unsaved, synced>>

\* The file the worker has open: the one at the data path, or the nameless one.
Opened(w) == IF worker[w].own = Missing THEN data[worker[w].job.ino] ELSE worker[w].own

\* The block loop and set_len; it stops with EIO at a block it cannot read.
Transfer(w) ==
    LET job  == worker[w].job
        plan == worker[w].plan
        key  == worker[w].entry.key
        file == Opened(w)
    IN
    /\ worker[w].pc = "transfer"
    /\ \E k \in plan.from .. plan.until :
        /\ Stops(file, key, plan, k)
        /\ LET left == IF k = plan.until
                       THEN Applied(file, key, plan)
                       ELSE Resealed(file, key, plan, k)
           IN  data' = IF worker[w].own = Missing THEN [data EXCEPT ![job.ino] = left] ELSE data
        /\ Become(w, IF k = plan.until THEN [worker[w] EXCEPT !.pc = "commit"] ELSE Idle)
    /\ UNCHANGED <<mem, disk, queue, session, target, aux, content, unsaved, synced>>

\* The bytes of a file after a plan, whatever the block code does.
Bytewise(old, plan) ==
    [p \in 1 .. plan.new |->
        IF plan.offset < p /\ p <= plan.offset + Len(plan.data)
        THEN plan.data[p - plan.offset]
        ELSE IF p <= Len(old) THEN old[p] ELSE 0]

Commits(w) ==
    LET ino == worker[w].job.ino IN
    /\ worker[w].pc = "commit"
    /\ ino \in DOMAIN entries
    /\ entries' = Put(entries, ino, [size |-> worker[w].plan.new, key |-> worker[w].entry.key])
    /\ content' = IF ino \in DOMAIN content
                  THEN Put(content, ino, Bytewise(content[ino], worker[w].plan))
                  ELSE content
    /\ Become(w, Idle)

\* commit_write only marks the index dirty.
CommitWrite(w) ==
    /\ Commits(w)
    /\ worker[w].job.op = "write"
    /\ mark_dirty
    /\ UNCHANGED <<next_ino, disk, data, queue, session, target, aux, unsaved, synced>>

\* apply_setattr saves the index.
ApplySetattr(w) ==
    /\ Commits(w)
    /\ worker[w].job.op = "truncate"
    /\ save_index(entries', {worker[w].job.ino})
    /\ UNCHANGED <<next_ino, data, queue, session, target, reqs, mounts, synced>>

\* Mutant: the worker waits for the entry to come back.
CommitWaits(w) ==
    /\ worker[w].pc = "commit"
    /\ worker[w].job.ino \notin DOMAIN entries
    /\ UNCHANGED vars

\* The entry was removed while the job was in flight: the write is reported as
\* done, the truncate as ENOENT, and nothing is recorded.
CommitGone(w) ==
    /\ worker[w].pc = "commit"
    /\ worker[w].job.ino \notin DOMAIN entries
    /\ Become(w, Idle)
    /\ UNCHANGED <<mem, disk, data, queue, session, target, aux, content, unsaved, synced>>

-----------------------------------------------------------------------------
(* The end of a session, and the next one *)

\* The kernel unmounts the file system, or drops the connection while requests
\* are being served.
Close ==
    /\ session = "idle"
    /\ session' = "drop"
    /\ UNCHANGED <<mem, disk, data, queue, worker, target, aux, content, unsaved, synced>>

\* Drop saves a dirty index first ...
DropFlush ==
    /\ session = "drop"
    /\ flush_index
    /\ session' = "join"
    /\ UNCHANGED <<entries, next_ino, data, queue, worker, target, reqs, mounts, content, synced>>

\* ... and then closes the queue and waits for the workers to empty the queue.
DropJoin ==
    /\ session = "join"
    /\ queue = <<>>
    /\ \A w \in Worker : worker[w] = Idle
    /\ session' = "down"
    /\ UNCHANGED <<mem, disk, data, queue, worker, target, aux, content, unsaved, synced>>

Blocks(w) == worker[w].plan.from .. worker[w].plan.until

\* What a kill in the middle of the transfers leaves at the data paths.
Interrupted(w, k) ==
    LET plan == worker[w].plan IN
    /\ k \in Blocks(w)
    /\ \A i \in plan.from .. k - 1 : CanEdit(Opened(w), worker[w].entry.key, plan, i)

Transferring == {w \in Worker : worker[w].pc = "transfer" /\ worker[w].own = Missing}

\* The process is killed.  The bytes of a file that was being changed are in
\* doubt from now on.
Kill ==
    /\ session # "down"
    /\ Fault
    /\ \E cut \in [Transferring -> UNION {Blocks(w) : w \in Transferring}] :
        /\ \A w \in Transferring : Interrupted(w, cut[w])
        /\ data' = [ino \in Ino |->
                        IF \E w \in Transferring : worker[w].job.ino = ino
                        THEN LET w == CHOOSE v \in Transferring : worker[v].job.ino = ino
                             IN  Resealed(data[ino], worker[w].entry.key, worker[w].plan, cut[w])
                        ELSE data[ino]]
    /\ content' = Only(content, {ino \in Ino : Writing(ino) = {}})
    /\ queue' = <<>>
    /\ worker' = [w \in Worker |-> Idle]
    /\ session' = "down"
    /\ UNCHANGED <<mem, disk, target, reqs, mounts, unsaved, synced>>

\* Pqfs::mount, PqfsInner::load: back to the saved table.  Where that is not
\* what the last session had in memory, the bytes are in doubt.
Mount ==
    /\ session = "down"
    /\ mounts < MaxMounts
    /\ mounts' = mounts + 1
    /\ entries' = disk
    /\ \E last \in DOMAIN disk \cup {Root} :
        /\ \A i \in DOMAIN disk : i <= last
        /\ next_ino' = last + 1
    /\ dirty' = FALSE
    /\ unsaved' = {}
    /\ content' = Only(content, {i \in DOMAIN entries \cap DOMAIN disk : entries[i] = disk[i]})
    /\ session' = "idle"
    /\ UNCHANGED <<disk, data, queue, worker, target, reqs, faults, synced>>

-----------------------------------------------------------------------------

\* A volume with one empty file, just mounted.
Init ==
    /\ entries = [i \in {Root + 1} |-> [size |-> 0, key |-> 0]]
    /\ next_ino = Root + 2
    /\ dirty = FALSE
    /\ disk = entries
    /\ data = [i \in Ino |-> Missing]
    /\ queue = <<>>
    /\ worker = [w \in Worker |-> Idle]
    /\ session = "idle"
    /\ target = Root + 1
    /\ reqs = 0
    /\ faults = 0
    /\ mounts = 1
    /\ content = [i \in {Root + 1} |-> <<>>]
    /\ unsaved = {}
    /\ synced = Only(content, {})

WorkerStep(w) ==
    \/ Take(w)
    \/ ReadLocked(w) \/ ReadReply(w)
    \/ WriteLocked(w) \/ OpenData(w) \/ Transfer(w)
    \/ CommitWrite(w) \/ ApplySetattr(w) \/ CommitGone(w)

SessionStep == FsyncLocked \/ DropFlush \/ DropJoin

Next ==
    \/ \E ino \in Ino :
        \/ \E op \in ReadOps : read(ino, op)
        \/ \E op \in WriteOps : write(ino, op)
        \/ \E size \in Sizes : setattr(ino, size)
        \/ SaveAttributes(ino)
        \/ unlink(ino)
        \/ fsync(ino)
    \/ create
    \/ fsyncdir
    \/ \E w \in Worker : WorkerStep(w)
    \/ SessionStep
    \/ Close
    \/ Kill
    \/ Mount

\* The operating system runs every thread that can run; no lock here is held
\* for ever.  Nothing obliges the kernel to send requests or to unmount.
Fairness ==
    /\ \A w \in Worker : WF_vars(WorkerStep(w))
    /\ WF_vars(SessionStep)

Spec == Init /\ [][Next]_vars /\ Fairness

-----------------------------------------------------------------------------
(* Properties *)

TypeOK ==
    /\ DOMAIN entries \subseteq Ino
    /\ \A i \in DOMAIN entries : i < next_ino /\ entries[i] \in [size : Nat, key : 0 .. MaxReqs]
    /\ dirty \in BOOLEAN
    /\ DOMAIN disk \subseteq Ino
    /\ DOMAIN data = Ino
    /\ \A w \in Worker :
        worker[w].pc \in {"idle", "lock", "read", "open", "transfer", "commit"}
    /\ session \in {"idle", "fsync", "drop", "join", "down"}
    /\ DOMAIN content \subseteq Ino
    /\ unsaved \subseteq Ino
    /\ DOMAIN synced \subseteq Ino

\* The whole file, as the entry e describes it.
Decoded(ino, e) == do_read(data[ino], e.key, e.size, 0, e.size)

Changing(ino) == \E w \in Writing(ino) : worker[w].pc \in {"transfer", "commit"}

\* Whenever no worker is at it, a file's data fits the size and key in the table
\* and holds exactly the bytes of the writes and truncates committed so far:
\* whatever the order the workers took the jobs in, whatever was unlinked
\* meanwhile, and whatever an earlier file left under the same inode number.
CommittedMatches ==
    session # "down" =>
    \A ino \in DOMAIN content \cap DOMAIN entries :
        ~Changing(ino) => Decoded(ino, entries[ino]) = Bytes(content[ino])

\* From the step that copies the entry of a write or truncate to the step that
\* commits, that entry may go but does not change: the commit never overwrites
\* the size or the key of another commit or of another file.
WriterOwnsEntry ==
    \A w \in Worker :
        /\ worker[w].pc \in {"open", "transfer", "commit"}
        /\ worker[w].job.ino \in DOMAIN entries
        => entries[worker[w].job.ino] = worker[w].entry

\* A read that succeeds returns bytes the file has at that moment, up to the
\* size it had when the request came in, and a read of a sound file fails only
\* when the size changed since then.
ReadsCommitted ==
    \A w \in Worker :
        worker[w].pc = "read" /\ worker[w].job.ino \in DOMAIN content \cap DOMAIN entries =>
            LET job == worker[w].job
                got == ReadResult(w)
            IN  IF got.ok
                THEN got.data = SubSeq(content[job.ino], job.offset + 1,
                                       Least(job.offset + job.len, job.snap.size))
                ELSE job.snap.size # entries[job.ino].size

\* An index that is not marked dirty agrees with the one on disk about every file
\* but those whose own save failed: no commit to another file is missed by the
\* next fsync, close or unmount.
CleanMeansSaved ==
    session # "down" /\ ~dirty =>
        Only(disk, Ino \ unsaved) = Only(entries, Ino \ unsaved)

\* A file that was synced, and not changed since, has its bytes under the saved
\* index: killing the process now, or at any step other jobs take, keeps them.
SyncedSurvivesKill ==
    \A ino \in DOMAIN synced :
        /\ ino \in DOMAIN disk
        /\ Decoded(ino, disk[ino]) = Bytes(synced[ino])

\* The workers that have changed the data file of ino and not yet its entry.
Committing(ino) == {w \in Worker : worker[w].pc = "commit" /\ worker[w].job.ino = ino}

\* The bytes of the whole file under the size that it has, or is about to get; none
\* if they cannot be read.
Now(ino) ==
    LET size == IF Committing(ino) = {}
                THEN entries[ino].size
                ELSE worker[CHOOSE w \in Committing(ino) : TRUE].plan.new
        got  == do_read(data[ino], entries[ino].key, size, 0, size)
    IN  IF got.ok THEN got.data ELSE Missing

\* The files of a volume behave as a store of byte sequences: a write or truncate
\* takes effect at once, in the step that changes the data file, although the size
\* follows later and unlink, kills and failed saves fall in between.
Store == INSTANCE FileStore WITH
    Ino    <- Ino,
    Writes <- {<<op[1], [p \in 1 .. op[2] |-> r]>> : op \in WriteOps, r \in 1 .. MaxReqs},
    Sizes  <- Sizes,
    up     <- session # "down",
    files  <- [ino \in DOMAIN content |-> Now(ino)],
    doubt  <- DOMAIN entries \ DOMAIN content,
    synced <- synced

ImplementsFileStore == Store!Spec

\* Every job a worker takes is answered, and an fsync or an unmount that waits
\* for the workers gets its turn: no lock is left behind on an early return, and
\* no two parties wait for each other.
RequestsReturn ==
    /\ \A w \in Worker : worker[w] # Idle ~> worker[w] = Idle
    /\ session = "fsync" ~> session # "fsync"
    /\ session = "drop" ~> session = "down"

\* "Close the job queue so workers exit after draining pending jobs"
\* (src/fs/wrapper.rs, Drop): what the drained jobs committed is saved too.
UnmountSavesAll == session = "down" /\ faults = 0 => disk = entries
=============================================================================
