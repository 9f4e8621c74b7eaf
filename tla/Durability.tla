----------------------------- MODULE Durability -----------------------------
(***************************************************************************)
(* What a power loss does to the files of a mounted volume: the data files *)
(* under data/, which only fsync and flush make durable (src/fs/blocks.rs, *)
(* sync), and the index, which every save makes durable as a whole         *)
(* (src/fs/inner.rs, save_index) with the sizes of all files in it         *)
(* (src/fs/wrapper.rs, src/fs/ops.rs).                                     *)
(*                                                                         *)
(* Files have at most one block here (module FileBlocks has several).  A   *)
(* data file is [key, len, val]: sealed under a content key, of a length,  *)
(* with the bytes of one request.  It opens under an entry of the same key *)
(* and length.  Requests of the session thread are taken apart where a     *)
(* power loss can fall between their steps; the job of a worker is its     *)
(* copy of the entry, the change of the data file and the commit.  The     *)
(* lock of an inode keeps jobs at it apart, the lock of the table the      *)
(* steps that use the table.  The queue is in module Pqfs.                 *)
(*                                                                         *)
(* The code never syncs the directory data/.  That a synced file keeps its *)
(* name is left to the file system below (ext4, XFS and Btrfs see to it).  *)
(***************************************************************************)
EXTENDS Naturals

CONSTANTS MaxIno,     \* bound: largest inode number
          MaxReqs,    \* bound: requests
          MaxFaults,  \* bound: failed saves, kills and power losses
          Len,        \* the lengths of files tried
          Missing     \* the state of a data path at which there is no file

ASSUME DurabilityAssumption ==
    /\ MaxIno \in Nat
    /\ MaxReqs \in Nat
    /\ MaxFaults \in Nat
    /\ Len \subseteq Nat \ {0}
    /\ Missing \notin [key : Nat, len : Nat, val : Nat]

Root == 1

Ino == Root + 1 .. MaxIno

Unsealed == [key |-> 0, len |-> 0, val |-> 0]    \* empty or torn: no key opens it

VARIABLES entries,   \* ino -> [id, key, len]: the table in memory
          next_ino, dirty,
          disk,      \* the table in pqfs.index, as a kill leaves it
          tables,    \* the tables that a power loss may leave
          data,      \* ino -> the data file, or Missing
          stable,    \* ino -> what a power loss may leave of it
          job,       \* ino -> the job that has the lock of ino
          session,   \* the session thread: what it is doing, and for which file
          reqs, faults,
          synced,    \* ghost: ino -> the bytes it had at an fsync answered with
                     \* success, until it is next changed
          failed,    \* ghost: files whose entry a failed save has left in doubt,
                     \* with no save since
          written,   \* ghost: id -> the requests that wrote to that file
          kept       \* ghost: ids of files whose data file was ever synced, until
                     \* somebody asks to unlink them

table  == <<entries, next_ino, dirty, disk, tables>>
ghosts == <<synced, failed, written, kept>>
vars   == <<table, data, stable, job, session, reqs, faults, ghosts>>

Nobody == [id |-> 0, key |-> 0, len |-> 0]

Free == [op |-> "none", len |-> 0, val |-> 0, entry |-> Nobody]

Waiting == [pc |-> "idle", ino |-> Root]

Only(f, S) == [x \in DOMAIN f \cap S |-> f[x]]

Put(f, x, v) == [y \in DOMAIN f \cup {x} |-> IF y = x THEN v ELSE f[y]]

Request ==
    /\ session = Waiting
    /\ reqs < MaxReqs
    /\ reqs' = reqs + 1

Fault == faults < MaxFaults /\ faults' = faults + 1

\* save_index of the table e, for a change of the file ino.
save_index(e, ino) ==
    \/ /\ disk' = e
       /\ tables' = {e}
       /\ dirty' = FALSE
       /\ failed' = {}
       /\ UNCHANGED faults
    \/ /\ Fault
       /\ disk' \in {disk, e}
       /\ tables' = tables \cup {disk'}
       /\ failed' = failed \cup {ino}
       /\ UNCHANGED dirty

-----------------------------------------------------------------------------
(* Requests *)

\* Mutant: the key of a file is made from its inode number.
content_key_of_ino(ino, n) == ino

content_key(ino, n) == n

\* Mutant: the counter does not move on.
allocate_same == next_ino' = next_ino

allocate_ino == next_ino' = next_ino + 1

create ==
    /\ Request
    /\ next_ino \in Ino
    /\ allocate_ino
    /\ entries' = Put(entries, next_ino,
                      [id |-> reqs', key |-> content_key(next_ino, reqs'), len |-> 0])
    /\ written' = Put(written, reqs', {})
    /\ save_index(entries', next_ino)
    /\ UNCHANGED <<data, stable, job, session, synced, kept>>

\* A worker has the lock of the inode and copies the entry.  A write ends at len
\* or at the old end of the file, a truncate at len.
Job(ino, op, len) ==
    /\ Request
    /\ ino \in DOMAIN entries
    /\ job[ino] = Free
    /\ op = "write" => len >= entries[ino].len /\ len > 0
    /\ job' = [job EXCEPT ![ino] =
                [op |-> op, len |-> len, val |-> reqs', entry |-> entries[ino]]]
    /\ UNCHANGED <<table, data, stable, session, faults, ghosts>>

\* The data file d opens under the entry.
Opens(d, entry) == d # Missing /\ d.key = entry.key /\ d.len = entry.len

\* What becomes of the data file: the old block is needed unless there is none or
\* none is left, and a file that is not there is made before it is read.
Changed(d, j) ==
    IF j.len = 0 THEN Unsealed
    ELSE IF j.entry.len = 0 \/ Opens(d, j.entry)
         THEN [key |-> j.entry.key, len |-> j.len, val |-> j.val]
         ELSE IF d = Missing THEN Unsealed ELSE d

Committing == [write |-> "commit write", truncate |-> "commit truncate"]

Keeps(j) == j.op = "truncate" /\ j.len = j.entry.len

\* do_write_data or do_truncate, with no lock but that of the inode: a file
\* unlinked since the entry was copied gets a data file again.
Transfer(ino) ==
    LET j  == job[ino]
        ok == Keeps(j) \/ j.len = 0 \/ j.entry.len = 0 \/ Opens(data[ino], j.entry)
    IN
    /\ j.op \in {"write", "truncate"}
    /\ job' = [job EXCEPT ![ino] = IF ok THEN [j EXCEPT !.op = Committing[j.op]] ELSE Free]
    /\ data' = IF Keeps(j) THEN data ELSE [data EXCEPT ![ino] = Changed(@, j)]
    /\ stable' = IF data' = data THEN stable
                 ELSE [stable EXCEPT ![ino] = @ \cup {Unsealed, data'[ino]}]
    /\ written' = [written EXCEPT ![j.entry.id] = @ \cup {j.val}]
    /\ synced' = Only(synced, Ino \ {ino})
    /\ UNCHANGED <<table, session, reqs, faults, failed, kept>>

\* commit_write marks the index dirty, apply_setattr saves it; neither does
\* anything for a file that has been unlinked meanwhile.
Commit(ino) ==
    /\ session = Waiting
    /\ job[ino].op \in {"commit write", "commit truncate"}
    /\ job' = [job EXCEPT ![ino] = Free]
    /\ \/ /\ ino \notin DOMAIN entries
          /\ UNCHANGED <<table, faults, failed>>
       \/ /\ ino \in DOMAIN entries
          /\ entries' = [entries EXCEPT ![ino].len = job[ino].len]
          /\ \/ /\ job[ino].op = "commit write"
                /\ dirty' = TRUE
                /\ UNCHANGED <<disk, tables, faults, failed>>
             \/ /\ job[ino].op = "commit truncate"
                /\ save_index(entries', ino)
          /\ UNCHANGED next_ino
    /\ UNCHANGED <<data, stable, session, reqs, synced, written, kept>>

\* Mutant: only the index is made durable.
sync_nothing(ino) == UNCHANGED stable

\* blocks::sync: a data file that is not there is no error.
sync(ino) == stable' = IF data[ino] = Missing THEN stable
                       ELSE [stable EXCEPT ![ino] = {data[ino]}]

\* The id of the file at ino, if there is one.
Id(ino) == {entries[i].id : i \in DOMAIN entries \cap {ino}}

\* fsync and flush wait for the inode lock and sync the data file first; if that
\* fails they answer EIO ...
fsync(ino) ==
    /\ Request
    /\ ino < next_ino
    /\ job[ino] = Free
    /\ \/ /\ sync(ino)
          /\ session' = [pc |-> "flush", ino |-> ino]
          /\ kept' = IF data[ino] = Missing THEN kept ELSE kept \cup Id(ino)
       \/ /\ data[ino] # Missing
          /\ UNCHANGED <<stable, session, kept>>
    /\ UNCHANGED <<table, data, job, faults, synced, failed, written>>

\* ... and then save a dirty index, which has the sizes of all other files too.
FlushIndex ==
    LET ino == session.ino IN
    /\ session.pc = "flush"
    /\ \/ dirty /\ save_index(entries, ino)
       \/ ~dirty /\ UNCHANGED <<disk, tables, dirty, failed, faults>>
    /\ synced' = IF ino \in DOMAIN entries \ failed'
                    /\ (entries[ino].len = 0 \/ Opens(data[ino], entries[ino]))
                 THEN Put(synced, ino, IF entries[ino].len = 0 THEN 0 ELSE data[ino].val)
                 ELSE synced
    /\ session' = Waiting
    /\ UNCHANGED <<entries, next_ino, data, stable, job, reqs, written, kept>>

\* unlink: the entry goes, and the data file unless its removal fails ...
unlink(ino) ==
    /\ Request
    /\ ino \in DOMAIN entries
    /\ entries' = Only(entries, Ino \ {ino})
    /\ \/ /\ data' = [data EXCEPT ![ino] = Missing]
          /\ stable' = [stable EXCEPT ![ino] = @ \cup {Missing}]
       \/ UNCHANGED <<data, stable>>
    /\ synced' = Only(synced, Ino \ {ino})
    /\ kept' = kept \ Id(ino)
    /\ session' = [pc |-> "unlink", ino |-> ino]
    /\ UNCHANGED <<next_ino, dirty, disk, tables, job, faults, failed, written>>

\* ... before the index without it is saved.
SaveUnlinked ==
    /\ session.pc = "unlink"
    /\ save_index(entries, session.ino)
    /\ session' = Waiting
    /\ UNCHANGED <<entries, next_ino, data, stable, job, reqs, synced, written, kept>>

-----------------------------------------------------------------------------
(* The end of the process, and the next mount *)

\* Mutant: the counter starts at the largest number in use.
MountReuses(left) ==
    /\ entries' = left
    /\ disk' = left
    /\ \E last \in DOMAIN left \cup {Root + 1} :
        /\ \A i \in DOMAIN left : i <= last
        /\ next_ino' = last
    /\ dirty' = FALSE
    /\ job' = [i \in Ino |-> Free]
    /\ session' = Waiting

\* PqfsInner::load of the table that is left.
Mount(left) ==
    /\ entries' = left
    /\ disk' = left
    /\ \E last \in DOMAIN left \cup {Root} :
        /\ \A i \in DOMAIN left : i <= last
        /\ next_ino' = last + 1
    /\ dirty' = FALSE
    /\ job' = [i \in Ino |-> Free]
    /\ session' = Waiting

\* The tables t and u say the same of the file ino.
Agree(t, u, ino) ==
    /\ ino \in DOMAIN t <=> ino \in DOMAIN u
    /\ ino \in DOMAIN t => t[ino] = u[ino]

\* The table that a kill leaves after a failed save may be one that a power loss
\* still takes back: the next mount begins with the files in doubt about which the
\* two differ.
Kill ==
    /\ Fault
    /\ Mount(disk)
    /\ failed' = {ino \in Ino : \E left \in tables : ~Agree(left, disk, ino)}
    /\ UNCHANGED <<tables, data, stable, reqs, synced, written, kept>>

PowerLoss ==
    /\ Fault
    /\ \E left \in tables : Mount(left) /\ tables' = {left}
    /\ data' \in [Ino -> UNION {stable[i] : i \in Ino}]
    /\ \A i \in Ino : data'[i] \in stable[i]
    /\ failed' = {}
    /\ stable' = [i \in Ino |-> {data'[i]}]
    /\ UNCHANGED <<reqs, synced, written, kept>>

Init ==
    /\ entries = [i \in {} |-> 0]
    /\ next_ino = Root + 1
    /\ dirty = FALSE
    /\ disk = entries
    /\ tables = {entries}
    /\ data = [i \in Ino |-> Missing]
    /\ stable = [i \in Ino |-> {Missing}]
    /\ job = [i \in Ino |-> Free]
    /\ session = Waiting
    /\ reqs = 0
    /\ faults = 0
    /\ synced = [i \in {} |-> 0]
    /\ failed = {}
    /\ written = [i \in {} |-> {}]
    /\ kept = {}

Next ==
    \/ create
    \/ \E ino \in Ino :
        \/ \E len \in Len \cup {0}, op \in {"write", "truncate"} : Job(ino, op, len)
        \/ Transfer(ino)
        \/ Commit(ino)
        \/ fsync(ino)
        \/ unlink(ino)
    \/ FlushIndex
    \/ SaveUnlinked
    \/ Kill
    \/ PowerLoss

Spec == Init /\ [][Next]_vars

-----------------------------------------------------------------------------
(* Properties *)

Content == [key : 0 .. MaxReqs, len : Len \cup {0}, val : 0 .. MaxReqs] \cup {Missing}

TypeOK ==
    /\ DOMAIN entries \subseteq Ino
    /\ \A i \in DOMAIN entries : i < next_ino
    /\ disk \in tables
    /\ data \in [Ino -> Content]
    /\ \A i \in Ino : data[i] \in stable[i] /\ stable[i] \subseteq Content
    /\ \A i \in Ino : job[i].op = "none" <=> job[i] = Free
    /\ session \in [pc : {"idle", "flush", "unlink"}, ino : Ino \cup {Root}]
    /\ DOMAIN synced \subseteq Ino
    /\ failed \subseteq Ino

\* A file that was synced, and not changed since, is found in every table a power
\* loss may leave, with the bytes it had, whatever happens to other files.
SyncedSurvivesPowerLoss ==
    \A ino \in DOMAIN synced : \A left \in tables :
        /\ ino \in DOMAIN left
        /\ \A d \in stable[ino] :
            IF synced[ino] = 0
            THEN left[ino].len = 0
            ELSE Opens(d, left[ino]) /\ d.val = synced[ino]

\* No power loss makes a file read as another: whichever table and whichever data
\* files are left, and however often an inode number was used before, what
\* reads under an entry was written to that very file.
NoForeignBytes ==
    \A left \in tables : \A ino \in DOMAIN left : \A d \in stable[ino] :
        Opens(d, left[ino]) => d.val \in written[left[ino].id]

\* A data file that was ever synced is lost only if somebody asked to unlink that
\* very file: no power loss finds an entry without it, although unlink removes the
\* data file before it saves the index, the save may fail, an older index may come
\* back, and the inode number may be given out again meanwhile.
DataGoesOnRequest ==
    \A left \in tables : \A ino \in DOMAIN left :
        left[ino].id \in kept => Missing \notin stable[ino]
=============================================================================
