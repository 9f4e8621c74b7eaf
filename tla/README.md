# A verification of pqfs

pqfs is an encrypted FUSE file system. This directory holds TLA+ models of it,
the TLC configurations that check them on small instances, and TLAPS proofs of
the properties that matter most for instances of every size. `PROJECT.json`
lists the runs, the correspondence of definitions to source lines, the hazards
the properties are aimed at and the disagreements that were found. Source paths
in this text and in the modules' comments are those of the repository.

Run a model with `tlc -config X.cfg M`, a proof with `tlapm M.tla`.

## 1. The system

| Component | State it keeps | Operations |
|---|---|---|
| Block format (`src/fs/blocks.rs`) | one data file per inode, a row of sealed blocks | `read_range`, `write_range`, `truncate`, `sync` |
| Entry table (`src/fs/inner.rs`, `src/fs/entry.rs`) | `entries`, `children`, `by_parent`, `next_ino`, `dirty`; the file `pqfs.index` | `load`, `save_index`, `flush_index`, `insert_entry`, `remove_entry`, `relink` |
| File operations (`src/fs/ops.rs`) | none of their own | `create`, `mkdir`, `symlink`, `unlink`, `rmdir`, `rename`, `do_read`, `do_write_data`, `do_truncate`, `commit_write`, `apply_setattr`, look-ups |
| Request handling (`src/fs/wrapper.rs`) | metadata lock, inode locks, job queue, workers | one handler per FUSE request; `Drop` at unmount |
| Volume files (`src/crypto/volume.rs`) | `pqfs.header`, the staged pair and the marker of a rekey | `init`, `read_header`, `recover`, `commit_rekey`, `write_header` |
| Key slots (`src/commands.rs`, `src/crypto/header.rs`, `src/crypto/keys.rs`) | the slot list in the header | `share`, `revoke`, `passwd`, `rekey`, `slots` |
| Primitives, identities, command line | none, or key files | encryption, KEM, parsing of arguments |

How they interact. The FUSE session is one thread. It answers metadata requests
itself, holding the metadata lock from the first look-up to the end of
`save_index`. `read`, `write` and `setattr` with a size become jobs for a pool
of workers. A worker takes the inode's lock, works on the data file without the
metadata lock, and takes that lock again to commit the new size: a write only
marks the table dirty, a truncate saves it. `fsync`, `flush` and the end of the
session save a dirty table. `unlink` and a replacing `rename` do not take the
inode lock. The commands of `src/commands.rs` are separate processes that work
on the same backend directory; each begins with `recover`.

What is hard to get right here: the size of a file lives in the table while its
blocks live in another file, and a block opens only under the length the size
implies, so every order of the two and every interruption between them matters;
jobs use copies of entries that other requests change; the two lookup indexes
are maintained by hand; the saved table lags behind memory; a power loss keeps an
old data file beside a new table; a rekey has to replace two files at once; and
nothing keeps two processes from editing one backend at the same time.

What makes each component correct:

- blocks: a file reads as a plain byte array, whatever was written, truncated,
  interrupted or lost before;
- table: the indexes agree with it, the tree has no stranded or detached part,
  an acknowledged change is on disk;
- request handling: concurrent jobs on a file act as if one after the other, no
  commit overwrites another, no one waits for ever, what was synced survives;
- volume files: at every instant one master key opens header and index, and what
  a command reported as done stays done;
- key slots: each command changes who can open the volume by the one entry it is
  about, and a rekey shuts out everyone who lost a slot before it.

## 2. The modules

| Module | Models | Used by |
|---|---|---|
| `FileBlocks` | the operators of `blocks.rs`: block arithmetic, records, read, the plan of a write or truncate and its effect | `BlockFile`, `Pqfs`, `FileBlocksProofs` |
| `BlockFile` | one file under writes, truncates, I/O errors, failed saves and crashes | `MCBlockFile`, `BlockFileProofs` |
| `Namespace` | the table, both indexes, the inode counter and `pqfs.index` under all operations on names | `MCNamespace`, `NamespaceProofs` |
| `Pqfs` | session thread, queue, workers, inode locks and files together | `MCPqfs`, `PqfsProofs` |
| `FileStore` | abstract: files that are byte sequences, changed at one moment, with what a restart may do to them | `Pqfs` |
| `AtomicSwap` | abstract: a volume whose key, slots and index change one at a time | `RekeyCommit` |
| `RekeyCommit` | `commit_rekey`, `recover`, `save_index`, `write_header` system call by system call | `MCRekeyCommit`, `RekeyCommitProofs` |
| `AccessList` | abstract: the list of credentials that open a volume | `KeySlots` |
| `KeySlots` | slots and credentials; `share`, `revoke`, `passwd`, `rekey` and a mount, of several processes | `MCKeySlots`, `KeySlotsProofs` |
| `SharedBackend` | `init`, `save_index` and `write_header` of several processes, down to inodes and descriptors | `MCSharedBackend`, `SharedBackendProofs` |
| `Durability` | data files and index of a mounted volume under power loss | `MCDurability`, `DurabilityProofs` |
| `DirStream` | extends `Namespace`: a directory listed by several `readdir` requests while the others change it | `MCDirStream`, `NamespaceProofs` |
| `FileBlocksProofs` | the block format, for blocks of every length | `BlockFileProofs`, `PqfsProofs` |
| `NamespaceProofs`, `BlockFileProofs`, `PqfsProofs`, `RekeyCommitProofs`, `KeySlotsProofs`, `SharedBackendProofs`, `DurabilityProofs` | theorems about the module they are named after (`NamespaceProofs`: about `DirStream` too), with their proofs | |

A definition whose comment begins with `Mutant:` is a broken variant of a definition
that follows it. No specification uses it: it is put in that definition's place to
see that a property notices.

### FileBlocks and BlockFile

A data file is a function from block numbers to records, or `Missing`. A record
has the key, the block number and the plaintext it was sealed with. It opens
(`Readable`) when key and number match and the plaintext has exactly the length
that the size in the table implies, which is how `read_block` derives how much
to read before the AEAD check. `write_range` and both branches of `truncate` are
the same loop with different bounds; the operators of those names return the plan
of that loop, `Resealed` what it leaves after some of its blocks, `Applied` after
all of them and `set_len`. Byte offsets, nonces and tags are abstracted.

`BlockFile` has the data file, the size in memory and the saved size. An operation
completes (`Write`, `Truncate`, `TruncateUnsaved` when the save fails), stops at a
block it cannot read (`Refused`), is cut short by an I/O error that may tear a
block (`Fails`), or is followed by a crash that brings the saved size back
(`Crash`). Four ghost variables follow a plain byte array: the values each byte may
have and the blocks that may be unreadable, for the present and the saved size.

### Namespace

A handler is one action, as the session thread runs one at a time under the
metadata lock. Each action is the whole handler: the checks in the code's order,
the change of table and indexes, and `save_index`, which succeeds or fails with
the change left in memory. Names arrive as `OsName` and are stored as
`Lossy[name]`, as `to_string_lossy` can map two names to one. `stale` is what the
kernel keeps believing: a directory whose removal was answered with EIO is still
known to it, and requests may arrive for it. `Load` is a remount at any time.
Name encryption cannot fail for names the kernel sends, so its error branch is
left out; link targets and attributes are abstracted away.

### Pqfs and FileStore

`worker[w]` goes through `lock`, `read` or `open`, `transfer`, `commit` and back to
`idle`; who holds which inode lock is a function of these states. The steps
between which others can run are: taking the job, getting the lock and copying the
entry, opening the data file, the block loop, the commit. A read copies its entry
when it is queued, as `Pqfs::read` does. `unlink` removes the entry and the data
file between any of these steps; a worker that has the file open keeps it without
a name (`Detach`), one that opens it later makes an orphan. The session can end at
any time between requests (`Close`), the process can be killed in the middle of
transfers (`Kill`), and `Mount` loads the saved table, with inode numbers counted
from it again. A kill leaves any part of a block loop done that the loop can reach.
A `blocks::sync` that fails answers EIO and changes nothing; a `remove_file` that fails
is only logged, and the data file stays. Ghosts: the bytes each file should have, those
it had at its last successful fsync, and the files whose own save failed (`unsaved`),
until a save succeeds.

Directory structure is left to `Namespace` and I/O errors on data files to
`BlockFile`, which keeps the product of the state spaces small. A critical section
of the metadata lock is one step. A request for an inode that is no longer in the
table is answered with ENOENT and changes nothing, so it has no action.

`FileStore` is what programs on the mounted volume rely on: a write or truncate of a file
is one step, and a restart keeps the bytes of every synced file and gives no file bytes it
never had, though files that were not synced may be left in doubt. `ImplementsFileStore`
maps its `files` to what decoding the data files yields (`Now`), under the size of the
entry or, while a worker is about to commit, the size it will commit. A change takes effect
in the step that ends the block loop (`Transfer`); the commit is no step of the store. The
ghost `content` only says which files are not in doubt.

### RekeyCommit and AtomicSwap

`dir` is the backend directory as processes see it, `past` the set of directories
that a power loss may leave: changes reach the disk in order, `sync_dir` makes all
of them durable, a file not yet synced may survive torn. Each step of
`commit_rekey` and `recover` is a system call. `save_index` and `write_header`
write and sync a temporary file first; as nothing reads it, the model starts at
the rename. One process runs at a time; it can be killed anywhere, which also
stands for giving up after an error. `AtomicSwap` is what users rely on; the
refinement maps the directory to the volume that counts: the staged pair from the
creation of the marker on.

### KeySlots and AccessList

A wrapped master key is a pair of credential and key. A process reads the header and
opens the key in one step (`Open`, `rekey`, `mount`), and writes in a later one; a
rekey has steps of its own for the second reading of the header (`RewrapSlots`), for
opening the index (`RekeyIndex`) and for the swap (`CommitRekey`). What lies between
is where another process can run. A write of the header and the swap are atomic here.
`Args` are the credential arguments after `resolve`; an identity takes precedence, and
the password given along with it is used for password slots only. Ghosts: which
credential ever had a slot for which key, who had a slot since the last rekey, who
was revoked (and not given a slot again by a share, a passwd or a rekey that rewraps
it), and whether a process has written what it made from an outdated copy of
the header (`raced`). The code does nothing to prevent that, and it undoes revocations
and rekeys. The properties say that it is the only way they are undone: processes may
overlap as long as no one writes back what another has changed meanwhile.

`AccessList` is what an owner relies on. Its one variable is mapped to the credentials
of the slots in order; until `raced`, every step of the commands is a step of it, and a
rekey stutters or, with another password beside an identity, sets the password.

### SharedBackend

Files are inodes: a process writes to the inode it has open, and the names `header`,
`index` and `tmp` can move to other inodes meanwhile. `dirs` are the directories a
power loss may leave, `stable` the contents it may leave of each file. `save_index` and
`write_header` are the same five steps with another target name. A write over what
another process has already put into the same file may leave a longer tail behind; the
header is read with `allow_trailing_bytes` and does not mind, the index does. The ghost
`crossed` tells whether a process has emptied a file that was another's: the temporary
file another was about to rename, or the header of another birth. There are as many
inodes as names in two directories, descriptors and faults can hold on to, so that a new
file always finds one. A birth goes on to `PqfsInner::load`, which refuses an index that
is there already: another birth's key sealed it. Keys are not modelled otherwise, so
that after two births have crossed a later `mount` opens more here than in the code.
A rekey is not among the processes here; its swap is in
`RekeyCommit`.

### Durability

The table in memory, the saved one and the ones a power loss may leave (`tables`), and
for each inode number the data file and what may be left of it (`stable`). Files have at
most one block. A job copies the entry, changes the data file and commits as three
steps; `fsync` and `unlink` have two, since a crash can fall between the data file and
the index. A save that fails leaves the old table, or the new one not yet durable
(`failed`: the files of which these two say different things, also after a kill and a
remount). A `remove_file` that fails leaves the data file, a `blocks::sync` that fails
answers EIO and makes nothing durable; that a later sync which succeeds does so is an
assumption about the file system. The ghost `kept` has the files whose data file was ever
synced, until somebody asks to unlink them. The code never syncs the directory `data/`: that a synced file keeps its name is taken from
the usual file systems and is an assumption. I/O errors within a block loop are in
`BlockFile`, several blocks in `FileBlocks`.

### DirStream

A composition: the kernel opens any directory it knows and lists it while the requests of
`Namespace`, unchanged, go on between two `readdir` calls. Each `readdir` builds the list
anew from `by_parent`, skips `offset` positions and hands out as many entries as the
kernel's buffer takes; it is refused once the directory is gone. The ghost variables
record what was listed (`seen`), which children were there from the beginning on
(`stayed`), and how many left or came with an old inode number (`left`, `came`), computed
from the children before and after each request. The ordered set of `by_parent` is modelled
by ranks: an entry stands behind as many as have a smaller number. That a name fails to
decrypt (`EIO`) is left out: the names of a table are sealed under the key in memory.

## 3. The runs

| Run | Checks | Instance |
|---|---|---|
| `block_file` | `ReadsAreHonest`, `MissingMeansEmpty`, `OnlyHarmRefuses` | blocks of 2 bytes, files to 4 bytes, writes to 2 bytes, 2 faults |
| `namespace` | `IndexConsistent`, `ParentsLive`, `TreeHasNoCycle`, `StaleNumberStaysFree`, `OneNameAtATime` | root and three objects, two stored names, three kernel names, 2 faults |
| `rekey` | `PairRecoverable`, `AckedSurvives`, `RootKept`, `SwapIsAtomic` (refinement) | 2 rekeys, 2 edits, 3 crashes |
| `concurrent` | `CommittedMatches`, `WriterOwnsEntry`, `ReadsCommitted`, `CleanMeansSaved`, `SyncedSurvivesKill` | 2 workers, 2 files, 4 requests, 1 fault, 2 mounts |
| `concurrent_liveness` | `RequestsReturn` (liveness), `ImplementsFileStore` (refinement) | 2 workers, 2 files, 3 requests, 1 fault |
| `key_slots` | `OneKeyPerHeader`, `SlotsInBounds`, `VolumeOpens`, `RekeyRetires`, `RevokedStaysOut`, `CommandsEditTheList` (steps of `AccessList`) | 2 processes, 2 passwords, 2 identities, 5 commands, 3 keys |
| `backend` | `ReplacedWhole`, `ReportedRemains` | 2 processes, 3 writes, 2 faults |
| `durability` | `SyncedSurvivesPowerLoss`, `NoForeignBytes`, `DataGoesOnRequest` | 2 inode numbers, 2 lengths and 0, 5 requests, 2 faults |
| `readdir` | `MissesAtMostLeft`, `RepeatsAtMostCame` | root and two objects, two names, 1 fault, 4 entries that leave or come during a listing |
| `rekey_next_command`, `unmount`, `backend_shared_tmp` | one statement of the repository each, violated (section 5) | as above, fewer faults |

Each of the modules with a state also has one type invariant, `TypeOK` (`StreamTypeOK` in
`DirStream`).

Why the bounds are enough to be interesting. Two-byte blocks give every case of
the block arithmetic: empty file, full and partial last block, a write inside, across
and behind the last block, a hole of a whole block. Two faults allow a fault after a
recovery from a fault. Three objects below the root are what a directory moved into
its grandchild, a rename over a non-empty directory and a reuse of an inode number
need. Three crashes allow a crash, one during the recovery, and one in the recovery
after that; two rekeys meet the stale staged files of the first. Two workers are the
least the code starts, and every conflict is between two jobs on one file; four
requests fill both with one more queued and one in the session. The refinement of
`FileStore` is checked with three (two changes of one file and an unlink, sync or remount
between their steps); larger instances are left to the proof. The one write tried
(bytes 1 and 2) and the one truncate (to one byte) each grow, shrink or keep the file,
depending on what came before. Five commands are what a share, a revoke, a rekey, a
change of the password and a mount need; three keys allow two rekeys. Five requests
in `durability` are a file made, written and unlinked, and another made and changed
under its number, or one made, written and synced before a crash and another made after it.
Two objects are the least with which a listing can miss one (the first is
removed once it is listed) and repeat one (the first is moved in once the second is
listed); larger directories are left to the proof. Deadlock checking is
off where the bounds on requests, commands or faults end the behaviours; `rekey`,
`namespace`, `readdir` and `block_file` check it.

Symmetry is used in safety runs only: for the workers, and in `key_slots` for
passwords, identities and processes, and in `backend` for processes, which no
definition tells apart.

Fairness. `Pqfs` assumes weak fairness of each worker and of the session thread when
it is inside `fsync` or `Drop`: the operating system runs threads that can run, and
the locks are released by guards on every path. Nothing obliges the kernel to send
requests. The other modules assume no fairness: commands are straight-line code, and
nothing obliges a user to start one.

## 4. What is proved

By TLAPS, for every value of the constants that the named assumptions on them allow:
any number of workers, processes, files, requests, faults, names, keys, and any block
length. Every safety invariant, action property and refinement of the runs is a theorem.
Each module of proofs begins with its inductive invariant,
which TLC has checked on the instance of the run as well; then come the lemmas about
operators, one lemma per action, and the theorems.

**Namespace.** `TypeCorrect`, `IndexesAgree` (`IndexConsistent`), `NothingStranded`
(`ParentsLive`). None is inductive alone. `IInv` adds that the saved table, once there is
one, is itself well typed, has a root, no two entries with one parent and name, and live
parents, because `Load` brings it back; and `IndexConsistent` is what makes `find_child`
and `has_children` mean what the checks need. `StaleNumbersStayFree` is a second
induction: numbers of half-removed directories lie below the inode counter.
`OneNameChanges` (`OneNameAtATime`) says what one step may do.
`NoCycle` (`TreeHasNoCycle`) is a third induction. It needs `Hanging`: an entry whose
parent is not in the table has a number greater than that parent, so the number is not
given away while something hangs below it, not even after a remount, when the counter
starts again from the table. The step that matters is a rename of a directory:
`is_descendant_of` looks at one hop more than there are entries, and if none of these is
the moved directory, a closed set with the directory in it would contain them all; two of
them would be equal (pigeonhole), which closes a cycle that was there before.

**DirStream.** `ListingsChangeNothing` (every behaviour is one of `Namespace`, whose
invariants hence hold here), `StreamTypeCorrect`, `MissesBounded` (`MissesAtMostLeft`),
`RepeatsBounded` (`RepeatsAtMostCame`). The properties speak of what was listed; `StreamInv`
has to speak of the position the listing has come to in the list as it is now: of the
children that stayed, at most `left` lie before the position without having been listed,
and the entries listed twice together with those that lie ahead again are at most `came`.
A `readdir` keeps both counts (`CountsRead`). A change of the directory moves an entry over
the position only if another one left or came on the near side (`PushedOut`), and a new
entry, whose number is the largest, pushes none: this is where the order of the inode
numbers and a counter that only grows are used. No induction is needed, since a rank is a
cardinality and a one-to-one map between finite sets of one size is onto (`RankOnto`).

**FileBlocks.** `StoredIsEditable`, `StoredAfterPlan`, `StoredRead`, `StoredReadsBack`:
if a data file holds the bytes `c` (`Stores`), no block that a write or truncate has to
read is refused, the loop leaves a file that holds `After(c, plan)` (old bytes, new bytes
on top, zeros in holes), and a read of a range returns its bytes. These are about the
operators, for every block length, size, offset and length; the two modules below use
them.

**BlockFile.** `TypeCorrect`, `MissingFilesAreEmpty` (`MissingMeansEmpty`), `OnlyHarmStops`
(`OnlyHarmRefuses`), `HonestReads` (`ReadsAreHonest`). `IInv` says block by block that the
data file serves the size in memory and the saved size at once: an unharmed block opens
under either, and a block that opens has only bytes the array may have. That both hold
together is what a crash needs, and it holds because an operation that changes the length
of a block puts that block at risk for the saved size (`Resized`).

**Pqfs.** `TypeCorrect`, `CommitsToItsOwn` (`WriterOwnsEntry`), `CleanIsSaved`
(`CleanMeansSaved`) rest on `IInv`: that memory and the saved table agree on every file
but those of `unsaved` while the table is clean, the state of each worker by its program counter, that
a writer has the inode lock to itself, that the entry it copied is still the one in the
table or the file is unlinked, and that a queued read has the key its inode number has.
`FilesHoldWhatWasCommitted` (`CommittedMatches`), `ReadsSeeCommitted` (`ReadsCommitted`) and
`SyncedBytesSurvive` (`SyncedSurvivesKill`) are a second induction about bytes: the blocks
of a file hold its committed bytes, and while a writer is about to commit they hold these
bytes after its plan; a new file's key was never used before, so that what an earlier
file of the number left behind does not open. `FileStoreImplemented`
(`ImplementsFileStore`) is the refinement of `FileStore`. It needs besides that jobs on
their way are ones the kernel asked for (`JobsAsked`), and that what can be read of a file
is the committed bytes or, while a writer is about to commit, these after its plan
(`Shows`); then each action is one step of the store or none (`NextIsStore`).

**RekeyCommit.** `TypeCorrect`, `NoCrashSplitsThePair` (`PairRecoverable`). The inductive
invariant says for each program counter what the directory looks like, and for all
directories a power loss may leave that once the marker is gone, one that still has it has
both renames done: files staged for a later rekey cannot be taken for these. The last
part is also why the finding on `recover` does not lose data. `ReportsSurvive`
(`AckedSurvives`), `RootStays` (`RootKept`) and `SwapRefined` (`SwapIsAtomic`, the refinement
of `AtomicSwap`) come from one fact (`EveryStep`): seen through the pair of files that
counts, a step keeps the pair, syncs, loses, saves an index, edits the slots or swaps to a
new key. For that the process has to have in memory what is on disk (`InMemory`), and a
key on disk must not be one still to be drawn.

**KeySlots.** `TypeCorrect`, `HeaderOfOnePiece` (`OneKeyPerHeader`), `KeepsASlot`
(`SlotsInBounds`) hold also when processes overwrite each other's headers, since every copy
a process carries is as sound as the header was when it was read. `HeaderOpensIndex`
(`VolumeOpens`), `OldKeysRetire` (`RekeyRetires`), `RevokedHasNoSlot` (`RevokedStaysOut`) need
that the key a rekey will bring in is nobody else's (`Fresh`). `EditsOfAList`
(`CommandsEditTheList`) is the refinement of `AccessList`.

**SharedBackend.** `TypeCorrect`, `PutInPlaceWhole` (`ReplacedWhole`), `ReportsAreKept`
(`ReportedRemains`). Until `crossed`, who has the temporary file in hand is alone with it,
the temporary file is none of the files in place in any directory a power loss may leave,
and who has renamed finds its version or a later one in place, so that `sync_dir` of one
process never vouches for unfinished work of another.

**Durability.** `TypeCorrect`, `SyncedFilesSurvive` (`SyncedSurvivesPowerLoss`),
`BytesAreTheFilesOwn` (`NoForeignBytes`). `IInv`: tables, jobs and data files refer to files
that were created, with the key drawn for them; a clean index is the durable one but for
what a failed save left in doubt; and what was synced is what every table and every data
file that a power loss may leave agree on. `DataFilesGoOnRequest` (`DataGoesOnRequest`) is
a second induction: no file is ever found under two numbers (`OneNumber`), a file in memory
that some saved table has is in the newest one, to which a kill goes back (`NewestHas`), and
a synced file that nobody asked to unlink is in memory, under the number that every saved
table gives it, with its data file (`KeptStays`). So the number is not given to another file
whose unlink would take the data along.

Assumptions. Those on constants are the `ASSUME`s of the modules: bounds are naturals,
sets of processes are finite, model values differ from what they stand beside. One
more is a hypothesis of the theorems about bytes, `NoFileIsMissing`: the value `Missing`
is not itself a data file, that is, a function of block numbers. It holds in the runs, where
`Missing` is a model value; it quantifies over all values, which TLC cannot evaluate, and
so it stands in the theorems and not in an `ASSUME`.

Only model-checked: liveness (`RequestsReturn`), as fairness is out of the prover's
reach.

## 5. Where the code and its documentation disagree

With a run that shows it:

1. `rekey_next_command`: `recover` is not repeatable. Killed between its first rename
   and the removal of the marker, it leaves a volume every later command refuses.
   The files that count are intact (`PairRecoverable`), but no command completes the
   swap, which the README promises.
2. `unmount`: `Drop` saves the index before the workers drain the queue; sizes they
   commit afterwards are not saved while their blocks are on disk.
3. `backend_shared_tmp`: header and index are written through one temporary name; a
   slot command on a mounted volume can put an index in place of the header.

Where a property has to make an exception for what the code does:

- `ReadsCommitted`: a read queued behind a write or truncate that changes the size is
  answered with EIO, because its copy of the entry is taken before the lock. This is
  the only way a read of a sound file fails.
- `VolumeOpens`, `RevokedStaysOut`, `RekeyRetires`: a slot command or a mount that writes
  after another process has changed the header puts a revoked slot or a retired key
  back. `OneKeyPerHeader` shows that the header stays consistent in itself even then.
- `CommandsEditTheList`: rekey with `--identity` sets the password slot to whatever
  password was given with it, so a mistyped one shuts the owner out.
- `RootKept`: a rekey of a volume never written to stores an index without a root
  directory (`rekey_index` in `src/fs/inner.rs`).
- `ReplacedWhole`: the header written by `init` is not synced, though the first index is;
  a power loss can leave an empty header and an index nothing opens. Two `--init` at
  once overwrite each other's header.
- `write_range` re-seals all blocks from its offset to the end of the file
  (`FileBlocks`), more than the README's "only the blocks they need".

## 6. Not modelled

Cryptographic primitives and identity files (`keygen`): computation of external
libraries, used here only through what opens what. Argument parsing and prompts,
`statfs`, the values of timestamps and permission bits. `lookup`, `getattr`, `readlink`,
`open`, `release` and `slots` change no state. A panic of a worker: the code has no
path to one that the kernel's requests reach. Overflow of `offset + len` is out of
reach of requests the kernel sends (offsets are below 2^63).

After a failed save the code does not mark the table dirty, so that a later fsync
may answer with success though the change is not saved (`src/fs/inner.rs`,
`save_index`). No line of the repository says otherwise; `CleanMeansSaved`,
`SyncedSurvivesKill` and `SyncedSurvivesPowerLoss` exempt the file whose own save failed,
and no other, up to the next save that succeeds.

Some hazards of `PROJECT.json` have no property, or one that stops short of the case
itself, and say so in their note: the code does what it does there, and no line of the
repository promises anything else. They are the read of a file unlinked between two system
calls of `do_read`, the data of a file replaced by a rename that then fails, the data of a
file whose unlink a crash undoes, the first header before anything has replaced it, two
`--init` at once, and what an outdated copy of the header does when it is written back.

## 7. Plan

Done: the modules and proofs above. Next:

1. A rekey among the processes of `SharedBackend`, so that its staged files meet the
   temporary file of another process.
