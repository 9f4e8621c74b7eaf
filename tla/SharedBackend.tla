--------------------------- MODULE SharedBackend ---------------------------
(***************************************************************************)
(* The backend directory system call by system call: the birth of a volume *)
(* (mount --init, Crypto::init in src/crypto/volume.rs), the saves of a    *)
(* mounted volume (save_index in src/fs/inner.rs) and the commands that    *)
(* rewrite the header (write_header in src/crypto/volume.rs).              *)
(*                                                                         *)
(* save_index and write_header both go through a temporary file, and       *)
(* with_extension gives it the same name, pqfs.tmp, for both.  A file is   *)
(* an inode: a process writes through its descriptor to the inode it       *)
(* opened, whatever name that has by then.  A power loss takes the names   *)
(* back at most to the last sync of the directory, and each file to what   *)
(* was in it at any time since its last sync.  Keys are in module          *)
(* KeySlots, the files of a rekey in module RekeyCommit.                   *)
(***************************************************************************)
EXTENDS Naturals, FiniteSets

CONSTANTS Proc,        \* processes that may run at the same time
          MaxVersion,  \* bound: documents written after birth
          MaxFaults    \* bound: failed writes and power losses

ASSUME SharedBackendAssumption ==
    /\ IsFiniteSet(Proc)
    /\ MaxVersion \in Nat
    /\ MaxFaults \in Nat

Name == {"header", "index", "tmp"}

\* Enough inodes for every name, in two directories, every descriptor, and every
\* rename after which sync_dir failed.
Inode == 1 .. 6 + Cardinality(Proc) + MaxFaults

Absent == 0

\* A file that is empty, or of which only a part was written.
Blank == [kind |-> "blank", ver |-> 0, whole |-> FALSE]

\* A header or an index; it is not whole if bytes of something longer follow.
Document(kind, v) == [kind |-> kind, ver |-> v, whole |-> TRUE]

VARIABLES names,    \* Name -> inode, or Absent
          dirs,     \* the directories that a power loss may leave
          files,    \* inode -> content
          stable,   \* inode -> the contents that a power loss may leave
          proc,
          version, faults,
          acked,    \* ghost: the newest header and index reported as written
          crossed   \* ghost: a process has emptied a file that was another's

disk == <<names, dirs, files, stable>>
ghosts == <<acked, crossed>>
vars == <<disk, proc, version, faults, ghosts>>

Idle == [pc |-> "idle"]
Mounted == [pc |-> "mounted"]
Loading == [pc |-> "load"]

-----------------------------------------------------------------------------
(* System calls *)

Free ==
    Inode \ ({d[n] : d \in dirs, n \in Name}
                \cup {proc[p].fd : p \in {q \in Proc : "fd" \in DOMAIN proc[q]}})

\* fd is the first inode that no name and no descriptor leads to.
NewInode(fd) == fd \in Free /\ \A j \in Free : fd <= j

\* File::create: an existing file is emptied, whoever has it open.
Create(name, fd) ==
    /\ IF names[name] = Absent THEN NewInode(fd) ELSE fd = names[name]
    /\ names' = [names EXCEPT ![name] = fd]
    /\ dirs' = dirs \cup {names'}
    /\ files' = [files EXCEPT ![fd] = Blank]
    /\ stable' = [stable EXCEPT ![fd] =
                    IF names[name] = Absent THEN {Blank} ELSE @ \cup {Blank}]

\* Mutant: the bytes are kept back in the process.
WriteBuffered(fd, document) ==
    /\ files' = [files EXCEPT ![fd] = document]
    /\ UNCHANGED <<names, dirs, stable>>

\* write_all from the start of the file: what another process has written there
\* meanwhile stays behind the end, if it is longer.
Write(fd, document) ==
    /\ \E whole \in BOOLEAN :
        /\ files[fd] = Blank => whole
        /\ files' = [files EXCEPT ![fd] = [document EXCEPT !.whole = whole]]
    /\ stable' = [stable EXCEPT ![fd] = @ \cup {Blank, files'[fd]}]
    /\ UNCHANGED <<names, dirs>>

\* Mutant: nothing is synced.
NoSync(fd) == UNCHANGED disk

sync_all(fd) ==
    /\ stable' = [stable EXCEPT ![fd] = {files[fd]}]
    /\ UNCHANGED <<names, dirs, files>>

Rename(from, to) ==
    /\ names' = [names EXCEPT ![to] = names[from], ![from] = Absent]
    /\ dirs' = dirs \cup {names'}
    /\ UNCHANGED <<files, stable>>

sync_dir ==
    /\ dirs' = {names}
    /\ UNCHANGED <<names, files, stable>>

\* A file parses as a header whatever follows it (allow_trailing_bytes); an index
\* opens only as a whole.
Reads(content, kind) == content.kind = kind /\ (kind = "index" => content.whole)

Good(name) == names[name] # Absent /\ Reads(files[names[name]], name)

-----------------------------------------------------------------------------
(* Processes *)

Step(p, from, to) ==
    /\ proc[p].pc = from
    /\ proc' = [proc EXCEPT ![p].pc = to]

\* Pqfs::mount of an existing volume: unlock and load.
mount(p) ==
    /\ proc[p] = Idle
    /\ Good("header")
    /\ names["index"] # Absent => Good("index")
    /\ proc' = [proc EXCEPT ![p] = Mounted]
    /\ UNCHANGED <<disk, version, faults, ghosts>>

\* Pqfs::mount with --init: no header is there, twice looked for; then the
\* password is stretched, which takes a while.
init(p) ==
    /\ proc[p] = Idle
    /\ names["header"] = Absent
    /\ proc' = [proc EXCEPT ![p] = [pc |-> "birth"]]
    /\ UNCHANGED <<disk, version, faults, ghosts>>

\* Crypto::save: fs::write creates and fills the header, and syncs nothing.
SaveCreate(p) ==
    /\ proc[p].pc = "birth"
    /\ \E fd \in Inode :
        /\ Create("header", fd)
        /\ proc' = [proc EXCEPT ![p] = [pc |-> "save", fd |-> fd]]
    /\ crossed' = (crossed \/ names["header"] # Absent)
    /\ UNCHANGED <<version, faults, acked>>

SaveWrite(p) ==
    /\ proc[p].pc = "save"
    /\ Write(proc[p].fd, Document("header", 0))
    /\ proc' = [proc EXCEPT ![p] = Loading]
    /\ UNCHANGED <<version, faults, ghosts>>

\* PqfsInner::load after a birth: an index that is there by now was sealed under the
\* key of another birth, and is refused; the process then ends (Exit).
load(p) ==
    /\ proc[p] = Loading
    /\ names["index"] = Absent
    /\ proc' = [proc EXCEPT ![p] = Mounted]
    /\ UNCHANGED <<disk, version, faults, ghosts>>

Replacing(p, kind, back) ==
    /\ version < MaxVersion
    /\ proc' = [proc EXCEPT ![p] = [pc |-> "create", kind |-> kind, back |-> back]]
    /\ UNCHANGED <<disk, version, faults, ghosts>>

\* A request to the mounted volume calls save_index.
save_index(p) == proc[p] = Mounted /\ Replacing(p, "index", Mounted)

\* share, revoke and passwd read the header and call write_header.
write_header(p) == proc[p] = Idle /\ Good("header") /\ Replacing(p, "header", Idle)

CreateTmp(p) ==
    /\ proc[p].pc = "create"
    /\ version < MaxVersion
    /\ version' = version + 1
    /\ \E fd \in Inode :
        /\ Create("tmp", fd)
        /\ proc' = [proc EXCEPT ![p] = [pc |-> "write", fd |-> fd, kind |-> proc[p].kind,
                                        ver |-> version', back |-> proc[p].back]]
    /\ crossed' = (crossed \/ \E q \in Proc \ {p} : proc[q].pc \in {"write", "sync", "rename"})
    /\ UNCHANGED <<faults, acked>>

WriteTmp(p) ==
    /\ Step(p, "write", "sync")
    /\ Write(proc[p].fd, Document(proc[p].kind, proc[p].ver))
    /\ UNCHANGED <<version, faults, ghosts>>

SyncTmp(p) ==
    /\ Step(p, "sync", "rename")
    /\ sync_all(proc[p].fd)
    /\ UNCHANGED <<version, faults, ghosts>>

\* Whatever file is called pqfs.tmp now is put in place; if there is none, the
\* caller gets an error.
RenameTmp(p) ==
    /\ proc[p].pc = "rename"
    /\ \/ /\ names["tmp"] # Absent
          /\ Step(p, "rename", "sync_dir")
          /\ Rename("tmp", proc[p].kind)
       \/ /\ names["tmp"] = Absent
          /\ proc' = [proc EXCEPT ![p] = proc[p].back]
          /\ UNCHANGED disk
    /\ UNCHANGED <<version, faults, ghosts>>

\* Mutant: the answer does not wait for the directory.
AnswerUnsynced(p) ==
    /\ proc[p].pc = "sync_dir"
    /\ acked' = [acked EXCEPT ![proc[p].kind] = IF @ > proc[p].ver THEN @ ELSE proc[p].ver]
    /\ proc' = [proc EXCEPT ![p] = proc[p].back]
    /\ UNCHANGED <<disk, version, faults, crossed>>

SyncDir(p) ==
    /\ proc[p].pc = "sync_dir"
    /\ sync_dir
    /\ acked' = [acked EXCEPT ![proc[p].kind] = IF @ > proc[p].ver THEN @ ELSE proc[p].ver]
    /\ proc' = [proc EXCEPT ![p] = proc[p].back]
    /\ UNCHANGED <<version, faults, crossed>>

Fault == faults < MaxFaults /\ faults' = faults + 1

\* A call fails, or the command is killed; the temporary file stays.
Fails(p) ==
    /\ "back" \in DOMAIN proc[p]
    /\ Fault
    /\ proc' = [proc EXCEPT ![p] = proc[p].back]
    /\ UNCHANGED <<disk, version, ghosts>>

\* The process ends: unmounted, killed before or after the birth, or refused by load.
Exit(p) ==
    /\ proc[p].pc \in {"mounted", "birth", "save", "load"}
    /\ proc' = [proc EXCEPT ![p] = Idle]
    /\ UNCHANGED <<disk, version, faults, ghosts>>

\* A file without a name is gone.
PowerLoss ==
    /\ Fault
    /\ names' \in dirs
    /\ \E left \in [Name -> {Blank} \cup UNION {stable[names'[n]] : n \in {m \in Name : names'[m] # Absent}}] :
        /\ \A n \in Name : IF names'[n] = Absent THEN left[n] = Blank ELSE left[n] \in stable[names'[n]]
        /\ files' = [i \in Inode |-> IF \E n \in Name : names'[n] = i
                                     THEN left[CHOOSE n \in Name : names'[n] = i]
                                     ELSE Blank]
    /\ dirs' = {names'}
    /\ stable' = [i \in Inode |-> {files'[i]}]
    /\ proc' = [p \in Proc |-> Idle]
    /\ UNCHANGED <<version, ghosts>>

-----------------------------------------------------------------------------

\* An empty backend directory.
Init ==
    /\ names = [n \in Name |-> Absent]
    /\ dirs = {names}
    /\ files = [i \in Inode |-> Blank]
    /\ stable = [i \in Inode |-> {Blank}]
    /\ proc = [p \in Proc |-> Idle]
    /\ version = 0
    /\ faults = 0
    /\ acked = [header |-> 0, index |-> 0]
    /\ crossed = FALSE

Runs(p) ==
    \/ mount(p) \/ init(p) \/ SaveCreate(p) \/ SaveWrite(p) \/ load(p)
    \/ save_index(p) \/ write_header(p)
    \/ CreateTmp(p) \/ WriteTmp(p) \/ SyncTmp(p) \/ RenameTmp(p) \/ SyncDir(p)
    \/ Fails(p) \/ Exit(p)

Next == (\E p \in Proc : Runs(p)) \/ PowerLoss

Spec == Init /\ [][Next]_vars

-----------------------------------------------------------------------------
(* Properties *)

Content == [kind : {"header", "index", "blank"}, ver : 0 .. MaxVersion, whole : BOOLEAN]

TypeOK ==
    /\ names \in [Name -> Inode \cup {Absent}]
    /\ dirs \subseteq [Name -> Inode \cup {Absent}]
    /\ files \in [Inode -> Content]
    /\ stable \in [Inode -> SUBSET Content]
    /\ \A i \in Inode : files[i] \in stable[i]
    /\ version \in 0 .. MaxVersion
    /\ faults \in 0 .. MaxFaults
    /\ acked \in [header : 0 .. MaxVersion, index : 0 .. MaxVersion]
    /\ crossed \in BOOLEAN

\* What is found under the name after a power loss at this moment.
Remains(name) == UNION {stable[d[name]] : d \in {e \in dirs : e[name] # Absent}}

\* The temporary file does its work as long as processes do not cross in it, nor
\* two births in the header: however a save or a slot command is interrupted, an
\* index that is there is an index, and a header that a slot command has
\* replaced since birth is a header.
ReplacedWhole ==
    ~crossed =>
    /\ \A c \in Remains("index") : Reads(c, "index")
    /\ \A d \in dirs : d["header"] # Absent =>
        LET found == stable[d["header"]]
        IN  (\E c \in found : c.ver > 0) => \A c \in found : Reads(c, "header")

\* What a save or a slot command reported as written is found after any power
\* loss, whatever other processes save or edit, until two cross.
ReportedRemains ==
    ~crossed =>
    \A kind \in {"header", "index"} : acked[kind] > 0 =>
        /\ \A d \in dirs : d[kind] # Absent
        /\ \A c \in Remains(kind) : c.kind = kind /\ c.ver >= acked[kind]

\* "pqfs.header - volume id, key slots, and the header MAC", "pqfs.index -
\* encrypted directory index" (README.md, On-disk layout): the two files are
\* what their names say, also while two processes work on the backend.
LayoutHolds ==
    /\ acked["index"] > 0
    /\ \A p \in Proc : proc[p].pc \notin {"birth", "save"}
    => Good("header") /\ Good("index")
=============================================================================
