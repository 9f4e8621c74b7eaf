------------------------- MODULE SharedBackendProofs -------------------------
(***************************************************************************)
(* Proofs about the backend directory used by several processes: as long   *)
(* as none empties a file that is another's, what a save or a slot command *)
(* puts in place is whole and stays, for any number of processes, writes,  *)
(* failures and power losses.                                              *)
(***************************************************************************)
EXTENDS SharedBackend, FiniteSetTheorems, TLAPS

Kind == {"header", "index"}

\* A process that has the temporary file in hand.
AtTmp == {"write", "sync", "rename"}

NoFile == [pc : {"idle", "mounted", "birth", "load"}]
Saver == [pc : {"save"}, fd : Inode]
Starter == [pc : {"create"}, kind : Kind, back : {Idle, Mounted}]
Replacer == [pc : AtTmp \cup {"sync_dir"}, fd : Inode, kind : Kind,
             ver : 1 .. MaxVersion, back : {Idle, Mounted}]

Types ==
    /\ TypeOK
    /\ names \in dirs
    /\ proc \in [Proc -> NoFile \cup Saver \cup Starter \cup Replacer]

\* Contents that an index, or a header, may have: an index is always a whole one, a
\* header is one or it is still that of the birth.
IndexContents(S) == \A c \in S : c.kind = "index" /\ c.whole
HeaderContents(S) ==
    \/ \A c \in S : c.kind = "header"
    \/ \A c \in S : c.kind # "index" /\ c.ver = 0

\* A document of the kind, of version v or later.
Newer(S, kind, v) == \A c \in S : c.kind = kind /\ c.ver >= v

\* In any directory a power loss may leave, the names lead to what they say, and the
\* temporary file is none of the others; neither is the present one.
Dirs ==
    \A d \in dirs :
        /\ d["index"] # Absent => IndexContents(stable[d["index"]])
        /\ d["header"] # Absent => HeaderContents(stable[d["header"]])
        /\ d["tmp"] # Absent => d["tmp"] # d["index"] /\ d["tmp"] # d["header"]
        /\ names["tmp"] # Absent => names["tmp"] # d["index"] /\ names["tmp"] # d["header"]

\* What was reported is there.
Reported ==
    \A kind \in Kind :
        /\ acked[kind] <= version
        /\ acked[kind] > 0 =>
            \A d \in dirs : d[kind] # Absent /\ Newer(stable[d[kind]], kind, acked[kind])

\* Who has the temporary file in hand is alone with it, and has the newest version.
Temporary ==
    \A p \in Proc : proc[p].pc \in AtTmp =>
        /\ names["tmp"] # Absent
        /\ proc[p].fd = names["tmp"]
        /\ proc[p].ver = version
        /\ \A q \in Proc \ {p} : proc[q].pc \notin AtTmp
        /\ proc[p].pc = "write" => files[names["tmp"]] = Blank
        /\ proc[p].pc = "sync" =>
            LET c == files[names["tmp"]]
            IN  c.kind = proc[p].kind /\ c.ver = proc[p].ver /\ c.whole
        /\ proc[p].pc = "rename" =>
            \A c \in stable[names["tmp"]] :
                c.kind = proc[p].kind /\ c.ver = proc[p].ver /\ c.whole

\* Who has renamed finds its version, or a later one, in place.
Landed ==
    \A p \in Proc : proc[p].pc = "sync_dir" =>
        /\ proc[p].ver <= version
        /\ names[proc[p].kind] # Absent
        /\ Newer(stable[names[proc[p].kind]], proc[p].kind, proc[p].ver)

\* A birth that has created the header is alone with it, and no slot command runs.
Births ==
    \A p \in Proc : proc[p].pc = "save" =>
        /\ names["header"] # Absent
        /\ proc[p].fd = names["header"]
        /\ stable[names["header"]] = {Blank}
        /\ \A q \in Proc \ {p} : proc[q].pc # "save"

HeaderCommand(r) == r.pc \in AtTmp \cup {"create", "sync_dir"} /\ r.kind = "header"

Headers ==
    \A p \in Proc : HeaderCommand(proc[p]) =>
        names["header"] # Absent /\ \A q \in Proc : proc[q].pc # "save"

Sound == Dirs /\ Reported /\ Temporary /\ Landed /\ Births /\ Headers

IInv == Types /\ (~crossed => Sound)

-----------------------------------------------------------------------------
(* The disk *)

Entry == Inode \cup {Absent}

\* The part of the types that is about the disk.
DiskOK ==
    /\ names \in [Name -> Entry]
    /\ dirs \subseteq [Name -> Entry]
    /\ files \in [Inode -> Content]
    /\ stable \in [Inode -> SUBSET Content]
    /\ \A i \in Inode : files[i] \in stable[i]
    /\ names \in dirs

LEMMA Constants ==
    /\ MaxVersion \in Nat /\ MaxFaults \in Nat /\ Absent \notin Inode
    /\ Blank \in Content /\ Blank.kind = "blank" /\ Blank.ver = 0
<1>1. MaxVersion \in Nat /\ MaxFaults \in Nat /\ Cardinality(Proc) \in Nat
  BY SharedBackendAssumption, FS_CardinalityType
<1>2. Absent \notin Inode
  BY <1>1 DEF Absent, Inode
<1> QED BY <1>1, <1>2 DEF Blank, Content

LEMMA TypesOfDisk ==
    ASSUME Types
    PROVE  DiskOK
  BY DEF Types, TypeOK, DiskOK, Entry

\* The inode of a new file is none that a power loss may bring back.
LEMMA NewIsNew ==
    ASSUME DiskOK, NEW fd \in Inode, NewInode(fd), NEW d \in dirs, NEW n \in Name
    PROVE  fd # d[n]
  BY DEF NewInode, Free

LEMMA CreateOK ==
    ASSUME DiskOK, NEW name \in Name, NEW fd \in Inode, Create(name, fd)
    PROVE  /\ DiskOK'
           /\ names' = [names EXCEPT ![name] = fd]
           /\ dirs' = dirs \cup {names'}
           /\ \A i \in Inode \ {fd} : stable'[i] = stable[i] /\ files'[i] = files[i]
           /\ files'[fd] = Blank
           /\ names[name] = Absent => stable'[fd] = {Blank}
<1>1. /\ names' = [names EXCEPT ![name] = fd] /\ dirs' = dirs \cup {names'}
      /\ files' = [files EXCEPT ![fd] = Blank]
  BY DEF Create
<1>2. /\ stable' = [stable EXCEPT ![fd] = stable'[fd]]
      /\ stable'[fd] = IF names[name] = Absent THEN {Blank} ELSE stable[fd] \cup {Blank}
  BY DEF Create, DiskOK
<1>3. names' \in [Name -> Entry] /\ dirs' \subseteq [Name -> Entry] /\ names' \in dirs'
  BY <1>1 DEF DiskOK, Entry
<1>4. files' \in [Inode -> Content] /\ files'[fd] = Blank /\ \A i \in Inode \ {fd} : files'[i] = files[i]
  BY <1>1, Constants DEF DiskOK
<1>5. stable'[fd] \subseteq Content /\ Blank \in stable'[fd]
  BY <1>2, Constants DEF DiskOK
<1>6. stable' \in [Inode -> SUBSET Content] /\ \A i \in Inode \ {fd} : stable'[i] = stable[i]
  BY <1>2, <1>5 DEF DiskOK
<1>7. \A i \in Inode : files'[i] \in stable'[i]
  BY <1>4, <1>5, <1>6 DEF DiskOK
<1> QED BY <1>1, <1>2, <1>3, <1>4, <1>6, <1>7 DEF DiskOK

LEMMA WriteOK ==
    ASSUME DiskOK, NEW fd \in Inode, NEW kind \in Kind, NEW v \in 0 .. MaxVersion,
           Write(fd, Document(kind, v))
    PROVE  /\ DiskOK'
           /\ names' = names /\ dirs' = dirs
           /\ \A i \in Inode \ {fd} : stable'[i] = stable[i] /\ files'[i] = files[i]
           /\ files'[fd].kind = kind /\ files'[fd].ver = v
           /\ files[fd] = Blank => files'[fd].whole
           /\ stable'[fd] = stable[fd] \cup {Blank, files'[fd]}
<1>1. PICK whole \in BOOLEAN :
        /\ files[fd] = Blank => whole
        /\ files' = [files EXCEPT ![fd] = [Document(kind, v) EXCEPT !.whole = whole]]
  BY DEF Write
<1>2. /\ stable' = [stable EXCEPT ![fd] = stable[fd] \cup {Blank, files'[fd]}]
      /\ names' = names /\ dirs' = dirs
  BY DEF Write
<1> DEFINE c == [Document(kind, v) EXCEPT !.whole = whole]
<1>3. c = [kind |-> kind, ver |-> v, whole |-> whole]
  BY DEF Document
<1>4. c \in Content /\ c.kind = kind /\ c.ver = v /\ c.whole = whole
  BY <1>3 DEF Content, Kind
<1> HIDE DEF c
<1>5. files' \in [Inode -> Content] /\ files'[fd] = c /\ \A i \in Inode \ {fd} : files'[i] = files[i]
  BY <1>1, <1>4 DEF DiskOK, c
<1>6. /\ stable' \in [Inode -> SUBSET Content] /\ stable'[fd] = stable[fd] \cup {Blank, files'[fd]}
      /\ \A i \in Inode \ {fd} : stable'[i] = stable[i]
  BY <1>2, <1>4, <1>5, Constants DEF DiskOK
<1>7. \A i \in Inode : files'[i] \in stable'[i]
  BY <1>5, <1>6 DEF DiskOK
<1>8. files[fd] = Blank => files'[fd].whole
  BY <1>1, <1>4, <1>5, Zenon
<1> QED BY <1>2, <1>4, <1>5, <1>6, <1>7, <1>8 DEF DiskOK

LEMMA SyncOK ==
    ASSUME DiskOK, NEW fd \in Inode, sync_all(fd)
    PROVE  /\ DiskOK'
           /\ names' = names /\ dirs' = dirs /\ files' = files
           /\ \A i \in Inode \ {fd} : stable'[i] = stable[i]
           /\ stable'[fd] = {files[fd]}
  BY DEF DiskOK, sync_all

LEMMA RenameOK ==
    ASSUME DiskOK, NEW kind \in Kind, names["tmp"] # Absent, Rename("tmp", kind)
    PROVE  /\ DiskOK'
           /\ dirs' = dirs \cup {names'} /\ files' = files /\ stable' = stable
           /\ names'[kind] = names["tmp"] /\ names'["tmp"] = Absent
           /\ \A n \in Name \ {kind, "tmp"} : names'[n] = names[n]
<1>1. names' = [names EXCEPT ![kind] = names["tmp"], !["tmp"] = Absent]
      /\ dirs' = dirs \cup {names'} /\ files' = files /\ stable' = stable
  BY DEF Rename
<1>2. /\ names' \in [Name -> Entry]
      /\ names'[kind] = names["tmp"] /\ names'["tmp"] = Absent
      /\ \A n \in Name \ {kind, "tmp"} : names'[n] = names[n]
  BY <1>1 DEF DiskOK, Entry, Kind, Name
<1> QED BY <1>1, <1>2 DEF DiskOK

LEMMA SyncDirOK ==
    ASSUME DiskOK, sync_dir
    PROVE  DiskOK' /\ dirs' = {names} /\ names' = names /\ files' = files /\ stable' = stable
  BY DEF DiskOK, sync_dir

\* A power loss leaves one of the directories, and less in each file.
LEMMA PowerLossOK ==
    ASSUME DiskOK, PowerLoss
    PROVE  /\ DiskOK'
           /\ names' \in dirs /\ dirs' = {names'}
           /\ \A n \in Name : names'[n] # Absent => stable'[names'[n]] \subseteq stable[names'[n]]
<1>1. names' \in dirs /\ dirs' = {names'} /\ stable' = [i \in Inode |-> {files'[i]}]
  BY DEF PowerLoss
<1>2. PICK left :
        /\ \A n \in Name : IF names'[n] = Absent THEN left[n] = Blank ELSE left[n] \in stable[names'[n]]
        /\ files' = [i \in Inode |-> IF \E n \in Name : names'[n] = i
                                     THEN left[CHOOSE n \in Name : names'[n] = i]
                                     ELSE Blank]
  BY DEF PowerLoss
<1>3. names' \in [Name -> Entry]
  BY <1>1 DEF DiskOK
<1>4. ASSUME NEW i \in Inode
      PROVE  files'[i] \in Content /\ ((\E n \in Name : names'[n] = i) => files'[i] \in stable[i])
  <2>1. CASE \E n \in Name : names'[n] = i
    <3> DEFINE m == CHOOSE n \in Name : names'[n] = i
    <3>1. m \in Name /\ names'[m] = i
      BY <2>1, Zenon
    <3>2. files'[i] = left[m]
      BY <1>2, <2>1
    <3> HIDE DEF m
    <3>3. names'[m] # Absent
      BY <3>1, Constants
    <3>4. left[m] \in stable[i]
      BY <1>2, <3>1, <3>3
    <3> QED BY <3>2, <3>4 DEF DiskOK
  <2>2. CASE ~\E n \in Name : names'[n] = i
    <3>1. files'[i] = Blank
      BY <1>2, <2>2
    <3> QED BY <2>2, <3>1, Constants
  <2> QED BY <2>1, <2>2
<1>5. files' = [i \in Inode |-> files'[i]]
  BY <1>2
<1>6. files' \in [Inode -> Content]
  BY <1>4, <1>5
<1>7. stable' \in [Inode -> SUBSET Content] /\ \A i \in Inode : files'[i] \in stable'[i] /\ stable'[i] = {files'[i]}
  BY <1>1, <1>6
<1>8. \A n \in Name : names'[n] # Absent => stable'[names'[n]] \subseteq stable[names'[n]]
  BY <1>3, <1>4, <1>7 DEF Entry
<1> QED BY <1>1, <1>3, <1>6, <1>7, <1>8 DEF DiskOK

-----------------------------------------------------------------------------
(* Processes *)

State == NoFile \cup Saver \cup Starter \cup Replacer

LEMMA Shapes ==
    ASSUME NEW r \in State
    PROVE  /\ r.pc \in AtTmp \cup {"sync_dir"} => r \in Replacer
           /\ r.pc = "create" => r \in Starter
           /\ r.pc = "save" => r \in Saver
           /\ "back" \in DOMAIN r => r.back \in {Idle, Mounted}
<1>1. CASE r \in NoFile
  BY <1>1 DEF NoFile, AtTmp
<1>2. CASE r \in Saver
  BY <1>2 DEF Saver, AtTmp
<1>3. CASE r \in Starter
  BY <1>3 DEF Starter, AtTmp
<1>4. CASE r \in Replacer
  BY <1>4 DEF Replacer, AtTmp
<1> QED BY <1>1, <1>2, <1>3, <1>4 DEF State

LEMMA Resting ==
    /\ Idle \in NoFile /\ Mounted \in NoFile /\ Loading \in NoFile /\ [pc |-> "birth"] \in NoFile
    /\ \A r \in NoFile : r.pc \notin AtTmp \cup {"create", "save", "sync_dir"}
  BY DEF Idle, Mounted, Loading, NoFile, AtTmp

LEMMA ProcOK ==
    ASSUME Types, NEW p \in Proc, NEW r \in State, proc' = [proc EXCEPT ![p] = r]
    PROVE  /\ proc' \in [Proc -> State]
           /\ proc'[p] = r
           /\ \A q \in Proc \ {p} : proc'[q] = proc[q]
  BY DEF Types, State

\* A process that takes the next step of a replacement.
LEMMA StepOK ==
    ASSUME Types, NEW p \in Proc, NEW from \in AtTmp, NEW to \in AtTmp \cup {"sync_dir"}, Step(p, from, to)
    PROVE  /\ proc[p] \in Replacer /\ proc[p].pc = from
           /\ proc' \in [Proc -> State]
           /\ proc'[p] \in Replacer /\ proc'[p].pc = to /\ proc'[p].fd = proc[p].fd
           /\ proc'[p].kind = proc[p].kind /\ proc'[p].ver = proc[p].ver
           /\ \A q \in Proc \ {p} : proc'[q] = proc[q]
<1>1. proc[p].pc = from /\ proc[p] \in State
  BY DEF Step, Types, State
<1>2. proc[p] \in Replacer
  BY <1>1, Shapes
<1> DEFINE r == [proc[p] EXCEPT !.pc = to]
<1>3. /\ r \in Replacer /\ r.pc = to /\ r.fd = proc[p].fd /\ r.kind = proc[p].kind /\ r.ver = proc[p].ver
  BY <1>2 DEF Replacer
<1>4. proc' = [proc EXCEPT ![p] = r]
  BY DEF Step
<1>5. r \in State
  BY <1>3 DEF State
<1> HIDE DEF r
<1>6. proc' \in [Proc -> State] /\ proc'[p] = r /\ \A q \in Proc \ {p} : proc'[q] = proc[q]
  BY <1>4, <1>5, ProcOK
<1> QED BY <1>1, <1>2, <1>3, <1>6

\* The types, from those of their parts.
LEMMA TypesAfter ==
    ASSUME DiskOK', proc' \in [Proc -> State], version' \in 0 .. MaxVersion,
           faults' \in 0 .. MaxFaults, acked' \in [header : 0 .. MaxVersion, index : 0 .. MaxVersion],
           crossed' \in BOOLEAN
    PROVE  Types'
  BY DEF DiskOK, Types, TypeOK, State, Entry

LEMMA Counters ==
    ASSUME Types
    PROVE  /\ version \in 0 .. MaxVersion /\ faults \in 0 .. MaxFaults
           /\ acked \in [header : 0 .. MaxVersion, index : 0 .. MaxVersion]
           /\ \A kind \in Kind : acked[kind] \in 0 .. MaxVersion
           /\ crossed \in BOOLEAN /\ proc \in [Proc -> State]
           /\ Fault => faults' \in 0 .. MaxFaults
<1>1. /\ version \in 0 .. MaxVersion /\ faults \in 0 .. MaxFaults
      /\ acked \in [header : 0 .. MaxVersion, index : 0 .. MaxVersion]
      /\ crossed \in BOOLEAN /\ proc \in [Proc -> State]
  BY DEF Types, TypeOK, State
<1>2. \A kind \in Kind : acked[kind] \in 0 .. MaxVersion
  BY <1>1 DEF Kind
<1>3. Fault => faults' \in 0 .. MaxFaults
  BY <1>1, Constants DEF Fault
<1> QED BY <1>1, <1>2, <1>3

-----------------------------------------------------------------------------
(* Steps that leave the disk alone *)

LEMMA QuietKeeps ==
    ASSUME IInv, NEW p \in Proc, NEW r \in State, proc' = [proc EXCEPT ![p] = r],
           UNCHANGED <<disk, version, ghosts>>, faults' \in 0 .. MaxFaults,
           r.pc \notin AtTmp \cup {"sync_dir", "save"},
           ~crossed /\ Sound /\ HeaderCommand(r) =>
                names["header"] # Absent /\ \A q \in Proc : proc[q].pc # "save"
    PROVE  IInv'
<1>1. /\ names' = names /\ dirs' = dirs /\ files' = files /\ stable' = stable
      /\ version' = version /\ acked' = acked /\ crossed' = crossed
  BY DEF disk, ghosts
<1>2. Types /\ DiskOK
  BY TypesOfDisk DEF IInv
<1>3. proc' \in [Proc -> State] /\ proc'[p] = r /\ \A q \in Proc \ {p} : proc'[q] = proc[q]
  BY <1>2, ProcOK
<1>4. Types'
  <2>1. DiskOK'
    BY <1>1, <1>2 DEF DiskOK
  <2> QED BY <1>1, <1>2, <1>3, <2>1, Counters, TypesAfter
<1>5. ASSUME ~crossed' PROVE Sound'
  <2>1. ~crossed /\ Sound
    BY <1>1, <1>5 DEF IInv
  <2>2. Dirs' /\ Reported'
    BY <1>1, <2>1 DEF Sound, Dirs, Reported, Newer, IndexContents, HeaderContents
  <2>3. Temporary'
    BY <1>1, <1>3, <2>1 DEF Sound, Temporary
  <2>4. Landed'
    BY <1>1, <1>3, <2>1 DEF Sound, Landed, Newer
  <2>5. Births'
    BY <1>1, <1>3, <2>1 DEF Sound, Births
  <2>6. Headers'
    BY <1>1, <1>3, <2>1 DEF Sound, Headers, HeaderCommand
  <2> QED BY <2>2, <2>3, <2>4, <2>5, <2>6 DEF Sound
<1> QED BY <1>4, <1>5 DEF IInv

LEMMA RestKeeps ==
    ASSUME IInv, NEW p \in Proc, NEW r \in NoFile, proc' = [proc EXCEPT ![p] = r],
           UNCHANGED <<disk, version, ghosts>>, faults' \in 0 .. MaxFaults
    PROVE  IInv'
<1>1. r \in State /\ r.pc \notin AtTmp \cup {"create", "save", "sync_dir"}
  BY Resting DEF State
<1> QED BY <1>1, QuietKeeps DEF HeaderCommand

LEMMA MountKeeps ==
    ASSUME IInv, NEW p \in Proc, mount(p) \/ init(p) \/ load(p) \/ Exit(p)
    PROVE  IInv'
<1>1. \E r \in NoFile : proc' = [proc EXCEPT ![p] = r]
  BY Resting DEF mount, init, load, Exit
<1>2. UNCHANGED <<disk, version, faults, ghosts>>
  BY DEF mount, init, load, Exit
<1> QED BY <1>1, <1>2, RestKeeps, Counters DEF IInv

LEMMA FailsKeeps ==
    ASSUME IInv, NEW p \in Proc, Fails(p)
    PROVE  IInv'
<1>1. proc[p].back \in NoFile
  BY Counters, Shapes, Resting DEF Fails, IInv
<1>2. proc' = [proc EXCEPT ![p] = proc[p].back] /\ UNCHANGED <<disk, version, ghosts>> /\ Fault
  BY DEF Fails
<1> QED BY <1>1, <1>2, RestKeeps, Counters DEF IInv

LEMMA ReplacingKeeps ==
    ASSUME IInv, NEW p \in Proc, save_index(p) \/ write_header(p)
    PROVE  IInv'
<1>1. PICK kind \in Kind, back \in {Idle, Mounted} :
        Replacing(p, kind, back) /\ (kind = "header" => Good("header"))
  BY DEF save_index, write_header, Kind
<1> DEFINE r == [pc |-> "create", kind |-> kind, back |-> back]
<1>2. proc' = [proc EXCEPT ![p] = r] /\ UNCHANGED <<disk, version, faults, ghosts>>
  BY <1>1 DEF Replacing
<1>3. r \in State /\ r.pc = "create" /\ r.kind = kind
  BY DEF State, Starter
<1> HIDE DEF r
<1>4. ASSUME Sound, HeaderCommand(r)
      PROVE  names["header"] # Absent /\ \A q \in Proc : proc[q].pc # "save"
  <2>1. names["header"] # Absent /\ files[names["header"]].kind = "header"
    BY <1>1, <1>3, <1>4 DEF HeaderCommand, Good, Reads
  <2>2. names["header"] \in Inode
    BY <2>1, TypesOfDisk DEF IInv, DiskOK, Entry, Name
  <2>3. files[names["header"]] \in stable[names["header"]]
    BY <2>2, TypesOfDisk DEF IInv, DiskOK
  <2>4. stable[names["header"]] # {Blank}
    BY <2>1, <2>3, Constants
  <2> QED BY <1>4, <2>1, <2>4 DEF Sound, Births
<1>5. r.pc \notin AtTmp \cup {"sync_dir", "save"}
  BY <1>3 DEF AtTmp
<1>6. faults' \in 0 .. MaxFaults
  BY <1>2, Counters DEF IInv
<1> QED BY <1>2, <1>3, <1>4, <1>5, <1>6, QuietKeeps

-----------------------------------------------------------------------------
(* Steps on the disk *)

\* Where the temporary file of a process is.
LEMMA TmpFacts ==
    ASSUME Types, Sound, NEW p \in Proc, proc[p].pc \in AtTmp
    PROVE  /\ proc[p].fd = names["tmp"] /\ names["tmp"] # Absent /\ names["tmp"] \in Inode
           /\ \A d \in dirs : names["tmp"] # d["index"] /\ names["tmp"] # d["header"]
           /\ names["tmp"] # names["index"] /\ names["tmp"] # names["header"]
           /\ proc[p].ver = version
           /\ \A q \in Proc \ {p} : proc[q].pc \notin AtTmp
<1>1. DiskOK
  BY TypesOfDisk
<1>2. /\ proc[p].fd = names["tmp"] /\ names["tmp"] # Absent
      /\ proc[p].ver = version /\ \A q \in Proc \ {p} : proc[q].pc \notin AtTmp
  BY DEF Sound, Temporary
<1>3. names["tmp"] \in Inode
  BY <1>1, <1>2 DEF DiskOK, Entry, Name
<1>4. \A d \in dirs : names["tmp"] # d["index"] /\ names["tmp"] # d["header"]
  BY <1>2 DEF Sound, Dirs
<1>5. names \in dirs
  BY <1>1 DEF DiskOK
<1> QED BY <1>2, <1>3, <1>4, <1>5

\* Directories whose index and header lead to files that did not change.
LEMMA DirEntries ==
    ASSUME DiskOK
    PROVE  /\ \A d \in dirs : \A n \in Name : d[n] = Absent \/ d[n] \in Inode
           /\ \A n \in Name : names[n] = Absent \/ names[n] \in Inode
           /\ names \in dirs
  BY DEF DiskOK, Entry

\* What is written to, or synced in, the temporary file touches no other.
LEMMA TmpContentKeeps ==
    ASSUME Types, Sound, NEW p \in Proc, proc[p].pc \in AtTmp,
           names' = names, dirs' = dirs, version' = version, acked' = acked,
           \A i \in Inode \ {names["tmp"]} : stable'[i] = stable[i],
           \A q \in Proc \ {p} : proc'[q] = proc[q],
           proc'[p].pc \in AtTmp, proc'[p].kind = proc[p].kind
    PROVE  Dirs' /\ Reported' /\ Landed' /\ Births' /\ Headers'
<1> DEFINE t == names["tmp"]
<1>1. /\ \A d \in dirs : t # d["index"] /\ t # d["header"]
      /\ t # names["index"] /\ t # names["header"] /\ t # Absent
      /\ \A q \in Proc \ {p} : proc[q].pc \notin AtTmp
  BY TmpFacts
<1>2. /\ \A d \in dirs : \A n \in Name : d[n] = Absent \/ d[n] \in Inode
      /\ \A n \in Name : names[n] = Absent \/ names[n] \in Inode
      /\ names \in dirs
  BY TypesOfDisk, DirEntries
<1>3. \A d \in dirs : \A kind \in Kind : d[kind] # Absent => stable'[d[kind]] = stable[d[kind]]
  BY <1>1, <1>2 DEF Kind, Name
<1>4. Dirs'
  BY <1>3 DEF Sound, Dirs, Kind
<1>5. Reported'
  BY <1>3 DEF Sound, Reported
<1>6. Landed'
  <2> SUFFICES ASSUME NEW q \in Proc, proc'[q].pc = "sync_dir"
               PROVE  /\ proc'[q].ver <= version
                      /\ names[proc'[q].kind] # Absent
                      /\ Newer(stable'[names[proc'[q].kind]], proc'[q].kind, proc'[q].ver)
    BY DEF Landed
  <2>1. q # p /\ proc'[q] = proc[q]
    BY DEF AtTmp
  <2>2. proc[q].kind \in Kind
    BY <2>1, Counters, Shapes DEF Replacer
  <2> QED BY <1>2, <1>3, <2>1, <2>2 DEF Sound, Landed
<1>7. Births'
  <2> SUFFICES ASSUME NEW q \in Proc, proc'[q].pc = "save"
               PROVE  /\ names["header"] # Absent
                      /\ proc'[q].fd = names["header"]
                      /\ stable'[names["header"]] = {Blank}
                      /\ \A x \in Proc \ {q} : proc'[x].pc # "save"
    BY DEF Births
  <2>1. q # p /\ proc'[q] = proc[q] /\ proc'[p].pc # "save"
    BY DEF AtTmp
  <2> QED BY <1>2, <1>3, <2>1 DEF Sound, Births, Kind
<1>8. Headers'
  BY DEF Sound, Headers, HeaderCommand, AtTmp
<1> QED BY <1>4, <1>5, <1>6, <1>7, <1>8

LEMMA WriteTmpKeeps ==
    ASSUME IInv, NEW p \in Proc, WriteTmp(p)
    PROVE  IInv'
<1>1. Types /\ DiskOK
  BY TypesOfDisk DEF IInv
<1>2. /\ Step(p, "write", "sync") /\ Write(proc[p].fd, Document(proc[p].kind, proc[p].ver))
      /\ version' = version /\ faults' = faults /\ acked' = acked /\ crossed' = crossed
  BY DEF WriteTmp, ghosts
<1>3. /\ proc[p] \in Replacer /\ proc[p].pc = "write"
      /\ proc' \in [Proc -> State] /\ proc'[p].pc = "sync" /\ proc'[p].fd = proc[p].fd
      /\ proc'[p].kind = proc[p].kind /\ proc'[p].ver = proc[p].ver
      /\ \A q \in Proc \ {p} : proc'[q] = proc[q]
  BY <1>1, <1>2, StepOK DEF AtTmp
<1>4. proc[p].fd \in Inode /\ proc[p].kind \in Kind /\ proc[p].ver \in 0 .. MaxVersion
  BY <1>3, Constants DEF Replacer
<1>5. PICK fd \in Inode : fd = proc[p].fd
  BY <1>4
<1>6. /\ DiskOK' /\ names' = names /\ dirs' = dirs
      /\ \A i \in Inode \ {fd} : stable'[i] = stable[i] /\ files'[i] = files[i]
      /\ files'[fd].kind = proc[p].kind /\ files'[fd].ver = proc[p].ver
      /\ files[fd] = Blank => files'[fd].whole
  BY <1>1, <1>2, <1>4, <1>5, WriteOK
<1>7. Types'
  BY <1>1, <1>2, <1>3, <1>6, Counters, TypesAfter
<1>8. ASSUME ~crossed' PROVE Sound'
  <2>1. Sound
    BY <1>2, <1>8 DEF IInv
  <2>2. proc[p].pc \in AtTmp /\ proc'[p].pc \in AtTmp
    BY <1>3 DEF AtTmp
  <2>3. /\ fd = names["tmp"] /\ fd # Absent /\ proc[p].ver = version
        /\ \A q \in Proc \ {p} : proc[q].pc \notin AtTmp
    BY <1>1, <1>5, <2>1, <2>2, TmpFacts
  <2>4. files[fd] = Blank
    BY <1>3, <2>1, <2>2, <2>3 DEF Sound, Temporary
  <2>5. Dirs' /\ Reported' /\ Landed' /\ Births' /\ Headers'
    BY <1>1, <1>2, <1>3, <1>6, <2>1, <2>2, <2>3, TmpContentKeeps
  <2>6. Temporary'
    <3> SUFFICES ASSUME NEW q \in Proc, proc'[q].pc \in AtTmp
                 PROVE  /\ q = p
                        /\ \A x \in Proc \ {p} : proc'[x].pc \notin AtTmp
                        /\ fd # Absent /\ names' = names /\ fd = names["tmp"]
                        /\ proc'[p].fd = fd /\ proc'[p].ver = version'
                        /\ proc'[p].pc = "sync"
                        /\ files'[fd].kind = proc'[p].kind /\ files'[fd].ver = proc'[p].ver /\ files'[fd].whole
      BY Zenon DEF Temporary
    <3> QED BY <1>2, <1>3, <1>5, <1>6, <2>3, <2>4
  <2> QED BY <2>5, <2>6 DEF Sound
<1> QED BY <1>7, <1>8 DEF IInv

LEMMA SyncTmpKeeps ==
    ASSUME IInv, NEW p \in Proc, SyncTmp(p)
    PROVE  IInv'
<1>1. Types /\ DiskOK
  BY TypesOfDisk DEF IInv
<1>2. /\ Step(p, "sync", "rename") /\ sync_all(proc[p].fd)
      /\ version' = version /\ faults' = faults /\ acked' = acked /\ crossed' = crossed
  BY DEF SyncTmp, ghosts
<1>3. /\ proc[p] \in Replacer /\ proc[p].pc = "sync"
      /\ proc' \in [Proc -> State] /\ proc'[p].pc = "rename" /\ proc'[p].fd = proc[p].fd
      /\ proc'[p].kind = proc[p].kind /\ proc'[p].ver = proc[p].ver
      /\ \A q \in Proc \ {p} : proc'[q] = proc[q]
  BY <1>1, <1>2, StepOK DEF AtTmp
<1>4. PICK fd \in Inode : fd = proc[p].fd
  BY <1>3 DEF Replacer
<1>5. /\ DiskOK' /\ names' = names /\ dirs' = dirs /\ files' = files
      /\ \A i \in Inode \ {fd} : stable'[i] = stable[i]
      /\ stable'[fd] = {files[fd]}
  BY <1>1, <1>2, <1>4, SyncOK
<1>6. Types'
  BY <1>1, <1>2, <1>3, <1>5, Counters, TypesAfter
<1>7. ASSUME ~crossed' PROVE Sound'
  <2>1. Sound
    BY <1>2, <1>7 DEF IInv
  <2>2. proc[p].pc \in AtTmp /\ proc'[p].pc \in AtTmp
    BY <1>3 DEF AtTmp
  <2>3. /\ fd = names["tmp"] /\ fd # Absent /\ proc[p].ver = version
        /\ \A q \in Proc \ {p} : proc[q].pc \notin AtTmp
    BY <1>1, <1>4, <2>1, <2>2, TmpFacts
  <2>4. files[fd].kind = proc[p].kind /\ files[fd].ver = proc[p].ver /\ files[fd].whole
    BY <1>3, <2>1, <2>2, <2>3 DEF Sound, Temporary
  <2>5. Dirs' /\ Reported' /\ Landed' /\ Births' /\ Headers'
    BY <1>1, <1>2, <1>3, <1>5, <2>1, <2>2, <2>3, TmpContentKeeps
  <2>6. Temporary'
    <3> SUFFICES ASSUME NEW q \in Proc, proc'[q].pc \in AtTmp
                 PROVE  /\ q = p
                        /\ \A x \in Proc \ {p} : proc'[x].pc \notin AtTmp
                        /\ fd # Absent /\ names' = names /\ fd = names["tmp"]
                        /\ proc'[p].fd = fd /\ proc'[p].ver = version'
                        /\ proc'[p].pc = "rename"
                        /\ \A c \in stable'[fd] : c.kind = proc'[p].kind /\ c.ver = proc'[p].ver /\ c.whole
      BY Zenon DEF Temporary
    <3> QED BY <1>2, <1>3, <1>4, <1>5, <2>3, <2>4
  <2> QED BY <2>5, <2>6 DEF Sound
<1> QED BY <1>6, <1>7 DEF IInv

LEMMA CreateTmpKeeps ==
    ASSUME IInv, NEW p \in Proc, CreateTmp(p)
    PROVE  IInv'
<1>1. Types /\ DiskOK /\ MaxVersion \in Nat
  BY TypesOfDisk, Constants DEF IInv
<1>2. /\ proc[p].pc = "create" /\ version < MaxVersion /\ version' = version + 1
      /\ crossed' = (crossed \/ \E q \in Proc \ {p} : proc[q].pc \in AtTmp)
      /\ faults' = faults /\ acked' = acked
  BY DEF CreateTmp, AtTmp
<1>3. PICK fd \in Inode :
        /\ Create("tmp", fd)
        /\ proc' = [proc EXCEPT ![p] = [pc |-> "write", fd |-> fd, kind |-> proc[p].kind,
                                        ver |-> version', back |-> proc[p].back]]
  BY DEF CreateTmp
<1>4. version \in Nat /\ version' \in 1 .. MaxVersion /\ version' \in 0 .. MaxVersion
  BY <1>1, <1>2, Counters
<1>5. proc[p] \in Starter /\ proc[p].kind \in Kind /\ proc[p].back \in {Idle, Mounted}
  <2>1. proc[p] \in Starter
    BY <1>1, <1>2, Counters, Shapes
  <2> QED BY <2>1 DEF Starter
<1>6. PICK r : r = [pc |-> "write", fd |-> fd, kind |-> proc[p].kind,
                    ver |-> version', back |-> proc[p].back]
  OBVIOUS
<1>7. r \in State /\ r.pc = "write" /\ r.fd = fd /\ r.kind = proc[p].kind /\ r.ver = version'
  BY <1>4, <1>5, <1>6 DEF State, Replacer, AtTmp
<1>8. proc' \in [Proc -> State] /\ proc'[p] = r /\ \A q \in Proc \ {p} : proc'[q] = proc[q]
  BY <1>1, <1>3, <1>6, <1>7, ProcOK
<1>9. /\ DiskOK'
      /\ names' = [names EXCEPT !["tmp"] = fd]
      /\ dirs' = dirs \cup {names'}
      /\ \A i \in Inode \ {fd} : stable'[i] = stable[i] /\ files'[i] = files[i]
      /\ files'[fd] = Blank
  BY <1>1, <1>3, CreateOK DEF Name
<1>10. Types'
  BY <1>1, <1>2, <1>4, <1>8, <1>9, Counters, TypesAfter
<1>11. ASSUME ~crossed' PROVE Sound'
  <2>1. Sound /\ \A q \in Proc \ {p} : proc[q].pc \notin AtTmp
    BY <1>2, <1>11 DEF IInv
  <2>2. /\ names'["tmp"] = fd /\ names'["index"] = names["index"] /\ names'["header"] = names["header"]
        /\ fd # Absent /\ names \in dirs
    BY <1>1, <1>9, Constants DEF DiskOK, Name
  <2>3. \A d \in dirs : fd # d["index"] /\ fd # d["header"]
    <3>1. CASE names["tmp"] = Absent
      <4>1. NewInode(fd)
        BY <1>3, <3>1 DEF Create
      <4> QED BY <1>1, <4>1, NewIsNew DEF Name
    <3>2. CASE names["tmp"] # Absent
      <4>1. fd = names["tmp"]
        BY <1>3, <3>2 DEF Create
      <4> QED BY <2>1, <3>2, <4>1 DEF Sound, Dirs
    <3> QED BY <3>1, <3>2
  <2>4. /\ \A d \in dirs : \A n \in Name : d[n] = Absent \/ d[n] \in Inode
        /\ \A n \in Name : names[n] = Absent \/ names[n] \in Inode
    BY <1>1, DirEntries
  <2>5. \A d \in dirs : \A kind \in Kind : d[kind] # Absent => stable'[d[kind]] = stable[d[kind]]
    BY <1>9, <2>3, <2>4 DEF Kind, Name
  <2>6. \A d \in dirs' : \E e \in dirs :
            d["index"] = e["index"] /\ d["header"] = e["header"] /\ (d["tmp"] = e["tmp"] \/ d["tmp"] = fd)
    BY <1>9, <2>2
  <2>7. Dirs'
    BY <2>1, <2>2, <2>3, <2>5, <2>6 DEF Sound, Dirs, Kind
  <2>8. Reported'
    <3> SUFFICES ASSUME NEW kind \in Kind
                 PROVE  /\ acked[kind] <= version'
                        /\ acked[kind] > 0 => \A d \in dirs' :
                              d[kind] # Absent /\ Newer(stable'[d[kind]], kind, acked[kind])
      BY <1>2 DEF Reported
    <3>1. acked[kind] <= version /\ acked[kind] \in Nat
      BY <1>1, <2>1, Counters, Constants DEF Sound, Reported
    <3>2. acked[kind] <= version'
      BY <1>2, <1>4, <3>1
    <3>3. ASSUME acked[kind] > 0, NEW d \in dirs'
          PROVE  d[kind] # Absent /\ Newer(stable'[d[kind]], kind, acked[kind])
      <4>1. PICK e \in dirs : d[kind] = e[kind]
        BY <2>6 DEF Kind
      <4>2. e[kind] # Absent /\ Newer(stable[e[kind]], kind, acked[kind])
        BY <2>1, <3>3 DEF Sound, Reported
      <4> QED BY <2>5, <4>1, <4>2
    <3> QED BY <3>2, <3>3
  <2>9. Temporary'
    <3> SUFFICES ASSUME NEW q \in Proc, proc'[q].pc \in AtTmp
                 PROVE  /\ q = p
                        /\ \A x \in Proc \ {p} : proc'[x].pc \notin AtTmp
                        /\ fd # Absent /\ names'["tmp"] = fd
                        /\ proc'[p].fd = fd /\ proc'[p].ver = version'
                        /\ proc'[p].pc = "write" /\ files'[fd] = Blank
      BY Zenon DEF Temporary
    <3> QED BY <1>7, <1>8, <1>9, <2>1, <2>2
  <2>10. Landed'
    <3> SUFFICES ASSUME NEW q \in Proc, proc'[q].pc = "sync_dir"
                 PROVE  /\ proc'[q].ver <= version'
                        /\ names'[proc'[q].kind] # Absent
                        /\ Newer(stable'[names'[proc'[q].kind]], proc'[q].kind, proc'[q].ver)
      BY DEF Landed
    <3>1. q # p /\ proc'[q] = proc[q]
      BY <1>7, <1>8
    <3>2. proc[q].kind \in Kind /\ proc[q].ver \in Nat
      BY <1>1, <3>1, Counters, Shapes DEF Replacer
    <3>3. names'[proc[q].kind] = names[proc[q].kind]
      BY <2>2, <3>2 DEF Kind
    <3>4. proc[q].ver <= version /\ names[proc[q].kind] # Absent
          /\ Newer(stable[names[proc[q].kind]], proc[q].kind, proc[q].ver)
      BY <2>1, <3>1 DEF Sound, Landed
    <3>5. proc[q].ver <= version'
      BY <1>2, <1>4, <3>2, <3>4
    <3> QED BY <2>2, <2>5, <3>1, <3>2, <3>3, <3>4, <3>5
  <2>11. Births'
    <3> SUFFICES ASSUME NEW q \in Proc, proc'[q].pc = "save"
                 PROVE  /\ names'["header"] # Absent
                        /\ proc'[q].fd = names'["header"]
                        /\ stable'[names'["header"]] = {Blank}
                        /\ \A x \in Proc \ {q} : proc'[x].pc # "save"
      BY DEF Births
    <3>1. q # p /\ proc'[q] = proc[q] /\ proc'[p].pc # "save"
      BY <1>7, <1>8
    <3> QED BY <1>8, <2>1, <2>2, <2>5, <3>1 DEF Sound, Births, Kind
  <2>12. Headers'
    <3> SUFFICES ASSUME NEW q \in Proc, HeaderCommand(proc'[q])
                 PROVE  names'["header"] # Absent /\ \A x \in Proc : proc'[x].pc # "save"
      BY DEF Headers
    <3>1. HeaderCommand(proc[q])
      BY <1>2, <1>7, <1>8 DEF HeaderCommand
    <3>2. names["header"] # Absent /\ \A x \in Proc : proc[x].pc # "save"
      BY <2>1, <3>1 DEF Sound, Headers
    <3> QED BY <1>7, <1>8, <2>2, <3>2
  <2> QED BY <2>7, <2>8, <2>9, <2>10, <2>11, <2>12 DEF Sound
<1> QED BY <1>10, <1>11 DEF IInv

LEMMA RenameTmpKeeps ==
    ASSUME IInv, NEW p \in Proc, RenameTmp(p)
    PROVE  IInv'
<1>1. Types /\ DiskOK
  BY TypesOfDisk DEF IInv
<1>2. proc[p].pc = "rename" /\ version' = version /\ faults' = faults /\ acked' = acked /\ crossed' = crossed
  BY DEF RenameTmp, ghosts
<1>3. proc[p] \in Replacer /\ proc[p].kind \in Kind /\ proc[p].back \in NoFile /\ proc[p].ver \in Nat
  <2>1. proc[p] \in Replacer
    BY <1>1, <1>2, Counters, Shapes DEF AtTmp
  <2> QED BY <2>1, Resting DEF Replacer
<1>4. CASE names["tmp"] = Absent /\ proc' = [proc EXCEPT ![p] = proc[p].back] /\ UNCHANGED disk
  <2>1. UNCHANGED <<disk, version, ghosts>> /\ faults' \in 0 .. MaxFaults
    BY <1>1, <1>2, <1>4, Counters DEF ghosts
  <2> QED BY <1>3, <1>4, <2>1, RestKeeps
<1>5. CASE names["tmp"] # Absent /\ Step(p, "rename", "sync_dir") /\ Rename("tmp", proc[p].kind)
  <2>1. /\ proc' \in [Proc -> State] /\ proc'[p].pc = "sync_dir"
        /\ proc'[p].kind = proc[p].kind /\ proc'[p].ver = proc[p].ver
        /\ \A q \in Proc \ {p} : proc'[q] = proc[q]
    BY <1>1, <1>5, StepOK DEF AtTmp
  <2>2. PICK kind \in Kind : kind = proc[p].kind
    BY <1>3
  <2>3. PICK t : t = names["tmp"]
    OBVIOUS
  <2>4. /\ DiskOK' /\ dirs' = dirs \cup {names'} /\ files' = files /\ stable' = stable
        /\ names'[kind] = t /\ names'["tmp"] = Absent
        /\ \A n \in Name \ {kind, "tmp"} : names'[n] = names[n]
    BY <1>1, <1>5, <2>2, <2>3, RenameOK
  <2>5. Types'
    BY <1>1, <1>2, <2>1, <2>4, Counters, TypesAfter
  <2>6. ASSUME ~crossed' PROVE Sound'
    <3>1. Sound /\ proc[p].pc \in AtTmp
      BY <1>2, <2>6 DEF IInv, AtTmp
    <3>2. /\ t # Absent /\ proc[p].ver = version /\ names \in dirs
          /\ \A q \in Proc \ {p} : proc[q].pc \notin AtTmp
      BY <1>1, <2>3, <3>1, TmpFacts DEF DiskOK
    <3>3. \A c \in stable[t] : c.kind = kind /\ c.ver = version /\ c.whole
      BY <1>2, <2>2, <2>3, <3>1, <3>2 DEF Sound, Temporary
    <3>4. version \in Nat
      BY <1>3, <3>2
    <3>5. \A v \in Nat : v <= version => Newer(stable'[names'[kind]], kind, v)
      BY <2>4, <3>3, <3>4 DEF Newer
    <3>6. \A other \in Kind : other # kind => names'[other] = names[other]
      BY <2>4 DEF Kind, Name
    <3>7. Dirs'
      <4> SUFFICES ASSUME NEW d \in dirs'
                   PROVE  /\ d["index"] # Absent => IndexContents(stable[d["index"]])
                          /\ d["header"] # Absent => HeaderContents(stable[d["header"]])
                          /\ d["tmp"] # Absent => d["tmp"] # d["index"] /\ d["tmp"] # d["header"]
        BY <2>4 DEF Dirs
      <4>1. CASE d \in dirs
        BY <3>1, <4>1 DEF Sound, Dirs
      <4>2. CASE d = names'
        <5>1. CASE kind = "index"
          <6>1. d["index"] = t /\ d["header"] = names["header"] /\ d["tmp"] = Absent
            BY <2>4, <3>6, <4>2, <5>1 DEF Kind
          <6>2. IndexContents(stable[t])
            BY <3>3, <5>1 DEF IndexContents
          <6> QED BY <3>1, <3>2, <6>1, <6>2 DEF Sound, Dirs
        <5>2. CASE kind = "header"
          <6>1. d["header"] = t /\ d["index"] = names["index"] /\ d["tmp"] = Absent
            BY <2>4, <3>6, <4>2, <5>2 DEF Kind
          <6>2. HeaderContents(stable[t])
            BY <3>3, <5>2 DEF HeaderContents
          <6> QED BY <3>1, <3>2, <6>1, <6>2 DEF Sound, Dirs
        <5> QED BY <5>1, <5>2 DEF Kind
      <4> QED BY <2>4, <4>1, <4>2
    <3>8. Reported'
      <4> SUFFICES ASSUME NEW k \in Kind
                   PROVE  /\ acked[k] <= version
                          /\ acked[k] > 0 => \A d \in dirs' :
                                d[k] # Absent /\ Newer(stable'[d[k]], k, acked[k])
        BY <1>2 DEF Reported
      <4>1. acked[k] <= version /\ acked[k] \in Nat
        BY <1>1, <3>1, Counters, Constants DEF Sound, Reported
      <4>2. acked[k] > 0 => \A d \in dirs : d[k] # Absent /\ Newer(stable'[d[k]], k, acked[k])
        BY <2>4, <3>1 DEF Sound, Reported
      <4>3. acked[k] > 0 => names'[k] # Absent /\ Newer(stable'[names'[k]], k, acked[k])
        <5>1. CASE k = kind
          BY <2>4, <3>2, <3>5, <4>1, <5>1
        <5>2. CASE k # kind
          BY <3>2, <3>6, <4>2, <5>2
        <5> QED BY <5>1, <5>2
      <4> QED BY <2>4, <4>1, <4>2, <4>3
    <3>9. Temporary'
      BY <2>1, <3>2 DEF Temporary, AtTmp
    <3>10. Landed'
      <4> SUFFICES ASSUME NEW q \in Proc, proc'[q].pc = "sync_dir"
                   PROVE  /\ proc'[q].ver <= version
                          /\ names'[proc'[q].kind] # Absent
                          /\ Newer(stable'[names'[proc'[q].kind]], proc'[q].kind, proc'[q].ver)
        BY <1>2 DEF Landed
      <4>1. CASE q = p
        BY <1>3, <2>1, <2>2, <2>4, <3>2, <3>4, <3>5, <4>1
      <4>2. CASE q # p
        <5>1. proc'[q] = proc[q]
          BY <2>1, <4>2
        <5>2. proc[q].kind \in Kind /\ proc[q].ver \in Nat
          BY <1>1, <5>1, Counters, Shapes DEF Replacer
        <5>3. proc[q].ver <= version /\ names[proc[q].kind] # Absent
              /\ Newer(stable[names[proc[q].kind]], proc[q].kind, proc[q].ver)
          BY <3>1, <5>1 DEF Sound, Landed
        <5>4. CASE proc[q].kind = kind
          BY <2>4, <3>2, <3>5, <5>1, <5>2, <5>3, <5>4
        <5>5. CASE proc[q].kind # kind
          BY <2>4, <3>6, <5>1, <5>2, <5>3, <5>5
        <5> QED BY <5>4, <5>5
      <4> QED BY <4>1, <4>2
    <3>11. Births'
      <4> SUFFICES ASSUME NEW q \in Proc, proc'[q].pc = "save"
                   PROVE  /\ names'["header"] # Absent
                          /\ proc'[q].fd = names'["header"]
                          /\ stable'[names'["header"]] = {Blank}
                          /\ \A x \in Proc \ {q} : proc'[x].pc # "save"
        BY DEF Births
      <4>1. q # p /\ proc'[q] = proc[q]
        BY <2>1
      <4>2. kind # "header"
        BY <2>2, <3>1, <4>1 DEF Sound, Headers, HeaderCommand
      <4>3. names'["header"] = names["header"]
        BY <3>6, <4>2 DEF Kind
      <4> QED BY <2>1, <2>4, <3>1, <4>1, <4>3 DEF Sound, Births
    <3>12. Headers'
      <4> SUFFICES ASSUME NEW q \in Proc, HeaderCommand(proc'[q])
                   PROVE  names'["header"] # Absent /\ \A x \in Proc : proc'[x].pc # "save"
        BY DEF Headers
      <4>1. HeaderCommand(proc[q])
        BY <1>2, <2>1 DEF HeaderCommand, AtTmp
      <4>2. names["header"] # Absent /\ \A x \in Proc : proc[x].pc # "save"
        BY <3>1, <4>1 DEF Sound, Headers
      <4>3. names'["header"] # Absent
        BY <2>4, <3>2, <3>6, <4>2 DEF Kind
      <4> QED BY <2>1, <4>2, <4>3
    <3> QED BY <3>7, <3>8, <3>9, <3>10, <3>11, <3>12 DEF Sound
  <2> QED BY <2>5, <2>6 DEF IInv
<1> QED BY <1>4, <1>5 DEF RenameTmp

LEMMA SyncDirKeeps ==
    ASSUME IInv, NEW p \in Proc, SyncDir(p)
    PROVE  IInv'
<1>1. Types /\ DiskOK /\ MaxVersion \in Nat
  BY TypesOfDisk, Constants DEF IInv
<1>2. /\ proc[p].pc = "sync_dir" /\ sync_dir
      /\ acked' = [acked EXCEPT ![proc[p].kind] = IF @ > proc[p].ver THEN @ ELSE proc[p].ver]
      /\ proc' = [proc EXCEPT ![p] = proc[p].back]
      /\ version' = version /\ faults' = faults /\ crossed' = crossed
  BY DEF SyncDir
<1>3. proc[p] \in Replacer /\ proc[p].kind \in Kind /\ proc[p].back \in NoFile /\ proc[p].ver \in 1 .. MaxVersion
  <2>1. proc[p] \in Replacer
    BY <1>1, <1>2, Counters, Shapes
  <2> QED BY <2>1, Resting DEF Replacer
<1>4. PICK kind \in Kind, v \in 1 .. MaxVersion, r \in NoFile :
        kind = proc[p].kind /\ v = proc[p].ver /\ r = proc[p].back
  BY <1>3
<1>5. /\ r \in State /\ r.pc \notin AtTmp \cup {"create", "save", "sync_dir"}
      /\ proc' \in [Proc -> State] /\ proc'[p] = r /\ \A q \in Proc \ {p} : proc'[q] = proc[q]
  <2>1. r \in State /\ r.pc \notin AtTmp \cup {"create", "save", "sync_dir"}
    BY Resting DEF State
  <2> QED BY <1>1, <1>2, <1>4, <2>1, ProcOK
<1>6. DiskOK' /\ dirs' = {names} /\ names' = names /\ files' = files /\ stable' = stable
  BY <1>1, <1>2, SyncDirOK
<1>7. /\ acked' \in [header : 0 .. MaxVersion, index : 0 .. MaxVersion]
      /\ acked'[kind] = IF acked[kind] > v THEN acked[kind] ELSE v
      /\ \A k \in Kind : k # kind => acked'[k] = acked[k]
  <2>1. /\ acked \in [header : 0 .. MaxVersion, index : 0 .. MaxVersion]
        /\ \A k \in Kind : acked[k] \in 0 .. MaxVersion
    BY <1>1, Counters
  <2>2. acked' = [acked EXCEPT ![kind] = IF acked[kind] > v THEN acked[kind] ELSE v]
    BY <1>2, <1>4
  <2>3. (IF acked[kind] > v THEN acked[kind] ELSE v) \in 0 .. MaxVersion
    BY <1>1, <2>1
  <2> QED BY <2>1, <2>2, <2>3 DEF Kind
<1>8. Types'
  BY <1>1, <1>2, <1>5, <1>6, <1>7, Counters, TypesAfter
<1>9. ASSUME ~crossed' PROVE Sound'
  <2>1. Sound /\ names \in dirs
    BY <1>1, <1>2, <1>9 DEF IInv, DiskOK
  <2>2. v <= version /\ names[kind] # Absent /\ Newer(stable[names[kind]], kind, v)
    BY <1>2, <1>4, <2>1 DEF Sound, Landed
  <2>3. Dirs'
    BY <1>6, <2>1 DEF Sound, Dirs
  <2>4. Reported'
    <3> SUFFICES ASSUME NEW k \in Kind
                 PROVE  /\ acked'[k] <= version
                        /\ acked'[k] > 0 => names[k] # Absent /\ Newer(stable[names[k]], k, acked'[k])
      BY <1>2, <1>6 DEF Reported
    <3>1. /\ acked[k] <= version
          /\ acked[k] > 0 => names[k] # Absent /\ Newer(stable[names[k]], k, acked[k])
      BY <2>1 DEF Sound, Reported
    <3>2. acked'[k] = acked[k] \/ (k = kind /\ acked'[k] = v)
      BY <1>7
    <3> QED BY <2>2, <3>1, <3>2
  <2>5. Temporary'
    BY <1>2, <1>5, <1>6, <2>1 DEF Sound, Temporary
  <2>6. Landed'
    BY <1>2, <1>5, <1>6, <2>1 DEF Sound, Landed
  <2>7. Births'
    BY <1>5, <1>6, <2>1 DEF Sound, Births
  <2>8. Headers'
    BY <1>5, <1>6, <2>1 DEF Sound, Headers, HeaderCommand
  <2> QED BY <2>3, <2>4, <2>5, <2>6, <2>7, <2>8 DEF Sound
<1> QED BY <1>8, <1>9 DEF IInv

LEMMA SaveCreateKeeps ==
    ASSUME IInv, NEW p \in Proc, SaveCreate(p)
    PROVE  IInv'
<1>1. Types /\ DiskOK
  BY TypesOfDisk DEF IInv
<1>2. /\ proc[p].pc = "birth" /\ crossed' = (crossed \/ names["header"] # Absent)
      /\ version' = version /\ faults' = faults /\ acked' = acked
  BY DEF SaveCreate
<1>3. PICK fd \in Inode :
        Create("header", fd) /\ proc' = [proc EXCEPT ![p] = [pc |-> "save", fd |-> fd]]
  BY DEF SaveCreate
<1>4. PICK r : r = [pc |-> "save", fd |-> fd]
  OBVIOUS
<1>5. r \in State /\ r.pc = "save" /\ r.fd = fd
  BY <1>4 DEF State, Saver
<1>6. proc' \in [Proc -> State] /\ proc'[p] = r /\ \A q \in Proc \ {p} : proc'[q] = proc[q]
  BY <1>1, <1>3, <1>4, <1>5, ProcOK
<1>7. /\ DiskOK'
      /\ names' = [names EXCEPT !["header"] = fd]
      /\ dirs' = dirs \cup {names'}
      /\ \A i \in Inode \ {fd} : stable'[i] = stable[i] /\ files'[i] = files[i]
      /\ names["header"] = Absent => stable'[fd] = {Blank}
  BY <1>1, <1>3, CreateOK DEF Name
<1>8. Types'
  BY <1>1, <1>2, <1>6, <1>7, Counters, TypesAfter
<1>9. ASSUME ~crossed' PROVE Sound'
  <2>1. Sound /\ names["header"] = Absent /\ stable'[fd] = {Blank}
    BY <1>2, <1>7, <1>9 DEF IInv
  <2>2. /\ names'["header"] = fd /\ names'["index"] = names["index"] /\ names'["tmp"] = names["tmp"]
        /\ fd # Absent /\ names \in dirs
    BY <1>1, <1>7, Constants DEF DiskOK, Name
  <2>3. \A d \in dirs : \A n \in Name : fd # d[n]
    <3>1. NewInode(fd)
      BY <1>3, <2>1 DEF Create
    <3> QED BY <1>1, <3>1, NewIsNew
  <2>4. /\ \A d \in dirs : \A n \in Name : d[n] = Absent \/ d[n] \in Inode
        /\ \A n \in Name : names[n] = Absent \/ names[n] \in Inode
    BY <1>1, DirEntries
  <2>5. \A d \in dirs : \A n \in Name : d[n] # Absent => stable'[d[n]] = stable[d[n]] /\ files'[d[n]] = files[d[n]]
    BY <1>7, <2>3, <2>4
  <2>6. HeaderContents(stable'[fd])
    BY <2>1, Constants DEF HeaderContents
  <2>7. Dirs'
    <3> SUFFICES ASSUME NEW d \in dirs'
                 PROVE  /\ d["index"] # Absent => IndexContents(stable'[d["index"]])
                        /\ d["header"] # Absent => HeaderContents(stable'[d["header"]])
                        /\ d["tmp"] # Absent => d["tmp"] # d["index"] /\ d["tmp"] # d["header"]
                        /\ names["tmp"] # Absent => names["tmp"] # d["index"] /\ names["tmp"] # d["header"]
      BY <2>2 DEF Dirs
    <3>1. CASE d \in dirs
      BY <2>1, <2>5, <3>1 DEF Sound, Dirs, Name
    <3>2. CASE d = names'
      BY <2>1, <2>2, <2>3, <2>5, <2>6, <3>2 DEF Sound, Dirs, Name
    <3> QED BY <1>7, <3>1, <3>2
  <2>8. Reported'
    <3> SUFFICES ASSUME NEW k \in Kind
                 PROVE  /\ acked[k] <= version
                        /\ acked[k] > 0 => \A d \in dirs' :
                              d[k] # Absent /\ Newer(stable'[d[k]], k, acked[k])
      BY <1>2 DEF Reported
    <3>1. acked[k] <= version /\ (acked[k] > 0 => \A d \in dirs : d[k] # Absent /\ Newer(stable[d[k]], k, acked[k]))
      BY <2>1 DEF Sound, Reported
    <3>2. acked[k] > 0 => k = "index"
      BY <2>1, <2>2, <3>1 DEF Kind
    <3>3. ASSUME acked[k] > 0, NEW d \in dirs'
          PROVE  d[k] # Absent /\ Newer(stable'[d[k]], k, acked[k])
      <4>1. PICK e \in dirs : d["index"] = e["index"]
        BY <1>7, <2>2
      <4>2. e["index"] # Absent /\ Newer(stable[e["index"]], k, acked[k]) /\ k = "index"
        BY <3>1, <3>2, <3>3
      <4>3. stable'[e["index"]] = stable[e["index"]]
        BY <2>5, <4>2 DEF Name
      <4> QED BY <4>1, <4>2, <4>3
    <3> QED BY <3>1, <3>3
  <2>9. Temporary'
    <3>1. \A q \in Proc : proc'[q].pc \in AtTmp => q # p /\ proc'[q] = proc[q]
      BY <1>5, <1>6 DEF AtTmp
    <3>2. \A q \in Proc : proc[q].pc \notin AtTmp => proc'[q].pc \notin AtTmp
      BY <1>5, <1>6 DEF AtTmp
    <3>3. names["tmp"] # Absent => /\ stable'[names["tmp"]] = stable[names["tmp"]]
                                   /\ files'[names["tmp"]] = files[names["tmp"]]
      BY <2>2, <2>5 DEF Name
    <3> QED BY <1>2, <2>1, <2>2, <3>1, <3>2, <3>3 DEF Sound, Temporary
  <2>10. Headers'
    <3>1. \A q \in Proc : ~HeaderCommand(proc[q])
      BY <2>1 DEF Sound, Headers
    <3>2. \A q \in Proc : ~HeaderCommand(proc'[q])
      BY <1>5, <1>6, <3>1 DEF HeaderCommand, AtTmp
    <3> QED BY <3>2 DEF Headers
  <2>11. Landed'
    <3> SUFFICES ASSUME NEW q \in Proc, proc'[q].pc = "sync_dir"
                 PROVE  /\ proc'[q].ver <= version
                        /\ names'[proc'[q].kind] # Absent
                        /\ Newer(stable'[names'[proc'[q].kind]], proc'[q].kind, proc'[q].ver)
      BY <1>2 DEF Landed
    <3>1. q # p /\ proc'[q] = proc[q]
      BY <1>5, <1>6
    <3>2. proc[q].kind \in Kind
      BY <1>1, <3>1, Counters, Shapes DEF Replacer
    <3>3. proc[q].kind # "header"
      BY <2>1, <3>1 DEF Sound, Headers, HeaderCommand
    <3>4. proc[q].kind = "index"
      BY <3>2, <3>3 DEF Kind
    <3> QED BY <2>1, <2>2, <2>5, <3>1, <3>4 DEF Sound, Landed, Name
  <2>12. Births'
    <3> SUFFICES ASSUME NEW q \in Proc, proc'[q].pc = "save"
                 PROVE  q = p /\ \A x \in Proc \ {p} : proc'[x].pc # "save"
      BY <1>5, <1>6, <2>1, <2>2 DEF Births
    <3> QED BY <1>6, <2>1 DEF Sound, Births
  <2> QED BY <2>7, <2>8, <2>9, <2>10, <2>11, <2>12 DEF Sound
<1> QED BY <1>8, <1>9 DEF IInv

LEMMA SaveWriteKeeps ==
    ASSUME IInv, NEW p \in Proc, SaveWrite(p)
    PROVE  IInv'
<1>1. Types /\ DiskOK /\ MaxVersion \in Nat
  BY TypesOfDisk, Constants DEF IInv
<1>2. /\ proc[p].pc = "save" /\ Write(proc[p].fd, Document("header", 0))
      /\ proc' = [proc EXCEPT ![p] = Loading]
      /\ version' = version /\ faults' = faults /\ acked' = acked /\ crossed' = crossed
  BY DEF SaveWrite, ghosts
<1>3. proc[p].fd \in Inode
  BY <1>1, <1>2, Counters, Shapes DEF Saver
<1>4. PICK fd \in Inode : fd = proc[p].fd
  BY <1>3
<1>5. /\ Loading.pc \notin AtTmp \cup {"create", "save", "sync_dir"}
      /\ proc' \in [Proc -> State] /\ proc'[p] = Loading /\ \A q \in Proc \ {p} : proc'[q] = proc[q]
  <2>1. Loading \in State /\ Loading.pc \notin AtTmp \cup {"create", "save", "sync_dir"}
    BY Resting DEF State
  <2> QED BY <1>1, <1>2, <2>1, ProcOK
<1>6. /\ DiskOK' /\ names' = names /\ dirs' = dirs
      /\ \A i \in Inode \ {fd} : stable'[i] = stable[i] /\ files'[i] = files[i]
      /\ files'[fd].kind = "header" /\ files'[fd].ver = 0
      /\ stable'[fd] = stable[fd] \cup {Blank, files'[fd]}
  BY <1>1, <1>2, <1>4, WriteOK DEF Kind
<1>7. Types'
  BY <1>1, <1>2, <1>5, <1>6, Counters, TypesAfter
<1>8. ASSUME ~crossed' PROVE Sound'
  <2>1. Sound /\ names \in dirs
    BY <1>1, <1>2, <1>8 DEF IInv, DiskOK
  <2>2. names["header"] = fd /\ fd # Absent /\ stable[fd] = {Blank}
    BY <1>2, <1>4, <2>1 DEF Sound, Births
  <2>3. HeaderContents(stable'[fd])
    BY <1>6, <2>2, Constants DEF HeaderContents
  <2>4. \A d \in dirs : d["index"] # fd
    BY <2>1, <2>2, Constants DEF Sound, Dirs, IndexContents
  <2>5. names["tmp"] # fd
    BY <2>1, <2>2 DEF Sound, Dirs
  <2>6. /\ \A d \in dirs : \A n \in Name : d[n] = Absent \/ d[n] \in Inode
        /\ \A n \in Name : names[n] = Absent \/ names[n] \in Inode
    BY <1>1, DirEntries
  <2>7. \A d \in dirs : \A n \in Name : d[n] # Absent /\ d[n] # fd =>
            stable'[d[n]] = stable[d[n]] /\ files'[d[n]] = files[d[n]]
    BY <1>6, <2>6
  <2>8. Dirs'
    <3> SUFFICES ASSUME NEW d \in dirs
                 PROVE  /\ d["index"] # Absent => IndexContents(stable'[d["index"]])
                        /\ d["header"] # Absent => HeaderContents(stable'[d["header"]])
                        /\ d["tmp"] # Absent => d["tmp"] # d["index"] /\ d["tmp"] # d["header"]
                        /\ names["tmp"] # Absent => names["tmp"] # d["index"] /\ names["tmp"] # d["header"]
      BY <1>6 DEF Dirs
    <3> QED BY <2>1, <2>3, <2>4, <2>7 DEF Sound, Dirs, Name
  <2>9. Reported'
    <3> SUFFICES ASSUME NEW k \in Kind
                 PROVE  /\ acked[k] <= version
                        /\ acked[k] > 0 => \A d \in dirs :
                              d[k] # Absent /\ Newer(stable'[d[k]], k, acked[k])
      BY <1>2, <1>6 DEF Reported
    <3>1. acked[k] <= version /\ (acked[k] > 0 => \A d \in dirs : d[k] # Absent /\ Newer(stable[d[k]], k, acked[k]))
      BY <2>1 DEF Sound, Reported
    <3>2. acked[k] > 0 => k = "index"
      <4>1. CASE k = "header" /\ acked[k] > 0
        <5>1. Newer({Blank}, k, acked[k])
          BY <2>1, <2>2, <3>1, <4>1
        <5> QED BY <4>1, <5>1, Constants DEF Newer
      <4> QED BY <4>1 DEF Kind
    <3> QED BY <2>4, <2>7, <3>1, <3>2 DEF Name
  <2>10. Temporary'
    <3>1. \A q \in Proc : proc'[q].pc \in AtTmp => q # p /\ proc'[q] = proc[q]
      BY <1>5
    <3>2. \A q \in Proc : proc[q].pc \notin AtTmp => proc'[q].pc \notin AtTmp
      BY <1>5
    <3>3. names["tmp"] # Absent => /\ stable'[names["tmp"]] = stable[names["tmp"]]
                                   /\ files'[names["tmp"]] = files[names["tmp"]]
      BY <2>1, <2>5, <2>7 DEF Name
    <3> QED BY <1>2, <1>6, <2>1, <3>1, <3>2, <3>3 DEF Sound, Temporary
  <2>11. Landed'
    <3> SUFFICES ASSUME NEW q \in Proc, proc'[q].pc = "sync_dir"
                 PROVE  /\ proc'[q].ver <= version
                        /\ names[proc'[q].kind] # Absent
                        /\ Newer(stable'[names[proc'[q].kind]], proc'[q].kind, proc'[q].ver)
      BY <1>2, <1>6 DEF Landed
    <3>1. q # p /\ proc'[q] = proc[q]
      BY <1>5
    <3>2. proc[q].kind \in Kind
      BY <1>1, <3>1, Counters, Shapes DEF Replacer
    <3>3. proc[q].kind # "header"
      BY <1>2, <2>1, <3>1 DEF Sound, Headers, HeaderCommand
    <3>4. proc[q].kind = "index"
      BY <3>2, <3>3 DEF Kind
    <3> QED BY <2>1, <2>4, <2>7, <3>1, <3>4 DEF Sound, Landed, Name
  <2>12. Births'
    <3> SUFFICES ASSUME NEW q \in Proc, proc'[q].pc = "save" PROVE FALSE
      BY DEF Births
    <3>1. q # p /\ proc[q].pc = "save"
      BY <1>5
    <3> QED BY <1>2, <2>1, <3>1 DEF Sound, Births
  <2>13. Headers'
    BY <1>5, <1>6, <2>1 DEF Sound, Headers, HeaderCommand
  <2> QED BY <2>8, <2>9, <2>10, <2>11, <2>12, <2>13 DEF Sound
<1> QED BY <1>7, <1>8 DEF IInv

LEMMA PowerLossKeeps ==
    ASSUME IInv, PowerLoss
    PROVE  IInv'
<1>1. Types /\ DiskOK
  BY TypesOfDisk DEF IInv
<1>2. /\ Fault /\ proc' = [p \in Proc |-> Idle]
      /\ version' = version /\ acked' = acked /\ crossed' = crossed
  BY DEF PowerLoss, ghosts
<1>3. /\ DiskOK' /\ names' \in dirs /\ dirs' = {names'}
      /\ \A n \in Name : names'[n] # Absent => stable'[names'[n]] \subseteq stable[names'[n]]
  BY <1>1, PowerLossOK
<1>4. /\ proc' \in [Proc -> State]
      /\ \A p \in Proc : proc'[p].pc \notin AtTmp \cup {"create", "save", "sync_dir"}
  BY <1>2, Resting DEF State
<1>5. Types'
  BY <1>1, <1>2, <1>3, <1>4, Counters, TypesAfter
<1>6. ASSUME ~crossed' PROVE Sound'
  <2>1. Sound
    BY <1>2, <1>6 DEF IInv
  <2>2. PICK d \in dirs : d = names'
    BY <1>3
  <2>3. \A n \in Name : d[n] # Absent => stable'[d[n]] \subseteq stable[d[n]]
    BY <1>3, <2>2
  <2>4. Dirs'
    <3> SUFFICES /\ d["index"] # Absent => IndexContents(stable'[d["index"]])
                 /\ d["header"] # Absent => HeaderContents(stable'[d["header"]])
                 /\ d["tmp"] # Absent => d["tmp"] # d["index"] /\ d["tmp"] # d["header"]
      BY <1>3, <2>2 DEF Dirs
    <3>1. /\ d["index"] # Absent => IndexContents(stable[d["index"]])
          /\ d["header"] # Absent => HeaderContents(stable[d["header"]])
          /\ d["tmp"] # Absent => d["tmp"] # d["index"] /\ d["tmp"] # d["header"]
      BY <2>1 DEF Sound, Dirs
    <3>2. \A S, T : S \subseteq T => /\ IndexContents(T) => IndexContents(S)
                                     /\ HeaderContents(T) => HeaderContents(S)
      BY DEF IndexContents, HeaderContents
    <3> QED BY <2>3, <3>1, <3>2 DEF Name
  <2>5. Reported'
    <3> SUFFICES ASSUME NEW k \in Kind
                 PROVE  /\ acked[k] <= version
                        /\ acked[k] > 0 => d[k] # Absent /\ Newer(stable'[d[k]], k, acked[k])
      BY <1>2, <1>3, <2>2 DEF Reported
    <3>1. /\ acked[k] <= version
          /\ acked[k] > 0 => d[k] # Absent /\ Newer(stable[d[k]], k, acked[k])
      BY <2>1 DEF Sound, Reported
    <3>2. k \in Name
      BY DEF Kind, Name
    <3> QED BY <2>3, <3>1, <3>2 DEF Newer
  <2>6. Temporary' /\ Landed' /\ Births' /\ Headers'
    BY <1>4 DEF Temporary, Landed, Births, Headers, HeaderCommand
  <2> QED BY <2>4, <2>5, <2>6 DEF Sound
<1> QED BY <1>5, <1>6 DEF IInv

-----------------------------------------------------------------------------
(* The inductive invariant *)

LEMMA InitInv ==
    ASSUME Init
    PROVE  IInv
<1>1. /\ names = [n \in Name |-> Absent] /\ dirs = {names}
      /\ files = [i \in Inode |-> Blank] /\ stable = [i \in Inode |-> {Blank}]
      /\ proc = [p \in Proc |-> Idle] /\ version = 0 /\ faults = 0
      /\ acked = [header |-> 0, index |-> 0] /\ crossed = FALSE
  BY DEF Init
<1>2. Types
  <2>1. names \in [Name -> Inode \cup {Absent}] /\ dirs \subseteq [Name -> Inode \cup {Absent}] /\ names \in dirs
    BY <1>1
  <2>2. files \in [Inode -> Content] /\ stable \in [Inode -> SUBSET Content] /\ \A i \in Inode : files[i] \in stable[i]
    BY <1>1, Constants
  <2>3. proc \in [Proc -> NoFile \cup Saver \cup Starter \cup Replacer]
    BY <1>1, Resting
  <2>4. version \in 0 .. MaxVersion /\ faults \in 0 .. MaxFaults /\ 0 \in 0 .. MaxVersion
    BY <1>1, SharedBackendAssumption
  <2>5. acked \in [header : 0 .. MaxVersion, index : 0 .. MaxVersion]
    BY <1>1, <2>4
  <2>6. crossed \in BOOLEAN
    BY <1>1
  <2> QED BY <2>1, <2>2, <2>3, <2>4, <2>5, <2>6 DEF Types, TypeOK
<1>3. \A p \in Proc : proc[p].pc \notin AtTmp \cup {"create", "save", "sync_dir"}
  BY <1>1, Resting
<1>4. Temporary /\ Landed /\ Births /\ Headers
  BY <1>3 DEF Temporary, Landed, Births, Headers, HeaderCommand
<1>5. Dirs
  BY <1>1 DEF Dirs, Name
<1>6. Reported
  BY <1>1 DEF Reported, Kind
<1> QED BY <1>2, <1>4, <1>5, <1>6 DEF IInv, Sound

LEMMA NextInv ==
    ASSUME IInv, [Next]_vars
    PROVE  IInv'
<1>1. ASSUME NEW p \in Proc, Runs(p) PROVE IInv'
  BY <1>1, MountKeeps, SaveCreateKeeps, SaveWriteKeeps, ReplacingKeeps, CreateTmpKeeps, WriteTmpKeeps,
     SyncTmpKeeps, RenameTmpKeeps, SyncDirKeeps, FailsKeeps, Zenon DEF Runs
<1>2. CASE PowerLoss
  BY <1>2, PowerLossKeeps
<1>3. CASE UNCHANGED vars
  <2>1. /\ names' = names /\ dirs' = dirs /\ files' = files /\ stable' = stable /\ proc' = proc
        /\ version' = version /\ faults' = faults /\ acked' = acked /\ crossed' = crossed
    BY <1>3 DEF vars, disk, ghosts
  <2>2. Types'
    BY <2>1 DEF IInv, Types, TypeOK
  <2>3. Sound => Dirs' /\ Reported' /\ Temporary'
    BY <2>1 DEF Sound, Dirs, Reported, Temporary
  <2>4. Sound => Landed' /\ Births' /\ Headers'
    BY <2>1 DEF Sound, Landed, Births, Headers
  <2> QED BY <2>1, <2>2, <2>3, <2>4 DEF IInv, Sound
<1> QED BY <1>1, <1>2, <1>3 DEF Next

\* The inductive invariant holds in every state of every behaviour.
THEOREM Invariance == Spec => []IInv
  BY InitInv, NextInv, PTL DEF Spec

\* Directories, files, descriptors and counters keep their types, and what is in a
\* file is among what a power loss may leave of it.
THEOREM TypeCorrect == Spec => []TypeOK
<1>1. IInv => TypeOK
  BY DEF IInv, Types
<1> QED BY <1>1, Invariance, PTL

\* As long as no process empties a file that is another's, save_index and write_header
\* put whole files in place: whatever is interrupted, and however many processes run,
\* an index found after a power loss is one, and so is a header once it was replaced.
THEOREM PutInPlaceWhole == Spec => []ReplacedWhole
<1>1. ASSUME IInv, ~crossed
      PROVE  /\ \A c \in Remains("index") : Reads(c, "index")
             /\ \A d \in dirs : d["header"] # Absent =>
                  ((\E c \in stable[d["header"]] : c.ver > 0)
                      => \A c \in stable[d["header"]] : Reads(c, "header"))
  <2>1. Dirs /\ DiskOK
    BY <1>1, TypesOfDisk DEF IInv, Sound
  <2>2. \A c \in Remains("index") : Reads(c, "index")
    BY <2>1 DEF Remains, Reads, Dirs, IndexContents
  <2>3. ASSUME NEW d \in dirs, d["header"] # Absent, NEW b \in stable[d["header"]], b.ver > 0,
               NEW c \in stable[d["header"]]
        PROVE  Reads(c, "header")
    <3>1. HeaderContents(stable[d["header"]])
      BY <2>1, <2>3 DEF Dirs
    <3> QED BY <2>3, <3>1 DEF HeaderContents, Reads
  <2> QED BY <2>2, <2>3
<1>2. IInv => ReplacedWhole
  BY <1>1 DEF ReplacedWhole
<1> QED BY <1>2, Invariance, PTL

\* As long as no process empties a file that is another's, what a save or a slot command
\* reported as written is found after any power loss, for any number of processes:
\* sync_dir of one never vouches for the unfinished work of another.
THEOREM ReportsAreKept == Spec => []ReportedRemains
<1>1. ASSUME IInv, ~crossed, NEW kind \in Kind, acked[kind] > 0
      PROVE  /\ \A d \in dirs : d[kind] # Absent
             /\ \A c \in Remains(kind) : c.kind = kind /\ c.ver >= acked[kind]
  <2>1. \A d \in dirs : d[kind] # Absent /\ Newer(stable[d[kind]], kind, acked[kind])
    BY <1>1 DEF IInv, Sound, Reported
  <2> QED BY <2>1 DEF Remains, Newer
<1>2. IInv => ReportedRemains
  BY <1>1 DEF ReportedRemains, Kind
<1> QED BY <1>2, Invariance, PTL
=============================================================================
