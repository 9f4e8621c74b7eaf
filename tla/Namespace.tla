----------------------------- MODULE Namespace -----------------------------
(***************************************************************************)
(* The directory tree of a mounted volume: the entry table of PqfsInner,   *)
(* its two lookup indexes, the inode counter and the index on disk         *)
(* (src/fs/inner.rs), under the operations that change names               *)
(* (src/fs/ops.rs: create, mkdir, symlink, unlink, rmdir, rename).         *)
(*                                                                         *)
(* The FUSE session thread runs one handler at a time and each holds the   *)
(* metadata lock from its first look-up to the end of save_index, so a     *)
(* handler is one action.  save_index may fail; the change then stays in   *)
(* memory and the caller gets EIO.  Entries keep what names are about:     *)
(* parent, name and kind; sizes and keys are in module Pqfs.               *)
(***************************************************************************)
EXTENDS Integers, FiniteSets

CONSTANTS OsName,     \* names as the kernel sends them
          Name,       \* names as they are stored
          Lossy,      \* to_string_lossy: the stored form of each OsName
          NoIndex,    \* the state of the disk before pqfs.index is first written
          MaxIno,     \* bound: largest inode number
          MaxFaults   \* bound: failed saves and crashes in a behaviour

ASSUME NamespaceAssumption ==
    /\ Lossy \in [OsName -> Name]
    /\ MaxIno \in Nat \ {0}
    /\ MaxFaults \in Nat

Root == 1    \* FUSE_ROOT_ID

File == "File"
Dir == "Dir"
Symlink == "Symlink"
Kind == {File, Dir, Symlink}

Ino == 1 .. MaxIno

RootName == ""

Entry == [parent : Ino, name : Name \cup {RootName}, kind : Kind]

VARIABLES entries,    \* inode number -> entry
          children,   \* (parent, name) -> inode number
          by_parent,  \* parent -> non-empty set of inode numbers
          next_ino,
          disk,       \* the entry table in pqfs.index, or NoIndex
          reply,      \* the reply to the last request
          faults,     \* failed saves and crashes so far
          stale,      \* directories the kernel still knows, as their removal
                      \* was answered with EIO in this session
          lost        \* ghost: all directories whose removal was so answered

vars == <<entries, children, by_parent, next_ino, disk, reply, faults, stale, lost>>

-----------------------------------------------------------------------------
(* The two lookup indexes *)

Linked(e) == DOMAIN e \ {Root}

\* rebuild_indexes, and what link and unlink_index keep up to date.
ChildrenOf(e) ==
    [k \in {<<e[i].parent, e[i].name>> : i \in Linked(e)} |->
        CHOOSE i \in Linked(e) : k = <<e[i].parent, e[i].name>>]

ByParentOf(e) ==
    [p \in {e[i].parent : i \in Linked(e)} |-> {i \in Linked(e) : e[i].parent = p}]

link_children(c, ino, parent, name) ==
    [k \in DOMAIN c \cup {<<parent, name>>} |->
        IF k = <<parent, name>> THEN ino ELSE c[k]]

link_by_parent(b, ino, parent) ==
    [p \in DOMAIN b \cup {parent} |->
        IF p # parent THEN b[p]
        ELSE IF parent \in DOMAIN b THEN b[p] \cup {ino} ELSE {ino}]

\* Mutant: the name stays in the children index.
unlink_nothing(c, ino, parent, name) == c

unlink_children(c, ino, parent, name) ==
    [k \in {k \in DOMAIN c : ~(k = <<parent, name>> /\ c[k] = ino)} |-> c[k]]

unlink_by_parent(b, ino, parent) ==
    [p \in {p \in DOMAIN b : ~(p = parent /\ b[p] \subseteq {ino})} |->
        IF p = parent THEN b[p] \ {ino} ELSE b[p]]

\* Mutant: the test is the wrong way round.
has_no_children(parent) == parent \in DOMAIN by_parent /\ by_parent[parent] = {}

has_children(parent) == parent \in DOMAIN by_parent /\ by_parent[parent] # {}

\* find_child looks in the children index and then checks the decrypted name.
Found(parent, osname) ==
    LET k == <<parent, Lossy[osname]>> IN
    /\ k \in DOMAIN children
    /\ children[k] \in DOMAIN entries
    /\ entries[children[k]].name = Lossy[osname]

find_child(parent, osname) == children[<<parent, Lossy[osname]>>]

\* is_descendant_of: the loop climbs until it meets the root or a missing
\* entry, for at most one hop more than there are entries.
Up(ino) ==
    LET up[h \in Nat] ==
            IF h = 0 THEN ino
            ELSE IF up[h-1] = Root \/ up[h-1] \notin DOMAIN entries
                 THEN up[h-1]
                 ELSE entries[up[h-1]].parent
    IN  up

\* Mutant: only the new parent itself is compared.
is_same_directory(ino, ancestor) == ino = ancestor

is_descendant_of(ino, ancestor) ==
    \E h \in 0 .. Cardinality(DOMAIN entries) + 1 : Up(ino)[h] = ancestor

-----------------------------------------------------------------------------

Without(e, ino) == [i \in DOMAIN e \ {ino} |-> e[i]]

With(e, ino, entry) == [i \in DOMAIN e \cup {ino} |-> IF i = ino THEN entry ELSE e[i]]

RootOnly == [i \in {Root} |-> [parent |-> Root, name |-> RootName, kind |-> Dir]]

Fault == faults < MaxFaults /\ faults' = faults + 1

\* save_index of the table e: it writes a temporary file, renames it over
\* pqfs.index and syncs the directory; any part may fail.  `gone' are the
\* directories the handler took out of the table.
save_index(e, gone) ==
    \/ /\ disk' = e
       /\ reply' = "ok"
       /\ UNCHANGED <<faults, stale, lost>>
    \/ /\ Fault
       /\ disk' \in {disk, e}
       /\ reply' = "EIO"
       /\ stale' = stale \cup gone
       /\ lost' = lost \cup gone

\* An error reply other than EIO; which one it is makes no difference below.
Refuse(errno) ==
    /\ reply' = "refused"
    /\ UNCHANGED <<entries, children, by_parent, next_ino, disk, faults, stale, lost>>

Init ==
    /\ entries = RootOnly
    /\ children = [k \in {} |-> 0]
    /\ by_parent = [p \in {} |-> {}]
    /\ next_ino = Root + 1
    /\ disk = NoIndex
    /\ reply = "none"
    /\ faults = 0
    /\ stale = {}
    /\ lost = {}

\* Mutant: the counter stands still.
allocate_same == next_ino' = next_ino

allocate_ino == next_ino' = next_ino + 1

\* The kernel sends a name-creating request only below a directory it has a
\* dentry for: one that is there, or one whose removal it was told had failed.
KnownDirs == {i \in DOMAIN entries : entries[i].kind = Dir} \cup stale

\* create, mkdir and symlink: allocate_ino, insert_entry, save_index.
Make(parent, osname, kind) ==
    /\ parent \in KnownDirs
    /\ \/ Found(parent, osname) /\ Refuse("EEXIST")
       \/ /\ ~Found(parent, osname)
          /\ next_ino \in Ino
          /\ allocate_ino
          /\ entries' = With(entries, next_ino,
                             [parent |-> parent, name |-> Lossy[osname], kind |-> kind])
          /\ children' = link_children(children, next_ino, parent, Lossy[osname])
          /\ by_parent' = link_by_parent(by_parent, next_ino, parent)
          /\ save_index(entries', {})

create(parent, osname) == Make(parent, osname, File)

mkdir(parent, osname) == Make(parent, osname, Dir)

symlink(parent, osname) == Make(parent, osname, Symlink)

\* Mutant: the number handed out last is taken back with its entry.
RemoveAndFree(ino) ==
    /\ entries' = Without(entries, ino)
    /\ children' = unlink_children(children, ino, entries[ino].parent, entries[ino].name)
    /\ by_parent' = unlink_by_parent(by_parent, ino, entries[ino].parent)
    /\ save_index(entries', {ino} \cap {i \in DOMAIN entries : entries[i].kind = Dir})
    /\ next_ino' = IF ino = next_ino - 1 THEN ino ELSE next_ino

\* remove_entry and save_index.  (unlink also removes the data file.)
Remove(ino) ==
    /\ entries' = Without(entries, ino)
    /\ children' = unlink_children(children, ino, entries[ino].parent, entries[ino].name)
    /\ by_parent' = unlink_by_parent(by_parent, ino, entries[ino].parent)
    /\ save_index(entries', {ino} \cap {i \in DOMAIN entries : entries[i].kind = Dir})
    /\ UNCHANGED next_ino

unlink(parent, osname) ==
    LET ino == find_child(parent, osname) IN
    \/ ~Found(parent, osname) /\ Refuse("ENOENT")
    \/ /\ Found(parent, osname)
       /\ \/ entries[ino].kind = Dir /\ Refuse("EISDIR")
          \/ entries[ino].kind # Dir /\ Remove(ino)

rmdir(parent, osname) ==
    LET ino == find_child(parent, osname) IN
    \/ ~Found(parent, osname) /\ Refuse("ENOENT")
    \/ /\ Found(parent, osname)
       /\ \/ entries[ino].kind # Dir /\ Refuse("ENOTDIR")
          \/ entries[ino].kind = Dir /\ has_children(ino) /\ Refuse("ENOTEMPTY")
          \/ entries[ino].kind = Dir /\ ~has_children(ino) /\ Remove(ino)

\* Mutant: the moved entry becomes a regular file.
RelinkAsFile(source, newparent, newname, e, c, b, gone) ==
    LET old == entries[source] IN
    /\ entries' = With(e, source, [parent |-> newparent, name |-> newname, kind |-> File])
    /\ children' = link_children(unlink_children(c, source, old.parent, old.name),
                                 source, newparent, newname)
    /\ by_parent' = link_by_parent(unlink_by_parent(b, source, old.parent),
                                   source, newparent)
    /\ save_index(entries', gone)
    /\ UNCHANGED next_ino

\* relink of source to (newparent, newname), on the tables e, c and b that are
\* left once a replaced entry is gone.
Relink(source, newparent, newname, e, c, b, gone) ==
    LET old == entries[source] IN
    /\ entries' = With(e, source, [old EXCEPT !.parent = newparent, !.name = newname])
    /\ children' = link_children(unlink_children(c, source, old.parent, old.name),
                                 source, newparent, newname)
    /\ by_parent' = link_by_parent(unlink_by_parent(b, source, old.parent),
                                   source, newparent)
    /\ save_index(entries', gone)
    /\ UNCHANGED next_ino

\* rename over an existing entry other than the source itself.
Replace(source, existing, newparent, newname) ==
    LET sdir == entries[source].kind = Dir
        edir == entries[existing].kind = Dir
    IN  \/ sdir /\ edir /\ has_children(existing) /\ Refuse("ENOTEMPTY")
        \/ sdir /\ ~edir /\ Refuse("ENOTDIR")
        \/ ~sdir /\ edir /\ Refuse("EISDIR")
        \/ /\ sdir = edir
           /\ ~(sdir /\ has_children(existing))
           /\ Relink(source, newparent, newname,
                     Without(entries, existing),
                     unlink_children(children, existing,
                                     entries[existing].parent, entries[existing].name),
                     unlink_by_parent(by_parent, existing, entries[existing].parent),
                     {existing} \cap {i \in DOMAIN entries : entries[i].kind = Dir})

rename(parent, osname, newparent, newosname) ==
    LET source   == find_child(parent, osname)
        existing == find_child(newparent, newosname)
        isDir(i) == entries[i].kind = Dir
    IN
    \/ ~Found(parent, osname) /\ Refuse("ENOENT")
    \/ /\ Found(parent, osname)
       /\ \/ newparent \notin DOMAIN entries /\ Refuse("ENOENT")
          \/ newparent \in DOMAIN entries /\ ~isDir(newparent) /\ Refuse("ENOTDIR")
          \/ /\ newparent \in DOMAIN entries
             /\ isDir(newparent)
             /\ IF isDir(source) /\ is_descendant_of(newparent, source)
                THEN Refuse("EINVAL")
                ELSE IF Found(newparent, newosname) /\ existing # source
                THEN Replace(source, existing, newparent, Lossy[newosname])
                ELSE Relink(source, newparent, Lossy[newosname],
                            entries, children, by_parent, {})

\* The process ends, with or without a clean unmount, and the volume is
\* mounted again: PqfsInner::load.
Load ==
    /\ Fault
    /\ entries' = IF disk = NoIndex THEN RootOnly ELSE disk
    /\ \E last \in DOMAIN entries' :
        /\ \A i \in DOMAIN entries' : i <= last
        /\ next_ino' = last + 1
    /\ children' = ChildrenOf(entries')
    /\ by_parent' = ByParentOf(entries')
    /\ reply' = "none"
    /\ stale' = {}
    /\ UNCHANGED <<disk, lost>>

Request ==
    \E p \in Ino, n \in OsName :
        \/ create(p, n)
        \/ mkdir(p, n)
        \/ symlink(p, n)
        \/ unlink(p, n)
        \/ rmdir(p, n)
        \/ \E q \in Ino, m \in OsName : rename(p, n, q, m)

Next == Request \/ Load

Spec == Init /\ [][Next]_vars

-----------------------------------------------------------------------------
(* Properties *)

TypeOK ==
    /\ DOMAIN entries \subseteq Ino
    /\ Root \in DOMAIN entries
    /\ entries \in [DOMAIN entries -> Entry]
    /\ next_ino \in 2 .. MaxIno + 1
    /\ \A i \in DOMAIN entries : i < next_ino
    /\ lost \subseteq Ino
    /\ stale \subseteq lost
    /\ faults \in 0 .. MaxFaults

\* The tables e, c and b agree: every linked entry is found under its parent
\* and name and under nothing else, and every parent lists its children.
Agree(e, c, b) ==
    /\ DOMAIN c = {<<e[i].parent, e[i].name>> : i \in Linked(e)}
    /\ \A i \in Linked(e) : c[<<e[i].parent, e[i].name>>] = i
    /\ DOMAIN b = {e[i].parent : i \in Linked(e)}
    /\ \A p \in DOMAIN b : b[p] = {i \in Linked(e) : e[i].parent = p}

\* The incrementally maintained lookup indexes are always the ones that
\* rebuild_indexes would compute: no entry is unreachable by name, shadowed by
\* another of the same name, or left behind in a directory it was moved from.
IndexConsistent == Agree(entries, children, by_parent)

\* Every entry hangs below a directory that is in the table, save below one
\* whose removal failed half way.  Unlink, rmdir and rename never strand a child.
ParentsLive ==
    \A i \in DOMAIN entries :
        \/ entries[i].parent \in lost
        \/ /\ entries[i].parent \in DOMAIN entries
           /\ entries[entries[i].parent].kind = Dir

\* No set of entries is closed under parent: the tree has no detached cycle,
\* which is what is_descendant_of is there to prevent.
Acyclic(e) ==
    \A S \in (SUBSET Linked(e)) \ {{}} : \E i \in S : e[i].parent \notin S

TreeHasNoCycle ==
    /\ Acyclic(entries)
    /\ disk # NoIndex => Acyclic(disk)

\* A directory that the kernel still knows, as its removal was answered with EIO,
\* never turns into another object: its inode number stays free for the rest of
\* the session, however many removals and creations follow.
StaleNumberStaysFree == stale \cap DOMAIN entries = {}

\* A request changes at most one name: of the entries it leaves in the table at
\* most one changes its parent or name, none its kind, and at most one goes,
\* which is then no directory with anything below it.
OneNameAtATime ==
    [][reply' # "none" /\ entries' # entries =>
        LET stay == DOMAIN entries \cap DOMAIN entries'
            gone == DOMAIN entries \ DOMAIN entries'
        IN  /\ Cardinality(gone) <= 1
            /\ Cardinality({i \in stay : entries[i] # entries'[i]}) <= 1
            /\ \A i \in stay : entries[i].kind = entries'[i].kind
            /\ \A i \in gone, j \in DOMAIN entries' : entries'[j].parent = i => i \in lost]_vars
=============================================================================
