----------------------------- MODULE DirStream -----------------------------
(***************************************************************************)
(* The listing of one directory by several readdir requests                *)
(* (src/fs/ops.rs, readdir) while the other requests of module Namespace   *)
(* change the directory between them.                                      *)
(*                                                                         *)
(* Each request builds the list anew: ".", "..", and the children in the   *)
(* order of their inode numbers (child_inodes in src/fs/inner.rs).  The    *)
(* kernel continues at the position behind the last entry it took, and     *)
(* takes as many entries as fit its buffer.  A new entry has the largest   *)
(* number; one moved in from another directory keeps its own.  The numbers *)
(* reported for "." and ".." do not matter here: they stand as 0 and 1,    *)
(* which no child has.                                                     *)
(***************************************************************************)
EXTENDS Namespace, Sequences, Functions

CONSTANT MaxMoves   \* bound: entries that leave or are moved in during a listing

ASSUME DirStreamAssumption == MaxMoves \in Nat

VARIABLES stream,     \* "open" during a listing, "end" once it is complete
          dir,        \* the directory listed
          offset,     \* where the kernel continues
          seen,       \* ghost: the entries listed so far, in order
          stayed,     \* ghost: the children there from the beginning on
          left, came  \* ghost: how many went away or were moved in meanwhile

ghosts == <<seen, stayed, left, came>>
listing == <<stream, dir, offset, ghosts>>
svars == <<vars, listing>>

-----------------------------------------------------------------------------

\* What child_inodes lists: the numbers of by_parent that are in the table.
Kids(parent) ==
    IF parent \in DOMAIN by_parent THEN by_parent[parent] \cap DOMAIN entries ELSE {}

\* by_parent keeps its sets in order: x is behind as many as are smaller.
Rank(set, x) == Cardinality({y \in set : y < x})

Sorted(set) ==
    [i \in 1 .. Cardinality(set) |-> CHOOSE x \in set : Rank(set, x) = i - 1]

\* Mutant: the newest entry comes first.
child_inodes_reversed(parent) ==
    [i \in 1 .. Cardinality(Kids(parent)) |->
        Sorted(Kids(parent))[Cardinality(Kids(parent)) + 1 - i]]

child_inodes(parent) == Sorted(Kids(parent))

Listing(parent) == <<0, 1>> \o child_inodes(parent)

\* Mutant: the entry at the offset is taken to be listed.
skip_more(list, from) == SubSeq(list, (IF from = 0 THEN 0 ELSE from + 1) + 1, Len(list))

skip(list, from) == SubSeq(list, from + 1, Len(list))

\* The kernel starts a listing of a directory it knows.
opendir(parent) ==
    /\ stream # "open"
    /\ parent \in KnownDirs
    /\ stream' = "open"
    /\ dir' = parent
    /\ offset' = 0
    /\ seen' = <<>>
    /\ stayed' = Kids(parent)
    /\ left' = 0
    /\ came' = 0
    /\ UNCHANGED vars

IsDirectory(ino) == ino \in DOMAIN entries /\ entries[ino].kind = Dir

\* reply.add takes entries until the buffer is full; n of them fit.  The reply
\* without an entry ends the listing.
readdir(n) ==
    LET rest == skip(Listing(dir), offset) IN
    /\ stream = "open"
    /\ IsDirectory(dir)
    /\ n \in 0 .. Len(rest)
    /\ rest # <<>> => n > 0
    /\ stream' = IF rest = <<>> THEN "end" ELSE "open"
    /\ seen' = seen \o SubSeq(rest, 1, n)
    /\ offset' = offset + n
    /\ UNCHANGED <<vars, dir, stayed, left, came>>

\* ENOENT or ENOTDIR.
readdir_refused ==
    /\ stream = "open"
    /\ ~IsDirectory(dir)
    /\ stream' = "closed"
    /\ UNCHANGED <<vars, dir, offset, ghosts>>

\* Another request, and what it means for the directory being listed.  An
\* entry that was not there before the listing, nor anywhere else, is new.
Meanwhile ==
    /\ Request
    /\ UNCHANGED <<stream, dir, offset, seen>>
    /\ IF stream = "open"
       THEN /\ stayed' = stayed \cap Kids(dir)'
            /\ left' = left + Cardinality(Kids(dir) \ Kids(dir)')
            /\ came' = came + Cardinality({i \in Kids(dir)' \ Kids(dir) : i < next_ino})
            /\ left' + came' <= MaxMoves
       ELSE UNCHANGED <<stayed, left, came>>

\* A listing does not outlive the session.
Remount ==
    /\ Load
    /\ stream' = "closed"
    /\ UNCHANGED <<dir, offset, ghosts>>

StreamInit ==
    /\ Init
    /\ stream = "closed"
    /\ dir = Root
    /\ offset = 0
    /\ seen = <<>>
    /\ stayed = {}
    /\ left = 0
    /\ came = 0

StreamNext ==
    \/ \E parent \in Ino : opendir(parent)
    \/ \E n \in 0 .. MaxIno + 1 : readdir(n)
    \/ readdir_refused
    \/ Meanwhile
    \/ Remount

StreamSpec == StreamInit /\ [][StreamNext]_svars

-----------------------------------------------------------------------------
(* Properties *)

StreamTypeOK ==
    /\ stream \in {"closed", "open", "end"}
    /\ dir \in Ino
    /\ offset \in Nat
    /\ seen \in Seq(0 .. MaxIno)
    /\ stayed \subseteq Ino
    /\ left \in 0 .. MaxMoves
    /\ came \in 0 .. MaxMoves
    /\ stream = "open" =>
        /\ stayed \subseteq Kids(dir)
        /\ \A i \in Range(seen) : i < next_ino

\* A listing misses at most as many of the children that were there all the time
\* as left the directory meanwhile: with creations alone it misses none.
MissesAtMostLeft == stream = "end" => Cardinality(stayed \ Range(seen)) <= left

\* It repeats at most as many entries as were moved in meanwhile: as numbers only
\* grow, creations and removals alone never make it list an entry twice.
RepeatsAtMostCame == Len(seen) - Cardinality(Range(seen)) <= came
=============================================================================
