----------------------------- MODULE FileStore -----------------------------
(***************************************************************************)
(* What a mounted volume promises about the bytes of its files: every      *)
(* write and truncate happens at one moment, as if there were no blocks,   *)
(* keys, locks or threads, and a restart of the process, clean or not,     *)
(* spoils no file that was synced and gives none bytes that it never had.  *)
(* Module Pqfs implements this.                                            *)
(***************************************************************************)
EXTENDS Naturals, Sequences

CONSTANTS Ino,      \* numbers of files
          Writes,   \* (offset, bytes) of the writes that can be asked for
          Sizes     \* sizes of the truncates that can be asked for

VARIABLES up,       \* the volume is mounted
          files,    \* number -> bytes
          doubt,    \* the files whose bytes a restart has left in doubt
          synced    \* number -> the bytes promised to survive a restart

vars == <<up, files, doubt, synced>>

Keep(f, S) == [i \in DOMAIN f \cap S |-> f[i]]

Set(f, i, bytes) == [j \in DOMAIN f \cup {i} |-> IF j = i THEN bytes ELSE f[j]]

\* The bytes after a write, with zeros in a hole.
pwrite(bytes, offset, new) ==
    LET end == offset + Len(new) IN
    [p \in 1 .. IF Len(bytes) <= end THEN end ELSE Len(bytes) |->
        IF offset < p /\ p <= end THEN new[p - offset]
        ELSE IF p <= Len(bytes) THEN bytes[p] ELSE 0]

ftruncate(bytes, size) == [p \in 1 .. size |-> IF p <= Len(bytes) THEN bytes[p] ELSE 0]

-----------------------------------------------------------------------------

Create(i) ==
    /\ up = TRUE
    /\ i \notin DOMAIN files \cup doubt
    /\ files' = Set(files, i, <<>>)
    /\ UNCHANGED <<up, doubt, synced>>

Unlink(i) ==
    /\ up = TRUE
    /\ files' = Keep(files, Ino \ {i})
    /\ doubt' = doubt \ {i}
    /\ synced' = Keep(synced, Ino \ {i})
    /\ UNCHANGED up

\* A change of the file is under way: its bytes are promised no more.
Begin(i) ==
    /\ up = TRUE
    /\ synced' = Keep(synced, Ino \ {i})
    /\ UNCHANGED <<up, files, doubt>>

Change(i, bytes) ==
    /\ up = TRUE
    /\ i \in DOMAIN files \ DOMAIN synced
    /\ files' = Set(files, i, bytes)
    /\ UNCHANGED <<up, doubt, synced>>

Write(i) == \E w \in Writes : Change(i, pwrite(files[i], w[1], w[2]))

Truncate(i) == \E size \in Sizes : Change(i, ftruncate(files[i], size))

Sync(i) ==
    /\ up = TRUE
    /\ i \in DOMAIN files
    /\ synced' = Set(synced, i, files[i])
    /\ UNCHANGED <<up, files, doubt>>

\* The process ends.  Files that were being changed are then in doubt.
Stop ==
    /\ up = TRUE
    /\ up' = FALSE
    /\ \E kept \in SUBSET DOMAIN files :
        /\ DOMAIN synced \subseteq kept
        /\ files' = Keep(files, kept)
        /\ doubt' = doubt \cup (DOMAIN files \ kept)
    /\ UNCHANGED synced

\* The volume is mounted again.  Changes that were not synced may be undone.
Start ==
    /\ up = FALSE
    /\ up' = TRUE
    /\ \E kept \in SUBSET DOMAIN files :
        /\ DOMAIN synced \subseteq kept
        /\ files' = Keep(files, kept)
        /\ doubt' \in SUBSET (Ino \ kept)
    /\ UNCHANGED synced

Init ==
    /\ up = TRUE
    /\ DOMAIN files \subseteq Ino
    /\ \A i \in DOMAIN files : files[i] = <<>>
    /\ doubt = {}
    /\ DOMAIN synced = {}

Next ==
    \/ \E i \in Ino : Begin(i) \/ Sync(i) \/ Create(i) \/ Unlink(i) \/ Write(i) \/ Truncate(i)
    \/ Stop
    \/ Start

Spec == Init /\ [][Next]_vars
=============================================================================
