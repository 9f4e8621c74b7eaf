----------------------------- MODULE RekeyCommit -----------------------------
(***************************************************************************)
(* The files of a volume that a rekey swaps together, the commit protocol  *)
(* of commit_rekey and recover (src/crypto/volume.rs), and the other       *)
(* writers of the two files: save_index of a mounted volume and            *)
(* write_header of share, revoke and passwd (src/commands.rs).             *)
(*                                                                         *)
(* One pqfs process runs at a time (modules KeySlots and SharedBackend     *)
(* have several). It can be killed between any two system calls, which     *)
(* also stands for an I/O error that makes a command give up, and the      *)
(* machine can lose power.  Directory changes reach the disk in order, a   *)
(* sync_dir makes all of them durable, and a file that was not synced may  *)
(* survive torn.                                                           *)
(***************************************************************************)
EXTENDS Naturals

CONSTANTS None,        \* the content of a path at which there is no file
          Torn,        \* the content of a file created but not yet synced
          MaxKey,      \* bound: master keys drawn
          MaxEdits,    \* bound: index saves plus header edits
          MaxCrashes   \* bound: kills and power losses

File == {"header", "index", "header_new", "index_new", "marker"}

\* A header wraps one master key; `slots' numbers its lists of slots.
Header == [key : Nat, slots : Nat]

\* An index is encrypted under one master key; `saves' numbers its contents,
\* root says whether the table has an entry for the root directory.
Index == [key : Nat, saves : Nat, root : BOOLEAN]

Mark == [content |-> 1]    \* what the marker file holds

ASSUME RekeyAssumption ==
    /\ None # Torn
    /\ {None, Torn} \cap (Header \cup Index \cup {Mark}) = {}
    /\ MaxKey \in Nat \ {0}
    /\ MaxEdits \in Nat
    /\ MaxCrashes \in Nat

VARIABLES dir,       \* the backend directory: File -> content
          past,      \* the directories that a power loss may leave
          pc,        \* where the running process is; "idle" when none runs
          job,       \* the command it runs
          mem,       \* its copy of the header and of the index
          next_key,  \* master keys are random and never repeat
          edits, crashes,
          acked      \* ghost: the newest volume a finished command reported

vars == <<dir, past, pc, job, mem, next_key, edits, crashes, acked>>

Job == {"mount", "rekey", "edit", "slots", "commit"}

mem0 == [header |-> [key |-> 1, slots |-> 1],
         index  |-> [key |-> 1, saves |-> 0, root |-> TRUE]]

-----------------------------------------------------------------------------
(* The pair of files that counts.  From the creation of the marker on that  *)
(* is the staged pair, and a staged file that is gone is already in place.  *)

Authoritative(d, f, staged) ==
    IF d["marker"] # None /\ d[staged] # None THEN d[staged] ELSE d[f]

TheHeader(d) == Authoritative(d, "header", "header_new")

TheIndex(d) == Authoritative(d, "index", "index_new")

\* Both parse and one master key opens both.  A volume that was never written
\* to has no index.
Sound(d) ==
    /\ TheHeader(d) \in Header
    /\ TheIndex(d) # None =>
        /\ TheIndex(d) \in Index
        /\ TheIndex(d).key = TheHeader(d).key

\* A volume as its users see it.
Volume(d) ==
    [key   |-> TheHeader(d).key,
     slots |-> TheHeader(d).slots,
     index |-> IF TheIndex(d) = None THEN 0 ELSE TheIndex(d).saves]

-----------------------------------------------------------------------------
(* System calls *)

\* A change of the directory that no sync has made durable yet.
Change(d) ==
    /\ dir' = d
    /\ past' = past \cup {d}

CreateFile(f) == Change([dir EXCEPT ![f] = Torn])

\* write_all and sync_all on a file created before: whichever directory
\* survives, a file of that name has the content.
WriteAndSync(f, content) ==
    /\ dir' = [dir EXCEPT ![f] = content]
    /\ past' = {[d EXCEPT ![f] = IF @ = None THEN None ELSE content] : d \in past}

Rename(from, to) == Change([dir EXCEPT ![to] = dir[from], ![from] = None])

RemoveFile(f) == Change([dir EXCEPT ![f] = None])

sync_dir ==
    /\ past' = {dir}
    /\ UNCHANGED dir

Goto(from, to) ==
    /\ pc = from
    /\ pc' = to

-----------------------------------------------------------------------------

Init ==
    /\ dir = [f \in File |-> IF f = "header" THEN mem0.header ELSE None]
    /\ past = {dir}
    /\ pc = "idle"
    /\ job = "mount"
    /\ mem = mem0
    /\ next_key = 2
    /\ edits = 0
    /\ crashes = 0
    /\ acked = Volume(dir)

\* Every command starts with read_header, which calls recover.
Start(j) ==
    /\ Goto("idle", "recover")
    /\ j = "rekey" => next_key <= MaxKey
    /\ j = "edit" => edits < MaxEdits
    /\ job' = j
    /\ UNCHANGED <<dir, past, mem, next_key, edits, crashes, acked>>

\* What follows recover: nothing for `slots', and for commit_rekey the report
\* that the old master key is retired.
AfterRecover ==
    /\ pc' = CASE job = "mount" -> "load"
               [] job = "rekey" -> "rekey_index"
               [] job = "edit"  -> "write_header"
               [] OTHER         -> "idle"
    /\ acked' = IF job = "commit" THEN Volume(dir) ELSE acked

Bail == pc' = "idle" /\ UNCHANGED acked

\* recover: the check of the marker and of the staged files.
RecoverCheck ==
    /\ pc = "recover"
    /\ \/ dir["marker"] = None /\ AfterRecover
       \/ /\ dir["marker"] # None
          /\ dir["header_new"] = None \/ dir["index_new"] = None
          /\ Bail                      \* the staged files are missing
       \/ /\ dir["marker"] # None
          /\ dir["header_new"] # None /\ dir["index_new"] # None
          /\ pc' = "swap_index"
          /\ UNCHANGED acked
    /\ UNCHANGED <<dir, past, job, mem, next_key, edits, crashes>>

\* Mutant: the marker goes before the renames.
RecoverStepUnmarksFirst ==
    /\ \/ Goto("swap_index", "swap_header") /\ RemoveFile("marker")
       \/ Goto("swap_header", "swap_sync")  /\ Rename("index_new", "index")
       \/ Goto("swap_sync", "unmark")       /\ Rename("header_new", "header")
       \/ Goto("unmark", "unmark_sync")     /\ sync_dir
    /\ UNCHANGED <<job, mem, next_key, edits, crashes, acked>>

\* recover: the two renames, the removal of the marker and the syncs.
RecoverStep ==
    /\ \/ Goto("swap_index", "swap_header") /\ Rename("index_new", "index")
       \/ Goto("swap_header", "swap_sync")  /\ Rename("header_new", "header")
       \/ Goto("swap_sync", "unmark")       /\ sync_dir
       \/ Goto("unmark", "unmark_sync")     /\ RemoveFile("marker")
    /\ UNCHANGED <<job, mem, next_key, edits, crashes, acked>>

RecoverEnd ==
    /\ pc = "unmark_sync"
    /\ sync_dir
    /\ AfterRecover
    /\ UNCHANGED <<job, mem, next_key, edits, crashes>>

\* Mutant: the index is read without a look whether there is one.
load_blindly ==
    /\ Goto("load", "mounted")
    /\ mem' = [header |-> dir["header"], index |-> dir["index"]]
    /\ UNCHANGED <<dir, past, job, next_key, edits, crashes, acked>>

\* PqfsInner::load: without an index file the table is just the root; an index
\* that the header's key does not open is an error.
load ==
    /\ pc = "load"
    /\ LET h == dir["header"]
           i == dir["index"]
           table == IF i = None
                    THEN [key |-> h.key, saves |-> 0, root |-> TRUE]
                    ELSE i
       IN  IF table.key = h.key
           THEN pc' = "mounted" /\ mem' = [header |-> h, index |-> table]
           ELSE pc' = "idle" /\ UNCHANGED mem
    /\ UNCHANGED <<dir, past, job, next_key, edits, crashes, acked>>

\* save_index of a mounted volume.  The temporary file is written and synced
\* before the rename puts it in place.
save_index ==
    /\ Goto("mounted", "save_sync")
    /\ edits < MaxEdits
    /\ edits' = edits + 1
    /\ mem' = [mem EXCEPT !.index.saves = @ + 1]
    /\ Change([dir EXCEPT !["index"] = mem'.index])
    /\ UNCHANGED <<job, next_key, crashes, acked>>

\* Mutant: the directory is not synced after the rename.
SaveIndexUnsynced ==
    /\ Goto("save_sync", "mounted")
    /\ acked' = Volume(dir)
    /\ UNCHANGED <<dir, past, job, mem, next_key, edits, crashes>>

SaveIndexSync ==
    /\ Goto("save_sync", "mounted")
    /\ sync_dir
    /\ acked' = Volume(dir)
    /\ UNCHANGED <<job, mem, next_key, edits, crashes>>

Unmount ==
    /\ Goto("mounted", "idle")
    /\ UNCHANGED <<dir, past, job, mem, next_key, edits, crashes, acked>>

\* share, revoke and passwd: write_header of an edited list of slots, by way of
\* a temporary file as well.
write_header ==
    /\ Goto("write_header", "header_sync")
    /\ edits' = edits + 1
    /\ Change([dir EXCEPT !["header"].slots = @ + 1])
    /\ UNCHANGED <<job, mem, next_key, crashes, acked>>

WriteHeaderSync ==
    /\ Goto("header_sync", "idle")
    /\ sync_dir
    /\ acked' = Volume(dir)
    /\ UNCHANGED <<job, mem, next_key, edits, crashes>>

\* Mutant: the table is changed as well.
ReencryptedAndEdited(table) == [table EXCEPT !.key = next_key, !.saves = @ + 1]

\* Mutant: the entries of files are carried over, that of the root is not.
ReencryptedFiles(table) == [table EXCEPT !.key = next_key, !.root = FALSE]

\* Every content key, name and link target, and the whole, under the new key.
Reencrypted(table) == [table EXCEPT !.key = next_key]

\* rekey: a new master key, every slot rewrapped, and the index re-encrypted.
\* Without an index file an empty table, without a root, is encrypted.
rekey_index ==
    /\ pc = "rekey_index"
    /\ LET h == dir["header"]
           i == dir["index"]
           table == IF i = None
                    THEN [key |-> h.key, saves |-> 0, root |-> FALSE]
                    ELSE i
       IN  IF table.key = h.key
           THEN /\ pc' = "stage_index"
                /\ mem' = [header |-> [h EXCEPT !.key = next_key],
                           index  |-> Reencrypted(table)]
                /\ next_key' = next_key + 1
                /\ job' = "commit"
           ELSE pc' = "idle" /\ UNCHANGED <<mem, next_key, job>>
    /\ UNCHANGED <<dir, past, edits, crashes, acked>>

\* commit_rekey up to the point where it calls recover.
CommitStep ==
    /\ \/ Goto("stage_index", "stage_index_sync") /\ CreateFile("index_new")
       \/ Goto("stage_index_sync", "stage_header") /\ WriteAndSync("index_new", mem.index)
       \/ Goto("stage_header", "stage_header_sync") /\ CreateFile("header_new")
       \/ Goto("stage_header_sync", "stage_sync") /\ WriteAndSync("header_new", mem.header)
       \/ Goto("stage_sync", "mark")       /\ sync_dir
       \/ Goto("mark", "mark_sync")        /\ CreateFile("marker")
       \/ Goto("mark_sync", "mark_dir")    /\ WriteAndSync("marker", Mark)
       \/ Goto("mark_dir", "recover")      /\ sync_dir
    /\ UNCHANGED <<job, mem, next_key, edits, crashes, acked>>

\* The process is killed, or gives up.
Crash ==
    /\ pc # "idle"
    /\ crashes < MaxCrashes
    /\ crashes' = crashes + 1
    /\ pc' = "idle"
    /\ UNCHANGED <<dir, past, job, mem, next_key, edits, acked>>

PowerLoss ==
    /\ crashes < MaxCrashes
    /\ crashes' = crashes + 1
    /\ pc' = "idle"
    /\ dir' \in past
    /\ past' = {dir'}
    /\ UNCHANGED <<job, mem, next_key, edits, acked>>

Process ==
    \/ RecoverCheck \/ RecoverStep \/ RecoverEnd
    \/ load \/ SaveIndexSync
    \/ write_header \/ WriteHeaderSync
    \/ rekey_index \/ CommitStep

Next ==
    \/ \E j \in Job \ {"commit"} : Start(j)
    \/ Process
    \/ save_index
    \/ Unmount
    \/ Crash
    \/ PowerLoss

Spec == Init /\ [][Next]_vars

-----------------------------------------------------------------------------
(* Properties *)

Content == Header \cup Index \cup {None, Torn, Mark}

TypeOK ==
    /\ dir \in [File -> Content]
    /\ past \subseteq [File -> Content]
    /\ dir \in past
    /\ job \in Job
    /\ mem \in [header : Header, index : Index]
    /\ next_key \in Nat
    /\ edits \in Nat
    /\ crashes \in Nat
    /\ acked \in [key : Nat, slots : Nat, index : Nat]

\* Whatever the process was doing when it was killed or power went, the pair of
\* files that counts is whole and one master key opens both: no crash loses the
\* volume's header or its index, or pairs an old one with a new one.
PairRecoverable == \A d \in past : Sound(d)

\* What a finished command or an acknowledged save reported survives: no crash
\* or later recovery brings back a retired master key, a revoked slot or an
\* older index, out of stale staged files for instance.
AckedSurvives ==
    \A d \in past :
        /\ Volume(d).key >= acked.key
        /\ Volume(d).slots >= acked.slots
        /\ Volume(d).index >= acked.index

\* The swap is atomic: the steps of rekey, recover, save_index and write_header
\* are steps of a volume whose key, slots and index change one at a time.
Swap == INSTANCE AtomicSwap WITH
            volume <- Volume(dir),
            since  <- {Volume(d) : d \in past}

SwapIsAtomic == Swap!Spec

\* "if the process dies partway, the next command completes it" (README.md):
\* when no process runs, a marker comes with both staged files, which recover
\* insists on.
NextCommandCompletes ==
    pc = "idle" /\ dir["marker"] # None =>
        dir["header_new"] # None /\ dir["index_new"] # None

\* An index with a root directory is only ever followed by one with a root, or, by
\* a power loss that takes back the very first save, by none: whatever rekeys,
\* crashes and recoveries come, a volume that was once written to can be used.
RootKept ==
    [][TheIndex(dir) # None /\ TheIndex(dir).root
        => TheIndex(dir') = None \/ TheIndex(dir').root]_dir
=============================================================================
