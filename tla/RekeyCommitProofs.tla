-------------------------- MODULE RekeyCommitProofs --------------------------
(***************************************************************************)
(* Proofs, for any number of rekeys, edits and crashes, that no crash at   *)
(* any point of any command loses or mixes the header and the index        *)
(* (PairRecoverable), that what was reported survives (AckedSurvives),     *)
(* that an index keeps its root (RootKept), and that the commands          *)
(* implement AtomicSwap (SwapIsAtomic).                                    *)
(***************************************************************************)
EXTENDS RekeyCommit, TLAPS

\* The points at which the process knows that there is no marker.
Unmarked ==
    {"load", "mounted", "save_sync", "write_header", "header_sync", "rekey_index",
     "stage_index", "stage_index_sync", "stage_header", "stage_header_sync",
     "stage_sync", "mark", "unmark_sync"}

\* The points of commit_rekey before the marker.
Staging ==
    {"stage_index", "stage_index_sync", "stage_header", "stage_header_sync",
     "stage_sync", "mark"}

\* What the process has established on its way to each point.
Control ==
    /\ pc \in Unmarked => dir["marker"] = None
    /\ pc \in Staging => mem.index.key = mem.header.key
    /\ pc = "stage_index_sync" => dir["index_new"] # None
    /\ pc = "stage_header_sync" => dir["header_new"] # None
    /\ pc = "mark_sync" => dir["marker"] # None
    /\ pc \in {"stage_header", "stage_header_sync", "stage_sync", "mark"} =>
        dir["index_new"] = mem.index
    /\ pc \in {"stage_sync", "mark"} => dir["header_new"] = mem.header
    /\ pc \in {"mounted", "save_sync"} => mem.index.key = dir["header"].key
    /\ pc \in {"swap_index", "swap_header", "swap_sync", "unmark"} =>
        dir["marker"] # None
    /\ pc = "swap_index" => dir["index_new"] # None /\ dir["header_new"] # None
    /\ pc = "swap_header" => dir["index_new"] = None /\ dir["header_new"] # None
    /\ pc \in {"swap_sync", "unmark"} => dir["index_new"] = None /\ dir["header_new"] = None
    /\ pc = "unmark" => past = {dir}

\* Once the marker is gone, a power loss that brings it back finds both renames
\* done: the files staged for a later rekey can not be taken for these.
Retired ==
    dir["marker"] = None =>
        \A d \in past : d["marker"] # None =>
            d["index_new"] = None /\ d["header_new"] = None

IInv == TypeOK /\ PairRecoverable /\ Control /\ Retired

-----------------------------------------------------------------------------
(* A directory change that keeps the invariant of the directories *)

LEMMA VolumeType ==
    ASSUME NEW d, Sound(d)
    PROVE  Volume(d) \in [key : Nat, slots : Nat, index : Nat]
<1>1. TheHeader(d).key \in Nat /\ TheHeader(d).slots \in Nat
  BY DEF Sound, Header
<1>2. TheIndex(d) # None => TheIndex(d).saves \in Nat
  BY DEF Sound, Index
<1> QED BY <1>1, <1>2 DEF Volume

\* sync_dir keeps everything that is said of the directories.
LEMMA SyncDir ==
    ASSUME TypeOK, PairRecoverable, sync_dir
    PROVE  /\ dir' = dir /\ past' = {dir}
           /\ dir' \in [File -> Content] /\ past' \subseteq [File -> Content]
           /\ dir' \in past'
           /\ PairRecoverable' /\ Retired'
  BY DEF sync_dir, TypeOK, PairRecoverable, Retired, Sound, TheHeader, TheIndex, Authoritative

LEMMA ChangeDir ==
    ASSUME TypeOK, PairRecoverable, NEW d \in [File -> Content], Change(d), Sound(d)
    PROVE  /\ dir' = d /\ past' = past \cup {d}
           /\ past' \subseteq [File -> Content] /\ dir' \in past'
           /\ PairRecoverable'
  BY DEF Change, TypeOK, PairRecoverable, Sound, TheHeader, TheIndex, Authoritative

-----------------------------------------------------------------------------
(* One lemma per action *)

LEMMA StartInv ==
    ASSUME IInv, NEW j \in Job, Start(j)
    PROVE  IInv'
<1>1. PairRecoverable' /\ Retired'
  BY DEF IInv, Start, PairRecoverable, Retired, Sound, TheHeader, TheIndex, Authoritative
<1>2. Control'
  BY DEF Start, Goto, Control, Unmarked, Staging
<1>3. TypeOK'
  BY DEF IInv, Start, TypeOK
<1> QED BY <1>1, <1>2, <1>3 DEF IInv

\* Where AfterRecover goes, and what it reports.
LEMMA AfterRecoverGoes ==
    ASSUME IInv, AfterRecover
    PROVE  /\ pc' \in {"load", "rekey_index", "write_header", "idle"}
           /\ acked' \in [key : Nat, slots : Nat, index : Nat]
<1>1. Sound(dir)
  BY DEF IInv, TypeOK, PairRecoverable
<1>2. acked' \in [key : Nat, slots : Nat, index : Nat]
  BY <1>1, VolumeType DEF AfterRecover, IInv, TypeOK
<1> QED BY <1>2 DEF AfterRecover

LEMMA RecoverCheckInv ==
    ASSUME IInv, RecoverCheck
    PROVE  IInv'
<1>1. PairRecoverable' /\ Retired'
  BY DEF IInv, RecoverCheck, Bail, PairRecoverable, Retired, Sound, TheHeader, TheIndex,
         Authoritative
<1>2. CASE dir["marker"] = None /\ AfterRecover
  <2>1. TypeOK'
    BY <1>2, AfterRecoverGoes DEF IInv, RecoverCheck, Bail, TypeOK
  <2>2. Control'
    BY <1>2, AfterRecoverGoes DEF RecoverCheck, Bail, Control, Unmarked, Staging
  <2> QED BY <1>1, <2>1, <2>2 DEF IInv
<1>3. CASE ~(dir["marker"] = None /\ AfterRecover)
  <2>1. TypeOK'
    BY <1>3 DEF IInv, RecoverCheck, Bail, TypeOK
  <2>2. Control'
    BY <1>3 DEF RecoverCheck, Bail, Control, Unmarked, Staging
  <2> QED BY <1>1, <2>1, <2>2 DEF IInv
<1> QED BY <1>2, <1>3

LEMMA RecoverStepInv ==
    ASSUME IInv, RecoverStep
    PROVE  IInv'
<1> USE DEF IInv
<1>0. dir \in [File -> Content] /\ Sound(dir) /\ None \in Content
  BY DEF TypeOK, PairRecoverable, Content
<1>1. CASE Goto("swap_index", "swap_header") /\ Rename("index_new", "index")
  <2> DEFINE d == [dir EXCEPT !["index"] = dir["index_new"], !["index_new"] = None]
  <2>1. d \in [File -> Content] /\ Change(d) /\ d["marker"] # None
    BY <1>0, <1>1 DEF Rename, Control, Goto, File
  <2>2. Sound(d)
    BY <1>0, <1>1 DEF Control, Goto, Sound, TheHeader, TheIndex, Authoritative, File
  <2>3. dir' = d /\ PairRecoverable' /\ TypeOK'
    BY <2>1, <2>2, ChangeDir DEF RecoverStep, TypeOK
  <2>4. Control' /\ Retired'
    BY <1>0, <1>1, <2>1, <2>3 DEF Control, Retired, Goto, Unmarked, Staging, File
  <2> QED BY <2>3, <2>4
<1>2. CASE Goto("swap_header", "swap_sync") /\ Rename("header_new", "header")
  <2> DEFINE d == [dir EXCEPT !["header"] = dir["header_new"], !["header_new"] = None]
  <2>1. d \in [File -> Content] /\ Change(d) /\ d["marker"] # None
    BY <1>0, <1>2 DEF Rename, Control, Goto, File
  <2>2. Sound(d)
    BY <1>0, <1>2 DEF Control, Goto, Sound, TheHeader, TheIndex, Authoritative, File
  <2>3. dir' = d /\ PairRecoverable' /\ TypeOK'
    BY <2>1, <2>2, ChangeDir DEF RecoverStep, TypeOK
  <2>4. Control' /\ Retired'
    BY <1>0, <1>2, <2>1, <2>3 DEF Control, Retired, Goto, Unmarked, Staging, File
  <2> QED BY <2>3, <2>4
<1>3. CASE Goto("swap_sync", "unmark") /\ sync_dir
  <2>1. TypeOK' /\ PairRecoverable' /\ Retired' /\ dir' = dir /\ past' = {dir'}
    BY <1>3, SyncDir DEF RecoverStep, TypeOK
  <2>2. Control'
    BY <1>3, <2>1 DEF Control, Goto, Unmarked, Staging
  <2> QED BY <2>1, <2>2
<1>4. CASE Goto("unmark", "unmark_sync") /\ RemoveFile("marker")
  <2> DEFINE d == [dir EXCEPT !["marker"] = None]
  <2>1. d \in [File -> Content] /\ Change(d)
    BY <1>0, <1>4 DEF RemoveFile, File
  <2>2. Sound(d)
    BY <1>0, <1>4 DEF Control, Goto, Sound, TheHeader, TheIndex, Authoritative, File
  <2>3. dir' = d /\ past' = past \cup {d} /\ PairRecoverable' /\ TypeOK'
    BY <2>1, <2>2, ChangeDir DEF RecoverStep, TypeOK
  <2>4. Control'
    BY <1>0, <1>4, <2>3 DEF Control, Goto, Unmarked, Staging, File
  <2>5. Retired'
    BY <1>0, <1>4, <2>3 DEF Control, Retired, Goto, File
  <2> QED BY <2>3, <2>4, <2>5
<1> QED BY <1>1, <1>2, <1>3, <1>4 DEF RecoverStep

LEMMA RecoverEndInv ==
    ASSUME IInv, RecoverEnd
    PROVE  IInv'
<1>1. TypeOK' /\ PairRecoverable' /\ Retired' /\ dir' = dir
  BY SyncDir, AfterRecoverGoes DEF IInv, RecoverEnd, TypeOK
<1>2. Control'
  BY <1>1, AfterRecoverGoes DEF IInv, RecoverEnd, Control, Unmarked, Staging
<1> QED BY <1>1, <1>2 DEF IInv

LEMMA LoadInv ==
    ASSUME IInv, load
    PROVE  IInv'
<1>0. Sound(dir) /\ dir["marker"] = None /\ pc = "load"
  BY DEF IInv, TypeOK, PairRecoverable, Control, Unmarked, load
<1>1. PairRecoverable' /\ Retired'
  BY DEF IInv, load, PairRecoverable, Retired, Sound, TheHeader, TheIndex, Authoritative
<1>2. /\ dir["header"] \in Header
      /\ dir["index"] # None => dir["index"] \in Index /\ dir["index"].key = dir["header"].key
  BY <1>0 DEF Sound, TheHeader, TheIndex, Authoritative
<1>3. mem' \in [header : Header, index : Index] /\ mem'.index.key = dir["header"].key
      /\ pc' = "mounted"
  <2> DEFINE table == IF dir["index"] = None
                      THEN [key |-> dir["header"].key, saves |-> 0, root |-> TRUE]
                      ELSE dir["index"]
  <2>1. table \in Index /\ table.key = dir["header"].key
    BY <1>2 DEF Header, Index
  <2>2. pc' = "mounted" /\ mem' = [header |-> dir["header"], index |-> table]
    BY <2>1 DEF load
  <2> QED BY <1>2, <2>1, <2>2
<1>4. TypeOK'
  BY <1>3 DEF IInv, load, TypeOK
<1>5. Control'
  BY <1>0, <1>3 DEF load, Control, Unmarked, Staging
<1> QED BY <1>1, <1>4, <1>5 DEF IInv

LEMMA SaveInv ==
    ASSUME IInv, save_index
    PROVE  IInv'
<1> DEFINE d == [dir EXCEPT !["index"] = mem'.index]
<1>0. /\ Sound(dir) /\ dir \in [File -> Content] /\ dir["marker"] = None
      /\ mem.index.key = dir["header"].key
  BY DEF IInv, TypeOK, PairRecoverable, Control, Unmarked, save_index, Goto
<1>1. mem' \in [header : Header, index : Index] /\ mem'.index.key = mem.index.key
  BY DEF IInv, TypeOK, save_index, Index
<1>2. d \in [File -> Content] /\ Change(d)
  BY <1>0, <1>1 DEF Content, File, save_index
<1>3. Sound(d)
  BY <1>0, <1>1 DEF Sound, TheHeader, TheIndex, Authoritative, File
<1>4. dir' = d /\ past' = past \cup {d} /\ PairRecoverable' /\ TypeOK'
  <2>1. /\ dir' = d /\ past' = past \cup {d} /\ PairRecoverable'
        /\ past' \subseteq [File -> Content] /\ dir' \in past'
    <3> HIDE DEF d
    <3> QED BY <1>2, <1>3, ChangeDir DEF IInv
  <2>2. edits' \in Nat /\ UNCHANGED <<job, next_key, crashes, acked>>
    BY DEF IInv, TypeOK, save_index
  <2> QED BY <1>1, <1>2, <2>1, <2>2 DEF IInv, TypeOK
<1>5. Control'
  BY <1>0, <1>1, <1>4 DEF Control, save_index, Goto, Unmarked, Staging, File
<1>6. Retired'
  BY <1>0, <1>4 DEF IInv, Retired, File
<1> QED BY <1>4, <1>5, <1>6 DEF IInv

LEMMA SavedInv ==
    ASSUME IInv, SaveIndexSync
    PROVE  IInv'
<1>1. Volume(dir) \in [key : Nat, slots : Nat, index : Nat]
  BY VolumeType DEF IInv, TypeOK, PairRecoverable
<1>2. TypeOK' /\ PairRecoverable' /\ Retired' /\ dir' = dir
  BY <1>1, SyncDir DEF IInv, SaveIndexSync, TypeOK
<1>3. Control'
  BY <1>2 DEF IInv, SaveIndexSync, Control, Goto, Unmarked, Staging
<1> QED BY <1>2, <1>3 DEF IInv

LEMMA WriteHeaderInv ==
    ASSUME IInv, write_header
    PROVE  IInv'
<1> DEFINE h == [dir["header"] EXCEPT !.slots = @ + 1]
           d == [dir EXCEPT !["header"] = h]
<1>0. Sound(dir) /\ dir \in [File -> Content] /\ dir["marker"] = None
  BY DEF IInv, TypeOK, PairRecoverable, Control, Unmarked, write_header, Goto
<1>1. dir["header"] \in Header /\ h \in Header /\ h.key = dir["header"].key
  BY <1>0 DEF Sound, TheHeader, Authoritative, Header
<1>2. d \in [File -> Content] /\ Change(d)
  BY <1>0, <1>1 DEF Content, File, write_header
<1>3. Sound(d)
  BY <1>0, <1>1 DEF Sound, TheHeader, TheIndex, Authoritative, File
<1>4. dir' = d /\ past' = past \cup {d} /\ PairRecoverable' /\ TypeOK'
  <2>1. /\ dir' = d /\ past' = past \cup {d} /\ PairRecoverable'
        /\ past' \subseteq [File -> Content] /\ dir' \in past'
    <3> HIDE DEF d
    <3> QED BY <1>2, <1>3, ChangeDir DEF IInv
  <2>2. edits' \in Nat /\ UNCHANGED <<job, mem, next_key, crashes, acked>>
    BY DEF IInv, TypeOK, write_header
  <2> QED BY <1>2, <2>1, <2>2 DEF IInv, TypeOK
<1>5. Control'
  BY <1>0, <1>4 DEF Control, write_header, Goto, Unmarked, Staging, File
<1>6. Retired'
  BY <1>0, <1>4 DEF IInv, Retired, File
<1> QED BY <1>4, <1>5, <1>6 DEF IInv

LEMMA HeaderWrittenInv ==
    ASSUME IInv, WriteHeaderSync
    PROVE  IInv'
<1>1. Volume(dir) \in [key : Nat, slots : Nat, index : Nat]
  BY VolumeType DEF IInv, TypeOK, PairRecoverable
<1>2. TypeOK' /\ PairRecoverable' /\ Retired' /\ dir' = dir
  BY <1>1, SyncDir DEF IInv, WriteHeaderSync, TypeOK
<1>3. Control'
  BY <1>2 DEF IInv, WriteHeaderSync, Control, Goto, Unmarked, Staging
<1> QED BY <1>2, <1>3 DEF IInv

LEMMA RekeyIndexInv ==
    ASSUME IInv, rekey_index
    PROVE  IInv'
<1>0. Sound(dir) /\ dir["marker"] = None /\ next_key \in Nat
  BY DEF IInv, TypeOK, PairRecoverable, Control, Unmarked, rekey_index, Reencrypted
<1>1. PairRecoverable' /\ Retired'
  BY DEF IInv, rekey_index, Reencrypted, PairRecoverable, Retired, Sound, TheHeader, TheIndex,
         Authoritative
<1>2. /\ dir["header"] \in Header
      /\ dir["index"] # None => dir["index"] \in Index /\ dir["index"].key = dir["header"].key
  BY <1>0 DEF Sound, TheHeader, TheIndex, Authoritative
<1>3. /\ mem' \in [header : Header, index : Index]
      /\ mem'.index.key = mem'.header.key
      /\ next_key' \in Nat /\ job' \in Job /\ pc' = "stage_index"
  <2> DEFINE table == IF dir["index"] = None
                      THEN [key |-> dir["header"].key, saves |-> 0, root |-> FALSE]
                      ELSE dir["index"]
             h == [dir["header"] EXCEPT !.key = next_key]
             i == [table EXCEPT !.key = next_key]
  <2>1. table \in Index /\ table.key = dir["header"].key
    BY <1>2 DEF Header, Index
  <2>2. /\ pc' = "stage_index" /\ next_key' = next_key + 1 /\ job' = "commit"
        /\ mem' = [header |-> h, index |-> i]
    BY <2>1 DEF rekey_index, Reencrypted
  <2>3. h \in Header /\ i \in Index /\ h.key = next_key /\ i.key = next_key
    <3>1. h \in Header /\ h.key = next_key
      BY <1>0, <1>2 DEF Header
    <3>2. i \in Index /\ i.key = next_key
      <4> HIDE DEF table
      <4> QED BY <1>0, <2>1 DEF Index
    <3> QED BY <3>1, <3>2
  <2> HIDE DEF h, i
  <2> QED BY <1>0, <2>2, <2>3 DEF Job
<1>4. TypeOK'
  BY <1>3 DEF IInv, rekey_index, Reencrypted, TypeOK
<1>5. Control'
  BY <1>0, <1>3 DEF rekey_index, Reencrypted, Control, Unmarked, Staging
<1> QED BY <1>1, <1>4, <1>5 DEF IInv

\* Writing a staged file while no marker is there changes no pair that counts.
LEMMA StagedWrite ==
    ASSUME IInv, NEW f \in {"index_new", "header_new"}, NEW c \in Content,
           WriteAndSync(f, c), dir["marker"] = None
    PROVE  /\ dir' \in [File -> Content] /\ past' \subseteq [File -> Content]
           /\ dir' \in past' \/ dir[f] = None
           /\ PairRecoverable' /\ Retired'
<1> DEFINE g(d) == [d EXCEPT ![f] = IF @ = None THEN None ELSE c]
<1>1. dir' = [dir EXCEPT ![f] = c] /\ past' = {g(d) : d \in past}
  BY DEF WriteAndSync
<1>2. dir \in past /\ past \subseteq [File -> Content] /\ f \in File
  BY DEF IInv, TypeOK, File
<1>3. dir' \in [File -> Content] /\ past' \subseteq [File -> Content]
  BY <1>1, <1>2 DEF Content
<1>4. dir' \in past' \/ dir[f] = None
  BY <1>1, <1>2
<1>5. \A d \in past : d["marker"] # None => d["index_new"] = None /\ d["header_new"] = None
  BY DEF IInv, Retired
<1>6. ASSUME NEW d \in past
      PROVE  /\ TheHeader(g(d)) = TheHeader(d) /\ TheIndex(g(d)) = TheIndex(d)
             /\ g(d)["marker"] = d["marker"]
             /\ d["marker"] # None => g(d)["index_new"] = None /\ g(d)["header_new"] = None
  BY <1>2, <1>5 DEF TheHeader, TheIndex, Authoritative, File
<1>7. PairRecoverable'
  BY <1>1, <1>6 DEF IInv, PairRecoverable, Sound
<1>8. Retired'
  <2>1. ASSUME NEW e \in past', e["marker"] # None
        PROVE  e["index_new"] = None /\ e["header_new"] = None
    <3>1. PICK d \in past : e = g(d)
      BY <1>1
    <3> HIDE DEF g
    <3> QED BY <1>6, <2>1, <3>1
  <2> QED BY <2>1 DEF Retired
<1> QED BY <1>3, <1>4, <1>7, <1>8

\* Writing the marker's content, once the marker exists, changes nothing else.
LEMMA MarkerWrite ==
    ASSUME IInv, WriteAndSync("marker", Mark), dir["marker"] # None
    PROVE  /\ dir' \in [File -> Content] /\ past' \subseteq [File -> Content]
           /\ dir' \in past'
           /\ dir'["marker"] # None
           /\ PairRecoverable'
<1> DEFINE g(d) == [d EXCEPT !["marker"] = IF @ = None THEN None ELSE Mark]
<1>1. dir' = [dir EXCEPT !["marker"] = Mark] /\ past' = {g(d) : d \in past}
  BY DEF WriteAndSync
<1>2. dir \in past /\ past \subseteq [File -> Content] /\ "marker" \in File
      /\ Mark # None /\ Mark \in Content
  BY RekeyAssumption DEF IInv, TypeOK, File, Content
<1>3. dir' \in [File -> Content] /\ past' \subseteq [File -> Content]
  BY <1>1, <1>2 DEF Content
<1>4. dir' \in past' /\ dir'["marker"] # None
  BY <1>1, <1>2
<1>5. ASSUME NEW d \in past
      PROVE  TheHeader(g(d)) = TheHeader(d) /\ TheIndex(g(d)) = TheIndex(d)
  BY <1>2 DEF TheHeader, TheIndex, Authoritative, File
<1>6. PairRecoverable'
  BY <1>1, <1>5 DEF IInv, PairRecoverable, Sound
<1> QED BY <1>3, <1>4, <1>6

LEMMA CommitStepInv ==
    ASSUME IInv, CommitStep
    PROVE  IInv'
<1> USE DEF IInv
<1>0. dir \in [File -> Content] /\ Sound(dir) /\ Torn \in Content
  BY DEF TypeOK, PairRecoverable, Content
<1>1. CASE Goto("stage_index", "stage_index_sync") /\ CreateFile("index_new")
  <2> DEFINE d == [dir EXCEPT !["index_new"] = Torn]
  <2>1. d \in [File -> Content] /\ Change(d)
    BY <1>0, <1>1 DEF CreateFile, File
  <2>2. Sound(d)
    BY <1>0, <1>1, RekeyAssumption
    DEF Control, Goto, Unmarked, Staging, Sound, TheHeader, TheIndex, Authoritative, File, TypeOK
  <2>3. dir' = d /\ past' = past \cup {d} /\ PairRecoverable' /\ TypeOK'
    BY <2>1, <2>2, ChangeDir DEF CommitStep, TypeOK
  <2>4. Control'
    BY <1>0, <1>1, <2>3, RekeyAssumption DEF Control, CommitStep, Goto, Unmarked, Staging, File
  <2>5. Retired'
    BY <1>0, <1>1, <2>3, RekeyAssumption
    DEF Control, Retired, Goto, Unmarked, File
  <2> QED BY <2>3, <2>4, <2>5
<1>2. CASE Goto("stage_index_sync", "stage_header") /\ WriteAndSync("index_new", mem.index)
  <2>1. mem.index \in Content /\ dir["marker"] = None /\ dir["index_new"] # None
    BY <1>2 DEF TypeOK, Content, Control, Goto, Unmarked
  <2>2. TypeOK' /\ PairRecoverable' /\ Retired'
    BY <1>2, <2>1, StagedWrite DEF CommitStep, TypeOK
  <2>3. Control'
    BY <1>0, <1>2 DEF Control, CommitStep, WriteAndSync, Goto, Unmarked, Staging, File
  <2> QED BY <2>2, <2>3
<1>3. CASE Goto("stage_header", "stage_header_sync") /\ CreateFile("header_new")
  <2> DEFINE d == [dir EXCEPT !["header_new"] = Torn]
  <2>1. d \in [File -> Content] /\ Change(d)
    BY <1>0, <1>3 DEF CreateFile, File
  <2>2. Sound(d)
    BY <1>0, <1>3, RekeyAssumption
    DEF Control, Goto, Unmarked, Staging, Sound, TheHeader, TheIndex, Authoritative, File, TypeOK
  <2>3. dir' = d /\ past' = past \cup {d} /\ PairRecoverable' /\ TypeOK'
    BY <2>1, <2>2, ChangeDir DEF CommitStep, TypeOK
  <2>4. Control'
    BY <1>0, <1>3, <2>3, RekeyAssumption DEF Control, CommitStep, Goto, Unmarked, Staging, File
  <2>5. Retired'
    BY <1>0, <1>3, <2>3, RekeyAssumption
    DEF Control, Retired, Goto, Unmarked, File
  <2> QED BY <2>3, <2>4, <2>5
<1>4. CASE Goto("stage_header_sync", "stage_sync") /\ WriteAndSync("header_new", mem.header)
  <2>1. mem.header \in Content /\ dir["marker"] = None /\ dir["header_new"] # None
    BY <1>4 DEF TypeOK, Content, Control, Goto, Unmarked
  <2>2. TypeOK' /\ PairRecoverable' /\ Retired'
    BY <1>4, <2>1, StagedWrite DEF CommitStep, TypeOK
  <2>3. Control'
    BY <1>0, <1>4 DEF Control, CommitStep, WriteAndSync, Goto, Unmarked, Staging, File
  <2> QED BY <2>2, <2>3
<1>5. CASE Goto("stage_sync", "mark") /\ sync_dir
  <2>1. TypeOK' /\ PairRecoverable' /\ Retired' /\ dir' = dir
    BY <1>5, SyncDir DEF CommitStep, TypeOK
  <2>2. Control'
    BY <1>5, <2>1 DEF Control, CommitStep, Goto, Unmarked, Staging
  <2> QED BY <2>1, <2>2
<1>6. CASE Goto("mark", "mark_sync") /\ CreateFile("marker")
  <2> DEFINE d == [dir EXCEPT !["marker"] = Torn]
  <2>1. d \in [File -> Content] /\ Change(d)
    BY <1>0, <1>6 DEF CreateFile, File
  <2>2. Sound(d)
    BY <1>0, <1>6, RekeyAssumption
    DEF Control, Goto, Unmarked, Staging, Sound, TheHeader, TheIndex, Authoritative, File, TypeOK
  <2>3. dir' = d /\ past' = past \cup {d} /\ PairRecoverable' /\ TypeOK'
    BY <2>1, <2>2, ChangeDir DEF CommitStep, TypeOK
  <2>4. Control'
    BY <1>0, <1>6, <2>3, RekeyAssumption DEF Control, CommitStep, Goto, Unmarked, Staging, File
  <2>5. Retired'
    BY <1>0, <1>6, <2>3, RekeyAssumption
    DEF Control, Retired, Goto, Unmarked, File
  <2> QED BY <2>3, <2>4, <2>5
<1>7. CASE Goto("mark_sync", "mark_dir") /\ WriteAndSync("marker", Mark)
  <2>1. dir["marker"] # None
    BY <1>7 DEF Control, Goto
  <2>2. TypeOK' /\ PairRecoverable' /\ Retired'
    BY <1>7, <2>1, MarkerWrite DEF CommitStep, TypeOK, Retired
  <2>3. Control'
    BY <1>7 DEF Control, CommitStep, Goto, Unmarked, Staging
  <2> QED BY <2>2, <2>3
<1>8. CASE Goto("mark_dir", "recover") /\ sync_dir
  <2>1. TypeOK' /\ PairRecoverable' /\ Retired' /\ dir' = dir
    BY <1>8, SyncDir DEF CommitStep, TypeOK
  <2>2. Control'
    BY <1>8, <2>1 DEF Control, CommitStep, Goto, Unmarked, Staging
  <2> QED BY <2>1, <2>2
<1> QED BY <1>1, <1>2, <1>3, <1>4, <1>5, <1>6, <1>7, <1>8 DEF CommitStep

LEMMA StopInv ==
    ASSUME IInv, Unmount \/ Crash
    PROVE  IInv'
<1>1. PairRecoverable' /\ Retired'
  BY DEF IInv, Unmount, Crash, PairRecoverable, Retired, Sound, TheHeader, TheIndex,
         Authoritative
<1>2. Control'
  BY DEF Unmount, Crash, Goto, Control, Unmarked, Staging
<1>3. TypeOK'
  BY DEF IInv, Unmount, Crash, TypeOK
<1> QED BY <1>1, <1>2, <1>3 DEF IInv

LEMMA PowerLossInv ==
    ASSUME IInv, PowerLoss
    PROVE  IInv'
<1>1. PairRecoverable' /\ Retired'
  BY DEF IInv, PowerLoss, PairRecoverable, Retired, Sound, TheHeader, TheIndex, Authoritative
<1>2. Control'
  BY DEF PowerLoss, Control, Unmarked, Staging
<1>3. TypeOK'
  BY DEF IInv, PowerLoss, TypeOK
<1> QED BY <1>1, <1>2, <1>3 DEF IInv

-----------------------------------------------------------------------------

LEMMA InitInv ==
    ASSUME Init
    PROVE  IInv
<1>1. /\ dir \in [File -> Content] /\ past = {dir}
      /\ dir["header"] \in Header /\ dir["index"] = None /\ dir["marker"] = None
      /\ mem \in [header : Header, index : Index]
  BY DEF Init, mem0, File, Content, Header, Index
<1>2. Sound(dir)
  BY <1>1 DEF Sound, TheHeader, TheIndex, Authoritative
<1>3. TypeOK
  BY <1>1, <1>2, VolumeType DEF Init, TypeOK, Job
<1>4. Control
  BY <1>1 DEF Init, Control, Unmarked, Staging
<1> QED BY <1>1, <1>2, <1>3, <1>4 DEF IInv, PairRecoverable, Retired

LEMMA NextInv ==
    ASSUME IInv, [Next]_vars
    PROVE  IInv'
<1>1. CASE UNCHANGED vars
  BY <1>1 DEF vars, IInv, TypeOK, PairRecoverable, Control, Retired, Sound, TheHeader,
              TheIndex, Authoritative
<1>2. CASE Process
  BY <1>2, RecoverCheckInv, RecoverStepInv, RecoverEndInv, LoadInv, SavedInv,
     WriteHeaderInv, HeaderWrittenInv, RekeyIndexInv, CommitStepInv DEF Process
<1>3. CASE Next /\ ~Process
  BY <1>3, StartInv, SaveInv, StopInv, PowerLossInv DEF Next
<1> QED BY <1>1, <1>2, <1>3

\* IInv holds in every state of every behaviour.
THEOREM Invariance == Spec => []IInv
<1>1. Init => IInv
  BY InitInv
<1>2. IInv /\ [Next]_vars => IInv'
  BY NextInv
<1> QED BY <1>1, <1>2, PTL DEF Spec

\* Type correctness.
THEOREM TypeCorrect == Spec => []TypeOK
  BY Invariance, PTL DEF IInv

\* No kill and no power loss, at any step of rekey, recover, save_index or
\* write_header, leaves a header and an index that do not belong together, or
\* loses one of them.
THEOREM NoCrashSplitsThePair == Spec => []PairRecoverable
  BY Invariance, PTL DEF IInv

-----------------------------------------------------------------------------
(* What becomes of the volume                                              *)
(*                                                                         *)
(* Seen through the pair of files that counts, each step of the commands   *)
(* is one of six.  AckedSurvives, RootKept and SwapIsAtomic follow from    *)
(* these alone.                                                            *)

Pair(d) == <<TheHeader(d), TheIndex(d)>>

Pairs == {Pair(d) : d \in past}

\* The volume of the pair of a header and an index.
VolumeOf(p) ==
    [key   |-> p[1].key,
     slots |-> p[1].slots,
     index |-> IF p[2] = None THEN 0 ELSE p[2].saves]

\* No index, or one with a root directory.
Rooted(p) == p[2] = None \/ p[2].root

\* The table in memory of a mounted volume is the one on disk.
Loaded(i, table) ==
    IF i = None THEN table.saves = 0 /\ table.root ELSE table = i

\* What a rekey carries over from the header h and the index i.
CarriedOver(h, i, header, table) ==
    /\ header.slots = h.slots
    /\ header.key > h.key
    /\ table.saves = IF i = None THEN 0 ELSE i.saves
    /\ i = None => ~table.root
    /\ i # None => (table.root <=> i.root)

InMemory ==
    /\ pc \in {"mounted", "save_sync"} => Loaded(dir["index"], mem.index)
    /\ pc \in Staging =>
        CarriedOver(dir["header"], dir["index"], mem.header, mem.index) /\ mem.header.key < next_key
    /\ pc = "mark_dir" => dir["marker"] # None
    /\ pc = "recover" /\ job = "commit" => dir["marker"] # None

\* No key on disk, durable or not, is one that is still to be drawn.
KeysDrawn == \A p \in Pairs : p[1].key < next_key

\* A rootless index comes only after a state without index, and is never followed by
\* one with a root, so that no power loss goes from the one to the other.
RootsBehind == Rooted(Pair(dir)) => \A p \in Pairs : Rooted(p)

VInv == InMemory /\ KeysDrawn /\ AckedSurvives /\ RootsBehind

\* The six kinds of step.  Only a step that has synced the directory reports anything.
Kept ==
    /\ Pair(dir') = Pair(dir) /\ Pairs' = Pairs
    /\ acked' = acked /\ next_key' >= next_key

Synced ==
    /\ Pair(dir') = Pair(dir) /\ Pairs' = {Pair(dir)}
    /\ acked' \in {acked, VolumeOf(Pair(dir))} /\ next_key' = next_key

Lost ==
    /\ Pair(dir') \in Pairs /\ Pairs' = {Pair(dir')}
    /\ acked' = acked /\ next_key' = next_key

Turns(p) ==
    /\ Pair(dir') = p /\ Pairs' = Pairs \cup {p}
    /\ acked' = acked /\ next_key' = next_key

Saved ==
    \E i \in Index :
        /\ Turns(<<TheHeader(dir), i>>)
        /\ i.saves = VolumeOf(Pair(dir)).index + 1
        /\ i.root <=> Rooted(Pair(dir))

Edited ==
    \E h \in Header :
        /\ Turns(<<h, TheIndex(dir)>>)
        /\ h.key = TheHeader(dir).key
        /\ h.slots = TheHeader(dir).slots + 1

Rekeyed ==
    \E h \in Header, i \in Index :
        /\ Turns(<<h, i>>)
        /\ CarriedOver(TheHeader(dir), TheIndex(dir), h, i)
        /\ h.key < next_key

Known == Kept \/ Synced \/ Lost \/ Saved \/ Edited \/ Rekeyed

-----------------------------------------------------------------------------
(* System calls and pairs *)

LEMMA PairUnmarked ==
    ASSUME NEW d, d["marker"] = None
    PROVE  Pair(d) = <<d["header"], d["index"]>> /\ TheHeader(d) = d["header"] /\ TheIndex(d) = d["index"]
  BY DEF Pair, TheHeader, TheIndex, Authoritative

LEMMA PairsSame ==
    ASSUME dir' = dir, past' = past
    PROVE  Pair(dir') = Pair(dir) /\ Pairs' = Pairs
  BY DEF Pairs

LEMMA PairsSynced ==
    ASSUME sync_dir
    PROVE  dir' = dir /\ Pair(dir') = Pair(dir) /\ Pairs' = {Pair(dir)}
  BY DEF sync_dir, Pairs

LEMMA PairsChanged ==
    ASSUME NEW d, Change(d)
    PROVE  dir' = d /\ Pair(dir') = Pair(d) /\ Pairs' = Pairs \cup {Pair(d)}
  BY DEF Change, Pairs

LEMMA PairsOutlive ==
    ASSUME IInv, NEW d, Change(d), Pair(d) = Pair(dir)
    PROVE  dir' = d /\ Pair(dir') = Pair(dir) /\ Pairs' = Pairs
<1>1. Pair(dir) \in Pairs
  BY DEF IInv, TypeOK, Pairs
<1> QED BY <1>1, PairsChanged

\* A write to a staged file, while there is no marker, or to the marker, once there is one.
LEMMA PairsWritten ==
    ASSUME IInv, NEW f \in File, NEW c \in Content, WriteAndSync(f, c), c # None,
           \/ f \in {"index_new", "header_new"} /\ dir["marker"] = None
           \/ f = "marker" /\ dir["marker"] # None
    PROVE  Pair(dir') = Pair(dir) /\ Pairs' = Pairs
<1> DEFINE g(d) == [d EXCEPT ![f] = IF @ = None THEN None ELSE c]
<1>1. dir' = [dir EXCEPT ![f] = c] /\ past' = {g(d) : d \in past}
  BY DEF WriteAndSync
<1>2. dir \in past /\ past \subseteq [File -> Content]
  BY DEF IInv, TypeOK
<1>3. dir["marker"] = None =>
        \A d \in past : d["marker"] # None => d["index_new"] = None /\ d["header_new"] = None
  BY DEF IInv, Retired
<1>4. ASSUME NEW d \in past
      PROVE  Pair(g(d)) = Pair(d)
  BY <1>2, <1>3 DEF Pair, TheHeader, TheIndex, Authoritative, File
<1>5. Pairs' = Pairs
  <2>1. Pairs' = {Pair(e) : e \in past'}
    BY DEF Pairs
  <2> HIDE DEF g
  <2> QED BY <1>1, <1>4, <2>1 DEF Pairs
<1>6. Pair(dir') = Pair(dir)
  BY <1>1, <1>2 DEF Pair, TheHeader, TheIndex, Authoritative, File
<1> QED BY <1>5, <1>6

LEMMA VolumeOfPair ==
    ASSUME NEW d
    PROVE  Volume(d) = VolumeOf(Pair(d))
  BY DEF Volume, VolumeOf, Pair

-----------------------------------------------------------------------------
(* One lemma per action *)

LEMMA StartKind ==
    ASSUME IInv, InMemory, NEW j \in Job \ {"commit"}, Start(j)
    PROVE  Kept /\ InMemory'
<1>1. dir' = dir /\ past' = past /\ acked' = acked /\ next_key' = next_key /\ next_key \in Nat
      /\ pc' = "recover" /\ job' = j
  BY DEF Start, Goto, IInv, TypeOK
<1>2. Kept
  BY <1>1, PairsSame DEF Kept
<1>3. InMemory'
  BY <1>1 DEF InMemory, Staging
<1> QED BY <1>2, <1>3

LEMMA RecoverCheckKind ==
    ASSUME IInv, InMemory, RecoverCheck
    PROVE  Kept /\ InMemory'
<1>1. dir' = dir /\ past' = past /\ next_key' = next_key /\ next_key \in Nat /\ pc = "recover"
  BY DEF RecoverCheck, IInv, TypeOK
<1>2. dir["marker"] = None => job # "commit"
  BY <1>1 DEF InMemory
<1>3. acked' = acked /\ pc' \in {"load", "rekey_index", "write_header", "idle", "swap_index"}
  BY <1>2 DEF RecoverCheck, AfterRecover, Bail
<1>4. Kept
  BY <1>1, <1>3, PairsSame DEF Kept
<1>5. InMemory'
  BY <1>3 DEF InMemory, Staging
<1> QED BY <1>4, <1>5

LEMMA RecoverStepKind ==
    ASSUME IInv, InMemory, RecoverStep
    PROVE  (Kept \/ Synced) /\ InMemory'
<1>0. dir \in [File -> Content] /\ next_key \in Nat /\ acked' = acked /\ next_key' = next_key
  BY DEF IInv, TypeOK, RecoverStep
<1>1. pc' \in {"swap_header", "swap_sync", "unmark", "unmark_sync"}
  BY DEF RecoverStep, Goto
<1>2. InMemory'
  BY <1>1 DEF InMemory, Staging
<1>3. CASE Goto("swap_index", "swap_header") /\ Rename("index_new", "index")
  <2> DEFINE d == [dir EXCEPT !["index"] = dir["index_new"], !["index_new"] = None]
  <2>1. Change(d)
    BY <1>3 DEF Rename
  <2>2. Pair(d) = Pair(dir)
    BY <1>0, <1>3 DEF IInv, Control, Goto, Pair, TheHeader, TheIndex, Authoritative, File
  <2> HIDE DEF d
  <2> QED BY <1>0, <1>2, <2>1, <2>2, PairsOutlive DEF Kept
<1>4. CASE Goto("swap_header", "swap_sync") /\ Rename("header_new", "header")
  <2> DEFINE d == [dir EXCEPT !["header"] = dir["header_new"], !["header_new"] = None]
  <2>1. Change(d)
    BY <1>4 DEF Rename
  <2>2. Pair(d) = Pair(dir)
    BY <1>0, <1>4 DEF IInv, Control, Goto, Pair, TheHeader, TheIndex, Authoritative, File
  <2> HIDE DEF d
  <2> QED BY <1>0, <1>2, <2>1, <2>2, PairsOutlive DEF Kept
<1>5. CASE Goto("swap_sync", "unmark") /\ sync_dir
  BY <1>0, <1>2, <1>5, PairsSynced DEF Synced
<1>6. CASE Goto("unmark", "unmark_sync") /\ RemoveFile("marker")
  <2> DEFINE d == [dir EXCEPT !["marker"] = None]
  <2>1. Change(d)
    BY <1>6 DEF RemoveFile
  <2>2. Pair(d) = Pair(dir)
    BY <1>0, <1>6 DEF IInv, Control, Goto, Pair, TheHeader, TheIndex, Authoritative, File
  <2> HIDE DEF d
  <2> QED BY <1>0, <1>2, <2>1, <2>2, PairsOutlive DEF Kept
<1> QED BY <1>3, <1>4, <1>5, <1>6 DEF RecoverStep

LEMMA RecoverEndKind ==
    ASSUME IInv, InMemory, RecoverEnd
    PROVE  Synced /\ InMemory'
<1>1. sync_dir /\ next_key' = next_key /\ acked' \in {acked, Volume(dir)}
  BY DEF RecoverEnd, AfterRecover
<1>2. Synced
  BY <1>1, PairsSynced, VolumeOfPair DEF Synced
<1>3. pc' \in {"load", "rekey_index", "write_header", "idle"}
  BY AfterRecoverGoes DEF RecoverEnd
<1>4. InMemory'
  BY <1>3 DEF InMemory, Staging
<1> QED BY <1>2, <1>4

LEMMA LoadKind ==
    ASSUME IInv, InMemory, load
    PROVE  Kept /\ InMemory'
<1>1. dir' = dir /\ past' = past /\ acked' = acked /\ next_key' = next_key /\ next_key \in Nat
      /\ pc' \in {"mounted", "idle"}
  BY DEF load, IInv, TypeOK
<1>2. Kept
  BY <1>1, PairsSame DEF Kept
<1>3. pc' = "mounted" => Loaded(dir["index"], mem'.index)
  BY DEF load, Loaded
<1>4. InMemory'
  BY <1>1, <1>3 DEF InMemory, Staging
<1> QED BY <1>2, <1>4

LEMMA SaveKind ==
    ASSUME IInv, InMemory, save_index
    PROVE  Saved /\ InMemory'
<1> DEFINE d == [dir EXCEPT !["index"] = mem'.index]
<1>0. /\ dir \in [File -> Content] /\ dir["marker"] = None /\ mem \in [header : Header, index : Index]
      /\ Loaded(dir["index"], mem.index) /\ Sound(dir)
  BY DEF IInv, TypeOK, Control, Unmarked, save_index, Goto, InMemory, PairRecoverable
<1>1. /\ mem'.index \in Index /\ mem'.index.saves = mem.index.saves + 1
      /\ mem'.index.root = mem.index.root
  BY <1>0 DEF save_index, Index
<1>2. Change(d) /\ acked' = acked /\ next_key' = next_key /\ pc' = "save_sync"
  BY DEF save_index, Goto
<1>3. Pair(d) = <<TheHeader(dir), mem'.index>> /\ d["index"] = mem'.index
  BY <1>0, PairUnmarked DEF File, Pair, TheHeader, TheIndex, Authoritative
<1>4. Turns(<<TheHeader(dir), mem'.index>>) /\ dir' = d
  <2> HIDE DEF d
  <2> QED BY <1>2, <1>3, PairsChanged DEF Turns
<1>5. Pair(dir) = <<dir["header"], dir["index"]>>
  BY <1>0, PairUnmarked
<1>6. mem'.index.saves = VolumeOf(Pair(dir)).index + 1
  BY <1>0, <1>1, <1>5 DEF Loaded, VolumeOf
<1>7. mem'.index.root <=> Rooted(Pair(dir))
  <2>1. mem.index.root <=> Rooted(<<dir["header"], dir["index"]>>)
    <3>1. mem.index.root \in BOOLEAN
      BY <1>0 DEF Index
    <3> QED BY <1>0, <3>1 DEF Loaded, Rooted
  <2> QED BY <1>1, <1>5, <2>1
<1>8. Saved
  BY <1>1, <1>4, <1>6, <1>7 DEF Saved
<1>9. InMemory'
  <2>1. dir'["index"] = mem'.index /\ mem'.index # None
    BY <1>1, <1>3, <1>4, RekeyAssumption
  <2> QED BY <1>2, <2>1 DEF InMemory, Loaded, Staging
<1> QED BY <1>8, <1>9

LEMMA SavedKind ==
    ASSUME IInv, InMemory, SaveIndexSync
    PROVE  Synced /\ InMemory'
<1>1. sync_dir /\ next_key' = next_key /\ acked' = Volume(dir) /\ mem' = mem
      /\ pc = "save_sync" /\ pc' = "mounted"
  BY DEF SaveIndexSync, Goto
<1>2. Synced /\ dir' = dir
  BY <1>1, PairsSynced, VolumeOfPair DEF Synced
<1>3. InMemory'
  BY <1>1, <1>2 DEF InMemory, Staging
<1> QED BY <1>2, <1>3

LEMMA WriteHeaderKind ==
    ASSUME IInv, InMemory, write_header
    PROVE  Edited /\ InMemory'
<1> DEFINE h == [dir["header"] EXCEPT !.slots = @ + 1]
           d == [dir EXCEPT !["header"] = h]
<1>0. Sound(dir) /\ dir \in [File -> Content] /\ dir["marker"] = None
  BY DEF IInv, TypeOK, PairRecoverable, Control, Unmarked, write_header, Goto
<1>1. TheHeader(dir) = dir["header"] /\ TheIndex(dir) = dir["index"] /\ dir["header"] \in Header
  BY <1>0, PairUnmarked DEF Sound
<1>2. h \in Header /\ h.key = TheHeader(dir).key /\ h.slots = TheHeader(dir).slots + 1
  BY <1>1 DEF Header
<1>3. Change(d) /\ acked' = acked /\ next_key' = next_key /\ pc' = "header_sync"
  BY <1>0 DEF write_header, Goto, File
<1>4. Pair(d) = <<h, TheIndex(dir)>>
  <2> HIDE DEF h
  <2>1. d["marker"] = None /\ d["header"] = h /\ d["index"] = TheIndex(dir)
    BY <1>0, <1>1 DEF File
  <2> HIDE DEF d
  <2> QED BY <2>1, PairUnmarked
<1>5. Turns(<<h, TheIndex(dir)>>)
  <2> HIDE DEF d, h
  <2> QED BY <1>3, <1>4, PairsChanged DEF Turns
<1>6. Edited
  <2> HIDE DEF h
  <2> QED BY <1>2, <1>5 DEF Edited
<1>7. InMemory'
  BY <1>3 DEF InMemory, Staging
<1> QED BY <1>6, <1>7

LEMMA HeaderWrittenKind ==
    ASSUME IInv, InMemory, WriteHeaderSync
    PROVE  Synced /\ InMemory'
<1>1. sync_dir /\ next_key' = next_key /\ acked' = Volume(dir) /\ pc' = "idle"
  BY DEF WriteHeaderSync, Goto
<1>2. Synced
  BY <1>1, PairsSynced, VolumeOfPair DEF Synced
<1>3. InMemory'
  BY <1>1 DEF InMemory, Staging
<1> QED BY <1>2, <1>3

LEMMA RekeyIndexKind ==
    ASSUME IInv, InMemory, KeysDrawn, rekey_index
    PROVE  Kept /\ InMemory'
<1>0. Sound(dir) /\ dir["marker"] = None /\ next_key \in Nat /\ dir \in past
  BY DEF IInv, TypeOK, PairRecoverable, Control, Unmarked, rekey_index
<1>1. dir' = dir /\ past' = past /\ acked' = acked /\ next_key' \in {next_key, next_key + 1}
  BY DEF rekey_index
<1>2. Kept
  BY <1>0, <1>1, PairsSame DEF Kept
<1>3. /\ dir["header"] \in Header /\ dir["header"].key < next_key
      /\ dir["index"] # None => dir["index"] \in Index
  <2>1. Pair(dir) \in Pairs /\ Pair(dir) = <<dir["header"], dir["index"]>>
    BY <1>0, PairUnmarked DEF Pairs
  <2>2. Pair(dir)[1].key < next_key
    BY <2>1 DEF KeysDrawn
  <2> QED BY <1>0, <2>1, <2>2 DEF Sound, TheHeader, TheIndex, Authoritative
<1> DEFINE table == IF dir["index"] = None
                    THEN [key |-> dir["header"].key, saves |-> 0, root |-> FALSE]
                    ELSE dir["index"]
           h == [dir["header"] EXCEPT !.key = next_key]
           i == [table EXCEPT !.key = next_key]
<1>4. CASE table.key = dir["header"].key
  <2>1. pc' = "stage_index" /\ next_key' = next_key + 1 /\ mem' = [header |-> h, index |-> i]
    BY <1>4 DEF rekey_index, Reencrypted
  <2>2. h.slots = dir["header"].slots /\ h.key = next_key
    BY <1>3 DEF Header
  <2>3. table \in Index
    BY <1>3 DEF Header, Index
  <2>4. i.saves = table.saves /\ i.root = table.root
    <3> HIDE DEF table
    <3> QED BY <2>3 DEF Index
  <2>5. /\ i.saves = (IF dir["index"] = None THEN 0 ELSE dir["index"].saves)
        /\ dir["index"] = None => ~i.root
        /\ dir["index"] # None => (i.root <=> dir["index"].root)
    BY <2>4
  <2>6. CarriedOver(dir["header"], dir["index"], h, i)
    <3> HIDE DEF h, i
    <3> QED BY <1>0, <1>3, <2>2, <2>5 DEF CarriedOver, Header
  <2>7. mem'.header = h /\ mem'.index = i
    BY <2>1
  <2> HIDE DEF h, i
  <2>8. CarriedOver(dir'["header"], dir'["index"], mem'.header, mem'.index) /\ mem'.header.key < next_key'
    BY <1>0, <1>1, <2>1, <2>2, <2>6, <2>7
  <2>9. InMemory'
    BY <2>1, <2>8 DEF InMemory
  <2> QED BY <1>2, <2>9
<1>5. CASE table.key # dir["header"].key
  <2>1. pc' = "idle"
    BY <1>5 DEF rekey_index
  <2>2. InMemory'
    BY <2>1 DEF InMemory, Staging
  <2> QED BY <1>2, <2>2
<1> QED BY <1>4, <1>5

LEMMA CommitStepKind ==
    ASSUME IInv, InMemory, CommitStep
    PROVE  (Kept \/ Synced \/ Rekeyed) /\ InMemory'
<1>0. /\ dir \in [File -> Content] /\ next_key \in Nat
      /\ acked' = acked /\ next_key' = next_key /\ mem' = mem /\ job' = job
      /\ mem.header \in Header /\ mem.index \in Index
  BY DEF IInv, TypeOK, CommitStep
<1>1. mem.index \in Content /\ mem.header \in Content /\ Mark \in Content
      /\ mem.index # None /\ mem.header # None /\ Mark # None
  BY <1>0, RekeyAssumption DEF Content
\* Up to the marker the files in place stay what the process has read.
<1>2. ASSUME pc \in Staging, pc' \in Staging, dir'["header"] = dir["header"], dir'["index"] = dir["index"]
      PROVE  InMemory'
  BY <1>0, <1>2 DEF InMemory, Staging
<1>3. CASE Goto("stage_index", "stage_index_sync") /\ CreateFile("index_new")
  <2> DEFINE d == [dir EXCEPT !["index_new"] = Torn]
  <2>1. Change(d) /\ dir["marker"] = None
    BY <1>3 DEF CreateFile, IInv, Control, Goto, Unmarked
  <2>2. Pair(d) = Pair(dir) /\ d["header"] = dir["header"] /\ d["index"] = dir["index"]
    BY <1>0, <2>1 DEF Pair, TheHeader, TheIndex, Authoritative, File
  <2> HIDE DEF d
  <2>3. dir' = d /\ Kept
    BY <1>0, <2>1, <2>2, PairsOutlive DEF Kept
  <2>4. pc \in Staging /\ pc' \in Staging
    BY <1>3 DEF Goto, Staging
  <2> QED BY <1>2, <2>2, <2>3, <2>4
<1>4. CASE Goto("stage_index_sync", "stage_header") /\ WriteAndSync("index_new", mem.index)
  <2>1. dir["marker"] = None /\ pc \in Staging /\ pc' \in Staging
    BY <1>4 DEF IInv, Control, Goto, Unmarked, Staging
  <2>2. Kept
    BY <1>0, <1>1, <1>4, <2>1, PairsWritten DEF Kept, File
  <2>3. dir'["header"] = dir["header"] /\ dir'["index"] = dir["index"]
    BY <1>0, <1>4 DEF WriteAndSync, File
  <2> QED BY <1>2, <2>1, <2>2, <2>3
<1>5. CASE Goto("stage_header", "stage_header_sync") /\ CreateFile("header_new")
  <2> DEFINE d == [dir EXCEPT !["header_new"] = Torn]
  <2>1. Change(d) /\ dir["marker"] = None
    BY <1>5 DEF CreateFile, IInv, Control, Goto, Unmarked
  <2>2. Pair(d) = Pair(dir) /\ d["header"] = dir["header"] /\ d["index"] = dir["index"]
    BY <1>0, <2>1 DEF Pair, TheHeader, TheIndex, Authoritative, File
  <2> HIDE DEF d
  <2>3. dir' = d /\ Kept
    BY <1>0, <2>1, <2>2, PairsOutlive DEF Kept
  <2>4. pc \in Staging /\ pc' \in Staging
    BY <1>5 DEF Goto, Staging
  <2> QED BY <1>2, <2>2, <2>3, <2>4
<1>6. CASE Goto("stage_header_sync", "stage_sync") /\ WriteAndSync("header_new", mem.header)
  <2>1. dir["marker"] = None /\ pc \in Staging /\ pc' \in Staging
    BY <1>6 DEF IInv, Control, Goto, Unmarked, Staging
  <2>2. Kept
    BY <1>0, <1>1, <1>6, <2>1, PairsWritten DEF Kept, File
  <2>3. dir'["header"] = dir["header"] /\ dir'["index"] = dir["index"]
    BY <1>0, <1>6 DEF WriteAndSync, File
  <2> QED BY <1>2, <2>1, <2>2, <2>3
<1>7. CASE Goto("stage_sync", "mark") /\ sync_dir
  <2>1. pc \in Staging /\ pc' \in Staging
    BY <1>7 DEF Goto, Staging
  <2> QED BY <1>0, <1>2, <1>7, <2>1, PairsSynced DEF Synced
<1>8. CASE Goto("mark", "mark_sync") /\ CreateFile("marker")
  <2> DEFINE d == [dir EXCEPT !["marker"] = Torn]
  <2>1. /\ Change(d) /\ dir["marker"] = None /\ pc \in Staging
        /\ dir["index_new"] = mem.index /\ dir["header_new"] = mem.header
    BY <1>8 DEF CreateFile, IInv, Control, Goto, Unmarked, Staging
  <2>2. Pair(d) = <<mem.header, mem.index>>
    <3>1. d["marker"] # None /\ d["header_new"] = mem.header /\ d["index_new"] = mem.index
      BY <1>0, <2>1, RekeyAssumption DEF File
    <3> HIDE DEF d
    <3> QED BY <1>1, <3>1 DEF Pair, TheHeader, TheIndex, Authoritative
  <2> HIDE DEF d
  <2>3. Turns(<<mem.header, mem.index>>)
    BY <1>0, <2>1, <2>2, PairsChanged DEF Turns
  <2>4. CarriedOver(TheHeader(dir), TheIndex(dir), mem.header, mem.index) /\ mem.header.key < next_key
    BY <2>1, PairUnmarked DEF InMemory
  <2>5. Rekeyed
    BY <1>0, <2>3, <2>4 DEF Rekeyed
  <2>6. InMemory'
    BY <1>8 DEF Goto, InMemory, Staging
  <2> QED BY <2>5, <2>6
<1>9. CASE Goto("mark_sync", "mark_dir") /\ WriteAndSync("marker", Mark)
  <2>1. dir["marker"] # None
    BY <1>9 DEF IInv, Control, Goto
  <2>2. Kept
    BY <1>0, <1>1, <1>9, <2>1, PairsWritten DEF Kept, File
  <2>3. dir'["marker"] # None
    BY <1>0, <1>1, <1>9 DEF WriteAndSync, File
  <2>4. InMemory'
    BY <1>9, <2>3 DEF Goto, InMemory, Staging
  <2> QED BY <2>2, <2>4
<1>10. CASE Goto("mark_dir", "recover") /\ sync_dir
  <2>1. dir["marker"] # None /\ dir' = dir /\ pc' = "recover"
    BY <1>10, PairsSynced DEF InMemory, Goto
  <2>2. InMemory'
    BY <2>1 DEF InMemory, Staging
  <2> QED BY <1>0, <1>10, <2>2, PairsSynced DEF Synced
<1> QED BY <1>3, <1>4, <1>5, <1>6, <1>7, <1>8, <1>9, <1>10 DEF CommitStep

LEMMA StopKind ==
    ASSUME IInv, InMemory, Unmount \/ Crash
    PROVE  Kept /\ InMemory'
<1>1. dir' = dir /\ past' = past /\ acked' = acked /\ next_key' = next_key /\ next_key \in Nat
      /\ pc' = "idle"
  BY DEF Unmount, Crash, Goto, IInv, TypeOK
<1>2. Kept
  BY <1>1, PairsSame DEF Kept
<1>3. InMemory'
  BY <1>1 DEF InMemory, Staging
<1> QED BY <1>2, <1>3

LEMMA PowerLossKind ==
    ASSUME IInv, InMemory, PowerLoss
    PROVE  Lost /\ InMemory'
<1>1. /\ dir' \in past /\ past' = {dir'} /\ acked' = acked /\ next_key' = next_key
      /\ pc' = "idle"
  BY DEF PowerLoss
<1>2. Lost
  BY <1>1 DEF Lost, Pairs
<1>3. InMemory'
  BY <1>1 DEF InMemory, Staging
<1> QED BY <1>2, <1>3

LEMMA EveryStep ==
    ASSUME IInv, InMemory, KeysDrawn, [Next]_vars
    PROVE  Known /\ InMemory'
<1>1. CASE UNCHANGED vars
  <2>1. /\ dir' = dir /\ past' = past /\ acked' = acked /\ next_key' = next_key /\ next_key \in Nat
        /\ pc' = pc /\ job' = job /\ mem' = mem
    BY <1>1 DEF vars, IInv, TypeOK
  <2>2. Kept
    BY <2>1, PairsSame DEF Kept
  <2>3. InMemory'
    BY <2>1 DEF InMemory
  <2> QED BY <2>2, <2>3 DEF Known
<1>2. CASE RecoverCheck \/ RecoverStep \/ RecoverEnd \/ load \/ SaveIndexSync
  BY <1>2, RecoverCheckKind, RecoverStepKind, RecoverEndKind, LoadKind, SavedKind, Zenon DEF Known
<1>3. CASE write_header \/ WriteHeaderSync \/ rekey_index \/ CommitStep
  BY <1>3, WriteHeaderKind, HeaderWrittenKind, RekeyIndexKind, CommitStepKind, Zenon DEF Known
<1>4. CASE save_index \/ Unmount \/ Crash \/ PowerLoss
  BY <1>4, SaveKind, StopKind, PowerLossKind, Zenon DEF Known
<1>5. CASE \E j \in Job \ {"commit"} : Start(j)
  BY <1>5, StartKind, Zenon DEF Known
<1> QED BY <1>1, <1>2, <1>3, <1>4, <1>5 DEF Next, Process

-----------------------------------------------------------------------------
(* What the kinds of step keep *)

\* The volume v is at least as new as w in each of its parts.
AtLeast(v, w) == v.key >= w.key /\ v.slots >= w.slots /\ v.index >= w.index

\* A header and an index, or none, of one volume.
IsPair(p) ==
    /\ p = <<p[1], p[2]>>
    /\ p[1] \in Header
    /\ p[2] # None => p[2] \in Index

LEMMA SoundPairs ==
    ASSUME IInv
    PROVE  Pair(dir) \in Pairs /\ \A p \in Pairs : IsPair(p)
<1>1. Pair(dir) \in Pairs
  BY DEF IInv, TypeOK, Pairs
<1>2. ASSUME NEW d \in past
      PROVE  IsPair(Pair(d))
  <2>1. Sound(d)
    BY DEF IInv, PairRecoverable
  <2> QED BY <2>1 DEF Sound, Pair, IsPair
<1> QED BY <1>1, <1>2 DEF Pairs

LEMMA AckedOfPairs ==
    AckedSurvives <=> \A p \in Pairs : AtLeast(VolumeOf(p), acked)
<1>1. AckedSurvives <=> \A d \in past : AtLeast(VolumeOf(Pair(d)), acked)
  BY VolumeOfPair DEF AckedSurvives, AtLeast
<1> QED BY <1>1 DEF Pairs

LEMMA VolumeOfIsVolume ==
    ASSUME NEW p, IsPair(p)
    PROVE  /\ VolumeOf(p) \in [key : Nat, slots : Nat, index : Nat]
           /\ VolumeOf(p).key = p[1].key /\ VolumeOf(p).slots = p[1].slots
           /\ VolumeOf(p).index = IF p[2] = None THEN 0 ELSE p[2].saves
<1>1. p[1].key \in Nat /\ p[1].slots \in Nat
  BY DEF IsPair, Header
<1>2. (IF p[2] = None THEN 0 ELSE p[2].saves) \in Nat
  BY DEF IsPair, Index
<1> QED BY <1>1, <1>2 DEF VolumeOf

\* The three ways in which a volume changes, none of which makes a part of it older.
LEMMA NewVolume ==
    ASSUME IInv, Saved \/ Edited \/ Rekeyed
    PROVE  \E p : /\ Turns(p) /\ IsPair(p)
                  /\ \/ VolumeOf(p) = [VolumeOf(Pair(dir)) EXCEPT !.index = @ + 1]
                     \/ VolumeOf(p) = [VolumeOf(Pair(dir)) EXCEPT !.slots = @ + 1]
                     \/ /\ VolumeOf(p).key > VolumeOf(Pair(dir)).key
                        /\ VolumeOf(p) = [VolumeOf(Pair(dir)) EXCEPT !.key = VolumeOf(p).key]
                  /\ AtLeast(VolumeOf(p), VolumeOf(Pair(dir)))
                  /\ p[1].key = Pair(dir)[1].key \/ p[1].key < next_key
                  /\ Rooted(p) => Rooted(Pair(dir))
                  /\ Pair(dir)[2] # None /\ Rooted(Pair(dir)) => Rooted(p)
<1>1. PICK q : q = Pair(dir)
  OBVIOUS
<1>2. PICK h : h = TheHeader(dir)
  OBVIOUS
<1>3. PICK i : i = TheIndex(dir)
  OBVIOUS
<1>4. q = <<h, i>> /\ IsPair(q) /\ q[1] = h /\ q[2] = i /\ h \in Header /\ (i # None => i \in Index)
  BY <1>1, <1>2, <1>3, SoundPairs DEF Pair, IsPair
<1>5. /\ VolumeOf(q) \in [key : Nat, slots : Nat, index : Nat]
      /\ VolumeOf(q).key = h.key /\ VolumeOf(q).slots = h.slots
      /\ VolumeOf(q).index = IF i = None THEN 0 ELSE i.saves
  BY <1>4, VolumeOfIsVolume
\* A volume is known by its three parts.
<1>6. ASSUME NEW v \in [key : Nat, slots : Nat, index : Nat], NEW w \in [key : Nat, slots : Nat, index : Nat]
      PROVE  /\ v.key = w.key /\ v.slots = w.slots /\ v.index = w.index + 1 =>
                  v = [w EXCEPT !.index = @ + 1] /\ AtLeast(v, w)
             /\ v.key = w.key /\ v.slots = w.slots + 1 /\ v.index = w.index =>
                  v = [w EXCEPT !.slots = @ + 1] /\ AtLeast(v, w)
             /\ v.key > w.key /\ v.slots = w.slots /\ v.index = w.index =>
                  v = [w EXCEPT !.key = v.key] /\ AtLeast(v, w)
  BY <1>6 DEF AtLeast
<1>7. CASE Saved
  <2>1. PICK j \in Index : /\ Turns(<<h, j>>) /\ j.saves = VolumeOf(q).index + 1
                           /\ j.root <=> Rooted(q)
    BY <1>1, <1>2, <1>7 DEF Saved
  <2>2. PICK p : p = <<h, j>>
    OBVIOUS
  <2>3. IsPair(p) /\ p[1] = h /\ p[2] = j /\ j # None /\ Turns(p)
    BY <1>4, <2>1, <2>2, RekeyAssumption DEF IsPair
  <2>4. /\ VolumeOf(p) \in [key : Nat, slots : Nat, index : Nat]
        /\ VolumeOf(p).key = h.key /\ VolumeOf(p).slots = h.slots /\ VolumeOf(p).index = j.saves
    BY <2>3, VolumeOfIsVolume
  <2>5. VolumeOf(p) = [VolumeOf(q) EXCEPT !.index = @ + 1] /\ AtLeast(VolumeOf(p), VolumeOf(q))
    BY <1>5, <1>6, <2>1, <2>4
  <2>6. Rooted(p) <=> Rooted(q)
    BY <2>1, <2>3 DEF Rooted
  <2> QED BY <1>1, <1>4, <2>3, <2>5, <2>6
<1>8. CASE Edited
  <2>1. PICK g \in Header : Turns(<<g, i>>) /\ g.key = h.key /\ g.slots = h.slots + 1
    BY <1>2, <1>3, <1>8 DEF Edited
  <2>2. PICK p : p = <<g, i>>
    OBVIOUS
  <2>3. IsPair(p) /\ p[1] = g /\ p[2] = i /\ Turns(p)
    BY <1>4, <2>1, <2>2 DEF IsPair
  <2>4. /\ VolumeOf(p) \in [key : Nat, slots : Nat, index : Nat]
        /\ VolumeOf(p).key = g.key /\ VolumeOf(p).slots = g.slots
        /\ VolumeOf(p).index = IF i = None THEN 0 ELSE i.saves
    BY <2>3, VolumeOfIsVolume
  <2>5. VolumeOf(p) = [VolumeOf(q) EXCEPT !.slots = @ + 1] /\ AtLeast(VolumeOf(p), VolumeOf(q))
    BY <1>5, <1>6, <2>1, <2>4
  <2>6. Rooted(p) <=> Rooted(q)
    BY <1>4, <2>3 DEF Rooted
  <2> QED BY <1>1, <1>4, <2>1, <2>3, <2>5, <2>6
<1>9. CASE Rekeyed
  <2>1. PICK g \in Header, j \in Index :
            Turns(<<g, j>>) /\ CarriedOver(h, i, g, j) /\ g.key < next_key
    BY <1>2, <1>3, <1>9 DEF Rekeyed
  <2>2. PICK p : p = <<g, j>>
    OBVIOUS
  <2>3. IsPair(p) /\ p[1] = g /\ p[2] = j /\ j # None /\ Turns(p)
    BY <2>1, <2>2, RekeyAssumption DEF IsPair
  <2>4. /\ VolumeOf(p) \in [key : Nat, slots : Nat, index : Nat]
        /\ VolumeOf(p).key = g.key /\ VolumeOf(p).slots = g.slots /\ VolumeOf(p).index = j.saves
    BY <2>3, VolumeOfIsVolume
  <2>5. g.slots = h.slots /\ g.key > h.key /\ j.saves = IF i = None THEN 0 ELSE i.saves
    BY <2>1 DEF CarriedOver
  <2>6. /\ VolumeOf(p).key > VolumeOf(q).key
        /\ VolumeOf(p) = [VolumeOf(q) EXCEPT !.key = VolumeOf(p).key]
        /\ AtLeast(VolumeOf(p), VolumeOf(q))
    BY <1>5, <1>6, <2>4, <2>5
  <2>7. Rooted(p) => Rooted(q)
    BY <1>4, <2>1, <2>3 DEF Rooted, CarriedOver
  <2>8. q[2] # None /\ Rooted(q) => Rooted(p)
    BY <1>4, <2>1, <2>3 DEF Rooted, CarriedOver
  <2> QED BY <1>1, <2>1, <2>3, <2>6, <2>7, <2>8
<1> QED BY <1>7, <1>8, <1>9

-----------------------------------------------------------------------------

LEMMA InitVInv ==
    ASSUME Init
    PROVE  VInv
<1>1. /\ dir["header"] = mem0.header /\ dir["index"] = None /\ dir["marker"] = None
      /\ past = {dir} /\ pc = "idle" /\ next_key = 2 /\ acked = Volume(dir)
  BY DEF Init, File
<1>2. Pairs = {Pair(dir)} /\ Pair(dir) = <<mem0.header, None>>
  BY <1>1, PairUnmarked DEF Pairs
<1>3. InMemory
  BY <1>1 DEF InMemory, Staging
<1>4. KeysDrawn
  BY <1>1, <1>2 DEF KeysDrawn, mem0
<1>5. AckedSurvives
  <2>1. Volume(dir) \in [key : Nat, slots : Nat, index : Nat]
    BY InitInv, VolumeType DEF IInv, TypeOK, PairRecoverable
  <2> QED BY <1>1, <2>1 DEF AckedSurvives
<1>6. RootsBehind
  BY <1>2 DEF RootsBehind
<1> QED BY <1>3, <1>4, <1>5, <1>6 DEF VInv

LEMMA NextVInv ==
    ASSUME IInv, VInv, [Next]_vars
    PROVE  VInv'
<1>1. Known /\ InMemory'
  BY EveryStep DEF VInv
<1>2. Pair(dir) \in Pairs /\ (\A p \in Pairs : IsPair(p)) /\ next_key \in Nat
      /\ acked \in [key : Nat, slots : Nat, index : Nat]
  BY SoundPairs DEF IInv, TypeOK
<1>3. /\ \A p \in Pairs : AtLeast(VolumeOf(p), acked)
      /\ \A p \in Pairs : p[1].key < next_key
      /\ Rooted(Pair(dir)) => \A p \in Pairs : Rooted(p)
  BY AckedOfPairs DEF VInv, KeysDrawn, RootsBehind
<1>4. SUFFICES /\ \A p \in Pairs' : AtLeast(VolumeOf(p), acked')
               /\ \A p \in Pairs' : p[1].key < next_key'
               /\ Rooted(Pair(dir')) => \A p \in Pairs' : Rooted(p)
  <2>1. AckedSurvives' <=> \A p \in Pairs' : AtLeast(VolumeOf(p), acked')
    <3>1. AckedSurvives' <=> \A d \in past' : AtLeast(VolumeOf(Pair(d)), acked')
      BY VolumeOfPair DEF AckedSurvives, AtLeast
    <3> QED BY <3>1 DEF Pairs
  <2> QED BY <1>1, <1>4, <2>1 DEF VInv, KeysDrawn, RootsBehind
<1>5. CASE Kept
  <2>1. next_key' \in Nat /\ next_key' >= next_key
    <3>1. IInv'
      BY NextInv
    <3> QED BY <1>5, <3>1 DEF Kept, IInv, TypeOK
  <2>2. \A p \in Pairs : p[1].key \in Nat
    BY <1>2 DEF IsPair, Header
  <2> QED BY <1>2, <1>3, <1>5, <2>1, <2>2 DEF Kept
<1>6. CASE Synced
  <2>1. AtLeast(VolumeOf(Pair(dir)), VolumeOf(Pair(dir)))
    BY <1>2, VolumeOfIsVolume DEF AtLeast
  <2> QED BY <1>2, <1>3, <1>6, <2>1 DEF Synced
<1>7. CASE Lost
  BY <1>3, <1>7 DEF Lost
<1>8. CASE Saved \/ Edited \/ Rekeyed
  <2>1. PICK p : /\ Turns(p) /\ IsPair(p)
                 /\ AtLeast(VolumeOf(p), VolumeOf(Pair(dir)))
                 /\ p[1].key = Pair(dir)[1].key \/ p[1].key < next_key
                 /\ Rooted(p) => Rooted(Pair(dir))
    BY <1>8, NewVolume
  <2>2. AtLeast(VolumeOf(p), acked)
    <3>1. /\ VolumeOf(p) \in [key : Nat, slots : Nat, index : Nat]
          /\ VolumeOf(Pair(dir)) \in [key : Nat, slots : Nat, index : Nat]
          /\ AtLeast(VolumeOf(Pair(dir)), acked)
      BY <1>2, <1>3, <2>1, VolumeOfIsVolume
    <3> QED BY <1>2, <2>1, <3>1 DEF AtLeast
  <2>3. p[1].key < next_key
    BY <1>2, <1>3, <2>1
  <2> QED BY <1>3, <2>1, <2>2, <2>3 DEF Turns
<1> QED BY <1>1, <1>5, <1>6, <1>7, <1>8 DEF Known

\* IInv and VInv hold in every state of every behaviour.
THEOREM VolumeInvariance == Spec => [](IInv /\ VInv)
<1>1. Init => IInv /\ VInv
  BY InitInv, InitVInv
<1>2. (IInv /\ VInv) /\ [Next]_vars => (IInv /\ VInv)'
  BY NextInv, NextVInv
<1> QED BY <1>1, <1>2, PTL DEF Spec

\* What a finished rekey, share, revoke or passwd or an acknowledged save reported
\* survives every kill and power loss: stale staged files of an earlier rekey, for
\* instance, never come back.
THEOREM ReportsSurvive == Spec => []AckedSurvives
<1>1. VInv => AckedSurvives
  BY DEF VInv
<1> QED BY <1>1, VolumeInvariance, PTL

\* No rekey, recovery or crash follows an index with a root directory by one without.
THEOREM RootStays == Spec => RootKept
<1>1. ASSUME IInv, VInv, [Next]_vars, TheIndex(dir) # None, TheIndex(dir).root
      PROVE  TheIndex(dir') = None \/ TheIndex(dir').root
  <2>1. Known
    BY <1>1, EveryStep DEF VInv
  <2>2. \A d : Pair(d)[2] = TheIndex(d)
    BY DEF Pair
  <2>3. Pair(dir)[2] # None /\ Rooted(Pair(dir))
    BY <1>1, <2>2 DEF Rooted
  <2>4. \A p \in Pairs : Rooted(p)
    BY <1>1, <2>3 DEF VInv, RootsBehind
  <2>5. Rooted(Pair(dir'))
    <3>1. CASE Kept \/ Synced
      BY <2>3, <3>1 DEF Kept, Synced
    <3>2. CASE Lost
      BY <2>4, <3>2 DEF Lost
    <3>3. CASE Saved \/ Edited \/ Rekeyed
      BY <1>1, <2>3, <3>3, NewVolume DEF Turns
    <3> QED BY <2>1, <3>1, <3>2, <3>3 DEF Known
  <2> QED BY <2>2, <2>5 DEF Rooted
<1>2. (IInv /\ VInv) /\ [Next]_vars =>
        [TheIndex(dir) # None /\ TheIndex(dir).root
            => TheIndex(dir') = None \/ TheIndex(dir').root]_dir
  BY <1>1
<1> QED BY <1>2, VolumeInvariance, PTL DEF Spec, RootKept

\* Each step of the volume's files is, for the pair that counts, a step of a volume
\* whose key, slots and index change one at a time, or none.
LEMMA SwapStep ==
    ASSUME IInv, VInv, [Next]_vars
    PROVE  [Swap!Next]_(Swap!vars)
<1> DEFINE since == {VolumeOf(p) : p \in Pairs}
<1>1. /\ Volume(dir) = VolumeOf(Pair(dir)) /\ Volume(dir)' = VolumeOf(Pair(dir'))
      /\ {Volume(d) : d \in past} = since
      /\ {Volume(d) : d \in past}' = since'
  <2>1. \A d : Volume(d) = VolumeOf(Pair(d))
    BY VolumeOfPair
  <2>2. {Volume(d) : d \in past} = since
    BY <2>1 DEF Pairs
  <2>3. {Volume(d) : d \in past'} = {VolumeOf(p) : p \in Pairs'}
    BY <2>1 DEF Pairs
  <2>4. Volume(dir)' = VolumeOf(Pair(dir'))
    BY <2>1
  <2> QED BY <2>1, <2>2, <2>3, <2>4
<1>2. Known
  BY EveryStep DEF VInv
<1>3. Pair(dir) \in Pairs
  BY SoundPairs
<1>4. CASE Kept
  BY <1>1, <1>4 DEF Kept, Swap!vars
<1>5. CASE Synced
  BY <1>1, <1>5 DEF Synced, Swap!Sync, Swap!Next
<1>6. CASE Lost
  BY <1>1, <1>6 DEF Lost, Swap!PowerLoss, Swap!Next
<1>7. CASE Saved \/ Edited \/ Rekeyed
  <2>1. PICK p : /\ Turns(p)
                 /\ \/ VolumeOf(p) = [VolumeOf(Pair(dir)) EXCEPT !.index = @ + 1]
                    \/ VolumeOf(p) = [VolumeOf(Pair(dir)) EXCEPT !.slots = @ + 1]
                    \/ /\ VolumeOf(p).key > VolumeOf(Pair(dir)).key
                       /\ VolumeOf(p) = [VolumeOf(Pair(dir)) EXCEPT !.key = VolumeOf(p).key]
    BY <1>7, NewVolume
  <2>2. since' = since \cup {VolumeOf(p)} /\ VolumeOf(Pair(dir')) = VolumeOf(p)
    BY <2>1 DEF Turns
  <2> HIDE DEF since
  <2>3. Swap!Becomes(VolumeOf(p))
    BY <1>1, <2>2 DEF Swap!Becomes
  <2> QED BY <1>1, <2>1, <2>2, <2>3 DEF Swap!SaveIndex, Swap!EditSlots, Swap!Rekey, Swap!Becomes, Swap!Next
<1> QED BY <1>2, <1>4, <1>5, <1>6, <1>7 DEF Known

\* The swap of a rekey is atomic: commit_rekey, recover, save_index and write_header,
\* killed or cut off at any step, refine a volume whose key, slots and index change
\* one at a time.
THEOREM SwapRefined == Spec => SwapIsAtomic
<1>1. Init => Swap!Init
  <2> SUFFICES ASSUME Init PROVE Swap!Init
    OBVIOUS
  <2>1. dir["header"] = mem0.header /\ dir["index"] = None /\ dir["marker"] = None /\ past = {dir}
    BY DEF Init, File
  <2>2. TheHeader(dir) = mem0.header /\ TheIndex(dir) = None
    BY <2>1, PairUnmarked
  <2>3. Volume(dir) = [key |-> 1, slots |-> 1, index |-> 0]
    BY <2>2 DEF Volume, mem0
  <2> QED BY <2>1, <2>3 DEF Swap!Init
<1>2. (IInv /\ VInv) /\ [Next]_vars => [Swap!Next]_(Swap!vars)
  BY SwapStep
<1> QED BY <1>1, <1>2, VolumeInvariance, PTL DEF Spec, SwapIsAtomic, Swap!Spec
=============================================================================
