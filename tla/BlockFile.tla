------------------------------ MODULE BlockFile ------------------------------
(***************************************************************************)
(* One regular file of a mounted volume, used by one operation at a time:  *)
(* its data file, its size in the in-memory index and its size in the      *)
(* saved index.  Operations complete, stop at a block they cannot read,    *)
(* are cut short by an I/O error, or are followed by a crash that brings   *)
(* back the size of the saved index (src/fs/blocks.rs, and the commits of  *)
(* src/fs/ops.rs).                                                         *)
(*                                                                         *)
(* The ghost variables say, in terms of a plain byte array, what a reader  *)
(* may see: may[p] are the values byte p can have, harm the blocks that    *)
(* may be unreadable; saved_may and saved_harm say the same of the file    *)
(* as the saved index describes it.                                        *)
(***************************************************************************)
EXTENDS FileBlocks

CONSTANTS Byte,      \* values of written bytes; 0 is the fill byte
          MaxSize,   \* bound: largest file size
          MaxWrite,  \* bound: longest write
          MaxFaults  \* bound: I/O errors, failed saves and crashes in a behaviour

ASSUME BlockFileAssumption ==
    /\ Byte \subseteq Nat
    /\ MaxSize \in Nat
    /\ MaxWrite \in Nat
    /\ MaxFaults \in Nat

VARIABLES data,        \* the data file
          size,        \* Entry.size in memory
          saved,       \* Entry.size in the index on disk
          faults,      \* I/O errors, failed saves and crashes so far
          may, harm, saved_may, saved_harm

vars == <<data, size, saved, faults, may, harm, saved_may, saved_harm>>

Fault == faults < MaxFaults /\ faults' = faults + 1

content_key == "content_key"   \* fixed when the file is created

-----------------------------------------------------------------------------
(* What each outcome means for a byte array, whatever the block code does. *)

InData(plan, p) == plan.offset <= p /\ p < plan.offset + Len(plan.data)

Written(plan, p) == plan.data[p - plan.offset + 1]

\* The array after a completed operation.
MayAfter(plan) ==
    [p \in 0 .. plan.new - 1 |->
        IF InData(plan, p) THEN {Written(plan, p)}
        ELSE IF p < plan.old THEN may[p] ELSE {0}]

\* The array, of unchanged length, after an operation that was cut short.
MayHalf(m, plan) ==
    [p \in DOMAIN m |->
        m[p] \cup (IF InData(plan, p) THEN {Written(plan, p)} ELSE {})]

\* The same for the view of the saved index, which is also exposed to the
\* zeros of a file that shrank and grew again.
SavedMayAfter(plan) ==
    [p \in DOMAIN saved_may |->
        MayHalf(saved_may, plan)[p]
            \cup (IF plan.old <= p /\ p < plan.new THEN {0} ELSE {})]

\* A completed operation vouches for every byte from its offset on.
HarmAfter(plan) == {b \in harm : b * B < plan.offset}

\* An operation that was cut short may have torn a block at or behind its
\* offset, or the last block of the old size, which growing re-seals first.
HarmHalf(plan) ==
    LET edge  == IF plan.data = <<>> THEN saturating_pred(plan.new) ELSE plan.offset
        first == Least(edge \div B, saturating_pred(block_count(plan.old)))
    IN  first .. block_count(plan.old) - 1

\* Blocks whose length under the saved size is not their length now.
Resized(new) ==
    {b \in 0 .. block_count(saved) - 1 :
        plaintext_len(saved, b) # plaintext_len(new, b)}

-----------------------------------------------------------------------------

TypeOK ==
    /\ size \in 0 .. MaxSize
    /\ saved \in 0 .. MaxSize
    /\ faults \in 0 .. MaxFaults
    /\ \/ data = Missing
       \/ /\ DOMAIN data \subseteq 0 .. MaxSize
          /\ \A i \in DOMAIN data :
                /\ data[i].index = i
                /\ data[i].plain \in Seq(Byte \cup {0})
                /\ Len(data[i].plain) <= B
    /\ may \in [0 .. size - 1 -> SUBSET (Byte \cup {0})]
    /\ saved_may \in [0 .. saved - 1 -> SUBSET (Byte \cup {0})]
    /\ harm \subseteq 0 .. MaxSize
    /\ saved_harm \subseteq 0 .. MaxSize

Init ==
    /\ data = Missing
    /\ size = 0
    /\ saved = 0
    /\ faults = 0
    /\ may = Empty
    /\ harm = {}
    /\ saved_may = Empty
    /\ saved_harm = {}

\* The block loop ran to its end and set_len cut the file.
Applies(plan) ==
    /\ plan.opens => Stops(open_rw(data), content_key, plan, plan.until)
    /\ data' = Applied(data, content_key, plan)
    /\ size' = plan.new
    /\ may' = MayAfter(plan)
    /\ harm' = IF plan.opens THEN HarmAfter(plan) ELSE harm

\* commit_write: the new size is in memory only, the index is marked dirty.
\* The kernel never sends an empty write.
Write(offset, bytes) ==
    LET plan == write_range(size, offset, bytes)
    IN  /\ plan.new <= MaxSize
        /\ Applies(plan)
        /\ saved_may' = SavedMayAfter(plan)
        /\ saved_harm' = saved_harm \cup Resized(plan.new)
        /\ UNCHANGED <<saved, faults>>

\* apply_setattr: the new size is saved at once.
Truncate(new) ==
    LET plan == truncate(size, new)
    IN  /\ Applies(plan)
        /\ saved' = plan.new
        /\ saved_may' = may'
        /\ saved_harm' = harm'
        /\ UNCHANGED faults

\* apply_setattr when save_index fails: memory has the new size, disk has not.
TruncateUnsaved(new) ==
    LET plan == truncate(size, new)
    IN  /\ Fault
        /\ Applies(plan)
        /\ saved_may' = SavedMayAfter(plan)
        /\ saved_harm' = saved_harm \cup Resized(plan.new)
        /\ UNCHANGED saved

\* What is left when a plan ends early with the data file as given: the caller
\* gets EIO and the entry keeps its size.
Abandons(plan, file) ==
    /\ data' = file
    /\ may' = MayHalf(may, plan)
    /\ saved_may' = SavedMayAfter(plan)
    /\ UNCHANGED <<size, saved>>

\* The loop meets a block it cannot read; the blocks before it stay re-sealed.
Refused(plan) ==
    /\ plan.opens
    /\ \E k \in plan.from .. plan.until - 1 :
        /\ Stops(open_rw(data), content_key, plan, k)
        /\ Abandons(plan, Resealed(open_rw(data), content_key, plan, k))
    /\ UNCHANGED <<faults, harm, saved_harm>>

\* An I/O error (a full disk, say) at some block, which it may tear, or at
\* set_len.
Fails(plan) ==
    /\ Fault
    /\ plan.opens
    /\ \E k \in plan.from .. plan.until :
        LET file == Resealed(open_rw(data), content_key, plan, k) IN
        /\ \A i \in plan.from .. k - 1 : CanEdit(open_rw(data), content_key, plan, i)
        /\ \/ Abandons(plan, file)
           \/ /\ k < plan.until
              /\ CanEdit(open_rw(data), content_key, plan, k)
              /\ Abandons(plan, tear_block(file, k))
    /\ harm' = harm \cup HarmHalf(plan)
    /\ saved_harm' = saved_harm \cup (HarmHalf(plan) \cap (0 .. block_count(saved) - 1))

\* flush_index after a write: fsync, close or unmount.
Flush ==
    /\ saved' = size
    /\ saved_may' = may
    /\ saved_harm' = harm
    /\ UNCHANGED <<data, size, faults, may, harm>>

\* The process dies and the volume is mounted again from the saved index.
Crash ==
    /\ Fault
    /\ size' = saved
    /\ may' = saved_may
    /\ harm' = saved_harm
    /\ UNCHANGED <<data, saved, saved_may, saved_harm>>

Writes == {w \in (0 .. MaxSize - 1) \X UNION {[1 .. n -> Byte] : n \in 1 .. MaxWrite} :
            w[1] + Len(w[2]) <= MaxSize}

Plans == {write_range(size, w[1], w[2]) : w \in Writes}
            \cup {truncate(size, new) : new \in 0 .. MaxSize}

Next ==
    \/ \E w \in Writes : Write(w[1], w[2])
    \/ \E new \in 0 .. MaxSize : Truncate(new) \/ TruncateUnsaved(new)
    \/ \E plan \in Plans : Refused(plan) \/ Fails(plan)
    \/ Flush
    \/ Crash

Spec == Init /\ [][Next]_vars

-----------------------------------------------------------------------------
(* Properties *)

Ranges == (0 .. MaxSize) \X (1 .. MaxSize + 1)

\* The blocks of the file that the range [offset, offset+len) meets.
BlocksOf(offset, len) ==
    {b \in 0 .. block_count(size) - 1 : b * B < offset + len /\ offset < (b + 1) * B}

\* Every read returns the bytes of the array from its offset up to its length
\* or the end of the file, each with a value that was written there (or the
\* fill byte of a hole), or it is refused because it meets a block that an
\* interrupted or unsaved operation could have harmed.  No history of writes,
\* truncates, errors and crashes makes blocks.rs return bytes of a shorter or
\* longer past of the file.
ReadsAreHonest ==
    data # Missing =>
    \A r \in Ranges :
        LET got == do_read(data, content_key, size, r[1], r[2])
            n   == Most(0, Least(r[2], size - r[1]))
        IN  IF got.ok
            THEN /\ Len(got.data) = n
                 /\ \A p \in 1 .. n : got.data[p] \in may[r[1] + p - 1]
            ELSE BlocksOf(r[1], r[2]) \cap harm # {}

\* A data file is missing only while the file is empty in memory and on disk:
\* do_read may then answer with no bytes.
MissingMeansEmpty == data = Missing => size = 0 /\ saved = 0

\* The block loop is stopped only by a harmed block: as long as nothing was
\* interrupted or lost, every write and truncate of every length goes through.
OnlyHarmRefuses ==
    harm = {} =>
    \A plan \in Plans : plan.opens =>
        \A i \in plan.from .. plan.until - 1 :
            CanEdit(open_rw(data), content_key, plan, i)
=============================================================================
