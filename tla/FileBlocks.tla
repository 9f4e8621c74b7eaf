----------------------------- MODULE FileBlocks -----------------------------
(***************************************************************************)
(* The block format of a pqfs data file (src/fs/blocks.rs).                *)
(*                                                                         *)
(* A file of `size' plaintext bytes is cut into blocks of B bytes, all of  *)
(* them full except perhaps the last.  Block i is sealed on its own under  *)
(* the file's content key, with i authenticated, and stored in slot i of   *)
(* the data file.  Nothing stored says how long a record is: the reader    *)
(* derives the length from the size in the directory index, so a record    *)
(* opens only while its plaintext length is the one that size implies.     *)
(*                                                                         *)
(* A data file is a function from 0 .. n-1 to records, or Missing.  A      *)
(* record carries the key that sealed it, the block index it was sealed    *)
(* for and its plaintext.  Nonces, tags and byte offsets are abstracted.   *)
(***************************************************************************)
EXTENDS Integers, Sequences, SequencesExt

CONSTANTS B,         \* BLOCK_PLAINTEXT, 65536 in the code
          Missing    \* the state of a data path at which there is no file

ASSUME BAssumption == B \in Nat \ {0}

\* The file open_rw creates.
Empty == [i \in {} |-> <<>>]

Least(a, b) == IF a <= b THEN a ELSE b

Most(a, b) == IF a >= b THEN a ELSE b

block_count(size) == (size + B - 1) \div B

\* Mutant: no block is ever full.
plaintext_rest(size, i) == IF i * B >= size THEN 0 ELSE size - i * B

\* Bytes of plaintext in block i of a file of the given size.
plaintext_len(size, i) ==
    IF i * B >= size THEN 0 ELSE Least(size - i * B, B)

saturating_pred(n) == IF n = 0 THEN 0 ELSE n - 1

-----------------------------------------------------------------------------
(* Records *)

Sealed(key, i, plain) == [key |-> key, index |-> i, plain |-> plain]

\* What a write of one record leaves when it stops part of the way: no key
\* opens it.
Torn(i) == [key |-> Missing, index |-> i, plain |-> <<>>]

\* decrypt_block succeeds: the slot holds a record sealed for this index under
\* this key, and the length read is the length sealed.
Readable(f, key, size, i) ==
    /\ i \in DOMAIN f
    /\ f[i].key = key
    /\ f[i].index = i
    /\ Len(f[i].plain) = plaintext_len(size, i)

tear_block(f, i) ==
    [j \in DOMAIN f \cup {i} |-> IF j = i THEN Torn(i) ELSE f[j]]

set_len(f, n) == [j \in DOMAIN f \cap (0 .. n-1) |-> f[j]]

open_rw(f) == IF f = Missing THEN Empty ELSE f

-----------------------------------------------------------------------------
(* Reading *)

Bytes(data) == [ok |-> TRUE, data |-> data]

EIO == [ok |-> FALSE, data |-> <<>>]

\* The blocks of [offset, end), each decrypted, each sliced to the range.
read_range(f, key, size, offset, len) ==
    IF offset >= size \/ len = 0
    THEN Bytes(<<>>)
    ELSE LET end   == Least(offset + len, size)
             first == offset \div B
             last  == (end - 1) \div B
             slice(i) ==
                LET from == Most(offset - i * B, 0)
                    to   == Least(end - i * B, Len(f[i].plain))
                IN  SubSeq(f[i].plain, from + 1, to)
         IN  IF \A i \in first .. last : Readable(f, key, size, i)
             THEN Bytes(FlattenSeq([n \in 1 .. last - first + 1 |->
                                      slice(first + n - 1)]))
             ELSE EIO

\* A file whose data was never written has no data file: it reads as empty.
do_read(f, key, size, offset, len) ==
    IF f = Missing THEN Bytes(<<>>) ELSE read_range(f, key, size, offset, len)

-----------------------------------------------------------------------------
(* Writing and truncating.  Both are a loop that re-seals the blocks        *)
(* from .. until-1 in order, followed by set_len; they differ in the plan   *)
(* of that loop.                                                            *)

\* Mutant: a write behind the end leaves the old last block as short as it was.
write_from_offset(size, offset, data) ==
    LET new == Most(size, offset + Len(data))
    IN  [old    |-> size,
         new    |-> new,
         offset |-> offset,
         data   |-> data,
         opens  |-> block_count(new) # 0,
         from   |-> offset \div B,
         until  |-> block_count(new)]

write_range(size, offset, data) ==
    LET new == Most(size, offset + Len(data))
    IN  [old    |-> size,
         new    |-> new,
         offset |-> offset,
         data   |-> data,
         opens  |-> block_count(new) # 0,
         from   |-> Least(offset \div B, saturating_pred(block_count(size))),
         until  |-> block_count(new)]

shrink(size, new) ==
    [old    |-> size,
     new    |-> new,
     offset |-> new,
     data   |-> <<>>,
     opens  |-> new # size,
     from   |-> saturating_pred(block_count(new)),
     until  |-> block_count(new)]

\* truncate: growing is a write of no bytes at the new end.  A truncate to the
\* present size returns before it opens the file.
truncate(size, new) ==
    IF new > size THEN write_range(size, new, <<>>) ELSE shrink(size, new)

\* The plaintext the loop seals in block i: the old plaintext, cut or
\* zero-extended to the new length, with the bytes of the write on top.
edited(f, plan, i) ==
    LET old   == IF i < block_count(plan.old) THEN f[i].plain ELSE <<>>
        inData(p) == /\ plan.offset <= i * B + p - 1
                     /\ i * B + p - 1 < plan.offset + Len(plan.data)
    IN  [p \in 1 .. plaintext_len(plan.new, i) |->
            CASE inData(p) -> plan.data[i * B + p - plan.offset]
              [] ~inData(p) /\ p <= Len(old) -> old[p]
              [] OTHER -> 0]

\* Mutant: the loop also reads the block behind the last one.
CanEditInclusive(f, key, plan, i) ==
    i <= block_count(plan.old) => Readable(f, key, plan.old, i)

\* The loop reads a block before it re-seals it, unless the block is new.
CanEdit(f, key, plan, i) ==
    i < block_count(plan.old) => Readable(f, key, plan.old, i)

\* The file after the blocks from .. k-1 were re-sealed.
Resealed(f, key, plan, k) ==
    [j \in DOMAIN f \cup (plan.from .. k-1) |->
        IF j \in plan.from .. k-1
        THEN Sealed(key, j, edited(f, plan, j))
        ELSE f[j]]

\* Where the loop stops: at the first block it cannot read, else at the end.
Stops(f, key, plan, k) ==
    /\ k \in plan.from .. plan.until
    /\ \A i \in plan.from .. k-1 : CanEdit(f, key, plan, i)
    /\ k = plan.until \/ ~CanEdit(f, key, plan, k)

\* Mutant: an emptied data file is removed.
AppliedOrRemoved(f, key, plan) ==
    IF plan.until = 0 THEN Missing
    ELSE set_len(Resealed(open_rw(f), key, plan, plan.until), plan.until)

\* The file the whole operation leaves when nothing goes wrong.
Applied(f, key, plan) ==
    IF plan.opens
    THEN set_len(Resealed(open_rw(f), key, plan, plan.until), plan.until)
    ELSE f
=============================================================================
