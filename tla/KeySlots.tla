------------------------------ MODULE KeySlots ------------------------------
(***************************************************************************)
(* The key slots of a volume and the commands that edit them               *)
(* (src/commands.rs, with the slot functions of src/crypto/volume.rs and   *)
(* the credential arguments of src/cli.rs).                                *)
(*                                                                         *)
(* The header has a list of slots, each the master key wrapped for one     *)
(* credential, and a MAC made with that key; the index is encrypted under  *)
(* it.  share, revoke and passwd read the header, open the master key with *)
(* the caller's credential, edit their copy and write it back.  rekey      *)
(* reads the header twice, rewraps every slot for a new key and swaps      *)
(* header and index.  A mounted volume keeps the key it was opened with    *)
(* and saves the index under it.                                           *)
(*                                                                         *)
(* Nothing stops two processes from working on one backend: between the    *)
(* step in which a process reads the header and the one in which it writes *)
(* (for passwd that takes as long as typing a password twice) another may  *)
(* do the same.  Here a write is atomic; module RekeyCommit takes the swap *)
(* apart, module SharedBackend the writes.                                 *)
(***************************************************************************)
EXTENDS Naturals, Sequences, SequencesExt

CONSTANTS Proc,         \* processes that may run at the same time
          Password, Identity,
          None,         \* an option that was not given
          MaxCommands,  \* bound: commands and mounts started
          MaxKey        \* bound: master keys drawn

Credential == Password \cup Identity

Key == 1 .. MaxKey

ASSUME KeySlotsAssumption ==
    /\ Password \cap Identity = {}
    /\ None \notin Credential
    /\ MaxCommands \in Nat
    /\ MaxKey \in Nat \ {0}

\* The credential arguments after resolve: whoever gives no identity is asked
\* for a password.
Args ==
    {a \in [password : Password \cup {None}, identity : Identity \cup {None}] :
        a.identity # None \/ a.password # None}

VARIABLES header,      \* [slots, mac]: pqfs.header
          index_key,   \* the key that opens pqfs.index
          proc,        \* what each process is doing
          next_key,
          commands,
          learned,     \* ghost: (c, k) when a slot for c ever wrapped k
          since,       \* ghost: the credentials with a slot since the last rekey
          gone,        \* ghost: the credentials revoked and not given back
          raced        \* ghost: a process has written what it made from an
                       \* outdated copy of the header

ghosts == <<learned, since, gone, raced>>
vars == <<header, index_key, proc, next_key, commands, ghosts>>

Idle == [pc |-> "idle"]

-----------------------------------------------------------------------------
(* Slots *)

\* A slot for a password or for a recipient; only its credential unwraps it.
KeySlot(who, key) == [who |-> who, key |-> key]

password_slot(p, key) == KeySlot(p, key)

recipient_slot(id, key) == KeySlot(id, key)

IsPassword(slot) == slot.who \in Password

\* The opened identity takes precedence over a password.
unlock(args) == IF args.identity # None THEN args.identity ELSE args.password

Opens(h, who) == \E i \in DOMAIN h.slots : h.slots[i].who = who

\* The key in the first slot that accepts the credential.
open_master_key(h, who) ==
    h.slots[SelectInSeq(h.slots, LAMBDA slot : slot.who = who)].key

\* verify_header_mac: the header was sealed with the key its slot wraps.
verify_header_mac(h, key) == h.mac = key

seal_header(slots, key) == [slots |-> slots, mac |-> key]

Openers(h) == {h.slots[i].who : i \in DOMAIN h.slots}

-----------------------------------------------------------------------------
(* share, revoke and passwd *)

Begin(p, state) ==
    /\ proc[p] = Idle
    /\ commands < MaxCommands
    /\ commands' = commands + 1
    /\ proc' = [proc EXCEPT ![p] = state]
    /\ UNCHANGED <<header, index_key, next_key, ghosts>>

End(p) == proc' = [proc EXCEPT ![p] = Idle]

\* The common start of the three: a credential that opens no slot is an error.
\* The MAC is not looked at.
Open(p, args) ==
    /\ Opens(header, unlock(args))
    /\ Begin(p, [pc |-> "edit", header |-> header,
                 key |-> open_master_key(header, unlock(args))])

\* The header has changed since the process read it; for a mounted volume, the
\* master key has.
Outdated(p) ==
    IF proc[p].pc = "mounted" THEN proc[p].key # header.mac ELSE proc[p].header # header

\* The header file is replaced.  Whoever has a slot in it knows the key from now
\* on; a credential that was added is back, one that was removed is gone.
Publish(h, added, removed) ==
    /\ header' = h
    /\ learned' = learned \cup {<<h.slots[i].who, h.slots[i].key>> : i \in DOMAIN h.slots}
    /\ gone' = (gone \ added) \cup removed

\* write_header of the edited copy.
write_header(p, slots, added, removed) ==
    /\ Publish(seal_header(slots, proc[p].key), added, removed)
    /\ since' = since \cup Openers(header')
    /\ raced' = (raced \/ Outdated(p))
    /\ End(p)
    /\ UNCHANGED <<index_key, next_key, commands>>

\* Mutant: the slot is appended to the header as it is by now.
ShareOnFresh(p, to) ==
    /\ proc[p].pc = "edit"
    /\ write_header(p, Append(header.slots, recipient_slot(to, proc[p].key)), {to}, {})

share(p, to) ==
    /\ proc[p].pc = "edit"
    /\ write_header(p, Append(proc[p].header.slots, recipient_slot(to, proc[p].key)), {to}, {})

\* The credential of slot i, if it has no other.
OnlyIn(slots, i) == {slots[i].who} \ {slots[j].who : j \in DOMAIN slots \ {i}}

\* Mutant: the only slot may go.
RevokeAny(p, i) ==
    LET slots == proc[p].header.slots IN
    /\ proc[p].pc = "edit"
    /\ i \in DOMAIN slots
    /\ write_header(p, RemoveAt(slots, i), {}, OnlyIn(slots, i))

\* Mutant: the last slot goes, whichever was named.
RevokeLast(p, i) ==
    LET slots == proc[p].header.slots IN
    /\ proc[p].pc = "edit"
    /\ i \in DOMAIN slots
    /\ Len(slots) # 1
    /\ write_header(p, RemoveAt(slots, Len(slots)), {}, OnlyIn(slots, i))

revoke(p, i) ==
    LET slots == proc[p].header.slots IN
    /\ proc[p].pc = "edit"
    /\ i \in DOMAIN slots
    /\ Len(slots) # 1
    /\ write_header(p, RemoveAt(slots, i), {}, OnlyIn(slots, i))

\* Mutant: the password slot is taken to be the first.
FirstSlot(slots) == 1

FirstPassword(slots) == SelectInSeq(slots, IsPassword)

\* The new password replaces the first password slot, or gets a slot of its own.
passwd(p, new) ==
    LET slots == proc[p].header.slots
        i     == FirstPassword(slots)
        slot  == password_slot(new, proc[p].key)
    IN
    /\ proc[p].pc = "edit"
    /\ \/ i # 0 /\ write_header(p, ReplaceAt(slots, i, slot), {new}, {})
       \/ i = 0 /\ write_header(p, Append(slots, slot), {new}, {})

-----------------------------------------------------------------------------
(* rekey *)

\* Crypto::unlock: the header is read, opened and its MAC verified.
Unlocked(args, key) ==
    /\ Opens(header, unlock(args))
    /\ key = open_master_key(header, unlock(args))
    /\ verify_header_mac(header, key)

rekey(p, args) ==
    \E key \in Key :
        /\ Unlocked(args, key)
        /\ Begin(p, [pc |-> "rewrap", args |-> args, key |-> key])

\* A password slot is wrapped for the password the caller supplied.
Rewrap(slot, args, key) ==
    IF IsPassword(slot) THEN password_slot(args.password, key)
    ELSE recipient_slot(slot.who, key)

\* Mutant: the old key is used again.
SameKey(p) == proc[p].key

random_master_key(p) == next_key

\* Mutant: a password slot is wrapped for no password at all.
NoPasswordNeeded(args, slots) == args \in Args

require_password(args, slots) == FirstPassword(slots) # 0 => args.password # None

\* The header is read again and every slot rewrapped for a new key.
RewrapSlots(p) ==
    LET new  == random_master_key(p)
        args == proc[p].args
    IN
    /\ proc[p].pc = "rewrap"
    /\ require_password(args, header.slots)
    /\ next_key \in Key
    /\ next_key' = next_key + 1
    /\ proc' = [proc EXCEPT ![p] =
                  [pc |-> "index", header |-> header, args |-> args, key |-> proc[p].key, new |-> new,
                   slots |-> [i \in DOMAIN header.slots |-> Rewrap(header.slots[i], args, new)]]]
    /\ UNCHANGED <<header, index_key, commands, ghosts>>

\* rekey_index: the index is read and opened with the old key.
RekeyIndex(p) ==
    /\ proc[p].pc = "index"
    /\ index_key = proc[p].key
    /\ proc' = [proc EXCEPT ![p].pc = "commit"]
    /\ UNCHANGED <<header, index_key, next_key, commands, ghosts>>

\* The passwords that slots were wrapped for.
Passwords(slots) == {slots[i].who : i \in DOMAIN slots} \cap Password

\* Mutant: only the header is swapped in.
CommitHeader(p) ==
    /\ proc[p].pc = "commit"
    /\ Publish(seal_header(proc[p].slots, proc[p].new), Passwords(proc[p].slots), {})
    /\ since' = Openers(header')
    /\ raced' = (raced \/ Outdated(p))
    /\ End(p)
    /\ UNCHANGED <<index_key, next_key, commands>>

\* commit_rekey: the new header and the new index are swapped in.
CommitRekey(p) ==
    /\ proc[p].pc = "commit"
    /\ Publish(seal_header(proc[p].slots, proc[p].new), Passwords(proc[p].slots), {})
    /\ index_key' = proc[p].new
    /\ since' = Openers(header')
    /\ raced' = (raced \/ Outdated(p))
    /\ End(p)
    /\ UNCHANGED <<next_key, commands>>

-----------------------------------------------------------------------------
(* A mounted volume, and a command that ends early *)

\* Pqfs::mount: unlock, then load, which opens the index.
mount(p, args) ==
    /\ Unlocked(args, index_key)
    /\ Begin(p, [pc |-> "mounted", key |-> index_key])

\* save_index encrypts under the key the volume was opened with.
save_index(p) ==
    /\ proc[p].pc = "mounted"
    /\ index_key' = proc[p].key
    /\ raced' = (raced \/ Outdated(p))
    /\ UNCHANGED <<header, proc, next_key, commands, learned, since, gone>>

\* The volume is unmounted; or a command gives up (the passwords do not match,
\* there is no such slot, it is the only one, a password is needed, the index
\* does not open) or is killed.  Its copies go with it.
Quit(p) ==
    /\ proc[p] # Idle
    /\ End(p)
    /\ UNCHANGED <<header, index_key, next_key, commands, ghosts>>

-----------------------------------------------------------------------------

\* init_with_params: one password slot.
Init ==
    /\ \E pw \in Password : header = seal_header(<<password_slot(pw, 1)>>, 1)
    /\ index_key = 1
    /\ proc = [p \in Proc |-> Idle]
    /\ next_key = 2
    /\ commands = 0
    /\ learned = {<<who, 1>> : who \in Openers(header)}
    /\ since = Openers(header)
    /\ gone = {}
    /\ raced = FALSE

Command(p) ==
    \/ \E args \in Args : Open(p, args) \/ rekey(p, args) \/ mount(p, args)
    \/ \E to \in Identity : share(p, to)
    \/ proc[p].pc = "edit" /\ \E i \in DOMAIN proc[p].header.slots : revoke(p, i)
    \/ \E new \in Password : passwd(p, new)
    \/ RewrapSlots(p) \/ RekeyIndex(p) \/ CommitRekey(p)
    \/ save_index(p)
    \/ Quit(p)

Next == \E p \in Proc : Command(p)

Spec == Init /\ [][Next]_vars

-----------------------------------------------------------------------------
(* Properties *)

Slot == [who : Credential, key : Key]

TypeOK ==
    /\ header \in [slots : Seq(Slot), mac : Key]
    /\ index_key \in Key
    /\ \A p \in Proc : proc[p].pc \in {"idle", "edit", "rewrap", "index", "commit", "mounted"}
    /\ next_key \in 2 .. MaxKey + 1
    /\ commands \in 0 .. MaxCommands
    /\ learned \subseteq Credential \X Key
    /\ since \subseteq Credential
    /\ gone \subseteq Credential
    /\ raced \in BOOLEAN

\* The header is of one piece: every slot wraps the key it was sealed with, so
\* whichever credential opens it, the MAC verifies.  This holds even for the
\* commands of several processes, which overwrite each other's headers.
OneKeyPerHeader == \A i \in DOMAIN header.slots : header.slots[i].key = header.mac

\* "A volume always keeps at least one slot" (README.md), even when two revokes
\* cross; and it never has two password slots, which rekey would give one
\* password.
SlotsInBounds ==
    /\ header.slots # <<>>
    /\ \A i, j \in DOMAIN header.slots :
        IsPassword(header.slots[i]) /\ IsPassword(header.slots[j]) => i = j

\* Every credential with a slot opens the index as well, and while processes work
\* at the same time this can only be undone by one that writes what it made from
\* an outdated copy.
VolumeOpens == ~raced => \A i \in DOMAIN header.slots : header.slots[i].key = index_key

\* A rekey retires the master key: a credential that had lost its slot before the
\* last rekey, and was not given one since, never held a slot that wraps the
\* key the index is under now, whatever old headers its owner kept.
RekeyRetires ==
    ~raced => \A who \in Credential : <<who, index_key>> \in learned => who \in since

\* "Revoking a slot removes that credential from the live volume" (README.md): a
\* credential that revoke took away has no slot until a command that names it
\* gives it one again, or an outdated copy of the header is written back.
RevokedStaysOut == ~raced => gone \cap Openers(header) = {}

List == INSTANCE AccessList WITH
            access <- [i \in DOMAIN header.slots |-> header.slots[i].who]

\* As long as no outdated copy is written back, commands are steps of a list of
\* credentials, each changing the one entry it is about: a rekey leaves every
\* recipient where they are, and no one but the holder of the password out.
CommandsEditTheList == List!Init /\ [][raced' \/ List!Next]_(List!vars)
=============================================================================
