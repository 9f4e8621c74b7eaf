--------------------------- MODULE KeySlotsProofs ---------------------------
(***************************************************************************)
(* Proofs about the key slots: for any number of processes, credentials,   *)
(* commands and keys, and whatever order their steps come in, the header   *)
(* is of one piece and keeps a slot (also when processes overwrite each    *)
(* other's headers), and as long as no outdated copy is written back the   *)
(* header opens the index, a rekey retires the old keys, who was revoked   *)
(* stays out, and the commands are edits of a list of credentials.         *)
(***************************************************************************)
EXTENDS KeySlots, SequenceTheorems, WellFoundedInduction, TLAPS

\* A set of numbers that is not empty has a least element, and Min names it.
LEMMA MinIsLeast ==
    ASSUME NEW S, S \subseteq Nat, S # {}
    PROVE  Min(S) \in S /\ \A y \in S : Min(S) <= y
<1> DEFINE R == {ss \in Nat \X Nat : ss[1] < ss[2]}
<1>1. IsWellFoundedOn(R, Nat)
  BY NatLessThanWellFounded, Zenon DEF OpToRel
<1>2. PICK x \in S : \A y \in S : ~(<<y, x>> \in R)
  BY <1>1, WFMin
<1>3. \A y \in S : x <= y
  <2> TAKE y \in S
  <2>1. y \in Nat /\ x \in Nat /\ <<y, x>> \notin R
    BY <1>2
  <2>2. ~(y < x)
    BY <2>1
  <2> QED BY <2>1, <2>2
<1> QED BY <1>3 DEF Min

\* FirstPassword finds the password slot, if there is one.
LEMMA PasswordSlot ==
    ASSUME NEW s \in Seq(Slot)
    PROVE  /\ FirstPassword(s) = 0 => \A i \in DOMAIN s : ~IsPassword(s[i])
           /\ FirstPassword(s) # 0 => FirstPassword(s) \in DOMAIN s /\ IsPassword(s[FirstPassword(s)])
<1> DEFINE I == {i \in 1 .. Len(s) : IsPassword(s[i])}
<1>1. I \subseteq Nat /\ DOMAIN s = 1 .. Len(s)
  OBVIOUS
<1>2. I # {} => Min(I) \in I
  BY <1>1, MinIsLeast
<1>3. FirstPassword(s) = IF I # {} THEN Min(I) ELSE 0
  BY DEF FirstPassword, SelectInSeq
<1> QED BY <1>1, <1>2, <1>3

-----------------------------------------------------------------------------

\* The credentials of a list of slots.
Whose(s) == {s[i].who : i \in DOMAIN s}

\* A list of slots that a header may have: at least one, all for the key k, and
\* at most one password.
SoundSlots(s, k) ==
    /\ s \in Seq(Slot)
    /\ s # <<>>
    /\ \A i \in DOMAIN s : s[i].key = k
    /\ \A i, j \in DOMAIN s : IsPassword(s[i]) /\ IsPassword(s[j]) => i = j

\* share and passwd add a slot to a sound list.
LEMMA AppendSound ==
    ASSUME NEW k \in Key, NEW s, SoundSlots(s, k),
           NEW slot \in Slot, slot.key = k,
           IsPassword(slot) => \A i \in DOMAIN s : ~IsPassword(s[i])
    PROVE  /\ SoundSlots(Append(s, slot), k)
           /\ Whose(Append(s, slot)) = Whose(s) \cup {slot.who}
<1> DEFINE t == Append(s, slot)
<1>1. s \in Seq(Slot) /\ DOMAIN s = 1 .. Len(s) /\ Len(s) \in Nat
  BY DEF SoundSlots
<1>2. /\ t \in Seq(Slot) /\ t # <<>> /\ Len(t) = Len(s) + 1
      /\ DOMAIN t = 1 .. Len(s) + 1
      /\ \A i \in DOMAIN s : t[i] = s[i]
      /\ t[Len(s) + 1] = slot
  BY <1>1, AppendProperties
<1>3. \A i \in DOMAIN t : i \in DOMAIN s \/ i = Len(s) + 1
  BY <1>1, <1>2
<1> HIDE DEF t
<1>4. SoundSlots(t, k)
  BY <1>1, <1>2, <1>3 DEF SoundSlots
<1>5. Whose(t) = Whose(s) \cup {slot.who}
  <2>1. Whose(t) \subseteq Whose(s) \cup {slot.who}
    BY <1>1, <1>2, <1>3 DEF Whose
  <2>2. Whose(s) \subseteq Whose(t)
    BY <1>1, <1>2 DEF Whose
  <2>3. slot.who \in Whose(t)
    <3>1. Len(s) + 1 \in DOMAIN t
      BY <1>1, <1>2
    <3> QED BY <1>2, <3>1 DEF Whose
  <2> QED BY <2>1, <2>2, <2>3
<1> QED BY <1>4, <1>5 DEF t

\* passwd puts the new password where the old one was.
LEMMA ReplaceSound ==
    ASSUME NEW k \in Key, NEW s, SoundSlots(s, k), NEW n \in DOMAIN s,
           IsPassword(s[n]), NEW slot \in Slot, slot.key = k
    PROVE  /\ SoundSlots(ReplaceAt(s, n, slot), k)
           /\ Whose(ReplaceAt(s, n, slot)) \subseteq Whose(s) \cup {slot.who}
           /\ DOMAIN ReplaceAt(s, n, slot) = DOMAIN s
<1> DEFINE t == ReplaceAt(s, n, slot)
<1>1. s \in Seq(Slot) /\ DOMAIN s = 1 .. Len(s) /\ Len(s) \in Nat
  BY DEF SoundSlots
<1>2. /\ t \in Seq(Slot) /\ Len(t) = Len(s) /\ DOMAIN t = DOMAIN s
      /\ \A i \in DOMAIN s : t[i] = IF i = n THEN slot ELSE s[i]
  BY <1>1, ExceptSeq DEF ReplaceAt
<1>3. t # <<>>
  BY <1>1, <1>2
<1> HIDE DEF t
<1>4. SoundSlots(t, k)
  BY <1>1, <1>2, <1>3 DEF SoundSlots
<1>5. Whose(t) \subseteq Whose(s) \cup {slot.who}
  BY <1>1, <1>2 DEF Whose
<1> QED BY <1>2, <1>4, <1>5 DEF t

\* What is left when slot n is taken out: the slots before it, and those after it
\* one place further down.
LEMMA RemoveAtProperties ==
    ASSUME NEW T, NEW s \in Seq(T), NEW n \in DOMAIN s
    PROVE  /\ RemoveAt(s, n) \in Seq(T)
           /\ Len(RemoveAt(s, n)) = Len(s) - 1
           /\ DOMAIN RemoveAt(s, n) = 1 .. Len(s) - 1
           /\ \A i \in 1 .. Len(s) - 1 :
                RemoveAt(s, n)[i] = IF i < n THEN s[i] ELSE s[i + 1]
<1> DEFINE a == SubSeq(s, 1, n - 1)
           b == SubSeq(s, n + 1, Len(s))
<1>1. DOMAIN s = 1 .. Len(s) /\ Len(s) \in Nat /\ n \in 1 .. Len(s)
      /\ \A i \in 1 .. Len(s) : s[i] \in T
  BY LenProperties
<1>2. /\ a \in Seq(T) /\ Len(a) = n - 1
      /\ \A i \in 1 .. n - 1 : a[i] = s[i]
  <2>1. \A i \in 1 .. n - 1 : s[i] \in T
    BY <1>1
  <2>2. /\ a \in Seq(T) /\ Len(a) = IF 1 <= n - 1 THEN n - 1 - 1 + 1 ELSE 0
        /\ \A i \in 1 .. n - 1 - 1 + 1 : a[i] = s[1 + i - 1]
    BY <1>1, <2>1, SubSeqProperties
  <2> QED BY <1>1, <2>2
<1>3. /\ b \in Seq(T) /\ Len(b) = Len(s) - n
      /\ \A i \in 1 .. Len(s) - n : b[i] = s[n + i]
  <2>1. \A i \in n + 1 .. Len(s) : s[i] \in T
    BY <1>1
  <2>2. /\ b \in Seq(T) /\ Len(b) = IF n + 1 <= Len(s) THEN Len(s) - (n + 1) + 1 ELSE 0
        /\ \A i \in 1 .. Len(s) - (n + 1) + 1 : b[i] = s[n + 1 + i - 1]
    BY <1>1, <2>1, SubSeqProperties
  <2> HIDE DEF b
  <2>3. Len(b) = Len(s) - n
    BY <1>1, <2>2
  <2>4. ASSUME NEW i \in 1 .. Len(s) - n
        PROVE  b[i] = s[n + i]
    <3>1. i \in 1 .. Len(s) - (n + 1) + 1 /\ n + 1 + i - 1 = n + i
      BY <1>1
    <3>2. b[i] = s[n + 1 + i - 1]
      BY <2>2, <3>1
    <3> QED BY <3>1, <3>2
  <2> QED BY <2>2, <2>3, <2>4
<1> HIDE DEF a, b
<1>4. /\ a \o b \in Seq(T) /\ Len(a \o b) = Len(s) - 1
      /\ \A i \in 1 .. Len(s) - 1 : (a \o b)[i] = IF i <= n - 1 THEN a[i] ELSE b[i - (n - 1)]
  <2>1. /\ a \o b \in Seq(T) /\ Len(a \o b) = Len(a) + Len(b)
        /\ \A i \in 1 .. Len(a) + Len(b) :
            (a \o b)[i] = IF i <= Len(a) THEN a[i] ELSE b[i - Len(a)]
    BY <1>2, <1>3, ConcatProperties
  <2>2. Len(a) + Len(b) = Len(s) - 1
    BY <1>1, <1>2, <1>3
  <2> QED BY <1>2, <2>1, <2>2
<1>5. \A i \in 1 .. Len(s) - 1 : (a \o b)[i] = IF i < n THEN s[i] ELSE s[i + 1]
  <2> TAKE i \in 1 .. Len(s) - 1
  <2>1. CASE i < n
    BY <1>1, <1>2, <1>4, <2>1
  <2>2. CASE ~(i < n)
    <3>1. i - (n - 1) \in 1 .. Len(s) - n /\ n + (i - (n - 1)) = i + 1
      BY <1>1, <2>2
    <3>2. (a \o b)[i] = b[i - (n - 1)]
      BY <1>1, <1>4, <2>2
    <3>3. b[i - (n - 1)] = s[i + 1]
      BY <1>3, <3>1
    <3> QED BY <2>2, <3>2, <3>3
  <2> QED BY <2>1, <2>2
<1>6. DOMAIN (a \o b) = 1 .. Len(s) - 1
  BY <1>4, LenProperties
<1> QED BY <1>4, <1>5, <1>6 DEF RemoveAt, a, b

\* revoke leaves the other slots, and so somebody who can open the volume.
LEMMA RemoveSound ==
    ASSUME NEW k \in Key, NEW s, SoundSlots(s, k), NEW n \in DOMAIN s, Len(s) # 1
    PROVE  /\ SoundSlots(RemoveAt(s, n), k)
           /\ Whose(RemoveAt(s, n)) = {s[j].who : j \in DOMAIN s \ {n}}
<1> DEFINE t == RemoveAt(s, n)
<1>1. s \in Seq(Slot) /\ DOMAIN s = 1 .. Len(s) /\ Len(s) \in Nat /\ s # <<>>
  BY DEF SoundSlots
<1>2. /\ t \in Seq(Slot) /\ Len(t) = Len(s) - 1 /\ DOMAIN t = 1 .. Len(s) - 1
      /\ \A i \in DOMAIN t : t[i] = IF i < n THEN s[i] ELSE s[i + 1]
  BY <1>1, RemoveAtProperties
<1>3. t # <<>>
  BY <1>1, <1>2
<1> HIDE DEF t
<1> DEFINE At(i) == IF i < n THEN i ELSE i + 1
<1>4. \A i \in DOMAIN t : At(i) \in DOMAIN s \ {n} /\ t[i] = s[At(i)]
  BY <1>1, <1>2
<1>5. \A i, j \in DOMAIN t : At(i) = At(j) => i = j
  BY <1>1, <1>2
<1>6. \A j \in DOMAIN s \ {n} : \E i \in DOMAIN t : At(i) = j
  <2> TAKE j \in DOMAIN s \ {n}
  <2>1. CASE j < n
    <3>1. j \in DOMAIN t /\ At(j) = j
      BY <1>1, <1>2, <2>1
    <3> QED BY <3>1
  <2>2. CASE ~(j < n)
    <3>1. j - 1 \in DOMAIN t /\ At(j - 1) = j
      BY <1>1, <1>2, <2>2
    <3> QED BY <3>1
  <2> QED BY <2>1, <2>2
<1> HIDE DEF At
<1>7. SoundSlots(t, k)
  <2>1. \A i \in DOMAIN t : t[i].key = k
    BY <1>4 DEF SoundSlots
  <2>2. \A i, j \in DOMAIN t : IsPassword(t[i]) /\ IsPassword(t[j]) => i = j
    BY <1>4, <1>5 DEF SoundSlots
  <2> QED BY <1>2, <1>3, <2>1, <2>2 DEF SoundSlots
<1>8. Whose(t) = {s[j].who : j \in DOMAIN s \ {n}}
  BY <1>4, <1>6 DEF Whose
<1> QED BY <1>7, <1>8 DEF t

-----------------------------------------------------------------------------
(* The inductive invariant *)

SoundHeader(h) == h \in [slots : Seq(Slot), mac : Key] /\ SoundSlots(h.slots, h.mac)

Editing(p) == proc[p].pc = "edit"

Rekeying(p) == proc[p].pc \in {"index", "commit"}

RekeyState ==
    [pc : {"index", "commit"}, header : [slots : Seq(Slot), mac : Key], args : Args,
     key : Key, new : Key, slots : Seq(Slot)]

\* What each process carries from one step to the next: a header as sound as it
\* was when it was read, with its key.
Copies ==
    /\ proc = [p \in Proc |-> proc[p]]
    /\ \A p \in Proc : Editing(p) =>
        SoundHeader(proc[p].header) /\ proc[p].key = proc[p].header.mac
    /\ \A p \in Proc : proc[p].pc = "rewrap" => proc[p].args \in Args /\ proc[p].key \in Key
    /\ \A p \in Proc : proc[p].pc = "mounted" => proc[p].key \in Key
    /\ \A p \in Proc : Rekeying(p) =>
        /\ proc[p] \in RekeyState
        /\ SoundHeader(proc[p].header)
        /\ require_password(proc[p].args, proc[p].header.slots)
        /\ proc[p].slots = [i \in DOMAIN proc[p].header.slots |->
                              Rewrap(proc[p].header.slots[i], proc[p].args, proc[p].new)]

\* Every key in use was drawn.
Drawn ==
    /\ header.mac < next_key
    /\ \A who \in Credential, k \in Key : <<who, k>> \in learned => k < next_key
    /\ \A p \in Proc : Editing(p) => proc[p].key < next_key
    /\ \A p \in Proc : Rekeying(p) => proc[p].new < next_key

\* The key that a rekey is about to bring in is nobody else's: no header, no copy
\* of one and no other rekey has it, and no credential has seen it.
Fresh ==
    \A q \in Proc : Rekeying(q) =>
        /\ header.mac # proc[q].new
        /\ \A who \in Credential : <<who, proc[q].new>> \notin learned
        /\ \A p \in Proc : Editing(p) => proc[p].key # proc[q].new
        /\ \A p \in Proc \ {q} : Rekeying(p) => proc[p].new # proc[q].new

IndexFollows == ~raced => index_key = header.mac

IInv ==
    /\ TypeOK
    /\ SoundHeader(header)
    /\ Copies
    /\ Drawn
    /\ Fresh
    /\ IndexFollows
    /\ RekeyRetires
    /\ RevokedStaysOut

-----------------------------------------------------------------------------
(* Steps *)

\* rekey rewraps a sound list to a sound list, for the same recipients and the
\* password of the caller.
LEMMA RewrapSound ==
    ASSUME NEW h, SoundHeader(h), NEW args \in Args, require_password(args, h.slots),
           NEW new \in Key, NEW s,
           s = [i \in DOMAIN h.slots |-> Rewrap(h.slots[i], args, new)]
    PROVE  /\ SoundSlots(s, new)
           /\ Whose(s) \subseteq Whose(h.slots) \cup {args.password}
<1>1. /\ h.slots \in Seq(Slot) /\ Len(h.slots) \in Nat /\ h.slots # <<>>
      /\ DOMAIN h.slots = 1 .. Len(h.slots)
      /\ \A i \in DOMAIN h.slots : h.slots[i] \in Slot
  BY LenProperties DEF SoundHeader, SoundSlots
<1>2. \A i \in DOMAIN h.slots : IsPassword(h.slots[i]) => args.password \in Password
  BY <1>1, PasswordSlot DEF require_password, Args
<1>3. \A i \in DOMAIN h.slots :
        /\ s[i] \in Slot
        /\ s[i].key = new
        /\ IsPassword(s[i]) => IsPassword(h.slots[i])
        /\ s[i].who \in {h.slots[i].who, args.password}
  BY <1>1, <1>2 DEF Rewrap, password_slot, recipient_slot, KeySlot, Slot, IsPassword, Credential
<1>4. DOMAIN s = DOMAIN h.slots
  OBVIOUS
<1>5. s \in Seq(Slot) /\ s # <<>>
  <2>1. s \in [1 .. Len(h.slots) -> Slot]
    BY <1>1, <1>3
  <2>2. s \in Seq(Slot) /\ Len(s) = Len(h.slots)
    BY <1>1, <2>1
  <2>3. Len(h.slots) # 0
    BY <1>1
  <2> QED BY <2>2, <2>3
<1> QED BY <1>3, <1>4, <1>5 DEF SoundHeader, SoundSlots, Whose

\* Whichever of its slots a credential opens, the key is the one the header was
\* sealed with.
LEMMA OpenedKey ==
    ASSUME NEW h, SoundHeader(h), NEW who, Opens(h, who)
    PROVE  open_master_key(h, who) = h.mac
<1> DEFINE I == {i \in 1 .. Len(h.slots) : h.slots[i].who = who}
<1>1. h.slots \in Seq(Slot) /\ DOMAIN h.slots = 1 .. Len(h.slots)
  BY DEF SoundHeader, SoundSlots
<1>2. I # {} /\ I \subseteq Nat
  BY <1>1 DEF Opens
<1>3. Min(I) \in DOMAIN h.slots
  BY <1>1, <1>2, MinIsLeast
<1>4. open_master_key(h, who) = h.slots[Min(I)].key
  BY <1>2 DEF open_master_key, SelectInSeq
<1> QED BY <1>3, <1>4 DEF SoundHeader, SoundSlots

\* A process moves on without touching the volume.
LEMMA MoveOn ==
    ASSUME IInv, NEW p \in Proc, NEW state,
           proc' = [proc EXCEPT ![p] = state],
           UNCHANGED <<header, index_key, ghosts>>,
           commands' \in 0 .. MaxCommands,
           next_key' \in 2 .. MaxKey + 1, next_key <= next_key',
           state.pc \in {"idle", "edit", "rewrap", "index", "commit", "mounted"},
           state.pc = "edit" =>
             state.header = header /\ state.key = header.mac,
           state.pc = "rewrap" => state.args \in Args /\ state.key \in Key,
           state.pc = "mounted" => state.key \in Key,
           state.pc \in {"index", "commit"} =>
             /\ state \in RekeyState
             /\ SoundHeader(state.header)
             /\ require_password(state.args, state.header.slots)
             /\ state.slots = [i \in DOMAIN state.header.slots |->
                                 Rewrap(state.header.slots[i], state.args, state.new)]
             /\ \/ state.new = next_key /\ next_key' = next_key + 1
                \/ Rekeying(p) /\ state.new = proc[p].new
    PROVE  IInv'
<1> USE DEF IInv
<1>1. /\ proc'[p] = state
      /\ \A q \in Proc \ {p} : proc'[q] = proc[q]
      /\ proc' = [q \in Proc |-> proc'[q]]
  BY DEF Copies
<1>2. header.mac \in Key /\ next_key \in Nat /\ next_key' \in Nat
  BY DEF SoundHeader, TypeOK
<1>3. TypeOK'
  BY <1>1 DEF TypeOK, ghosts
<1>4. SoundHeader(header)' /\ IndexFollows' /\ RekeyRetires' /\ RevokedStaysOut'
  BY DEF SoundHeader, IndexFollows, RekeyRetires, RevokedStaysOut, Openers, ghosts
<1>5. Copies'
  <2>1. \A q \in Proc : (Editing(q))' =>
            SoundHeader(proc'[q].header) /\ proc'[q].key = proc'[q].header.mac
    BY <1>1 DEF Copies, Editing
  <2>2. \A q \in Proc : (Rekeying(q))' =>
            /\ proc'[q] \in RekeyState
            /\ SoundHeader(proc'[q].header)
            /\ require_password(proc'[q].args, proc'[q].header.slots)
            /\ proc'[q].slots = [i \in DOMAIN proc'[q].header.slots |->
                                   Rewrap(proc'[q].header.slots[i], proc'[q].args, proc'[q].new)]
    <3> TAKE q \in Proc
    <3>1. CASE q = p
      BY <1>1, <3>1 DEF Rekeying
    <3>2. CASE q # p
      <4>1. proc'[q] = proc[q]
        BY <1>1, <3>2
      <4> QED BY <4>1 DEF Copies, Rekeying
    <3> QED BY <3>1, <3>2
  <2>3. \A q \in Proc : proc'[q].pc = "rewrap" => proc'[q].args \in Args /\ proc'[q].key \in Key
    BY <1>1 DEF Copies
  <2>4. \A q \in Proc : proc'[q].pc = "mounted" => proc'[q].key \in Key
    BY <1>1 DEF Copies
  <2> QED BY <1>1, <2>1, <2>2, <2>3, <2>4 DEF Copies
<1>6. Drawn'
  <2>1. \A who \in Credential, k \in Key : <<who, k>> \in learned' => k < next_key'
    BY <1>2 DEF Drawn, ghosts, Key
  <2>2. \A q \in Proc : (Editing(q))' => proc'[q].key < next_key'
    <3> TAKE q \in Proc
    <3>1. CASE q = p
      BY <1>1, <1>2, <3>1 DEF Drawn, Editing, Key
    <3>2. CASE q # p
      BY <1>1, <1>2, <3>2 DEF Drawn, Editing, Key, Copies, SoundHeader
    <3> QED BY <3>1, <3>2
  <2>3. \A q \in Proc : (Rekeying(q))' => proc'[q].new < next_key'
    <3> TAKE q \in Proc
    <3>1. CASE q = p
      BY <1>1, <1>2, <3>1 DEF Drawn, Rekeying, Key, RekeyState
    <3>2. CASE q # p
      <4>1. Rekeying(q) => proc[q].new \in Key /\ proc[q].new < next_key
        BY DEF Drawn, Copies, RekeyState
      <4> QED BY <1>1, <1>2, <3>2, <4>1 DEF Rekeying, Key
    <3> QED BY <3>1, <3>2
  <2> QED BY <1>2, <2>1, <2>2, <2>3 DEF Drawn, Key
<1>7. Fresh'
  <2> SUFFICES ASSUME NEW q \in Proc, (Rekeying(q))'
               PROVE  /\ header.mac # proc'[q].new
                      /\ \A who \in Credential : <<who, proc'[q].new>> \notin learned
                      /\ \A r \in Proc : (Editing(r))' => proc'[r].key # proc'[q].new
                      /\ \A r \in Proc \ {q} : (Rekeying(r))' => proc'[r].new # proc'[q].new
    BY DEF Fresh, ghosts
  <2>1. \/ Rekeying(q) /\ proc'[q].new = proc[q].new
        \/ q = p /\ proc'[q].new = next_key
    BY <1>1 DEF Rekeying
  <2>2. proc'[q].new \in Key
    BY <1>5 DEF Copies, RekeyState
  <2>3. header.mac # proc'[q].new /\ \A who \in Credential : <<who, proc'[q].new>> \notin learned
    BY <1>2, <2>1, <2>2 DEF Fresh, Drawn, Key
  <2>4. ASSUME NEW r \in Proc, (Editing(r))'
        PROVE  proc'[r].key # proc'[q].new
    <3>1. CASE r = p
      BY <1>1, <2>3, <2>4, <3>1 DEF Editing
    <3>2. CASE r # p
      <4>1. Editing(r) /\ proc'[r].key = proc[r].key /\ proc[r].key \in Key
        BY <1>1, <2>4, <3>2 DEF Editing, Copies, SoundHeader
      <4> QED BY <1>2, <2>1, <4>1 DEF Fresh, Drawn, Key
    <3> QED BY <3>1, <3>2
  <2>5. ASSUME NEW r \in Proc \ {q}, (Rekeying(r))'
        PROVE  proc'[r].new # proc'[q].new
    <3>1. \/ Rekeying(r) /\ proc'[r].new = proc[r].new
          \/ r = p /\ proc'[r].new = next_key
      BY <1>1, <2>5 DEF Rekeying
    <3>2. Rekeying(r) => proc[r].new < next_key /\ proc[r].new \in Key
      BY DEF Drawn, Copies, RekeyState
    <3>3. Rekeying(q) => proc[q].new < next_key /\ proc[q].new \in Key
      BY DEF Drawn, Copies, RekeyState
    <3> QED BY <1>2, <2>1, <3>1, <3>2, <3>3 DEF Fresh, Key
  <2> QED BY <2>3, <2>4, <2>5
<1> QED BY <1>3, <1>4, <1>5, <1>6, <1>7

\* One lemma per action.
LEMMA OpenInv ==
    ASSUME IInv, NEW p \in Proc, NEW args \in Args, Open(p, args)
    PROVE  IInv'
<1> DEFINE state == [pc |-> "edit", header |-> header,
                     key |-> open_master_key(header, unlock(args))]
<1>1. state.key = header.mac /\ state.header = header /\ state.pc = "edit"
  BY OpenedKey DEF IInv, Open
<1>2. /\ proc' = [proc EXCEPT ![p] = state] /\ UNCHANGED <<header, index_key, ghosts>>
      /\ commands' \in 0 .. MaxCommands
      /\ next_key' \in 2 .. MaxKey + 1 /\ next_key <= next_key'
  BY KeySlotsAssumption DEF Open, Begin, IInv, TypeOK
<1> HIDE DEF state
<1> QED BY <1>1, <1>2, MoveOn

LEMMA rekeyInv ==
    ASSUME IInv, NEW p \in Proc, NEW args \in Args, rekey(p, args)
    PROVE  IInv'
<1>1. PICK key \in Key : Begin(p, [pc |-> "rewrap", args |-> args, key |-> key])
  BY DEF rekey
<1> DEFINE state == [pc |-> "rewrap", args |-> args, key |-> key]
<1>2. state.pc = "rewrap" /\ state.args = args /\ state.key = key
  OBVIOUS
<1>3. /\ proc' = [proc EXCEPT ![p] = state] /\ UNCHANGED <<header, index_key, ghosts>>
      /\ commands' \in 0 .. MaxCommands
      /\ next_key' \in 2 .. MaxKey + 1 /\ next_key <= next_key'
  BY <1>1, KeySlotsAssumption DEF Begin, IInv, TypeOK
<1> HIDE DEF state
<1> QED BY <1>2, <1>3, MoveOn

LEMMA mountInv ==
    ASSUME IInv, NEW p \in Proc, NEW args \in Args, mount(p, args)
    PROVE  IInv'
<1> DEFINE state == [pc |-> "mounted", key |-> index_key]
<1>1. state.pc = "mounted" /\ state.key \in Key
  BY DEF IInv, TypeOK
<1>2. /\ proc' = [proc EXCEPT ![p] = state] /\ UNCHANGED <<header, index_key, ghosts>>
      /\ commands' \in 0 .. MaxCommands
      /\ next_key' \in 2 .. MaxKey + 1 /\ next_key <= next_key'
  BY KeySlotsAssumption DEF mount, Begin, IInv, TypeOK
<1> HIDE DEF state
<1> QED BY <1>1, <1>2, MoveOn

LEMMA RewrapSlotsInv ==
    ASSUME IInv, NEW p \in Proc, RewrapSlots(p)
    PROVE  IInv'
<1> DEFINE args == proc[p].args
           slots == [i \in DOMAIN header.slots |-> Rewrap(header.slots[i], args, next_key)]
           state == [pc |-> "index", header |-> header, args |-> args, key |-> proc[p].key,
                     new |-> next_key, slots |-> slots]
<1>1. args \in Args /\ proc[p].key \in Key /\ next_key \in Key /\ SoundHeader(header)
      /\ require_password(args, header.slots)
  BY DEF IInv, Copies, RewrapSlots
<1>2. slots \in Seq(Slot)
  BY <1>1, RewrapSound DEF SoundSlots
<1>3. state \in RekeyState
  BY <1>1, <1>2 DEF RekeyState, SoundHeader
<1>4. /\ state.pc = "index" /\ state.header = header /\ state.args = args
      /\ state.new = next_key /\ state.slots = slots
  OBVIOUS
<1>5. /\ proc' = [proc EXCEPT ![p] = state] /\ UNCHANGED <<header, index_key, ghosts>>
      /\ commands' \in 0 .. MaxCommands
      /\ next_key' = next_key + 1
  BY DEF RewrapSlots, random_master_key, IInv, TypeOK
<1>6. next_key' \in 2 .. MaxKey + 1 /\ next_key <= next_key'
  BY <1>1, <1>5, KeySlotsAssumption DEF Key, IInv, TypeOK
<1> HIDE DEF state
<1>7. state.slots = [i \in DOMAIN state.header.slots |->
                       Rewrap(state.header.slots[i], state.args, state.new)]
  BY <1>4
<1> HIDE DEF args, slots
<1> QED BY <1>1, <1>3, <1>4, <1>5, <1>6, <1>7, MoveOn

LEMMA RekeyIndexInv ==
    ASSUME IInv, NEW p \in Proc, RekeyIndex(p)
    PROVE  IInv'
<1> DEFINE state == [proc[p] EXCEPT !.pc = "commit"]
<1>1. /\ Rekeying(p) /\ proc[p] \in RekeyState /\ SoundHeader(proc[p].header)
      /\ require_password(proc[p].args, proc[p].header.slots)
      /\ proc[p].slots = [i \in DOMAIN proc[p].header.slots |->
                            Rewrap(proc[p].header.slots[i], proc[p].args, proc[p].new)]
  BY DEF IInv, Copies, RekeyIndex, Rekeying
<1>2. /\ state \in RekeyState /\ state.pc = "commit" /\ state.header = proc[p].header
      /\ state.args = proc[p].args /\ state.new = proc[p].new /\ state.slots = proc[p].slots
  BY <1>1 DEF RekeyState
<1>3. proc' = [proc EXCEPT ![p] = state]
  BY DEF RekeyIndex, IInv, Copies
<1>4. /\ UNCHANGED <<header, index_key, ghosts>>
      /\ commands' \in 0 .. MaxCommands
      /\ next_key' \in 2 .. MaxKey + 1 /\ next_key <= next_key'
  BY KeySlotsAssumption DEF RekeyIndex, IInv, TypeOK
<1> HIDE DEF state
<1> QED BY <1>1, <1>2, <1>3, <1>4, MoveOn

LEMMA QuitInv ==
    ASSUME IInv, NEW p \in Proc, Quit(p)
    PROVE  IInv'
<1>1. Idle.pc = "idle"
  BY DEF Idle
<1>2. /\ proc' = [proc EXCEPT ![p] = Idle] /\ UNCHANGED <<header, index_key, ghosts>>
      /\ commands' \in 0 .. MaxCommands
      /\ next_key' \in 2 .. MaxKey + 1 /\ next_key <= next_key'
  BY KeySlotsAssumption DEF Quit, End, IInv, TypeOK
<1> QED BY <1>1, <1>2, MoveOn

LEMMA save_indexInv ==
    ASSUME IInv, NEW p \in Proc, save_index(p)
    PROVE  IInv'
<1> USE DEF IInv
<1>1. proc[p].key \in Key
  BY DEF save_index, Copies
<1>2. ~raced' => ~raced /\ proc[p].key = header.mac
  BY DEF save_index, Outdated
<1>3. raced' \in BOOLEAN
  BY DEF save_index, TypeOK
<1>4. TypeOK'
  BY <1>1, <1>3 DEF save_index, TypeOK
<1>5. SoundHeader(header)' /\ Copies' /\ Drawn' /\ Fresh'
  BY DEF save_index, SoundHeader, Copies, Editing, Rekeying, Drawn, Fresh
<1>6. IndexFollows' /\ RekeyRetires' /\ RevokedStaysOut'
  BY <1>2 DEF save_index, IndexFollows, RekeyRetires, RevokedStaysOut, Openers
<1> QED BY <1>4, <1>5, <1>6

\* A process replaces the header and is done with its copy.
LEMMA PublishInv ==
    ASSUME IInv, NEW p \in Proc, Editing(p) \/ Rekeying(p),
           NEW slots, NEW k \in Key, SoundSlots(slots, k),
           k = IF Editing(p) THEN proc[p].key ELSE proc[p].new,
           NEW added, NEW removed, removed \subseteq Credential,
           Publish(seal_header(slots, k), added, removed),
           since' = IF Editing(p) THEN since \cup Openers(header') ELSE Openers(header'),
           index_key' = IF Editing(p) THEN index_key ELSE k,
           raced' = (raced \/ Outdated(p)), End(p), UNCHANGED <<next_key, commands>>,
           ~raced /\ proc[p].header = header => ((gone \ added) \cup removed) \cap Whose(slots) = {}
    PROVE  IInv'
<1> USE DEF IInv
<1>1. /\ header' = [slots |-> slots, mac |-> k] /\ header'.slots = slots /\ header'.mac = k
      /\ learned' = learned \cup {<<slots[i].who, slots[i].key>> : i \in DOMAIN slots}
      /\ gone' = (gone \ added) \cup removed
  BY DEF Publish, seal_header
<1>2. slots \in Seq(Slot) /\ \A i \in DOMAIN slots : slots[i] \in Slot /\ slots[i].key = k
  BY LenProperties DEF SoundSlots
<1>3. Openers(header') = Whose(slots) /\ Whose(slots) \subseteq Credential
  BY <1>1, <1>2 DEF Openers, Whose, Slot
<1>4. /\ proc'[p] = Idle /\ proc' = [q \in Proc |-> proc'[q]] /\ Idle.pc = "idle"
      /\ \A q \in Proc \ {p} : proc'[q] = proc[q]
      /\ \A q \in Proc : (Editing(q))' => q # p /\ Editing(q)
      /\ \A q \in Proc : (Rekeying(q))' => q # p /\ Rekeying(q)
  BY DEF End, Copies, Idle, Editing, Rekeying
<1>5. ~raced' => ~raced /\ proc[p].header = header
  BY DEF Outdated, Editing, Rekeying
<1>6. \A who \in Credential, j \in Key :
        <<who, j>> \in learned' => <<who, j>> \in learned \/ (j = k /\ who \in Whose(slots))
  BY <1>1, <1>2 DEF Whose
<1>7. k < next_key
  BY DEF Drawn
<1>8. TypeOK'
  <2>1. header' \in [slots : Seq(Slot), mac : Key]
    BY <1>1, <1>2
  <2>2. learned' \subseteq Credential \X Key
    BY <1>1, <1>2 DEF TypeOK, Slot
  <2>3. raced' \in BOOLEAN
    BY DEF TypeOK
  <2>4. \A q \in Proc : proc'[q].pc \in {"idle", "edit", "rewrap", "index", "commit", "mounted"}
    BY <1>4 DEF TypeOK
  <2> QED BY <1>1, <1>3, <2>1, <2>2, <2>3, <2>4 DEF TypeOK
<1>9. SoundHeader(header)'
  BY <1>1, <1>2 DEF SoundHeader
<1>10. Copies'
  <2>1. \A q \in Proc : (Rekeying(q))' =>
            /\ proc'[q] \in RekeyState
            /\ SoundHeader(proc'[q].header)
            /\ require_password(proc'[q].args, proc'[q].header.slots)
            /\ proc'[q].slots = [i \in DOMAIN proc'[q].header.slots |->
                                   Rewrap(proc'[q].header.slots[i], proc'[q].args, proc'[q].new)]
    <3> SUFFICES ASSUME NEW q \in Proc, Rekeying(q), proc'[q] = proc[q]
                 PROVE  /\ proc'[q] \in RekeyState
                        /\ SoundHeader(proc'[q].header)
                        /\ require_password(proc'[q].args, proc'[q].header.slots)
                        /\ proc'[q].slots =
                             [i \in DOMAIN proc'[q].header.slots |->
                                Rewrap(proc'[q].header.slots[i], proc'[q].args, proc'[q].new)]
      BY <1>4
    <3> QED BY DEF Copies
  <2>2. \A q \in Proc : (Editing(q))' =>
            SoundHeader(proc'[q].header) /\ proc'[q].key = proc'[q].header.mac
    BY <1>4 DEF Copies
  <2>3. \A q \in Proc : proc'[q].pc \in {"rewrap", "mounted"} => proc'[q] = proc[q]
    BY <1>4
  <2> QED BY <1>4, <2>1, <2>2, <2>3 DEF Copies
<1>11. Drawn'
  BY <1>1, <1>4, <1>6, <1>7 DEF Drawn
<1>12. Fresh'
  <2> SUFFICES ASSUME NEW q \in Proc, (Rekeying(q))'
               PROVE  /\ k # proc[q].new
                      /\ \A who \in Credential : <<who, proc[q].new>> \notin learned'
                      /\ \A r \in Proc : (Editing(r))' => proc[r].key # proc[q].new
                      /\ \A r \in Proc \ {q} : (Rekeying(r))' => proc[r].new # proc[q].new
    BY <1>1, <1>4 DEF Fresh
  <2>1. Rekeying(q) /\ q # p /\ proc[q].new \in Key
    BY <1>4 DEF Copies, RekeyState
  <2>2. k # proc[q].new
    BY <2>1 DEF Fresh
  <2> QED BY <1>4, <1>6, <2>1, <2>2 DEF Fresh
<1>13. IndexFollows'
  <2>1. Editing(p) /\ proc[p].header = header => k = header.mac
    BY DEF Copies
  <2> QED BY <1>1, <1>5, <2>1 DEF IndexFollows
<1>14. RekeyRetires'
  <2> SUFFICES ASSUME ~raced', NEW who \in Credential, <<who, index_key'>> \in learned'
               PROVE  who \in since'
    BY DEF RekeyRetires
  <2>1. CASE Editing(p)
    BY <1>3, <1>5, <1>6, <2>1 DEF RekeyRetires, TypeOK
  <2>2. CASE ~Editing(p)
    BY <1>3, <1>6, <2>2 DEF Fresh
  <2> QED BY <2>1, <2>2
<1>15. RevokedStaysOut'
  BY <1>1, <1>3, <1>5 DEF RevokedStaysOut
<1> QED BY <1>8, <1>9, <1>10, <1>11, <1>12, <1>13, <1>14, <1>15

\* write_header of an edited copy.
LEMMA WriteHeaderInv ==
    ASSUME IInv, NEW p \in Proc, Editing(p),
           NEW slots, SoundSlots(slots, proc[p].key),
           NEW added, NEW removed, removed \subseteq Credential,
           write_header(p, slots, added, removed),
           ~raced /\ proc[p].header = header => ((gone \ added) \cup removed) \cap Whose(slots) = {}
    PROVE  IInv'
<1>1. proc[p].key \in Key
  BY DEF IInv, Copies, SoundHeader
<1> QED BY <1>1, PublishInv DEF write_header

\* The copy of a process that edits, and who is on it.
LEMMA CopyOf ==
    ASSUME IInv, NEW p \in Proc, Editing(p)
    PROVE  /\ SoundSlots(proc[p].header.slots, proc[p].key)
           /\ proc[p].key \in Key
           /\ proc[p].header.slots \in Seq(Slot)
           /\ Whose(proc[p].header.slots) \subseteq Credential
<1>1. SoundSlots(proc[p].header.slots, proc[p].key) /\ proc[p].key \in Key
  BY DEF IInv, Copies, SoundHeader
<1>2. \A i \in DOMAIN proc[p].header.slots : proc[p].header.slots[i] \in Slot
  BY <1>1, LenProperties DEF SoundSlots
<1> QED BY <1>1, <1>2 DEF SoundSlots, Whose, Slot

\* Who is gone has no slot in a copy that is not outdated, unless it was raced.
LEMMA GoneFromCopy ==
    ASSUME IInv, NEW p \in Proc, ~raced, proc[p].header = header
    PROVE  gone \cap Whose(proc[p].header.slots) = {}
  BY DEF IInv, RevokedStaysOut, Openers, Whose

LEMMA shareInv ==
    ASSUME IInv, NEW p \in Proc, NEW to \in Identity, share(p, to)
    PROVE  IInv'
<1> DEFINE old  == proc[p].header.slots
           slot == recipient_slot(to, proc[p].key)
<1>1. Editing(p) /\ write_header(p, Append(old, slot), {to}, {})
  BY DEF share, Editing
<1>2. slot \in Slot /\ slot.key = proc[p].key /\ slot.who = to /\ ~IsPassword(slot)
  BY <1>1, CopyOf, KeySlotsAssumption DEF recipient_slot, KeySlot, Slot, IsPassword, Credential
<1> HIDE DEF slot
<1>3. SoundSlots(Append(old, slot), proc[p].key) /\ Whose(Append(old, slot)) = Whose(old) \cup {to}
  BY <1>1, <1>2, CopyOf, AppendSound
<1>4. ~raced /\ proc[p].header = header => ((gone \ {to}) \cup {}) \cap Whose(Append(old, slot)) = {}
  BY <1>3, GoneFromCopy
<1> HIDE DEF old
<1> QED BY <1>1, <1>3, <1>4, WriteHeaderInv

LEMMA revokeInv ==
    ASSUME IInv, NEW p \in Proc, NEW i \in DOMAIN proc[p].header.slots, revoke(p, i)
    PROVE  IInv'
<1> DEFINE old == proc[p].header.slots
           new == RemoveAt(old, i)
<1>1. Editing(p) /\ Len(old) # 1 /\ write_header(p, new, {}, OnlyIn(old, i))
  BY DEF revoke, Editing
<1>2. SoundSlots(new, proc[p].key) /\ Whose(new) = {old[j].who : j \in DOMAIN old \ {i}}
  BY <1>1, CopyOf, RemoveSound
<1>3. OnlyIn(old, i) \subseteq Credential /\ OnlyIn(old, i) \cap Whose(new) = {}
      /\ Whose(new) \subseteq Whose(old)
  BY <1>1, <1>2, CopyOf DEF OnlyIn, Whose
<1>4. ~raced /\ proc[p].header = header => ((gone \ {}) \cup OnlyIn(old, i)) \cap Whose(new) = {}
  BY <1>3, GoneFromCopy
<1> HIDE DEF old, new
<1> QED BY <1>1, <1>2, <1>3, <1>4, WriteHeaderInv

LEMMA passwdInv ==
    ASSUME IInv, NEW p \in Proc, NEW new \in Password, passwd(p, new)
    PROVE  IInv'
<1> DEFINE old  == proc[p].header.slots
           i    == FirstPassword(old)
           slot == password_slot(new, proc[p].key)
<1>1. Editing(p)
  BY DEF passwd, Editing
<1>2. slot \in Slot /\ slot.key = proc[p].key /\ slot.who = new
  BY <1>1, CopyOf DEF password_slot, KeySlot, Slot, Credential
<1> HIDE DEF slot
<1>3. CASE i # 0 /\ write_header(p, ReplaceAt(old, i, slot), {new}, {})
  <2>1. i \in DOMAIN old /\ IsPassword(old[i])
    BY <1>1, <1>3, CopyOf, PasswordSlot
  <2> HIDE DEF i
  <2>2. /\ SoundSlots(ReplaceAt(old, i, slot), proc[p].key)
        /\ Whose(ReplaceAt(old, i, slot)) \subseteq Whose(old) \cup {new}
    BY <1>1, <1>2, <2>1, CopyOf, ReplaceSound
  <2>3. ~raced /\ proc[p].header = header =>
            ((gone \ {new}) \cup {}) \cap Whose(ReplaceAt(old, i, slot)) = {}
    BY <2>2, GoneFromCopy
  <2> HIDE DEF old
  <2> QED BY <1>1, <1>3, <2>2, <2>3, WriteHeaderInv
<1>4. CASE i = 0 /\ write_header(p, Append(old, slot), {new}, {})
  <2>1. \A j \in DOMAIN old : ~IsPassword(old[j])
    BY <1>1, <1>4, CopyOf, PasswordSlot
  <2>2. /\ SoundSlots(Append(old, slot), proc[p].key)
        /\ Whose(Append(old, slot)) = Whose(old) \cup {new}
    BY <1>1, <1>2, <2>1, CopyOf, AppendSound
  <2>3. ~raced /\ proc[p].header = header =>
            ((gone \ {new}) \cup {}) \cap Whose(Append(old, slot)) = {}
    BY <2>2, GoneFromCopy
  <2> HIDE DEF old
  <2> QED BY <1>1, <1>4, <2>2, <2>3, WriteHeaderInv
<1> QED BY <1>3, <1>4 DEF passwd, slot

LEMMA CommitRekeyInv ==
    ASSUME IInv, NEW p \in Proc, CommitRekey(p)
    PROVE  IInv'
<1>1. Rekeying(p) /\ ~Editing(p)
  BY DEF CommitRekey, Rekeying, Editing
<1>2. /\ SoundHeader(proc[p].header) /\ proc[p].args \in Args /\ proc[p].new \in Key
      /\ require_password(proc[p].args, proc[p].header.slots)
      /\ proc[p].slots = [i \in DOMAIN proc[p].header.slots |->
                            Rewrap(proc[p].header.slots[i], proc[p].args, proc[p].new)]
  BY <1>1 DEF IInv, Copies, RekeyState
<1>3. /\ SoundSlots(proc[p].slots, proc[p].new)
      /\ Whose(proc[p].slots) \subseteq Whose(proc[p].header.slots) \cup {proc[p].args.password}
  BY <1>2, RewrapSound
<1>4. ~raced /\ proc[p].header = header =>
        ((gone \ Passwords(proc[p].slots)) \cup {}) \cap Whose(proc[p].slots) = {}
  <2>1. Passwords(proc[p].slots) = Whose(proc[p].slots) \cap Password
    BY DEF Passwords, Whose
  <2>2. Whose(proc[p].slots) \subseteq Credential
    <3>1. \A i \in DOMAIN proc[p].slots : proc[p].slots[i] \in Slot
      BY <1>3, LenProperties DEF SoundSlots
    <3> QED BY <3>1 DEF Whose, Slot
  <2>3. proc[p].args.password \in Password \cup {None} /\ None \notin Credential
    BY <1>2, KeySlotsAssumption DEF Args
  <2> QED BY <1>3, <2>1, <2>2, <2>3, GoneFromCopy
<1>5. /\ Publish(seal_header(proc[p].slots, proc[p].new), Passwords(proc[p].slots), {})
      /\ index_key' = proc[p].new /\ since' = Openers(header')
      /\ raced' = (raced \/ Outdated(p)) /\ End(p) /\ UNCHANGED <<next_key, commands>>
  BY DEF CommitRekey
<1> QED BY <1>1, <1>2, <1>3, <1>4, <1>5, PublishInv

LEMMA InitInv == Init => IInv
<1> SUFFICES ASSUME Init PROVE IInv
  OBVIOUS
<1>1. PICK pw \in Password : header = [slots |-> <<[who |-> pw, key |-> 1]>>, mac |-> 1]
  BY DEF Init, seal_header, password_slot, KeySlot
<1> DEFINE slot == [who |-> pw, key |-> 1]
<1>2. 1 \in Key /\ slot \in Slot /\ slot.who = pw /\ slot.key = 1
  BY KeySlotsAssumption DEF Key, Slot, Credential
<1> HIDE DEF slot
<1>3. /\ header.slots = <<slot>> /\ header.mac = 1 /\ header = [slots |-> <<slot>>, mac |-> 1]
  BY <1>1 DEF slot
<1>4. <<slot>> \in Seq(Slot) /\ <<slot>> # <<>> /\ DOMAIN <<slot>> = {1} /\ <<slot>>[1] = slot
  BY <1>2
<1>5. Openers(header) = {pw}
  BY <1>2, <1>3, <1>4 DEF Openers
<1>6. SoundHeader(header)
  BY <1>2, <1>3, <1>4 DEF SoundHeader, SoundSlots
<1>7. proc = [p \in Proc |-> proc[p]] /\ \A p \in Proc : proc[p].pc = "idle"
  BY DEF Init, Idle
<1>8. TypeOK
  <2>1. header \in [slots : Seq(Slot), mac : Key]
    BY <1>2, <1>3, <1>4
  <2>2. learned \subseteq Credential \X Key /\ since \subseteq Credential /\ gone \subseteq Credential
    BY <1>2, <1>5 DEF Init, Credential
  <2>3. index_key \in Key /\ next_key \in 2 .. MaxKey + 1 /\ commands \in 0 .. MaxCommands
    BY <1>2, KeySlotsAssumption DEF Init
  <2> QED BY <1>7, <2>1, <2>2, <2>3 DEF Init, TypeOK
<1>9. Copies /\ Fresh
  BY <1>7 DEF Copies, Fresh, Editing, Rekeying
<1>10. Drawn
  BY <1>3, <1>5, <1>7 DEF Init, Drawn, Editing, Rekeying
<1>11. IndexFollows /\ RekeyRetires /\ RevokedStaysOut
  BY <1>3, <1>5 DEF Init, IndexFollows, RekeyRetires, RevokedStaysOut
<1> QED BY <1>6, <1>8, <1>9, <1>10, <1>11 DEF IInv

LEMMA NextInv == IInv /\ [Next]_vars => IInv'
<1> SUFFICES ASSUME IInv, [Next]_vars PROVE IInv'
  OBVIOUS
<1>1. CASE UNCHANGED vars
  BY <1>1 DEF vars, ghosts, IInv, TypeOK, SoundHeader, Copies, Drawn, Fresh, Editing, Rekeying,
             IndexFollows, RekeyRetires, RevokedStaysOut, Openers
<1>2. CASE Next
  <2>1. PICK p \in Proc : Command(p)
    BY <1>2 DEF Next
  <2>2. CASE \E args \in Args : Open(p, args) \/ rekey(p, args) \/ mount(p, args)
    BY <2>2, OpenInv, rekeyInv, mountInv
  <2>3. CASE \E to \in Identity : share(p, to)
    BY <2>3, shareInv
  <2>4. CASE \E i \in DOMAIN proc[p].header.slots : revoke(p, i)
    BY <2>4, revokeInv
  <2>5. CASE \E new \in Password : passwd(p, new)
    BY <2>5, passwdInv
  <2>6. CASE RewrapSlots(p) \/ RekeyIndex(p) \/ CommitRekey(p)
    BY <2>6, RewrapSlotsInv, RekeyIndexInv, CommitRekeyInv
  <2>7. CASE save_index(p) \/ Quit(p)
    BY <2>7, save_indexInv, QuitInv
  <2> QED BY <2>1, <2>2, <2>3, <2>4, <2>5, <2>6, <2>7 DEF Command
<1> QED BY <1>1, <1>2

-----------------------------------------------------------------------------
(* Theorems *)

\* The inductive invariant holds in every state of every behaviour.
THEOREM Invariance == Spec => []IInv
  BY InitInv, NextInv, PTL DEF Spec

\* The header, its key and the credentials of its slots keep their types.
THEOREM TypeCorrect == Spec => []TypeOK
<1>1. IInv => TypeOK
  BY DEF IInv
<1> QED BY <1>1, Invariance, PTL

\* Every slot of the header wraps the key it is sealed with, whichever commands of
\* however many processes have overwritten it (src/commands.rs).
THEOREM HeaderOfOnePiece == Spec => []OneKeyPerHeader
<1>1. IInv => OneKeyPerHeader
  BY DEF IInv, SoundHeader, SoundSlots, OneKeyPerHeader
<1> QED BY <1>1, Invariance, PTL

\* revoke, passwd and rekey leave at least one slot and at most one password slot,
\* even when they cross.
THEOREM KeepsASlot == Spec => []SlotsInBounds
<1>1. IInv => SlotsInBounds
  BY DEF IInv, SoundHeader, SoundSlots, SlotsInBounds
<1> QED BY <1>1, Invariance, PTL

\* Unless an outdated copy was written back, every slot's key opens the index.
THEOREM HeaderOpensIndex == Spec => []VolumeOpens
<1>1. IInv => VolumeOpens
  BY DEF IInv, SoundHeader, SoundSlots, IndexFollows, VolumeOpens
<1> QED BY <1>1, Invariance, PTL

\* Unless an outdated copy was written back, only who has had a slot since the last
\* rekey has ever held the key of the index.
THEOREM OldKeysRetire == Spec => []RekeyRetires
<1>1. IInv => RekeyRetires
  BY DEF IInv
<1> QED BY <1>1, Invariance, PTL

\* Unless an outdated copy was written back, a revoked credential has no slot.
THEOREM RevokedHasNoSlot == Spec => []RevokedStaysOut
<1>1. IInv => RevokedStaysOut
  BY DEF IInv
<1> QED BY <1>1, Invariance, PTL

-----------------------------------------------------------------------------
(* The commands edit a list of credentials *)

\* The list of a header's credentials.
Access(s) == [i \in DOMAIN s |-> s[i].who]

\* Access is a list as long as the slots.
LEMMA AccessIsSeq ==
    ASSUME NEW s \in Seq(Slot)
    PROVE  /\ Access(s) \in Seq(Credential)
           /\ Len(Access(s)) = Len(s)
           /\ DOMAIN Access(s) = DOMAIN s
           /\ DOMAIN s = 1 .. Len(s) /\ Len(s) \in Nat
           /\ \A i \in DOMAIN s : Access(s)[i] = s[i].who
<1>1. Len(s) \in Nat /\ DOMAIN s = 1 .. Len(s) /\ \A i \in 1 .. Len(s) : s[i] \in Slot
  BY LenProperties
<1>2. Access(s) \in [1 .. Len(s) -> Credential]
  BY <1>1 DEF Access, Slot
<1> QED BY <1>1, <1>2 DEF Access

\* The edits of the slots are the same edits of the list of credentials.
LEMMA AccessAppend ==
    ASSUME NEW s \in Seq(Slot), NEW slot \in Slot
    PROVE  Access(Append(s, slot)) = Append(Access(s), slot.who)
<1> DEFINE t == Append(s, slot)
           u == Append(Access(s), slot.who)
<1>1. slot.who \in Credential
  BY DEF Slot
<1>2. /\ t \in Seq(Slot) /\ Len(t) = Len(s) + 1
      /\ \A i \in 1 .. Len(s) : t[i] = s[i]
      /\ t[Len(s) + 1] = slot
  BY AppendProperties
<1>3. /\ u \in Seq(Credential) /\ Len(u) = Len(s) + 1
      /\ \A i \in 1 .. Len(s) : u[i] = Access(s)[i]
      /\ u[Len(s) + 1] = slot.who
  BY <1>1, AccessIsSeq, AppendProperties
<1> HIDE DEF t, u
<1>4. /\ Access(t) \in Seq(Credential) /\ Len(Access(t)) = Len(t)
      /\ DOMAIN t = 1 .. Len(t)
      /\ \A i \in DOMAIN t : Access(t)[i] = t[i].who
  BY <1>2, AccessIsSeq
<1>5. \A i \in 1 .. Len(t) : Access(t)[i] = u[i]
  <2> TAKE i \in 1 .. Len(t)
  <2>1. CASE i = Len(s) + 1
    BY <1>2, <1>3, <1>4, <2>1
  <2>2. CASE i \in 1 .. Len(s)
    BY <1>2, <1>3, <1>4, <2>2, AccessIsSeq
  <2>3. Len(s) \in Nat
    OBVIOUS
  <2> QED BY <1>2, <2>1, <2>2, <2>3
<1> QED BY <1>2, <1>3, <1>4, <1>5, SeqEqual DEF t, u

LEMMA AccessRemove ==
    ASSUME NEW s \in Seq(Slot), NEW n \in DOMAIN s
    PROVE  Access(RemoveAt(s, n)) = RemoveAt(Access(s), n)
<1> DEFINE t == RemoveAt(s, n)
           u == RemoveAt(Access(s), n)
<1>1. /\ t \in Seq(Slot) /\ Len(t) = Len(s) - 1
      /\ \A i \in 1 .. Len(s) - 1 : t[i] = IF i < n THEN s[i] ELSE s[i + 1]
  BY RemoveAtProperties
<1>2. /\ u \in Seq(Credential) /\ Len(u) = Len(s) - 1
      /\ \A i \in 1 .. Len(s) - 1 : u[i] = IF i < n THEN Access(s)[i] ELSE Access(s)[i + 1]
  <2>1. Access(s) \in Seq(Credential) /\ Len(Access(s)) = Len(s) /\ n \in DOMAIN Access(s)
    BY AccessIsSeq
  <2> QED BY <2>1, RemoveAtProperties
<1> HIDE DEF t, u
<1>3. /\ Access(t) \in Seq(Credential) /\ Len(Access(t)) = Len(t)
      /\ DOMAIN t = 1 .. Len(t)
      /\ \A i \in DOMAIN t : Access(t)[i] = t[i].who
  BY <1>1, AccessIsSeq
<1>4. \A i \in 1 .. Len(t) : Access(t)[i] = u[i]
  <2> TAKE i \in 1 .. Len(t)
  <2>1. i \in DOMAIN s /\ i + 1 \in DOMAIN s
    BY <1>1, AccessIsSeq
  <2> QED BY <1>1, <1>2, <1>3, <2>1, AccessIsSeq
<1> QED BY <1>1, <1>2, <1>3, <1>4, SeqEqual DEF t, u

LEMMA AccessReplace ==
    ASSUME NEW s \in Seq(Slot), NEW n \in DOMAIN s, NEW slot \in Slot
    PROVE  Access(ReplaceAt(s, n, slot)) = ReplaceAt(Access(s), n, slot.who)
  BY DEF Access, ReplaceAt

\* A rekey changes the entry of the password, if there is one.
LEMMA AccessRewrap ==
    ASSUME NEW h, SoundHeader(h), NEW args \in Args, require_password(args, h.slots),
           NEW new \in Key, NEW s,
           s = [i \in DOMAIN h.slots |-> Rewrap(h.slots[i], args, new)]
    PROVE  \/ Access(s) = Access(h.slots)
           \/ \E i \in DOMAIN h.slots :
                /\ h.slots[i].who \in Password
                /\ args.password \in Password
                /\ Access(s) = ReplaceAt(Access(h.slots), i, args.password)
<1> DEFINE i == FirstPassword(h.slots)
<1>1. h.slots \in Seq(Slot)
  BY DEF SoundHeader
<1>2. CASE i = 0
  <2>1. \A j \in DOMAIN h.slots : ~IsPassword(h.slots[j])
    BY <1>1, <1>2, PasswordSlot
  <2>2. DOMAIN s = DOMAIN h.slots /\ \A j \in DOMAIN h.slots : s[j].who = h.slots[j].who
    BY <2>1 DEF Rewrap, recipient_slot, KeySlot
  <2> QED BY <2>2 DEF Access
<1>3. CASE i # 0
  <2>1. i \in DOMAIN h.slots /\ IsPassword(h.slots[i])
    BY <1>1, <1>3, PasswordSlot
  <2>2. args.password \in Password
    BY <1>3 DEF require_password, Args
  <2> HIDE DEF i
  <2>3. \A j \in DOMAIN h.slots \ {i} : ~IsPassword(h.slots[j])
    BY <2>1 DEF SoundHeader, SoundSlots
  <2>4. /\ DOMAIN s = DOMAIN h.slots
        /\ \A j \in DOMAIN h.slots : s[j].who = IF j = i THEN args.password ELSE h.slots[j].who
    BY <2>1, <2>3 DEF Rewrap, recipient_slot, password_slot, KeySlot
  <2>5. Access(s) = ReplaceAt(Access(h.slots), i, args.password)
    BY <2>4 DEF Access, ReplaceAt
  <2> QED BY <2>1, <2>2, <2>5 DEF IsPassword
<1> QED BY <1>2, <1>3

\* Every command is one edit of the list, or none.
LEMMA CommandsStep == IInv /\ [Next]_vars => [raced' \/ List!Next]_(List!vars)
<1> SUFFICES ASSUME IInv, [Next]_vars, ~raced',
                    Access(header'.slots) # Access(header.slots)
             PROVE  List!Next
  BY DEF List!vars, Access
<1> DEFINE access == Access(header.slots)
<1>1. /\ header.slots \in Seq(Slot) /\ SoundHeader(header)
      /\ Len(access) = Len(header.slots) /\ DOMAIN access = DOMAIN header.slots
      /\ Len(header.slots) \in Nat /\ header.slots # <<>>
      /\ \A i \in DOMAIN access : access[i] = header.slots[i].who
  BY AccessIsSeq DEF IInv, SoundHeader, SoundSlots
<1> HIDE DEF access
<1>2. SUFFICES \/ \E who \in Identity : Access(header'.slots) = Append(access, who)
               \/ \E i \in DOMAIN access :
                    Len(access) > 1 /\ Access(header'.slots) = RemoveAt(access, i)
               \/ \E pw \in Password :
                    \/ \E i \in DOMAIN access :
                         access[i] \in Password /\ Access(header'.slots) = ReplaceAt(access, i, pw)
                    \/ /\ \A i \in DOMAIN access : access[i] \notin Password
                       /\ Access(header'.slots) = Append(access, pw)
  <2> DEFINE now  == [i \in DOMAIN header.slots |-> header.slots[i].who]
             then == [i \in DOMAIN header'.slots |-> header'.slots[i].who]
  <2>1. now = access /\ then = Access(header'.slots)
    BY DEF Access, access
  <2> HIDE DEF now, then
  <2>2. ASSUME NEW who \in Identity, then = Append(now, who)
        PROVE  List!Next
    BY <2>2 DEF List!Next, List!Share, now, then
  <2>3. ASSUME NEW i \in DOMAIN now, Len(now) > 1, then = RemoveAt(now, i)
        PROVE  List!Next
    BY <2>3 DEF List!Next, List!Revoke, List!RemoveAt, RemoveAt, now, then
  <2>4. ASSUME NEW pw \in Password, NEW i \in DOMAIN now, now[i] \in Password,
               then = ReplaceAt(now, i, pw)
        PROVE  List!Next
    <3>1. List!SetPassword(pw)
      BY <2>4 DEF List!SetPassword, List!ReplaceAt, ReplaceAt, now, then
    <3> QED BY <3>1 DEF List!Next
  <2>5. ASSUME NEW pw \in Password, \A i \in DOMAIN now : now[i] \notin Password,
               then = Append(now, pw)
        PROVE  List!Next
    <3>1. List!SetPassword(pw)
      BY <2>5 DEF List!SetPassword, now, then
    <3> QED BY <3>1 DEF List!Next
  <2> QED BY <2>1, <2>2, <2>3, <2>4, <2>5
<1>0. header' # header
  OBVIOUS
<1>3. PICK p \in Proc : Command(p)
  BY <1>0 DEF Next, vars
<1>4. \/ \E to \in Identity : share(p, to)
      \/ \E i \in DOMAIN proc[p].header.slots : revoke(p, i)
      \/ \E new \in Password : passwd(p, new)
      \/ CommitRekey(p)
  BY <1>0, <1>3 DEF Command, Open, rekey, mount, Begin, RewrapSlots, RekeyIndex, save_index, Quit
<1>5. proc[p].header = header
  BY <1>4 DEF share, revoke, passwd, CommitRekey, write_header, Outdated
<1>6. ASSUME NEW to \in Identity, share(p, to)
      PROVE  Access(header'.slots) = Append(access, to)
  <2>1. proc[p].key \in Key
    BY <1>6, CopyOf DEF share, Editing
  <2>2. recipient_slot(to, proc[p].key) \in Slot /\ recipient_slot(to, proc[p].key).who = to
    BY <2>1 DEF recipient_slot, KeySlot, Slot, Credential
  <2>3. header'.slots = Append(header.slots, recipient_slot(to, proc[p].key))
    BY <1>5, <1>6 DEF share, write_header, Publish, seal_header
  <2> QED BY <1>1, <2>2, <2>3, AccessAppend DEF access
<1>7. ASSUME NEW i \in DOMAIN proc[p].header.slots, revoke(p, i)
      PROVE  i \in DOMAIN access /\ Len(access) > 1 /\ Access(header'.slots) = RemoveAt(access, i)
  <2>1. header'.slots = RemoveAt(header.slots, i) /\ Len(header.slots) # 1
    BY <1>5, <1>7 DEF revoke, write_header, Publish, seal_header
  <2>2. i \in DOMAIN header.slots
    BY <1>5
  <2>3. Len(header.slots) > 1
    <3>1. Len(header.slots) \in Nat \ {0}
      BY <1>1, EmptySeq
    <3>2. Len(header.slots) # 1
      BY <2>1
    <3>3. \A n \in Nat \ {0} : n # 1 => n > 1
      OBVIOUS
    <3> QED BY <3>1, <3>2, <3>3, Zenon
  <2> QED BY <1>1, <2>1, <2>2, <2>3, AccessRemove DEF access
<1>8. ASSUME NEW new \in Password, passwd(p, new)
      PROVE  \/ \E i \in DOMAIN access :
                  access[i] \in Password /\ Access(header'.slots) = ReplaceAt(access, i, new)
             \/ /\ \A i \in DOMAIN access : access[i] \notin Password
                /\ Access(header'.slots) = Append(access, new)
  <2> DEFINE i == FirstPassword(header.slots)
             slot == password_slot(new, proc[p].key)
  <2>1. proc[p].key \in Key
    BY <1>8, CopyOf DEF passwd, Editing
  <2>2. slot \in Slot /\ slot.who = new
    BY <2>1 DEF password_slot, KeySlot, Slot, Credential
  <2>3. \/ i # 0 /\ header'.slots = ReplaceAt(header.slots, i, slot)
        \/ i = 0 /\ header'.slots = Append(header.slots, slot)
    BY <1>5, <1>8 DEF passwd, write_header, Publish, seal_header
  <2> HIDE DEF slot
  <2>4. CASE i # 0 /\ header'.slots = ReplaceAt(header.slots, i, slot)
    <3>1. i \in DOMAIN header.slots /\ IsPassword(header.slots[i])
      BY <1>1, <2>4, PasswordSlot
    <3> HIDE DEF i
    <3>2. Access(header'.slots) = ReplaceAt(access, i, new)
      BY <1>1, <2>2, <2>4, <3>1, AccessReplace DEF access
    <3> QED BY <1>1, <3>1, <3>2 DEF IsPassword
  <2>5. CASE i = 0 /\ header'.slots = Append(header.slots, slot)
    <3>1. \A j \in DOMAIN header.slots : ~IsPassword(header.slots[j])
      BY <1>1, <2>5, PasswordSlot
    <3>2. Access(header'.slots) = Append(access, new)
      BY <1>1, <2>2, <2>5, AccessAppend DEF access
    <3> QED BY <1>1, <3>1, <3>2 DEF IsPassword
  <2> QED BY <2>3, <2>4, <2>5
<1>9. ASSUME CommitRekey(p)
      PROVE  \E pw \in Password : \E i \in DOMAIN access :
                access[i] \in Password /\ Access(header'.slots) = ReplaceAt(access, i, pw)
  <2>1. /\ proc[p].args \in Args /\ proc[p].new \in Key
        /\ require_password(proc[p].args, header.slots)
        /\ proc[p].slots = [i \in DOMAIN header.slots |->
                              Rewrap(header.slots[i], proc[p].args, proc[p].new)]
    BY <1>5, <1>9 DEF IInv, Copies, CommitRekey, Rekeying, RekeyState
  <2>2. header'.slots = proc[p].slots
    BY <1>9 DEF CommitRekey, Publish, seal_header
  <2>3. \E i \in DOMAIN header.slots :
          /\ header.slots[i].who \in Password
          /\ proc[p].args.password \in Password
          /\ Access(proc[p].slots) = ReplaceAt(Access(header.slots), i, proc[p].args.password)
    <3>1. SoundHeader(header) /\ Access(proc[p].slots) # Access(header.slots)
      BY <1>1, <2>2
    <3>2. \/ Access(proc[p].slots) = Access(header.slots)
          \/ \E i \in DOMAIN header.slots :
              /\ header.slots[i].who \in Password
              /\ proc[p].args.password \in Password
              /\ Access(proc[p].slots) = ReplaceAt(Access(header.slots), i, proc[p].args.password)
      BY <2>1, <3>1, AccessRewrap
    <3> QED BY <3>1, <3>2
  <2> QED BY <1>1, <2>2, <2>3 DEF access
<1> QED BY <1>4, <1>6, <1>7, <1>8, <1>9

\* The commands refine the list of credentials: as long as no outdated copy is
\* written back, each is an edit of the one entry it is about.
THEOREM EditsOfAList == Spec => CommandsEditTheList
<1>1. Init => List!Init
  <2> SUFFICES ASSUME Init PROVE List!Init
    OBVIOUS
  <2>1. PICK pw \in Password : header = [slots |-> <<[who |-> pw, key |-> 1]>>, mac |-> 1]
    BY DEF Init, seal_header, password_slot, KeySlot
  <2>2. header.slots = <<[who |-> pw, key |-> 1]>>
    BY <2>1
  <2>3. [i \in DOMAIN header.slots |-> header.slots[i].who] = <<pw>>
    BY <2>2
  <2> QED BY <2>3 DEF List!Init
<1> QED BY <1>1, CommandsStep, Invariance, PTL DEF Spec, CommandsEditTheList
=============================================================================
