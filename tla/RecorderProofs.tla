--------------------------- MODULE RecorderProofs ---------------------------
(***************************************************************************)
(* The recorder is a timeline.  What its ring stands for is said by the    *)
(* memories of its snapshots, a function R on the positions 1..recorded:   *)
(* Memories(R) says that the writes of every slot lead from the memory of  *)
(* its snapshot to the memory of the next one and back (Linked), and that  *)
(* the live RAM is one of them, or is led to by the current slot           *)
(* (Present).  That some R is so, with the types (Types), is the inductive *)
(* invariant.  From it follows that the recursive RamAt of the model is R  *)
(* (RamIs), that an instruction adds a snapshot, drops the oldest or cuts  *)
(* the future away (ExecuteKeeps), and that playback by n frames is a jump *)
(* to a position (ReverseGoes, ForwardGoes), which are the steps of        *)
(* Timeline.                                                               *)
(*                                                                         *)
(* The recursive functions are met with Induct, induction over the steps   *)
(* of a loop, which the well-foundedness of < on the naturals gives        *)
(* without an operator as a parameter.                                     *)
(***************************************************************************)
EXTENDS Recorder, SequenceTheorems, WellFoundedInduction, TLAPS

-----------------------------------------------------------------------------
(* Numbers. *)

(* Induction over the steps of a loop. *)
LEMMA Induct ==
  ASSUME NEW n \in Nat, NEW S, 0 \in S, \A k \in 0..n - 1 : k \in S => k + 1 \in S
  PROVE  \A k \in 0..n : k \in S
  <1> DEFINE Missing == (0..n) \ S
  <1>1. SUFFICES ASSUME Missing # {} PROVE FALSE
    OBVIOUS
  <1>2. Missing \subseteq Nat
    OBVIOUS
  <1> HIDE DEF Missing
  <1>3. PICK x \in Missing : \A y \in Missing : ~ (<<y, x>> \in OpToRel(<, Nat))
    BY <1>1, <1>2, WFMin, NatLessThanWellFounded, Zenon
  <1>4. \A y \in Missing : ~ (y < x)
    BY <1>2, <1>3, Zenon DEF OpToRel
  <1>5. x \in 0..n /\ x \notin S /\ \A y \in 0..n : y < x => y \in S
    BY <1>4 DEF Missing
  <1>6. x # 0 /\ x - 1 \in 0..n - 1 /\ x - 1 \in S
    BY <1>5
  <1>7. (x - 1) + 1 \in S
    BY <1>6
  <1> QED
    BY <1>5, <1>7

(* The least of a set of naturals. *)
LEMMA LeastIs ==
  ASSUME NEW s, \A i \in s : i \in Nat, s # {}
  PROVE  /\ Least(s) \in s /\ \A j \in s : Least(s) <= j
         /\ \A i \in s : (\A j \in s : i <= j) => i = Least(s)
  <1>1. s \subseteq Nat
    OBVIOUS
  <1>2. PICK x \in s : \A y \in s : ~ (<<y, x>> \in OpToRel(<, Nat))
    BY <1>1, WFMin, NatLessThanWellFounded, Zenon
  <1>3. \A y \in s : ~ (y < x)
    BY <1>1, <1>2, Zenon DEF OpToRel
  <1>4. \A y \in s : x <= y
    BY <1>3
  <1>5. Least(s) \in s /\ \A j \in s : Least(s) <= j
    BY <1>4, Zenon DEF Least
  <1> HIDE DEF Least
  <1>6. ASSUME NEW i \in s, \A j \in s : i <= j PROVE i = Least(s)
    <2>1. i <= Least(s) /\ Least(s) <= i /\ i \in Nat /\ Least(s) \in Nat
      BY <1>5, <1>6
    <2> QED
      BY <2>1
  <1> QED
    BY <1>5, <1>6

(* The greatest of a set of numbers up to n. *)
LEMMA GreatestIs ==
  ASSUME NEW n \in Nat, NEW s, \A i \in s : i \in 1..n, s # {}
  PROVE  /\ Greatest(s) \in s /\ \A j \in s : j <= Greatest(s)
         /\ \A i \in s : (\A j \in s : j <= i) => i = Greatest(s)
  <1> DEFINE t == {n - i : i \in s}
  <1>1. (\A i \in t : i \in Nat) /\ t # {}
    OBVIOUS
  <1>2. PICK m \in t : \A j \in t : m <= j
    <2> HIDE DEF t
    <2> QED
      BY <1>1, LeastIs
  <1>3. PICK x \in s : m = n - x
    OBVIOUS
  <1>4. \A j \in s : n - x <= n - j
    BY <1>2, <1>3
  <1>5. \A j \in s : j <= x
    <2>1. ASSUME NEW j \in s PROVE j <= x
      <3>1. n - x <= n - j /\ j \in 1..n /\ x \in 1..n
        BY <1>4
      <3> QED
        BY <3>1
    <2> QED
      BY <2>1
  <1>6. Greatest(s) \in s /\ \A j \in s : j <= Greatest(s)
    BY <1>5, Zenon DEF Greatest
  <1> HIDE DEF Greatest
  <1>7. ASSUME NEW i \in s, \A j \in s : j <= i PROVE i = Greatest(s)
    <2>1. i <= Greatest(s) /\ Greatest(s) <= i /\ i \in 1..n /\ Greatest(s) \in 1..n
      BY <1>6, <1>7
    <2> QED
      BY <2>1
  <1> QED
    BY <1>6, <1>7

-----------------------------------------------------------------------------
(* Undoing and redoing writes. *)

(* The writes to an address are positions of the list. *)
LEMMA WritesToType ==
  ASSUME NEW a, NEW ds \in Seq(Writes)
  PROVE  /\ Len(ds) \in Nat
         /\ \A i \in WritesTo(a, ds) : i \in 1..Len(ds) /\ i \in Nat
  BY DEF WritesTo

(* Undoing and redoing leave a memory. *)
LEMMA UndoRedoTypes ==
  ASSUME NEW r \in [Addrs -> Values], NEW ds \in Seq(Writes)
  PROVE  Undo(r, ds) \in [Addrs -> Values] /\ Redo(r, ds) \in [Addrs -> Values]
  <1>1. ASSUME NEW a \in Addrs, WritesTo(a, ds) # {}
        PROVE  /\ ds[Least(WritesTo(a, ds))].before \in Values
               /\ ds[Greatest(WritesTo(a, ds))].after \in Values
    <2>1. Least(WritesTo(a, ds)) \in 1..Len(ds) /\ Greatest(WritesTo(a, ds)) \in 1..Len(ds)
      BY <1>1, WritesToType, LeastIs, GreatestIs
    <2>2. \A i \in 1..Len(ds) : ds[i] \in Writes
      OBVIOUS
    <2>3. ds[Least(WritesTo(a, ds))] \in Writes /\ ds[Greatest(WritesTo(a, ds))] \in Writes
      BY <2>1, <2>2
    <2> QED
      BY <2>3 DEF Writes
  <1> QED
    BY <1>1 DEF Undo, Redo

(* Without writes they leave it as it is. *)
LEMMA NothingToUndo ==
  ASSUME NEW r \in [Addrs -> Values]
  PROVE  Undo(r, <<>>) = r /\ Redo(r, <<>>) = r
  <1>1. \A a : WritesTo(a, <<>>) = {}
    BY DEF WritesTo
  <1> QED
    BY <1>1 DEF Undo, Redo

(* One more write at the end. *)
LEMMA WritesToAppend ==
  ASSUME NEW a, NEW ds \in Seq(Writes), NEW x \in Writes
  PROVE  /\ ds \o <<x>> \in Seq(Writes) /\ Len(ds \o <<x>>) = Len(ds) + 1
         /\ \A i \in 1..Len(ds) : (ds \o <<x>>)[i] = ds[i]
         /\ (ds \o <<x>>)[Len(ds) + 1] = x
         /\ WritesTo(a, ds \o <<x>>)
              = WritesTo(a, ds) \union (IF x.addr = a THEN {Len(ds) + 1} ELSE {})
  <1> DEFINE all == ds \o <<x>>
             n == Len(ds)
  <1>1. /\ all \in Seq(Writes) /\ Len(all) = n + 1 /\ n \in Nat
        /\ \A i \in 1..n : all[i] = ds[i]
        /\ all[n + 1] = x
    OBVIOUS
  <1> HIDE DEF all
  <1>2. WritesTo(a, all) = WritesTo(a, ds) \union (IF x.addr = a THEN {n + 1} ELSE {})
    BY <1>1 DEF WritesTo
  <1> QED
    BY <1>1, <1>2 DEF all

(* Redoing one more write redoes it last. *)
LEMMA RedoAppend ==
  ASSUME NEW r \in [Addrs -> Values], NEW ds \in Seq(Writes), NEW x \in Writes
  PROVE  Redo(r, ds \o <<x>>) = [Redo(r, ds) EXCEPT ![x.addr] = x.after]
  <1> DEFINE all == ds \o <<x>>
             n == Len(ds)
  <1>0. n \in Nat /\ Redo(r, ds) \in [Addrs -> Values]
    BY UndoRedoTypes
  <1>1. ASSUME NEW a \in Addrs
        PROVE  Redo(r, all)[a] = IF a = x.addr THEN x.after ELSE Redo(r, ds)[a]
    <2> DEFINE w == WritesTo(a, ds)
               v == WritesTo(a, all)
    <2>1. /\ \A i \in w : i \in 1..n
          /\ v = w \union (IF x.addr = a THEN {n + 1} ELSE {})
          /\ all \in Seq(Writes) /\ Len(all) = n + 1
          /\ \A i \in 1..n : all[i] = ds[i]
          /\ all[n + 1] = x
      BY WritesToAppend, WritesToType
    <2>2. /\ Redo(r, all)[a] = IF v = {} THEN r[a] ELSE all[Greatest(v)].after
          /\ Redo(r, ds)[a] = IF w = {} THEN r[a] ELSE ds[Greatest(w)].after
      BY Zenon DEF Redo
    <2> HIDE DEF w, v, all
    <2>3. CASE x.addr = a
      <3>1. n + 1 \in v /\ \A i \in v : i \in 1..n + 1 /\ i <= n + 1
        BY <1>0, <2>1, <2>3
      <3>2. Greatest(v) = n + 1
        <4>1. n + 1 \in Nat /\ v # {}
          BY <1>0, <3>1
        <4> DEFINE m == n + 1
        <4> HIDE DEF n
        <4>2. \A i \in v : (\A j \in v : j <= i) => i = Greatest(v)
          BY <3>1, <4>1, GreatestIs
        <4> QED
          BY <3>1, <4>2
      <3> QED
        BY <2>1, <2>2, <2>3, <3>1, <3>2
    <2>4. CASE x.addr # a
      <3>1. v = w
        BY <2>1, <2>4
      <3>2. CASE w = {}
        BY <2>2, <2>4, <3>1, <3>2
      <3>3. CASE w # {}
        <4>1. Greatest(w) \in 1..n
          BY <1>0, <2>1, <3>3, GreatestIs
        <4> QED
          BY <2>1, <2>2, <2>4, <3>1, <3>3, <4>1
      <3> QED
        BY <3>2, <3>3
    <2> QED
      BY <2>3, <2>4
  <1>2. Redo(r, all) = [a \in Addrs |-> Redo(r, all)[a]]
    BY DEF Redo
  <1> HIDE DEF all
  <1> QED
    BY <1>0, <1>1, <1>2 DEF all

(* Undoing one more write undoes it first. *)
LEMMA UndoAppend ==
  ASSUME NEW r \in [Addrs -> Values], NEW ds \in Seq(Writes), NEW x \in Writes
  PROVE  Undo(r, ds \o <<x>>) = Undo([r EXCEPT ![x.addr] = x.before], ds)
  <1> DEFINE all == ds \o <<x>>
             n == Len(ds)
             q == [r EXCEPT ![x.addr] = x.before]
  <1>0. n \in Nat
    OBVIOUS
  <1>1. ASSUME NEW a \in Addrs
        PROVE  Undo(r, all)[a] = Undo(q, ds)[a]
    <2> DEFINE w == WritesTo(a, ds)
               v == WritesTo(a, all)
    <2>1. /\ \A i \in w : i \in 1..n
          /\ v = w \union (IF x.addr = a THEN {n + 1} ELSE {})
          /\ all \in Seq(Writes) /\ Len(all) = n + 1
          /\ \A i \in 1..n : all[i] = ds[i]
          /\ all[n + 1] = x
      BY WritesToAppend, WritesToType
    <2>2. /\ Undo(r, all)[a] = IF v = {} THEN r[a] ELSE all[Least(v)].before
          /\ Undo(q, ds)[a] = IF w = {} THEN q[a] ELSE ds[Least(w)].before
      BY Zenon DEF Undo
    <2>3. q[a] = IF a = x.addr THEN x.before ELSE r[a]
      OBVIOUS
    <2> HIDE DEF w, v, all, q
    <2>4. CASE w # {}
      <3>1. Least(w) \in w /\ \A i \in w : Least(w) <= i
        BY <1>0, <2>1, <2>4, LeastIs
      <3>2. v # {} /\ Least(w) \in v /\ \A i \in v : i \in Nat /\ Least(w) <= i
        BY <1>0, <2>1, <2>4, <3>1
      <3>3. Least(v) = Least(w)
        BY <3>2, LeastIs
      <3>4. Least(w) \in 1..n
        BY <2>1, <3>1
      <3> QED
        BY <2>1, <2>2, <2>4, <3>2, <3>3, <3>4
    <2>5. CASE w = {} /\ x.addr = a
      <3>1. v = {n + 1} /\ v # {} /\ \A i \in v : i \in Nat
        BY <1>0, <2>1, <2>5
      <3>2. Least(v) = n + 1
        <4>1. Least(v) \in v
          BY <3>1, LeastIs
        <4> QED
          BY <3>1, <4>1
      <3> QED
        BY <2>1, <2>2, <2>3, <2>5, <3>1, <3>2
    <2>6. CASE w = {} /\ x.addr # a
      <3>1. v = {}
        BY <2>1, <2>6
      <3> QED
        BY <2>2, <2>3, <2>6, <3>1
    <2> QED
      BY <2>4, <2>5, <2>6
  <1>2. Undo(r, all) = [a \in Addrs |-> Undo(r, all)[a]]
        /\ Undo(q, ds) = [a \in Addrs |-> Undo(q, ds)[a]]
    BY DEF Undo
  <1> HIDE DEF all, q
  <1> QED
    BY <1>1, <1>2 DEF all, q

-----------------------------------------------------------------------------
(* The ring.  Positions are counted from the oldest slot; the difference to  *)
(* the slot's number is less than the ring's length.                         *)
(* The remainder of a number at most one length away. *)
LEMMA ModNear ==
  ASSUME NEW s \in Nat, s # 0, NEW x \in Int, -s <= x, x < 2 * s
  PROVE  x % s = IF x < 0 THEN x + s ELSE IF x < s THEN x ELSE x - s
  OBVIOUS

Place(i, c, n, k) == (i + k - c) % n
Pos(k) == Place(idx, current, size, k)

(* Where the slot of a position is. *)
LEMMA PlaceIs ==
  ASSUME NEW n \in Nat, n # 0, NEW i \in 0..n - 1, NEW c \in 1..n, NEW k \in 1..n
  PROVE  /\ Place(i, c, n, k) = IF i + k - c < 0 THEN i + k - c + n
                                ELSE IF i + k - c < n THEN i + k - c ELSE i + k - c - n
         /\ Place(i, c, n, k) \in 0..n - 1
         /\ k = c => Place(i, c, n, k) = i
  <1> DEFINE x == i + k - c
  <1>1. x \in Int /\ -n <= x /\ x < 2 * n
    OBVIOUS
  <1>2. x % n = IF x < 0 THEN x + n ELSE IF x < n THEN x ELSE x - n
    BY <1>1, ModNear
  <1> QED
    BY <1>1, <1>2 DEF Place

(* The slot after a slot. *)
LEMMA NextIs ==
  ASSUME NEW n \in Nat, n # 0, NEW i \in 0..n - 1
  PROVE  (i + 1) % n = (IF i + 1 < n THEN i + 1 ELSE 0)
  <1> DEFINE x == i + 1
  <1>1. x \in Int /\ -n <= x /\ x < 2 * n /\ ~ (x < 0) /\ (~ (x < n) => x - n = 0)
    OBVIOUS
  <1> HIDE DEF x
  <1>2. x % n = IF x < 0 THEN x + n ELSE IF x < n THEN x ELSE x - n
    BY <1>1, ModNear
  <1> QED
    BY <1>1, <1>2 DEF x

(* A slot more at the end of a ring that is not full moves no other slot.    *)
LEMMA PlaceGrows ==
  ASSUME NEW n \in Nat, n # 0, NEW i \in 0..n - 1, NEW c \in 1..n - 1, NEW j, j = (i + 1) % n
  PROVE  /\ j \in 0..n - 1 /\ Place(j, c + 1, n, c + 1) = j
         /\ \A k \in 1..c : /\ Place(j, c + 1, n, k) = Place(i, c, n, k)
                             /\ Place(i, c, n, k) # j
  <1>1. j = IF i + 1 < n THEN i + 1 ELSE 0
    BY NextIs
  <1>2. j \in 0..n - 1 /\ c \in 1..n /\ c + 1 \in 1..n
    BY <1>1
  <1>3. Place(j, c + 1, n, c + 1) = j
    BY <1>2, PlaceIs
  <1>4. ASSUME NEW k \in 1..c
        PROVE  Place(j, c + 1, n, k) = Place(i, c, n, k) /\ Place(i, c, n, k) # j
    <2>1. k \in 1..n
      OBVIOUS
    <2>2. Place(j, c + 1, n, k) = IF j + k - (c + 1) < 0 THEN j + k - (c + 1) + n
                                  ELSE IF j + k - (c + 1) < n THEN j + k - (c + 1)
                                  ELSE j + k - (c + 1) - n
      BY <1>2, <2>1, PlaceIs
    <2>3. Place(i, c, n, k) = IF i + k - c < 0 THEN i + k - c + n
                              ELSE IF i + k - c < n THEN i + k - c ELSE i + k - c - n
      BY <1>2, <2>1, PlaceIs
    <2> QED
      BY <1>1, <2>2, <2>3
  <1> QED
    BY <1>2, <1>3, <1>4

(* In a full one, it takes the place of the oldest.                          *)
LEMMA PlaceShifts ==
  ASSUME NEW n \in Nat, n # 0, NEW i \in 0..n - 1, NEW j, j = (i + 1) % n
  PROVE  /\ j \in 0..n - 1 /\ Place(j, n, n, n) = j
         /\ \A k \in 1..n - 1 : /\ Place(j, n, n, k) = Place(i, n, n, k + 1)
                                 /\ Place(i, n, n, k + 1) # j
  <1>1. j = IF i + 1 < n THEN i + 1 ELSE 0
    BY NextIs
  <1>2. j \in 0..n - 1 /\ n \in 1..n
    BY <1>1
  <1>3. Place(j, n, n, n) = j
    BY <1>2, PlaceIs
  <1>4. ASSUME NEW k \in 1..n - 1
        PROVE  Place(j, n, n, k) = Place(i, n, n, k + 1) /\ Place(i, n, n, k + 1) # j
    <2>1. k \in 1..n /\ k + 1 \in 1..n
      OBVIOUS
    <2>2. Place(j, n, n, k) = IF j + k - n < 0 THEN j + k - n + n
                              ELSE IF j + k - n < n THEN j + k - n ELSE j + k - n - n
      BY <1>2, <2>1, PlaceIs
    <2>3. Place(i, n, n, k + 1) = IF i + (k + 1) - n < 0 THEN i + (k + 1) - n + n
                                  ELSE IF i + (k + 1) - n < n THEN i + (k + 1) - n
                                  ELSE i + (k + 1) - n - n
      BY <1>2, <2>1, PlaceIs
    <2> QED
      BY <1>1, <2>2, <2>3
  <1> QED
    BY <1>2, <1>3, <1>4

(* SlotAt is the slot of the position. *)
LEMMA SlotIs ==
  ASSUME NEW k
  PROVE  SlotAt(k) = slots[Pos(k)]
  BY DEF SlotAt, Pos, Place

(* The memories the frames had: what undoing and redoing the slots between   *)
(* them makes of each other, and what the present is made of.                *)
Moments == {h \in HwStates : h.frame <= h.instr}
Slots == [hw : Moments, diffs : Seq(Writes)]

RingOK ==
  /\ size \in Sizes /\ size \in Nat \ {0}
  /\ slots \in [0..size - 1 -> Slots]
  /\ idx \in 0..size - 1
  /\ recorded \in 1..size /\ current \in 1..recorded
  /\ last \in BOOLEAN /\ (last => current = recorded)
  /\ frameNum \in 0..MaxInstr

Types == RingOK /\ hw \in Moments /\ ram \in [Addrs -> Values]

Linked(R) ==
  \A k \in 1..recorded - 1 :
    /\ R[k + 1] = Redo(R[k], slots[Pos(k)].diffs)
    /\ R[k] = Undo(R[k + 1], slots[Pos(k)].diffs)

Present(R) ==
  /\ last => /\ R[current] = Undo(ram, slots[idx].diffs)
             /\ ram = Redo(R[current], slots[idx].diffs)
  /\ ~last => ram = R[current] /\ hw = slots[idx].hw

Memories(R) == R \in [1..recorded -> [Addrs -> Values]] /\ Linked(R) /\ Present(R)

(* The current position has the current slot. *)
LEMMA PosIs ==
  ASSUME RingOK, NEW k \in 1..size
  PROVE  Pos(k) \in 0..size - 1 /\ (k = current => Pos(k) = idx)
  <1>1. /\ size \in Nat /\ size # 0 /\ idx \in 0..size - 1 /\ current \in 1..size
    BY DEF RingOK
  <1> QED
    BY <1>1, PlaceIs DEF Pos

(* The ring's slots are where the recorder counts them: the memories are     *)
(* what RamAt says.                                                          *)
LEMMA RamIs ==
  ASSUME NEW R, Types, Memories(R)
  PROVE  RamAt = R
  <1> DEFINE here == IF last THEN Undo(ram, slots[idx].diffs) ELSE ram
             Body(at, k) == IF k = current THEN here
                            ELSE IF k < current THEN Undo(at[k + 1], SlotAt(k).diffs)
                            ELSE Redo(at[k - 1], SlotAt(k - 1).diffs)
             Defines(at) == at = [k \in 1..recorded |-> Body(at, k)]
             at == CHOOSE f : Defines(f)
  <1>1. RamAt = at
    BY Zenon DEF RamAt
  <1>2. recorded \in Nat /\ current \in 1..recorded
    BY DEF Types, RingOK
  <1>3. R[current] = here
    BY DEF Memories, Present, Types, RingOK
  <1>4. ASSUME NEW k \in 1..recorded, k < current
        PROVE  R[k] = Undo(R[k + 1], SlotAt(k).diffs)
    <2>1. k \in 1..recorded - 1
      BY <1>2, <1>4
    <2> QED
      BY <2>1, SlotIs DEF Memories, Linked
  <1>5. ASSUME NEW k \in 1..recorded, current < k
        PROVE  R[k] = Redo(R[k - 1], SlotAt(k - 1).diffs)
    <2>1. k - 1 \in 1..recorded - 1 /\ (k - 1) + 1 = k
      BY <1>2, <1>5
    <2> QED
      BY <2>1, SlotIs DEF Memories, Linked
  <1>6. ASSUME NEW f, NEW k \in 1..recorded
        PROVE  /\ k = current => Body(f, k) = here
               /\ k < current => Body(f, k) = Undo(f[k + 1], SlotAt(k).diffs)
               /\ current < k => Body(f, k) = Redo(f[k - 1], SlotAt(k - 1).diffs)
    <2>1. k \in Int /\ current \in Int
      BY <1>2
    <2> HIDE DEF here
    <2> QED
      BY <2>1
  <1> HIDE DEF here, Body
  <1>7. ASSUME NEW k \in 1..recorded PROVE R[k] = Body(R, k)
    BY <1>2, <1>3, <1>4, <1>5, <1>6
  <1>8. Defines(R)
    BY <1>7 DEF Memories
  <1>9. Defines(at)
    <2> HIDE DEF Defines
    <2> QED
      BY <1>8, Zenon
  <1> HIDE DEF at
  <1>10. \A k \in 1..recorded : at[k] = Body(at, k)
    BY <1>9
  <1> DEFINE Up == {j \in 0..recorded - current : at[current + j] = R[current + j]}
             Down == {j \in 0..current - 1 : at[current - j] = R[current - j]}
  <1>11. at[current] = R[current]
    BY <1>2, <1>3, <1>6, <1>10
  <1>12. \A j \in 0..recorded - current : j \in Up
    <2>1. 0 \in Up
      BY <1>2, <1>11
    <2>2. ASSUME NEW j \in 0..(recorded - current) - 1, j \in Up PROVE j + 1 \in Up
      <3> DEFINE k == current + (j + 1)
      <3>1. k \in 1..recorded /\ current < k /\ k - 1 = current + j /\ j + 1 \in 0..recorded - current
        BY <1>2
      <3>2. at[k - 1] = R[k - 1]
        BY <2>2, <3>1
      <3> HIDE DEF k
      <3>3. at[k] = R[k]
        BY <1>5, <1>6, <1>10, <3>1, <3>2
      <3> QED
        BY <3>1, <3>3 DEF k
    <2>3. recorded - current \in Nat
      BY <1>2
    <2> DEFINE m == recorded - current
               U == Up
    <2>4. 0 \in U /\ \A j \in 0..m - 1 : j \in U => j + 1 \in U
      BY <2>1, <2>2
    <2> HIDE DEF U, m
    <2>5. \A j \in 0..m : j \in U
      BY <2>3, <2>4, Induct DEF m
    <2> QED
      BY <2>5 DEF U, m
  <1>13. \A j \in 0..current - 1 : j \in Down
    <2>1. 0 \in Down
      BY <1>2, <1>11
    <2>2. ASSUME NEW j \in 0..(current - 1) - 1, j \in Down PROVE j + 1 \in Down
      <3> DEFINE k == current - (j + 1)
      <3>1. k \in 1..recorded /\ k < current /\ k + 1 = current - j /\ j + 1 \in 0..current - 1
        BY <1>2
      <3>2. at[k + 1] = R[k + 1]
        BY <2>2, <3>1
      <3> HIDE DEF k
      <3>3. at[k] = R[k]
        BY <1>4, <1>6, <1>10, <3>1, <3>2
      <3> QED
        BY <3>1, <3>3 DEF k
    <2>3. current - 1 \in Nat
      BY <1>2
    <2> DEFINE m == current - 1
               D == Down
    <2>4. 0 \in D /\ \A j \in 0..m - 1 : j \in D => j + 1 \in D
      BY <2>1, <2>2
    <2> HIDE DEF D, m
    <2>5. \A j \in 0..m : j \in D
      BY <2>3, <2>4, Induct DEF m
    <2> QED
      BY <2>5 DEF D, m
  <1>14. ASSUME NEW k \in 1..recorded PROVE at[k] = R[k]
    <2>1. CASE current <= k
      <3>1. k - current \in 0..recorded - current /\ current + (k - current) = k
        BY <1>2, <2>1
      <3>2. k - current \in Up
        BY <1>12, <3>1
      <3> QED
        BY <3>1, <3>2
    <2>2. CASE k < current
      <3>1. current - k \in 0..current - 1 /\ current - (current - k) = k
        BY <1>2, <2>2
      <3>2. current - k \in Down
        BY <1>13, <3>1
      <3> QED
        BY <3>1, <3>2
    <2> QED
      BY <1>2, <2>1, <2>2
  <1>15. at = R
    <2>1. at = [k \in 1..recorded |-> Body(at, k)] /\ R = [k \in 1..recorded |-> Body(R, k)]
      BY <1>8, <1>9
    <2>2. \A k \in 1..recorded : Body(at, k) = Body(R, k)
      BY <1>7, <1>10, <1>14
    <2> QED
      BY <2>1, <2>2
  <1> QED
    BY <1>1, <1>15

(* What the ring stands for. *)
PastOf(R) == [k \in 1..recorded |-> [hw |-> slots[Pos(k)].hw, ram |-> R[k]]]

(* The snapshots the model reads from the ring. *)
LEMMA PastIs == \A R : Types /\ Memories(R) => Past = PastOf(R)
  <1> SUFFICES ASSUME NEW R, Types, Memories(R) PROVE Past = PastOf(R)
    OBVIOUS
  <1>1. RamAt = R
    BY RamIs
  <1> HIDE DEF Past
  <1> QED
    BY <1>1, SlotIs DEF Past, PastOf

-----------------------------------------------------------------------------
(* An instruction. *)

NoWrite == <<>>
WriteOf(a, v) == <<[addr |-> a, before |-> ram[a], after |-> v]>>

(* What an instruction writes, and what the current slot holds then, leads   *)
(* from the slot's memory to the new one, and back.                          *)
LEMMA SlotLeads ==
  ASSUME Types, NEW R, Memories(R), NEW w,
         w = NoWrite \/ \E a \in Addrs, v \in Values : w = WriteOf(a, v),
         NEW d, d = (IF last THEN slots[idx].diffs ELSE <<>>) \o w
  PROVE  /\ d \in Seq(Writes) /\ Redo(ram, w) \in [Addrs -> Values]
         /\ R[current] = Undo(Redo(ram, w), d) /\ Redo(ram, w) = Redo(R[current], d)
  <1> DEFINE b == IF last THEN slots[idx].diffs ELSE <<>>
             r == R[current]
  <1>1. slots[idx].diffs \in Seq(Writes) /\ ram \in [Addrs -> Values]
    <2>1. slots[idx] \in Slots /\ ram \in [Addrs -> Values]
      BY DEF Types, RingOK
    <2> QED
      BY <2>1 DEF Slots
  <1>2. r \in [Addrs -> Values]
    BY DEF Types, RingOK, Memories
  <1>3. b \in Seq(Writes) /\ ram = Redo(r, b) /\ r = Undo(ram, b)
    <2>1. CASE last
      BY <1>1, <2>1 DEF Memories, Present
    <2>2. CASE ~last
      BY <1>2, <2>2, NothingToUndo DEF Memories, Present
    <2> QED
      BY <2>1, <2>2
  <1>4. d = b \o w
    OBVIOUS
  <1> HIDE DEF b, r
  <1>5. CASE w = NoWrite
    <2>1. d = b
      BY <1>3, <1>4, <1>5 DEF NoWrite
    <2>2. Redo(ram, w) = ram
      BY <1>1, <1>5, NothingToUndo DEF NoWrite
    <2> QED
      BY <1>1, <1>3, <2>1, <2>2 DEF r
  <1>6. CASE \E a \in Addrs, v \in Values : w = WriteOf(a, v)
    <2>1. PICK a \in Addrs, v \in Values : w = WriteOf(a, v)
      BY <1>6
    <2> DEFINE x == [addr |-> a, before |-> ram[a], after |-> v]
    <2>2. x \in Writes /\ x.addr = a /\ x.before = ram[a] /\ x.after = v /\ w = <<x>>
      BY <1>1, <2>1 DEF Writes, WriteOf
    <2> HIDE DEF x
    <2>3. d \in Seq(Writes)
      <3>1. <<x>> \in Seq(Writes)
        BY <2>2
      <3> QED
        BY <1>3, <1>4, <2>2, <3>1, ConcatProperties
    <2>4. Redo(ram, w) = [ram EXCEPT ![a] = v]
      <3>1. <<>> \in Seq(Writes) /\ <<>> \o <<x>> = <<x>>
        BY <2>2
      <3>2. Redo(ram, <<>> \o <<x>>) = [Redo(ram, <<>>) EXCEPT ![x.addr] = x.after]
        BY <1>1, <2>2, <3>1, RedoAppend
      <3>3. Redo(ram, <<>>) = ram
        BY <1>1, NothingToUndo
      <3> QED
        BY <2>2, <3>1, <3>2, <3>3
    <2>5. Redo(r, d) = [ram EXCEPT ![a] = v]
      <3>1. Redo(r, b \o <<x>>) = [Redo(r, b) EXCEPT ![x.addr] = x.after]
        BY <1>2, <1>3, <2>2, RedoAppend DEF r
      <3> QED
        BY <1>3, <1>4, <2>2, <3>1
    <2> DEFINE q == [ram EXCEPT ![a] = v]
    <2>6. q \in [Addrs -> Values] /\ [q EXCEPT ![a] = ram[a]] = ram
      BY <1>1
    <2> HIDE DEF q
    <2>7. Undo(q, d) = r
      <3>1. Undo(q, b \o <<x>>) = Undo([q EXCEPT ![x.addr] = x.before], b)
        BY <1>3, <2>2, <2>6, UndoAppend
      <3> QED
        BY <1>3, <1>4, <2>2, <2>6, <3>1
    <2> QED
      BY <2>3, <2>4, <2>5, <2>6, <2>7 DEF q, r
  <1> QED
    BY <1>5, <1>6

(* Sequences given as functions. *)
LEMMA AppendIs ==
  ASSUME NEW n \in Nat, NEW s, s = [k \in 1..n |-> s[k]], NEW e
  PROVE  Append(s, e) = [k \in 1..n + 1 |-> IF k <= n THEN s[k] ELSE e]
  <1> DEFINE S == {s[k] : k \in 1..n} \union {e}
  <1>1. s \in [1..n -> S] /\ e \in S
    OBVIOUS
  <1> HIDE DEF S
  <1>2. s \in Seq(S) /\ Len(s) = n
    BY <1>1
  <1>3. /\ Append(s, e) \in Seq(S) /\ Len(Append(s, e)) = n + 1
        /\ \A k \in 1..n : Append(s, e)[k] = s[k]
        /\ Append(s, e)[n + 1] = e
    BY <1>1, <1>2, AppendProperties
  <1>4. Append(s, e) = [k \in 1..n + 1 |-> Append(s, e)[k]]
    BY <1>3
  <1> QED
    BY <1>3, <1>4

LEMMA TailIs ==
  ASSUME NEW n \in Nat, NEW s, s = [k \in 1..n + 1 |-> s[k]]
  PROVE  Len(s) = n + 1 /\ Tail(s) = [k \in 1..n |-> s[k + 1]]
  <1> DEFINE S == {s[k] : k \in 1..n + 1}
  <1>1. s \in [1..n + 1 -> S] /\ n + 1 \in Nat
    OBVIOUS
  <1> HIDE DEF S
  <1>2. s \in Seq(S) /\ Len(s) = n + 1 /\ s # <<>>
    BY <1>1
  <1>3. /\ Tail(s) \in Seq(S) /\ Len(Tail(s)) = n
        /\ \A k \in 1..n : Tail(s)[k] = s[k + 1]
    BY <1>2, HeadTailProperties
  <1>4. Tail(s) = [k \in 1..n |-> Tail(s)[k]]
    BY <1>3
  <1> QED
    BY <1>2, <1>3, <1>4

LEMMA SubSeqIs ==
  ASSUME NEW n \in Nat, NEW s, s = [k \in 1..n |-> s[k]], NEW c \in 1..n
  PROVE  Len(s) = n /\ SubSeq(s, 1, c) = [k \in 1..c |-> s[k]]
  <1> DEFINE S == {s[k] : k \in 1..n}
  <1>1. s \in [1..n -> S]
    OBVIOUS
  <1> HIDE DEF S
  <1>2. s \in Seq(S) /\ Len(s) = n
    BY <1>1
  <1>3. /\ SubSeq(s, 1, c) \in Seq(S) /\ Len(SubSeq(s, 1, c)) = c
        /\ \A k \in 1..c : SubSeq(s, 1, c)[k] = s[k]
    BY <1>2
  <1>4. SubSeq(s, 1, c) = [k \in 1..c |-> SubSeq(s, 1, c)[k]]
    BY <1>3
  <1> QED
    BY <1>2, <1>3, <1>4

(* Slots like ss, of which the current one leads to memory m, and no other   *)
(* link has been touched.                                                    *)
Leads(ss, Q, m) ==
  /\ ss \in [0..size - 1 -> Slots] /\ m \in [Addrs -> Values]
  /\ Q \in [1..current -> [Addrs -> Values]]
  /\ \A k \in 1..current - 1 : /\ Q[k + 1] = Redo(Q[k], ss[Pos(k)].diffs)
                               /\ Q[k] = Undo(Q[k + 1], ss[Pos(k)].diffs)
  /\ Q[current] = Undo(m, ss[idx].diffs) /\ m = Redo(Q[current], ss[idx].diffs)

(* The snapshots up to the current one. *)
Kept(ss, Q) == [k \in 1..current |-> [hw |-> ss[Pos(k)].hw, ram |-> Q[k]]]

(* Storing a state adds a snapshot, and drops the oldest if the ring is full. *)
LEMMA StoreGrows ==
  ASSUME RingOK, NEW ss, NEW Q, NEW m, Leads(ss, Q, m), NEW state \in Moments,
         current < size, StoreState(ss, idx, current, state),
         last' = TRUE, frameNum' = state.frame, size' = size, ram' = m, hw' = state
  PROVE  \E R : /\ Types' /\ Memories(R)'
                /\ PastOf(R)' = Append(Kept(ss, Q), [hw |-> state, ram |-> m])
  <1> DEFINE n == NextIdx(idx)
  <1>0. PICK R, top : R = [k \in 1..current + 1 |-> IF k <= current THEN Q[k] ELSE m]
                      /\ top = current + 1
    OBVIOUS
  <1>1. /\ size \in Nat /\ size # 0 /\ idx \in 0..size - 1 /\ current \in 1..size - 1 /\ size \in Sizes
        /\ current + 1 \in 1..size
    BY DEF RingOK
  <1>2. /\ idx' = n /\ current' = current + 1 /\ recorded' = current + 1
        /\ slots' = [ss EXCEPT ![n] = Snapshot(state)]
    BY <1>1 DEF StoreState
  <1>3. n = (idx + 1) % size
    BY DEF NextIdx
  <1> HIDE DEF n
  <1>4. /\ n \in 0..size - 1 /\ Place(n, current + 1, size, current + 1) = n
        /\ \A k \in 1..current : /\ Place(n, current + 1, size, k) = Pos(k)
                                 /\ Pos(k) # n
    BY <1>1, <1>3, PlaceGrows DEF Pos
  <1>5. /\ Pos(top)' = n
        /\ \A k \in 1..current : Pos(k)' = Pos(k) /\ Pos(k) \in 0..size - 1 /\ Pos(k) # n
    <2>1. \A k : Pos(k)' = Place(n, current + 1, size, k)
      BY <1>2 DEF Pos
    <2>2. \A k \in 1..current : Pos(k) \in 0..size - 1
      BY <1>1, PosIs
    <2>3. Pos(top)' = n
      BY <1>0, <1>4, <2>1, Zenon
    <2> QED
      BY <1>4, <2>1, <2>2, <2>3
  <1>6. Snapshot(state) \in Slots /\ Snapshot(state).hw = state /\ Snapshot(state).diffs = <<>>
    BY DEF Snapshot, Slots
  <1>7. /\ slots' \in [0..size - 1 -> Slots] /\ slots'[n] = Snapshot(state)
        /\ \A i \in 0..size - 1 : i # n => slots'[i] = ss[i]
    BY <1>2, <1>4, <1>6 DEF Leads
  <1>8. Types'
    <2>1. state.frame \in 0..MaxInstr
      BY DEF Moments, HwStates
    <2>2. RingOK'
      BY <1>1, <1>2, <1>4, <1>7, <2>1 DEF RingOK
    <2> QED
      BY <2>2 DEF Types, Leads
  <1>9. /\ R \in [1..current + 1 -> [Addrs -> Values]] /\ R[current + 1] = m
        /\ \A k \in 1..current : R[k] = Q[k]
    BY <1>0, <1>1 DEF Leads
  <1>10. Linked(R)'
    <2>1. ASSUME NEW k \in 1..current
          PROVE  /\ R[k + 1] = Redo(R[k], slots'[Pos(k)'].diffs)
                 /\ R[k] = Undo(R[k + 1], slots'[Pos(k)'].diffs)
      <3>1. slots'[Pos(k)'] = ss[Pos(k)]
        BY <1>5, <1>7
      <3>2. CASE k = current
        <4>1. Pos(k) = idx
          BY <1>1, <3>2, PosIs
        <4> QED
          BY <1>9, <3>1, <3>2, <4>1 DEF Leads
      <3>3. CASE k # current
        <4>1. k \in 1..current - 1 /\ k + 1 \in 1..current
          BY <1>1, <3>3
        <4> QED
          BY <1>9, <3>1, <4>1 DEF Leads
      <3> QED
        BY <3>2, <3>3
    <2>2. recorded' - 1 = current
      BY <1>1, <1>2
    <2> QED
      BY <2>1, <2>2 DEF Linked
  <1>11. Present(R)'
    <2>1. slots'[idx'].diffs = <<>> /\ R[current'] = m /\ m \in [Addrs -> Values]
      BY <1>2, <1>6, <1>7, <1>9 DEF Leads
    <2>2. R[current'] = Undo(ram', slots'[idx'].diffs) /\ ram' = Redo(R[current'], slots'[idx'].diffs)
      BY <2>1, NothingToUndo
    <2> QED
      BY <2>2 DEF Present
  <1>12. Memories(R)'
    BY <1>2, <1>9, <1>10, <1>11 DEF Memories
  <1>13. PastOf(R)' = Append(Kept(ss, Q), [hw |-> state, ram |-> m])
    <2> DEFINE e == [hw |-> state, ram |-> m]
               kept == Kept(ss, Q)
               all == PastOf(R)'
    <2>0. recorded' = current + 1
      BY <1>2
    <2>1. /\ all = [k \in 1..current + 1 |-> [hw |-> slots'[Pos(k)'].hw, ram |-> R[k]]]
          /\ kept = [k \in 1..current |-> [hw |-> ss[Pos(k)].hw, ram |-> Q[k]]]
      BY <2>0, Zenon DEF PastOf, Kept
    <2>2. all[current + 1] = e
      <3>1. slots'[Pos(top)'].hw = state /\ R[top] = m
        BY <1>0, <1>5, <1>6, <1>7, <1>9
      <3>2. top \in 1..current + 1 /\ top = current + 1
        BY <1>0, <1>1
      <3> QED
        BY <2>1, <3>1, <3>2
    <2>3. ASSUME NEW k \in 1..current PROVE all[k] = kept[k]
      <3>1. slots'[Pos(k)'].hw = ss[Pos(k)].hw /\ R[k] = Q[k]
        BY <1>5, <1>7, <1>9
      <3>2. k \in 1..current + 1
        BY <1>1
      <3> QED
        BY <2>1, <3>1, <3>2
    <2>4. current \in Nat
      BY <1>1
    <2>5. all = [k \in 1..current + 1 |-> all[k]] /\ kept = [k \in 1..current |-> kept[k]]
      BY <2>1
    <2> HIDE DEF all, kept, e
    <2>6. Append(kept, e) = [k \in 1..current + 1 |-> IF k <= current THEN kept[k] ELSE e]
      BY <2>4, <2>5, AppendIs
    <2>7. \A k \in 1..current + 1 : all[k] = IF k <= current THEN kept[k] ELSE e
      <3>1. ASSUME NEW k \in 1..current + 1 PROVE all[k] = IF k <= current THEN kept[k] ELSE e
        <4>1. k \in 1..current \/ k = current + 1
          BY <2>4
        <4> QED
          BY <2>2, <2>3, <2>4, <4>1
      <3> QED
        BY <3>1
    <2>8. all = Append(kept, e)
      BY <2>5, <2>6, <2>7
    <2> QED
      BY <2>8 DEF all, kept, e
  <1> QED
    BY <1>8, <1>12, <1>13

(* Storing a state into a full ring drops the oldest snapshot. *)
LEMMA StoreShifts ==
  ASSUME RingOK, NEW ss, NEW Q, NEW m, Leads(ss, Q, m), NEW state \in Moments,
         current = size, StoreState(ss, idx, current, state),
         last' = TRUE, frameNum' = state.frame, size' = size, ram' = m, hw' = state
  PROVE  \E R : /\ Types' /\ Memories(R)'
                /\ PastOf(R)' = Tail(Append(Kept(ss, Q), [hw |-> state, ram |-> m]))
  <1> DEFINE n == NextIdx(idx)
  <1>0. PICK R, top : R = [k \in 1..size |-> IF k < size THEN Q[k + 1] ELSE m] /\ top = size
    OBVIOUS
  <1>1. /\ size \in Nat /\ size # 0 /\ idx \in 0..size - 1 /\ size \in Sizes
        /\ current \in 1..size /\ size \in 1..size /\ size - 1 \in Nat
    BY DEF RingOK
  <1>2. /\ idx' = n /\ current' = size /\ recorded' = size
        /\ slots' = [ss EXCEPT ![n] = Snapshot(state)]
    BY <1>1 DEF StoreState
  <1>3. n = (idx + 1) % size
    BY DEF NextIdx
  <1> HIDE DEF n
  <1>4. /\ n \in 0..size - 1 /\ Place(n, size, size, size) = n
        /\ \A k \in 1..size - 1 : /\ Place(n, size, size, k) = Place(idx, size, size, k + 1)
                                  /\ Place(idx, size, size, k + 1) # n
    BY <1>1, <1>3, PlaceShifts
  <1>5. /\ Pos(top)' = n
        /\ \A k \in 1..size - 1 : /\ Pos(k)' = Pos(k + 1)
                                  /\ Pos(k + 1) \in 0..size - 1 /\ Pos(k + 1) # n
    <2>1. \A k : Pos(k)' = Place(n, size, size, k) /\ Pos(k) = Place(idx, size, size, k)
      BY <1>2 DEF Pos
    <2>2. \A k \in 1..size - 1 : Pos(k + 1) \in 0..size - 1
      BY <1>1, PosIs
    <2>3. Pos(top)' = n
      BY <1>0, <1>4, <2>1, Zenon
    <2> QED
      BY <1>4, <2>1, <2>2, <2>3
  <1>6. Snapshot(state) \in Slots /\ Snapshot(state).hw = state /\ Snapshot(state).diffs = <<>>
    BY DEF Snapshot, Slots
  <1>7. /\ slots' \in [0..size - 1 -> Slots] /\ slots'[n] = Snapshot(state)
        /\ \A i \in 0..size - 1 : i # n => slots'[i] = ss[i]
    BY <1>2, <1>4, <1>6 DEF Leads
  <1>8. Types'
    <2>1. state.frame \in 0..MaxInstr
      BY DEF Moments, HwStates
    <2>2. RingOK'
      BY <1>1, <1>2, <1>4, <1>7, <2>1 DEF RingOK
    <2> QED
      BY <2>2 DEF Types, Leads
  <1>9. /\ R \in [1..size -> [Addrs -> Values]] /\ R[size] = m
        /\ \A k \in 1..size - 1 : R[k] = Q[k + 1] /\ k + 1 \in 1..size
    <2>1. \A k \in 1..size : k < size => k + 1 \in 1..current
      BY <1>1
    <2> QED
      BY <1>0, <1>1, <2>1 DEF Leads
  <1>10. Linked(R)'
    <2>1. ASSUME NEW k \in 1..size - 1
          PROVE  /\ R[k + 1] = Redo(R[k], slots'[Pos(k)'].diffs)
                 /\ R[k] = Undo(R[k + 1], slots'[Pos(k)'].diffs)
      <3>1. slots'[Pos(k)'] = ss[Pos(k + 1)] /\ R[k] = Q[k + 1]
        BY <1>5, <1>7, <1>9
      <3>2. CASE k + 1 = size
        <4>1. Pos(k + 1) = idx /\ k + 1 = current
          BY <1>1, <3>2, PosIs
        <4> QED
          BY <1>9, <3>1, <3>2, <4>1 DEF Leads
      <3>3. CASE k + 1 # size
        <4>1. k + 1 \in 1..current - 1 /\ k + 1 \in 1..size - 1
          BY <1>1, <3>3
        <4>2. R[k + 1] = Q[(k + 1) + 1]
          BY <1>9, <4>1
        <4> QED
          BY <3>1, <4>1, <4>2 DEF Leads
      <3> QED
        BY <3>2, <3>3
    <2>2. recorded' = size
      BY <1>2
    <2> QED
      BY <2>1, <2>2 DEF Linked
  <1>11. Present(R)'
    <2>1. slots'[idx'].diffs = <<>> /\ R[current'] = m /\ m \in [Addrs -> Values]
      BY <1>2, <1>6, <1>7, <1>9 DEF Leads
    <2>2. R[current'] = Undo(ram', slots'[idx'].diffs) /\ ram' = Redo(R[current'], slots'[idx'].diffs)
      BY <2>1, NothingToUndo
    <2> QED
      BY <2>2 DEF Present
  <1>12. Memories(R)'
    BY <1>2, <1>9, <1>10, <1>11 DEF Memories
  <1>13. PastOf(R)' = Tail(Append(Kept(ss, Q), [hw |-> state, ram |-> m]))
    <2> DEFINE e == [hw |-> state, ram |-> m]
               kept == Kept(ss, Q)
               all == PastOf(R)'
    <2>0. recorded' = size
      BY <1>2
    <2>1. /\ all = [k \in 1..size |-> [hw |-> slots'[Pos(k)'].hw, ram |-> R[k]]]
          /\ kept = [k \in 1..size |-> [hw |-> ss[Pos(k)].hw, ram |-> Q[k]]]
      BY <2>0, Zenon DEF PastOf, Kept
    <2>2. all[size] = e
      <3>1. slots'[Pos(top)'].hw = state /\ R[top] = m
        BY <1>0, <1>5, <1>6, <1>7, <1>9
      <3>2. top \in 1..size /\ top = size
        BY <1>0, <1>1
      <3> QED
        BY <2>1, <3>1, <3>2
    <2>3. ASSUME NEW k \in 1..size - 1 PROVE all[k] = kept[k + 1]
      <3>1. slots'[Pos(k)'].hw = ss[Pos(k + 1)].hw /\ R[k] = Q[k + 1]
        BY <1>5, <1>7, <1>9
      <3>2. k \in 1..size /\ k + 1 \in 1..size
        BY <1>1
      <3> QED
        BY <2>1, <3>1, <3>2
    <2>4. all = [k \in 1..size |-> all[k]] /\ kept = [k \in 1..size |-> kept[k]]
      BY <2>1
    <2> HIDE DEF all, kept, e
    <2> DEFINE app == Append(kept, e)
    <2>5. app = [k \in 1..size + 1 |-> IF k <= size THEN kept[k] ELSE e]
      BY <1>1, <2>4, AppendIs
    <2>6. app = [k \in 1..size + 1 |-> app[k]]
      BY <2>5
    <2> HIDE DEF app
    <2>7. Tail(app) = [k \in 1..size |-> app[k + 1]]
      BY <1>1, <2>6, TailIs
    <2>8. ASSUME NEW k \in 1..size PROVE all[k] = app[k + 1]
      <3>1. k + 1 \in 1..size + 1 /\ k \in Int /\ (k \in 1..size - 1 \/ k = size)
        BY <1>1
      <3>2. app[k + 1] = IF k + 1 <= size THEN kept[k + 1] ELSE e
        BY <2>5, <3>1
      <3> QED
        BY <1>1, <2>2, <2>3, <3>1, <3>2
    <2>9. all = Tail(app)
      BY <2>4, <2>7, <2>8
    <2> QED
      BY <2>9 DEF all, kept, e, app
  <1> QED
    BY <1>8, <1>12, <1>13

(* The timeline the ring stands for, before an instruction, after it.       *)
Machine == [hw |-> hw, ram |-> ram]
Cut(p) == IF last THEN p ELSE SubSeq(p, 1, current)

(* The snapshots an instruction runs on from. *)
LEMMA CutIs ==
  ASSUME Types, NEW R, Memories(R)
  PROVE  /\ Cut(PastOf(R)) = [k \in 1..current |-> [hw |-> slots[Pos(k)].hw, ram |-> R[k]]]
         /\ Len(PastOf(R)) = recorded
  <1> DEFINE p == PastOf(R)
  <1>1. /\ p = [k \in 1..recorded |-> [hw |-> slots[Pos(k)].hw, ram |-> R[k]]]
        /\ recorded \in Nat /\ current \in 1..recorded /\ last \in BOOLEAN
        /\ (last => current = recorded)
    BY DEF PastOf, Types, RingOK
  <1>2. p = [k \in 1..recorded |-> p[k]]
    BY <1>1
  <1>3. \A k \in 1..current : p[k] = [hw |-> slots[Pos(k)].hw, ram |-> R[k]]
    BY <1>1
  <1> HIDE DEF p
  <1>4. Len(p) = recorded /\ SubSeq(p, 1, current) = [k \in 1..current |-> p[k]]
    BY <1>1, <1>2, SubSeqIs
  <1>5. CASE last
    BY <1>1, <1>4, <1>5 DEF Cut, p
  <1>6. CASE ~last
    <2>1. Cut(p) = [k \in 1..current |-> p[k]]
      BY <1>4, <1>6 DEF Cut
    <2>2. Cut(p) = [k \in 1..current |-> [hw |-> slots[Pos(k)].hw, ram |-> R[k]]]
      BY <1>3, <2>1
    <2> QED
      BY <1>4, <2>2 DEF p
  <1> QED
    BY <1>1, <1>5, <1>6

(* An instruction leaves the past it cut, or adds its state to it.          *)
LEMMA ExecuteKeeps ==
  ASSUME Types, NEW R, Memories(R), NEW f \in {0, 1}, NEW w, Execute(f, w),
         w = NoWrite \/ \E a \in Addrs, v \in Values : w = WriteOf(a, v)
  PROVE  \E Q : /\ Types' /\ Memories(Q)' /\ last' = TRUE
                /\ \/ PastOf(Q)' = Cut(PastOf(R))
                   \/ /\ current < size
                      /\ PastOf(Q)' = Append(Cut(PastOf(R)), Machine')
                   \/ /\ current = size
                      /\ PastOf(Q)' = Tail(Append(Cut(PastOf(R)), Machine'))
  <1> DEFINE d == (IF last THEN slots[idx].diffs ELSE <<>>) \o w
             r == Redo(ram, w)
             state == [instr |-> hw.instr + 1, frame |-> hw.frame + f]
  <1>1. /\ d \in Seq(Writes) /\ r \in [Addrs -> Values]
        /\ R[current] = Undo(r, d) /\ r = Redo(R[current], d)
    BY SlotLeads
  <1>2. PICK ss : ss = [slots EXCEPT ![idx].diffs = d]
    OBVIOUS
  <1>3. PICK P : P = [k \in 1..current |-> R[k]]
    OBVIOUS
  <1>4. /\ size \in Nat /\ size # 0 /\ idx \in 0..size - 1 /\ current \in 1..recorded
        /\ recorded \in 1..size /\ current \in 1..size
        /\ slots \in [0..size - 1 -> Slots] /\ size \in Sizes /\ frameNum \in 0..MaxInstr
        /\ last \in BOOLEAN /\ RingOK /\ (last => current = recorded)
    BY DEF Types, RingOK
  <1>5. state \in Moments /\ hw' = state /\ ram' = r /\ size' = size
    <2>1. hw \in Moments /\ hw.instr < MaxInstr /\ MaxInstr \in Nat
      BY RecorderAssumption DEF Types, Execute
    <2>2. state \in Moments
      BY <2>1 DEF Moments, HwStates
    <2> QED
      BY <2>2 DEF Execute
  <1> HIDE DEF d, r, state
  <1>6. /\ ss \in [0..size - 1 -> Slots] /\ ss[idx].diffs = d /\ ss[idx].hw = slots[idx].hw
        /\ \A i \in 0..size - 1 : i # idx => ss[i] = slots[i]
    <2>1. slots[idx] \in Slots
      BY <1>4
    <2>2. [slots[idx] EXCEPT !.diffs = d] \in Slots
      BY <1>1, <2>1 DEF Slots
    <2>3. ss[idx] = [slots[idx] EXCEPT !.diffs = d]
      BY <1>2, <1>4
    <2>4. ss[idx].diffs = d /\ ss[idx].hw = slots[idx].hw
      BY <2>1, <2>3 DEF Slots
    <2> QED
      BY <1>2, <1>4, <2>2, <2>4
  <1>7. \A k \in 1..current : /\ Pos(k) \in 0..size - 1 /\ (Pos(k) = idx => k = current)
                              /\ (k = current => Pos(k) = idx)
    <2>1. ASSUME NEW k \in 1..current
          PROVE  Pos(k) \in 0..size - 1 /\ (Pos(k) = idx <=> k = current)
      <3>1. k \in 1..size
        BY <1>4
      <3>2. Pos(k) = IF idx + k - current < 0 THEN idx + k - current + size
                     ELSE IF idx + k - current < size THEN idx + k - current
                     ELSE idx + k - current - size
        BY <1>4, <3>1, PlaceIs DEF Pos
      <3> QED
        BY <1>4, <3>1, <3>2
    <2> QED
      BY <2>1
  <1>8. Leads(ss, P, r)
    <2>1. P \in [1..current -> [Addrs -> Values]] /\ \A k \in 1..current : P[k] = R[k]
      BY <1>3, <1>4 DEF Memories
    <2>2. ASSUME NEW k \in 1..current - 1
          PROVE  /\ P[k + 1] = Redo(P[k], ss[Pos(k)].diffs)
                 /\ P[k] = Undo(P[k + 1], ss[Pos(k)].diffs)
      <3>1. k \in 1..recorded - 1 /\ k \in 1..current /\ k + 1 \in 1..current /\ k # current
        BY <1>4
      <3>2. ss[Pos(k)] = slots[Pos(k)]
        BY <1>6, <1>7, <3>1
      <3> QED
        BY <2>1, <3>1, <3>2 DEF Memories, Linked
    <2>3. current \in 1..current
      BY <1>4
    <2> QED
      BY <1>1, <1>6, <2>1, <2>2, <2>3 DEF Leads
  <1>9. Kept(ss, P) = Cut(PastOf(R))
    <2>1. \A k \in 1..current : ss[Pos(k)].hw = slots[Pos(k)].hw /\ P[k] = R[k]
      BY <1>3, <1>6, <1>7
    <2>2. Kept(ss, P) = [k \in 1..current |-> [hw |-> slots[Pos(k)].hw, ram |-> R[k]]]
      BY <2>1 DEF Kept
    <2> QED
      BY <2>2, CutIs
  <1>10. /\ last' = TRUE /\ frameNum' = state.frame
         /\ IF frameNum # state.frame THEN StoreState(ss, idx, current, state)
            ELSE /\ slots' = ss /\ recorded' = (IF last THEN recorded ELSE current)
                 /\ UNCHANGED <<idx, current>>
    <2>1. Update(w, hw')
      BY Zenon DEF Execute
    <2> QED
      BY <1>2, <1>5, <2>1 DEF Update, d
  <1>11. [hw |-> state, ram |-> r] = Machine'
    BY <1>5 DEF Machine
  <1>12. CASE frameNum # state.frame /\ current < size
    <2>1. \E Q : /\ Types' /\ Memories(Q)'
                 /\ PastOf(Q)' = Append(Kept(ss, P), [hw |-> state, ram |-> r])
      BY <1>4, <1>5, <1>8, <1>10, <1>12, StoreGrows
    <2> QED
      BY <1>9, <1>10, <1>11, <1>12, <2>1
  <1>13. CASE frameNum # state.frame /\ current = size
    <2>1. \E Q : /\ Types' /\ Memories(Q)'
                 /\ PastOf(Q)' = Tail(Append(Kept(ss, P), [hw |-> state, ram |-> r]))
      BY <1>4, <1>5, <1>8, <1>10, <1>13, StoreShifts
    <2> QED
      BY <1>9, <1>10, <1>11, <1>13, <2>1
  <1>14. CASE frameNum = state.frame
    <2>1. /\ slots' = ss /\ recorded' = current /\ idx' = idx /\ current' = current
          /\ size' = size /\ last' = TRUE /\ frameNum' = state.frame /\ ram' = r /\ hw' = state
      BY <1>4, <1>5, <1>10, <1>14
    <2>2. Types'
      BY <1>4, <1>5, <1>6, <1>8, <1>14, <2>1 DEF Types, RingOK, Leads
    <2>3. \A k : Pos(k)' = Pos(k)
      BY <2>1 DEF Pos
    <2>4. Linked(P)'
      BY <1>8, <2>1, <2>3 DEF Linked, Leads
    <2>5. Present(P)'
      BY <1>8, <2>1 DEF Present, Leads
    <2>6. Memories(P)'
      BY <1>8, <2>1, <2>4, <2>5 DEF Memories, Leads
    <2>7. PastOf(P)' = Kept(ss, P)
      BY <2>1, <2>3 DEF PastOf, Kept
    <2> QED
      BY <1>9, <2>1, <2>2, <2>6, <2>7
  <1>15. current < size \/ current = size
    BY <1>4
  <1> QED
    BY <1>12, <1>13, <1>14, <1>15

-----------------------------------------------------------------------------
(* Playback. *)

(* Where a playback by k frames ends. *)
BackBy(k) ==
  LET target == IF last THEN current - k + 1 ELSE current - k
  IN  IF target < 1 THEN 1 ELSE target
OnBy(k) == IF current + k > recorded THEN recorded ELSE current + k

(* A playback back by n frames goes from slot 0 to the slot before it: the   *)
(* only step whose slot is computed modulo 2^64 first.                       *)
OverStart(n) == idx < current - BackBy(n)
Wraps(n) == OverStart(n) => WordMod(size) = 0

(* The machine at the p-th snapshot. *)
At(R, p) ==
  [idx |-> Pos(p), current |-> p, last |-> FALSE, hw |-> slots[Pos(p)].hw, ram |-> R[p]]

(* The slot before a position is the slot of the position before. *)
LEMMA PrevIs ==
  ASSUME Types, NEW p \in 2..recorded, Pos(p) = 0 => WordMod(size) = 0
  PROVE  PrevIdx(Pos(p)) = Pos(p - 1)
  <1>1. /\ size \in Nat /\ size # 0 /\ idx \in 0..size - 1 /\ current \in 1..recorded
        /\ recorded \in 1..size /\ current \in 1..size /\ p \in 1..size /\ p - 1 \in 1..size
    BY DEF Types, RingOK
  <1>2. Pos(p) = IF idx + p - current < 0 THEN idx + p - current + size
                 ELSE IF idx + p - current < size THEN idx + p - current
                 ELSE idx + p - current - size
    BY <1>1, PlaceIs DEF Pos
  <1> DEFINE q == p - 1
  <1>3. Pos(q) = IF idx + q - current < 0 THEN idx + q - current + size
                 ELSE IF idx + q - current < size THEN idx + q - current
                 ELSE idx + q - current - size
    <2>1. q \in 1..size
      BY <1>1
    <2> HIDE DEF q
    <2> QED
      BY <1>1, <2>1, PlaceIs DEF Pos
  <1>4. CASE Pos(p) > 0
    <2>1. PrevIdx(Pos(p)) = Pos(p) - 1
      BY <1>4 DEF PrevIdx
    <2> QED
      BY <1>1, <1>2, <1>3, <1>4, <2>1
  <1>5. CASE ~ (Pos(p) > 0)
    <2>1. Pos(p) = 0 /\ Pos(q) = size - 1
      BY <1>1, <1>2, <1>3, <1>5
    <2>3. WordMod(size) = 0
      BY <2>1
    <2>4. PrevIdx(Pos(p)) = (0 + size - 1) % size
      BY <1>5, <2>3 DEF PrevIdx
    <2>5. (0 + size - 1) % size = size - 1
      BY <1>1
    <2> QED
      BY <2>1, <2>4, <2>5
  <1>6. Pos(p) \in Int
    BY <1>1, <1>2
  <1> QED
    BY <1>4, <1>5, <1>6

(* The slot after a position is the slot of the position after. *)
LEMMA NextPosIs ==
  ASSUME Types, NEW p \in 1..recorded - 1
  PROVE  NextIdx(Pos(p)) = Pos(p + 1)
  <1>1. /\ size \in Nat /\ size # 0 /\ idx \in 0..size - 1 /\ current \in 1..recorded
        /\ recorded \in 1..size /\ current \in 1..size /\ p \in 1..size /\ p + 1 \in 1..size
    BY DEF Types, RingOK
  <1>2. Pos(p) = (IF idx + p - current < 0 THEN idx + p - current + size
                  ELSE IF idx + p - current < size THEN idx + p - current
                  ELSE idx + p - current - size)
        /\ Pos(p) \in 0..size - 1
    BY <1>1, PlaceIs DEF Pos
  <1> DEFINE q == p + 1
  <1>3. Pos(q) = IF idx + q - current < 0 THEN idx + q - current + size
                 ELSE IF idx + q - current < size THEN idx + q - current
                 ELSE idx + q - current - size
    <2>1. q \in 1..size
      BY <1>1
    <2> HIDE DEF q
    <2> QED
      BY <1>1, <2>1, PlaceIs DEF Pos
  <1>4. NextIdx(Pos(p)) = IF Pos(p) + 1 < size THEN Pos(p) + 1 ELSE 0
    BY <1>1, <1>2, NextIs DEF NextIdx
  <1> QED
    BY <1>1, <1>2, <1>3, <1>4

(* A machine played back is at its snapshot. *)
LEMMA HereIs ==
  ASSUME Types, NEW R, Memories(R), ~last
  PROVE  Here = At(R, current)
  <1>1. Pos(current) = idx
    <2>1. current \in 1..size /\ RingOK
      BY DEF Types, RingOK
    <2> QED
      BY <2>1, PosIs
  <1>2. ram = R[current] /\ hw = slots[idx].hw /\ last = FALSE
    BY DEF Types, RingOK, Memories, Present
  <1> QED
    BY <1>1, <1>2 DEF Here, At

(* One step back goes to the snapshot before, or to the one the machine runs *)
(* on from.                                                                  *)
LEMMA BackIs ==
  ASSUME Types, NEW R, Memories(R)
  PROVE  /\ last => BackOnce(Here) = At(R, current)
         /\ BackOnce(At(R, 1)) = At(R, 1)
         /\ \A p \in 2..recorded :
              (Pos(p) = 0 => WordMod(size) = 0) => BackOnce(At(R, p)) = At(R, p - 1)
  <1>0. current \in 1..size /\ RingOK /\ recorded \in Nat
    BY DEF Types, RingOK
  <1>1. ASSUME last PROVE BackOnce(Here) = At(R, current)
    <2>1. Pos(current) = idx
      BY <1>0, PosIs
    <2>2. /\ Here.last = last /\ Here.idx = idx /\ Here.current = current /\ Here.ram = ram
      BY DEF Here
    <2> HIDE DEF Here
    <2>3. BackOnce(Here) = [idx |-> idx, current |-> current, last |-> FALSE,
                            hw |-> slots[idx].hw, ram |-> Undo(ram, slots[idx].diffs)]
      BY <1>1, <2>2 DEF BackOnce
    <2>4. R[current] = Undo(ram, slots[idx].diffs)
      BY <1>1 DEF Memories, Present
    <2> QED
      BY <2>1, <2>3, <2>4 DEF At
  <1>2. BackOnce(At(R, 1)) = At(R, 1)
    BY DEF At, BackOnce
  <1>3. ASSUME NEW p \in 2..recorded, Pos(p) = 0 => WordMod(size) = 0
        PROVE  BackOnce(At(R, p)) = At(R, p - 1)
    <2>1. p # 1 /\ p - 1 \in 1..recorded - 1 /\ (p - 1) + 1 = p
      BY <1>0
    <2>2. PrevIdx(Pos(p)) = Pos(p - 1)
      BY <1>3, PrevIs
    <2>3. /\ At(R, p).last = FALSE /\ At(R, p).idx = Pos(p) /\ At(R, p).current = p
          /\ At(R, p).ram = R[p]
      BY DEF At
    <2> DEFINE s == At(R, p)
               q == p - 1
    <2> HIDE DEF s
    <2>4. BackOnce(s) = [idx |-> Pos(q), current |-> q, last |-> FALSE,
                         hw |-> slots[Pos(q)].hw, ram |-> Undo(R[p], slots[Pos(q)].diffs)]
      BY <2>1, <2>2, <2>3 DEF BackOnce, s
    <2>5. R[q] = Undo(R[p], slots[Pos(q)].diffs)
      BY <2>1 DEF Memories, Linked
    <2> QED
      BY <2>4, <2>5 DEF At, s
  <1> QED
    BY <1>1, <1>2, <1>3

(* One step forward goes to the snapshot after, if there is one. *)
LEMMA OnIs ==
  ASSUME Types, NEW R, Memories(R)
  PROVE  /\ ForwardOnce(At(R, recorded)) = At(R, recorded)
         /\ \A p \in 1..recorded - 1 : ForwardOnce(At(R, p)) = At(R, p + 1)
  <1>0. recorded \in Nat
    BY DEF Types, RingOK
  <1>1. ForwardOnce(At(R, recorded)) = At(R, recorded)
    BY DEF At, ForwardOnce
  <1>2. ASSUME NEW p \in 1..recorded - 1 PROVE ForwardOnce(At(R, p)) = At(R, p + 1)
    <2>1. p # recorded
      BY <1>0
    <2>2. NextIdx(Pos(p)) = Pos(p + 1)
      BY NextPosIs
    <2>3. /\ At(R, p).last = FALSE /\ At(R, p).idx = Pos(p) /\ At(R, p).current = p
          /\ At(R, p).ram = R[p]
      BY DEF At
    <2>4. R[p + 1] = Redo(R[p], slots[Pos(p)].diffs)
      BY DEF Memories, Linked
    <2>5. ForwardOnce(At(R, p))
            = [At(R, p) EXCEPT !.idx = Pos(p + 1), !.current = p + 1,
                               !.hw = slots[Pos(p + 1)].hw, !.ram = R[p + 1]]
      BY <2>1, <2>2, <2>3, <2>4 DEF ForwardOnce
    <2> QED
      BY <2>5 DEF At
  <1> QED
    BY <1>1, <1>2

(* Playing one frame more back. *)
LEMMA BackByIs ==
  ASSUME Types, NEW k \in Nat
  PROVE  /\ k > 0 \/ ~last => BackBy(k) \in 1..recorded
         /\ ~last => BackBy(0) = current
         /\ last => BackBy(1) = current
         /\ k > 0 \/ ~last => BackBy(k + 1) = IF BackBy(k) = 1 THEN 1 ELSE BackBy(k) - 1
  <1>1. current \in 1..recorded /\ recorded \in Nat /\ last \in BOOLEAN
        /\ (last => current = recorded)
    BY DEF Types, RingOK
  <1>2. CASE last
    BY <1>1, <1>2 DEF BackBy
  <1>3. CASE ~last
    BY <1>1, <1>3 DEF BackBy
  <1> QED
    BY <1>2, <1>3

(* Playing one frame more forward. *)
LEMMA OnByIs ==
  ASSUME Types, NEW k \in Nat
  PROVE  /\ OnBy(k) \in 1..recorded /\ OnBy(0) = current
         /\ OnBy(k + 1) = IF OnBy(k) = recorded THEN recorded ELSE OnBy(k) + 1
  <1>1. current \in 1..recorded /\ recorded \in Nat
    BY DEF Types, RingOK
  <1> QED
    BY <1>1 DEF OnBy

(* A playback that does not go over the start leaves no slot 0 behind. *)
LEMMA WithinStart ==
  ASSUME Types, NEW n \in Nat, Wraps(n), NEW j \in Nat, j + 1 \in 1..n,
         j > 0 \/ ~last, BackBy(j) # 1
  PROVE  Pos(BackBy(j)) = 0 => WordMod(size) = 0
  <1>1. /\ size \in Nat /\ size # 0 /\ idx \in 0..size - 1 /\ current \in 1..recorded
        /\ recorded \in 1..size /\ current \in 1..size /\ last \in BOOLEAN
    BY DEF Types, RingOK
  <1>2. BackBy(j) \in 2..current /\ BackBy(n) \in Int /\ BackBy(n) < BackBy(j)
    <2>1. CASE last
      BY <1>1, <2>1 DEF BackBy
    <2>2. CASE ~last
      BY <1>1, <2>2 DEF BackBy
    <2> QED
      BY <2>1, <2>2
  <1>3. PICK b \in 2..current : b = BackBy(j)
    BY <1>2
  <1>4. Pos(b) = IF idx + b - current < 0 THEN idx + b - current + size
                 ELSE IF idx + b - current < size THEN idx + b - current
                 ELSE idx + b - current - size
    <2>1. b \in 1..size
      BY <1>1
    <2> QED
      BY <1>1, <2>1, PlaceIs DEF Pos
  <1>5. ASSUME ~OverStart(n) PROVE Pos(b) > 0
    BY <1>1, <1>2, <1>3, <1>4, <1>5 DEF OverStart
  <1> QED
    BY <1>3, <1>5 DEF Wraps

(* The loops end there. *)
LEMMA ReverseGoes ==
  ASSUME Types, NEW R, Memories(R), NEW n \in Nat, n > 0, Wraps(n), PlayReverse(n)
  PROVE  Goto(At(R, BackBy(n)))
  <1> DEFINE Defines(f) == f = [k \in 0..n |-> IF k = 0 THEN Here ELSE BackOnce(f[k - 1])]
             played == CHOOSE f : Defines(f)
  <1>1. Goto(played[n])
    BY Zenon DEF PlayReverse
  <1>2. PICK g : g = [k \in 0..n |-> IF k = 0 THEN Here ELSE At(R, BackBy(k))]
    OBVIOUS
  <1>3. ASSUME NEW k \in 1..n
        PROVE  BackOnce(IF k - 1 = 0 THEN Here ELSE At(R, BackBy(k - 1))) = At(R, BackBy(k))
    <2>0. last \in BOOLEAN /\ recorded \in Nat
      BY DEF Types, RingOK
    <2>1. CASE k = 1 /\ last
      <3>1. BackBy(1) = current
        BY <2>1, BackByIs
      <3>2. BackOnce(Here) = At(R, current)
        BY <2>1, BackIs
      <3> QED
        BY <2>1, <3>1, <3>2
    <2>2. CASE ~(k = 1 /\ last)
      <3> DEFINE j == k - 1
                 b == BackBy(j)
      <3>1. j \in Nat /\ k = j + 1 /\ (j > 0 \/ ~last)
        BY <2>2
      <3> HIDE DEF j
      <3>2. b \in 1..recorded /\ BackBy(k) = IF b = 1 THEN 1 ELSE b - 1
        BY <3>1, BackByIs
      <3>3. (IF j = 0 THEN Here ELSE At(R, b)) = At(R, b)
        <4>1. CASE j = 0
          <5>1. ~last /\ BackBy(0) = current
            BY <3>1, <4>1, BackByIs
          <5> QED
            BY <4>1, <5>1, HereIs
        <4>2. CASE j # 0
          BY <4>2
        <4> QED
          BY <4>1, <4>2
      <3> HIDE DEF b
      <3>4. BackOnce(At(R, b)) = At(R, BackBy(k))
        <4>1. CASE b = 1
          BY <3>2, <4>1, BackIs
        <4>2. CASE b # 1
          <5>1. b \in 2..recorded
            BY <2>0, <3>2, <4>2
          <5>2. Pos(b) = 0 => WordMod(size) = 0
            BY <3>1, <4>2, WithinStart DEF b
          <5>3. BackOnce(At(R, b)) = At(R, b - 1)
            BY <5>1, <5>2, BackIs
          <5> QED
            BY <3>2, <4>2, <5>3
        <4> QED
          BY <4>1, <4>2
      <3> QED
        BY <3>3, <3>4 DEF j, b
    <2> QED
      BY <2>1, <2>2
  <1> HIDE DEF Here
  <1>4. g = [k \in 0..n |-> IF k = 0 THEN Here ELSE BackOnce(g[k - 1])]
    <2>1. ASSUME NEW k \in 0..n
          PROVE  g[k] = IF k = 0 THEN Here ELSE BackOnce(g[k - 1])
      <3>1. CASE k = 0
        BY <1>2, <3>1
      <3>2. CASE k # 0
        <4>1. k \in 1..n /\ k - 1 \in 0..n
          BY <3>2
        <4>2. g[k - 1] = IF k - 1 = 0 THEN Here ELSE At(R, BackBy(k - 1))
          BY <1>2, <4>1
        <4>3. BackOnce(g[k - 1]) = At(R, BackBy(k))
          BY <1>3, <4>1, <4>2
        <4> QED
          BY <1>2, <3>2, <4>3
      <3> QED
        BY <3>1, <3>2
    <2>2. g = [k \in 0..n |-> g[k]]
      BY <1>2
    <2> QED
      BY <2>1, <2>2
  <1>5. Defines(played)
    <2>1. Defines(g)
      BY <1>4
    <2> HIDE DEF Defines
    <2> QED
      BY <2>1, Zenon
  <1> HIDE DEF played
  <1> DEFINE S == {k \in 0..n : played[k] = g[k]}
  <1>6. 0 \in S
    BY <1>4, <1>5
  <1>7. ASSUME NEW k \in 0..n - 1, k \in S PROVE k + 1 \in S
    <2>1. k + 1 \in 0..n /\ k + 1 # 0 /\ (k + 1) - 1 = k
      OBVIOUS
    <2>2. played[k + 1] = BackOnce(played[k]) /\ g[k + 1] = BackOnce(g[k])
      BY <1>4, <1>5, <2>1
    <2> QED
      BY <1>7, <2>1, <2>2
  <1> HIDE DEF S
  <1>8. n \in S
    BY <1>6, <1>7, Induct
  <1> QED
    BY <1>1, <1>2, <1>8 DEF S

LEMMA ForwardGoes ==
  ASSUME Types, NEW R, Memories(R), ~last, NEW n \in Nat, PlayForward(n)
  PROVE  Goto(At(R, OnBy(n)))
  <1> DEFINE Defines(f) == f = [k \in 0..n |-> IF k = 0 THEN Here ELSE ForwardOnce(f[k - 1])]
             played == CHOOSE f : Defines(f)
  <1>0. recorded \in Nat
    BY DEF Types, RingOK
  <1>1. Goto(played[n])
    BY Zenon DEF PlayForward
  <1>2. PICK g : g = [k \in 0..n |-> At(R, OnBy(k))]
    OBVIOUS
  <1>3. ASSUME NEW k \in 1..n
        PROVE  ForwardOnce(At(R, OnBy(k - 1))) = At(R, OnBy(k))
    <2> DEFINE j == k - 1
               b == OnBy(j)
    <2>1. j \in Nat /\ k = j + 1
      OBVIOUS
    <2> HIDE DEF j
    <2>2. b \in 1..recorded /\ OnBy(k) = IF b = recorded THEN recorded ELSE b + 1
      BY <2>1, OnByIs
    <2> HIDE DEF b
    <2>3. CASE b = recorded
      BY <2>2, <2>3, OnIs DEF b, j
    <2>4. CASE b # recorded
      <3>1. b \in 1..recorded - 1
        BY <1>0, <2>2, <2>4
      <3>2. ForwardOnce(At(R, b)) = At(R, b + 1)
        BY <3>1, OnIs
      <3> QED
        BY <2>2, <2>4, <3>2 DEF b, j
    <2> QED
      BY <2>3, <2>4
  <1>4. g = [k \in 0..n |-> IF k = 0 THEN Here ELSE ForwardOnce(g[k - 1])]
    <2>1. ASSUME NEW k \in 0..n
          PROVE  g[k] = IF k = 0 THEN Here ELSE ForwardOnce(g[k - 1])
      <3>1. CASE k = 0
        <4>1. OnBy(0) = current /\ Here = At(R, current)
          BY OnByIs, HereIs
        <4> QED
          BY <1>2, <3>1, <4>1
      <3>2. CASE k # 0
        <4>1. k \in 1..n /\ k - 1 \in 0..n
          BY <3>2
        <4>2. g[k - 1] = At(R, OnBy(k - 1))
          BY <1>2, <4>1
        <4>3. ForwardOnce(g[k - 1]) = At(R, OnBy(k))
          BY <1>3, <4>1, <4>2
        <4> QED
          BY <1>2, <3>2, <4>3
      <3> QED
        BY <3>1, <3>2
    <2>2. g = [k \in 0..n |-> g[k]]
      BY <1>2
    <2> QED
      BY <2>1, <2>2
  <1> HIDE DEF Here
  <1>5. Defines(played)
    <2>1. Defines(g)
      BY <1>4
    <2> HIDE DEF Defines
    <2> QED
      BY <2>1, Zenon
  <1> HIDE DEF played
  <1> DEFINE S == {k \in 0..n : played[k] = g[k]}
  <1>6. 0 \in S
    BY <1>4, <1>5
  <1>7. ASSUME NEW k \in 0..n - 1, k \in S PROVE k + 1 \in S
    <2>1. k + 1 \in 0..n /\ k + 1 # 0 /\ (k + 1) - 1 = k
      OBVIOUS
    <2>2. played[k + 1] = ForwardOnce(played[k]) /\ g[k + 1] = ForwardOnce(g[k])
      BY <1>4, <1>5, <2>1
    <2> QED
      BY <1>7, <2>1, <2>2
  <1> HIDE DEF S
  <1>8. n \in S
    BY <1>6, <1>7, Induct
  <1> QED
    BY <1>1, <1>2, <1>8 DEF S

(* Going to a snapshot moves no snapshot. *)
LEMMA GotoKeeps ==
  ASSUME Types, NEW R, Memories(R), NEW p \in 1..recorded, Goto(At(R, p))
  PROVE  /\ Types' /\ Memories(R)' /\ PastOf(R)' = PastOf(R)
         /\ last' = FALSE /\ current' = p /\ Machine' = PastOf(R)[p]
  <1>1. /\ size \in Nat /\ size # 0 /\ idx \in 0..size - 1 /\ current \in 1..recorded
        /\ recorded \in 1..size /\ current \in 1..size /\ p \in 1..size
        /\ slots \in [0..size - 1 -> Slots]
    BY DEF Types, RingOK
  <1>2. /\ idx' = Pos(p) /\ current' = p /\ last' = FALSE
        /\ hw' = slots[Pos(p)].hw /\ ram' = R[p]
        /\ size' = size /\ slots' = slots /\ recorded' = recorded /\ frameNum' = frameNum
    BY DEF Goto, At
  <1>3. Pos(p) \in 0..size - 1 /\ R[p] \in [Addrs -> Values]
    BY <1>1, PlaceIs DEF Pos, Memories
  <1>4. slots[Pos(p)].hw \in Moments
    BY <1>1, <1>3 DEF Slots
  <1>5. Types'
    BY <1>1, <1>2, <1>3, <1>4 DEF Types, RingOK
  <1>6. ASSUME NEW k \in 1..recorded PROVE Pos(k)' = Pos(k)
    <2>0. k \in 1..size
      BY <1>1
    <2>1. Pos(k)' = Place(Pos(p), p, size, k)
      BY <1>2 DEF Pos
    <2>2. Pos(k) = IF idx + k - current < 0 THEN idx + k - current + size
                   ELSE IF idx + k - current < size THEN idx + k - current
                   ELSE idx + k - current - size
      BY <1>1, <2>0, PlaceIs DEF Pos
    <2>3. Pos(p) = IF idx + p - current < 0 THEN idx + p - current + size
                   ELSE IF idx + p - current < size THEN idx + p - current
                   ELSE idx + p - current - size
      BY <1>1, PlaceIs DEF Pos
    <2> DEFINE i == Pos(p)
    <2>4. i \in 0..size - 1
      BY <1>3
    <2> HIDE DEF i
    <2>5. Place(i, p, size, k) = IF i + k - p < 0 THEN i + k - p + size
                                 ELSE IF i + k - p < size THEN i + k - p
                                 ELSE i + k - p - size
      BY <1>1, <2>0, <2>4, PlaceIs
    <2> QED
      BY <1>1, <2>0, <2>1, <2>2, <2>3, <2>5 DEF i
  <1>7. Linked(R)'
    <2>1. \A k \in 1..recorded - 1 : Pos(k)' = Pos(k)
      BY <1>1, <1>6
    <2> QED
      BY <1>2, <2>1 DEF Linked, Memories
  <1>8. Present(R)'
    BY <1>2 DEF Present
  <1>9. Memories(R)'
    BY <1>2, <1>7, <1>8 DEF Memories
  <1>10. PastOf(R)' = PastOf(R)
    BY <1>2, <1>6 DEF PastOf
  <1>11. Machine' = PastOf(R)[p]
    BY <1>2 DEF Machine, PastOf
  <1> QED
    BY <1>2, <1>5, <1>9, <1>10, <1>11

(* Starting again: the present is the only snapshot. *)
LEMMA ResetKeeps ==
  ASSUME Types, ClientReset
  PROVE  /\ Types' /\ \E R : Memories(R)' /\ PastOf(R)' = <<Machine>>
         /\ last' = TRUE /\ current' = 1 /\ Machine' = Machine
         /\ (recorded' < size' => idx' = 1)
  <1> DEFINE n == NextIdx(0)
  <1>1. /\ size \in Nat /\ size # 0 /\ size \in Sizes /\ 1 \in 1..size
        /\ slots \in [0..size - 1 -> Slots] /\ hw \in Moments /\ ram \in [Addrs -> Values]
    BY DEF Types, RingOK
  <1>2. n \in 0..size - 1 /\ n = (IF 1 < size THEN 1 ELSE 0)
    <2>1. 0 \in 0..size - 1
      BY <1>1
    <2> QED
      BY <1>1, <2>1, NextIs DEF NextIdx
  <1> HIDE DEF n
  <1>3. /\ idx' = n /\ current' = 1 /\ recorded' = 1 /\ slots' = [slots EXCEPT ![n] = Snapshot(hw)]
        /\ last' = TRUE /\ frameNum' = hw.frame /\ hw' = hw /\ ram' = ram /\ size' = size
    BY <1>1 DEF ClientReset, Reset, StoreState, n
  <1>4. Snapshot(hw) \in Slots /\ Snapshot(hw).hw = hw /\ Snapshot(hw).diffs = <<>>
    BY <1>1 DEF Snapshot, Slots
  <1>5. slots' \in [0..size - 1 -> Slots] /\ slots'[n] = Snapshot(hw)
    BY <1>1, <1>2, <1>3, <1>4
  <1>6. Types'
    <2>1. hw.frame \in 0..MaxInstr
      BY <1>1 DEF Moments, HwStates
    <2> QED
      BY <1>1, <1>2, <1>3, <1>5, <2>1 DEF Types, RingOK
  <1>7. PICK R, one : R = [k \in 1..1 |-> ram] /\ one = 1
    OBVIOUS
  <1>8. R[1] = ram /\ R \in [1..1 -> [Addrs -> Values]]
    BY <1>1, <1>7
  <1>9. Present(R)'
    <2>1. Undo(ram, <<>>) = ram /\ Redo(ram, <<>>) = ram
      BY <1>1, NothingToUndo
    <2> QED
      BY <1>3, <1>4, <1>5, <1>8, <2>1 DEF Present
  <1>10. Memories(R)'
    BY <1>3, <1>8, <1>9 DEF Memories, Linked
  <1>11. Pos(one)' = n
    <2>1. Place(n, 1, size, 1) = n
      BY <1>1, <1>2, PlaceIs
    <2> QED
      BY <1>3, <1>7, <2>1 DEF Pos
  <1>12. PastOf(R)' = <<Machine>>
    <2>1. PastOf(R)' = [k \in 1..1 |-> [hw |-> slots'[Pos(k)'].hw, ram |-> R[k]]]
      BY <1>3 DEF PastOf
    <2>2. [hw |-> slots'[Pos(one)'].hw, ram |-> R[one]] = Machine
      BY <1>4, <1>5, <1>7, <1>8, <1>11 DEF Machine
    <2>3. \A k \in 1..1 : k = one
      BY <1>7
    <2>4. PastOf(R)' = [k \in 1..1 |-> Machine]
      BY <2>1, <2>2, <2>3
    <2> QED
      BY <2>4
  <1>13. Machine' = Machine
    BY <1>3 DEF Machine
  <1>14. recorded' < size' => idx' = 1
    BY <1>1, <1>2, <1>3
  <1> QED
    BY <1>3, <1>6, <1>10, <1>12, <1>13, <1>14

(* A recorder that was reset has the present as its only snapshot. *)
LEMMA InitKeeps ==
  ASSUME Init, ResetFirst
  PROVE  /\ Types /\ \E R : Memories(R) /\ PastOf(R) = <<Machine>>
         /\ last = TRUE /\ current = 1 /\ recorded = 1
         /\ (recorded < size => idx = 1)
  <1> DEFINE n == NextIdx(0)
  <1>1. /\ size \in Nat /\ size # 0 /\ size \in Sizes /\ 1 \in 1..size
        /\ ram \in [Addrs -> Values] /\ MaxInstr \in Nat
    BY RecorderAssumption DEF Init
  <1>2. n \in 0..size - 1 /\ n = (IF 1 < size THEN 1 ELSE 0)
    <2>1. 0 \in 0..size - 1
      BY <1>1
    <2> QED
      BY <1>1, <2>1, NextIs DEF NextIdx
  <1> HIDE DEF n
  <1>3. /\ idx = n /\ current = 1 /\ recorded = 1 /\ slots = [i \in 0..size - 1 |-> Empty]
        /\ last = TRUE /\ frameNum = 0 /\ hw = [instr |-> 0, frame |-> 0]
    BY DEF Init, Fresh, n
  <1>4. hw \in Moments
    BY <1>1, <1>3 DEF Moments, HwStates
  <1>5. Empty \in Slots /\ Empty.hw = hw /\ Empty.diffs = <<>>
    BY <1>3, <1>4 DEF Empty, Slots
  <1>6. slots \in [0..size - 1 -> Slots] /\ slots[n] = Empty
    BY <1>2, <1>3, <1>5
  <1>7. Types
    BY <1>1, <1>2, <1>3, <1>4, <1>6 DEF Types, RingOK
  <1>8. PICK R : R = [k \in 1..1 |-> ram]
    OBVIOUS
  <1>9. R[1] = ram /\ R \in [1..1 -> [Addrs -> Values]]
    BY <1>1, <1>8
  <1>10. Present(R)
    <2>1. Undo(ram, <<>>) = ram /\ Redo(ram, <<>>) = ram
      BY <1>1, NothingToUndo
    <2> QED
      BY <1>3, <1>5, <1>6, <1>9, <2>1 DEF Present
  <1>11. Memories(R)
    BY <1>3, <1>9, <1>10 DEF Memories, Linked
  <1>12. Pos(1) = n
    <2>1. Place(n, 1, size, 1) = n
      BY <1>1, <1>2, PlaceIs
    <2> QED
      BY <1>3, <2>1 DEF Pos
  <1>13. PastOf(R) = <<Machine>>
    <2>1. PastOf(R) = [k \in 1..1 |-> [hw |-> slots[Pos(k)].hw, ram |-> R[k]]]
      BY <1>3 DEF PastOf
    <2>2. [hw |-> slots[Pos(1)].hw, ram |-> R[1]] = Machine
      BY <1>5, <1>6, <1>9, <1>12 DEF Machine
    <2>3. PastOf(R) = [k \in 1..1 |-> Machine]
      BY <2>1, <2>2
    <2> QED
      BY <2>3
  <1>14. recorded < size => idx = 1
    BY <1>1, <1>2, <1>3
  <1> QED
    BY <1>3, <1>7, <1>11, <1>13, <1>14

-----------------------------------------------------------------------------
(* The timeline. *)
IInv == Types /\ \E R : Memories(R)

(* The timeline has a snapshot for every recorded slot. *)
LEMMA PastLen == \A R : Types /\ Memories(R) => Past = PastOf(R) /\ Len(Past) = recorded /\ Past # <<>>
  <1> SUFFICES ASSUME NEW R, Types, Memories(R)
               PROVE  Past = PastOf(R) /\ Len(Past) = recorded /\ Past # <<>>
    OBVIOUS
  <1>1. Past = PastOf(R)
    BY PastIs
  <1>2. Len(PastOf(R)) = recorded
    BY CutIs
  <1>3. recorded # 0
    BY DEF Types, RingOK
  <1> HIDE DEF Past
  <1>4. Len(<<>>) = 0
    OBVIOUS
  <1> QED
    BY <1>1, <1>2, <1>3, <1>4

(* The same of the next state. *)
LEMMA PastIsNext == (\A R : Types /\ Memories(R) => Past = PastOf(R))'
  BY PastIs, PTL

(* The same of the next state. *)
LEMMA PastLenNext ==
  (\A R : Types /\ Memories(R) => Past = PastOf(R) /\ Len(Past) = recorded /\ Past # <<>>)'
  BY PastLen, PTL

(* The initial state is one of the timeline. *)
LEMMA InitRefines ==
  ASSUME Init, ResetFirst
  PROVE  IInv /\ T!Init /\ (recorded < size => idx = current)
  <1>1. PICK R : Types /\ Memories(R) /\ PastOf(R) = <<Machine>>
                 /\ last = TRUE /\ current = 1 /\ recorded = 1 /\ (recorded < size => idx = 1)
    BY InitKeeps
  <1>2. Past = <<Machine>> /\ Len(<<Machine>>) = 1
    BY <1>1, PastLen
  <1>3. Machine \in [hw : HwStates, ram : [Addrs -> Values]]
    BY <1>1 DEF Types, Moments, Machine
  <1>4. size \in Nat \ {0}
    BY <1>1 DEF Types, RingOK
  <1> HIDE DEF Past
  <1>5. T!Init
    BY <1>1, <1>2, <1>3, <1>4 DEF T!Init, Machine
  <1> QED
    BY <1>1, <1>5 DEF IInv

(* Each action is a step of the timeline. *)
LEMMA ExecuteRefines ==
  ASSUME IInv, NEW f \in {0, 1}, NEW w, Execute(f, w),
         w = NoWrite \/ \E a \in Addrs, v \in Values : w = WriteOf(a, v)
  PROVE  IInv' /\ T!Run
  <1>1. PICK R : Types /\ Memories(R)
    BY DEF IInv
  <1>2. PICK Q : /\ Types' /\ Memories(Q)' /\ last' = TRUE
                 /\ \/ PastOf(Q)' = Cut(PastOf(R))
                    \/ /\ current < size
                       /\ PastOf(Q)' = Append(Cut(PastOf(R)), Machine')
                    \/ /\ current = size
                       /\ PastOf(Q)' = Tail(Append(Cut(PastOf(R)), Machine'))
    BY <1>1, ExecuteKeeps
  <1>3. Past = PastOf(R) /\ Len(Past) = recorded
    BY <1>1, PastLen
  <1>4. Past' = PastOf(Q)' /\ Len(Past)' = recorded'
    <2>1. (\A r : Types /\ Memories(r) => Past = PastOf(r) /\ Len(Past) = recorded /\ Past # <<>>)'
      BY PastLenNext
    <2> HIDE DEF Past
    <2> QED
      BY <1>2, <2>1
  <1> HIDE DEF Past
  <1>5. IInv'
    BY <1>2 DEF IInv
  <1>6. size' = size
    BY DEF Execute
  <1> DEFINE kept == Cut(Past)
  <1>7. Len(Append(kept, Machine')) = current + 1 /\ current \in 1..size /\ size \in Nat
    <2>1. Cut(PastOf(R)) = [k \in 1..current |-> [hw |-> slots[Pos(k)].hw, ram |-> R[k]]]
      BY <1>1, CutIs
    <2>2. current \in 1..recorded /\ recorded \in 1..size /\ size \in Nat
      BY <1>1 DEF Types, RingOK
    <2>3. kept = [k \in 1..current |-> kept[k]]
      BY <1>3, <2>1
    <2> DEFINE e == Machine'
    <2> HIDE DEF kept, e
    <2>4. Append(kept, e) = [k \in 1..current + 1 |-> IF k <= current THEN kept[k] ELSE e]
      BY <2>2, <2>3, AppendIs
    <2>5. Append(kept, e) = [k \in 1..current + 1 |-> Append(kept, e)[k]]
      BY <2>4
    <2> DEFINE app == Append(kept, e)
    <2> HIDE DEF app
    <2>6. Len(app) = current + 1
      <3>1. app = [k \in 1..current + 1 |-> app[k]] /\ current \in Nat
        BY <2>2, <2>5 DEF app
      <3> QED
        BY <3>1, TailIs
    <2> QED
      BY <2>2, <2>6 DEF app, e
  <1>8. Past' = kept \/ Past' = IF Len(Append(kept, Machine')) > size
                                THEN Tail(Append(kept, Machine')) ELSE Append(kept, Machine')
    BY <1>2, <1>3, <1>4, <1>7
  <1>9. Past' \in {kept, T!Newest(Append(kept, Machine'))}
    BY <1>8 DEF T!Newest
  <1>10. kept = IF last THEN Past ELSE SubSeq(Past, 1, current)
    BY DEF Cut
  <1>11. Machine' \in [hw : HwStates, ram : [Addrs -> Values]]
    BY <1>2 DEF Types, Moments, Machine
  <1>12. current' = Len(Past)'
    BY <1>2, <1>4 DEF Types, RingOK
  <1> HIDE DEF kept
  <1>13. T!Run
    BY <1>2, <1>6, <1>9, <1>10, <1>11, <1>12 DEF T!Run, Machine
  <1> QED
    BY <1>5, <1>13

LEMMA ReverseRefines ==
  ASSUME IInv, NEW n \in Nat, n > 0, Wraps(n), PlayReverse(n)
  PROVE  IInv' /\ T!Reverse(n)
  <1>1. PICK R : Types /\ Memories(R)
    BY DEF IInv
  <1> DEFINE p == BackBy(n)
  <1>2. p \in 1..recorded /\ Goto(At(R, p))
    BY <1>1, BackByIs, ReverseGoes
  <1>3. PICK p0 : p0 = p
    OBVIOUS
  <1> HIDE DEF p
  <1>4. /\ Types' /\ Memories(R)' /\ PastOf(R)' = PastOf(R)
        /\ last' = FALSE /\ current' = p0 /\ Machine' = PastOf(R)[p0]
    BY <1>1, <1>2, <1>3, GotoKeeps
  <1>5. Past = PastOf(R) /\ Past # <<>>
    BY <1>1, PastLen
  <1>6. Past' = PastOf(R)'
    <2>1. (\A r : Types /\ Memories(r) => Past = PastOf(r))'
      BY PastIsNext
    <2> HIDE DEF Past
    <2> QED
      BY <1>4, <2>1
  <1>7. size' = size
    BY <1>2 DEF Goto
  <1> HIDE DEF Past
  <1>8. current' = LET target == IF last THEN current - n + 1 ELSE current - n
                   IN  IF target < 1 THEN 1 ELSE target
    BY <1>3, <1>4 DEF p, BackBy
  <1>9. Machine' = Past[current'] /\ Past' = Past
    BY <1>4, <1>5, <1>6
  <1>10. T!Reverse(n)
    BY <1>4, <1>5, <1>7, <1>8, <1>9 DEF T!Reverse, Machine
  <1> QED
    BY <1>4, <1>10 DEF IInv

LEMMA ForwardRefines ==
  ASSUME IInv, ~ForwardWhileLive, NEW n \in Nat, PlayForward(n)
  PROVE  IInv' /\ T!Forward(n)
  <1>1. PICK R : Types /\ Memories(R)
    BY DEF IInv
  <1>0. ~last
    BY DEF PlayForward
  <1> DEFINE p == OnBy(n)
  <1>2. p \in 1..recorded /\ Goto(At(R, p))
    BY <1>0, <1>1, OnByIs, ForwardGoes
  <1>3. PICK p0 : p0 = p
    OBVIOUS
  <1> HIDE DEF p
  <1>4. /\ Types' /\ Memories(R)' /\ PastOf(R)' = PastOf(R)
        /\ last' = FALSE /\ current' = p0 /\ Machine' = PastOf(R)[p0]
    BY <1>1, <1>2, <1>3, GotoKeeps
  <1>5. Past = PastOf(R) /\ Len(Past) = recorded
    BY <1>1, PastLen
  <1>6. Past' = PastOf(R)'
    <2>1. (\A r : Types /\ Memories(r) => Past = PastOf(r))'
      BY PastIsNext
    <2> HIDE DEF Past
    <2> QED
      BY <1>4, <2>1
  <1>7. size' = size
    BY <1>2 DEF Goto
  <1> HIDE DEF Past
  <1>8. current' = IF current + n > Len(Past) THEN Len(Past) ELSE current + n
    BY <1>3, <1>4, <1>5 DEF p, OnBy
  <1>9. Machine' = Past[current'] /\ Past' = Past /\ last' = last
    <2>1. last = FALSE
      BY <1>0, <1>1 DEF Types, RingOK
    <2> QED
      BY <1>4, <1>5, <1>6, <2>1
  <1>10. T!Forward(n)
    BY <1>0, <1>7, <1>8, <1>9 DEF T!Forward, Machine
  <1> QED
    BY <1>4, <1>10 DEF IInv

LEMMA ResetRefines ==
  ASSUME IInv, ClientReset
  PROVE  IInv' /\ T!Restart
  <1>1. PICK R : Types /\ Memories(R)
    BY DEF IInv
  <1>2. PICK Q : /\ Types' /\ Memories(Q)' /\ PastOf(Q)' = <<Machine>>
                 /\ last' = TRUE /\ current' = 1 /\ Machine' = Machine
    BY <1>1, ResetKeeps
  <1>3. Past' = PastOf(Q)'
    <2>1. (\A r : Types /\ Memories(r) => Past = PastOf(r))'
      BY PastIsNext
    <2> HIDE DEF Past
    <2> QED
      BY <1>2, <2>1
  <1>4. size' = size
    BY DEF ClientReset
  <1> HIDE DEF Past
  <1>5. T!Restart
    BY <1>2, <1>3, <1>4 DEF T!Restart, Machine
  <1> QED
    BY <1>2, <1>5 DEF IInv

LEMMA StutterRefines ==
  ASSUME IInv, UNCHANGED vars
  PROVE  IInv' /\ UNCHANGED T!tvars
  <1>1. PICK R : Types /\ Memories(R)
    BY DEF IInv
  <1>2. \A k : Pos(k)' = Pos(k)
    BY DEF vars, ring, Pos
  <1>3. Types' /\ Memories(R)' /\ PastOf(R)' = PastOf(R)
    BY <1>1, <1>2 DEF vars, ring, Types, RingOK, Memories, Linked, Present, PastOf
  <1>4. Past = PastOf(R)
    BY <1>1, PastIs
  <1>5. Past' = PastOf(R)'
    <2>1. (\A r : Types /\ Memories(r) => Past = PastOf(r))'
      BY PastIsNext
    <2> HIDE DEF Past
    <2> QED
      BY <1>3, <2>1
  <1> HIDE DEF Past
  <1>6. UNCHANGED T!tvars
    BY <1>3, <1>4, <1>5 DEF vars, ring, T!tvars
  <1> QED
    BY <1>3, <1>6 DEF IInv

(* The step's playback does not go from slot 0 to the slot before it, or     *)
(* the ring's length divides 2^64.                                           *)
NotOverStart == \A n \in 1..MaxPlay : PlayReverse(n) => Wraps(n)

(* Every such step is a step of the timeline. *)
LEMMA NextRefines ==
  ASSUME IInv, [NotOverStart]_vars, ~ForwardWhileLive, [Next]_vars
  PROVE  IInv' /\ [T!Next]_(T!tvars)
  <1>0. MaxPlay \in Nat
    BY RecorderAssumption
  <1>1. ASSUME NEW f \in {0, 1}, Instruction(f) PROVE IInv' /\ T!Run
    <2>1. PICK w : Execute(f, w) /\ (w = NoWrite \/ \E a \in Addrs, v \in Values : w = WriteOf(a, v))
      BY <1>1, Zenon DEF Instruction, NoWrite, WriteOf
    <2> QED
      BY <2>1, ExecuteRefines
  <1>2. ASSUME NEW n \in 1..MaxPlay, PlayReverse(n), NotOverStart PROVE IInv' /\ T!Reverse(n)
    <2>1. n \in Nat /\ n > 0 /\ Wraps(n)
      BY <1>0, <1>2 DEF NotOverStart
    <2> QED
      BY <1>2, <2>1, ReverseRefines
  <1>3. ASSUME NEW n \in 1..MaxPlay, PlayForward(n) PROVE IInv' /\ T!Forward(n)
    BY <1>0, <1>3, ForwardRefines
  <1>4. ASSUME ClientReset PROVE IInv' /\ T!Restart
    BY <1>4, ResetRefines
  <1>5. ASSUME UNCHANGED vars PROVE IInv' /\ UNCHANGED T!tvars
    BY <1>5, StutterRefines
  <1> QED
    BY <1>1, <1>2, <1>3, <1>4, <1>5, Zenon DEF Next, T!Next

(* While the ring has room, no playback goes over its start. *)
LEMMA RoomWraps ==
  ASSUME IInv, idx = current, NEW n \in Nat
  PROVE  Wraps(n)
  BY DEF IInv, Types, RingOK, Wraps, OverStart, BackBy

(* While the ring has room, its slots are numbered as they are counted. *)
LEMMA RoomKeeps ==
  ASSUME IInv, ~ForwardWhileLive, recorded < size, idx = current, [Next]_vars, (recorded < size)'
  PROVE  (idx = current)'
  <1>0. /\ MaxPlay \in Nat /\ size \in Nat /\ size # 0 /\ idx \in 0..size - 1
        /\ current \in 1..recorded /\ recorded \in 1..size /\ current \in 1..size
    BY RecorderAssumption DEF IInv, Types, RingOK
  <1>1. PICK R : Types /\ Memories(R)
    BY DEF IInv
  <1>2. ASSUME NEW f \in {0, 1}, NEW w, Execute(f, w) PROVE (idx = current)'
    <2>1. Update(w, hw') /\ size' = size
      BY <1>2, Zenon DEF Execute
    <2>2. CASE frameNum = hw'.frame
      BY <2>1, <2>2 DEF Update
    <2>3. CASE frameNum # hw'.frame
      <3>1. /\ idx' = NextIdx(idx)
            /\ current' = (IF current + 1 < size THEN current + 1 ELSE size)
            /\ recorded' = (IF current + 1 < size THEN current + 1 ELSE size)
        BY <2>1, <2>3 DEF Update, StoreState
      <3>2. NextIdx(idx) = IF idx + 1 < size THEN idx + 1 ELSE 0
        BY <1>0, NextIs DEF NextIdx
      <3> QED
        BY <1>0, <2>1, <3>1, <3>2
    <2> QED
      BY <2>2, <2>3
  <1>3. ASSUME NEW f \in {0, 1}, Instruction(f) PROVE (idx = current)'
    BY <1>2, <1>3 DEF Instruction
  <1>4. ASSUME NEW p \in 1..recorded, Goto(At(R, p)) PROVE (idx = current)'
    <2>1. p \in 1..size /\ idx' = Pos(p) /\ current' = p
      BY <1>0, <1>4 DEF Goto, At
    <2>2. Pos(p) = p
      BY <1>0, <2>1, PlaceIs DEF Pos
    <2> QED
      BY <2>1, <2>2
  <1>5. ASSUME NEW n \in 1..MaxPlay, PlayReverse(n) PROVE (idx = current)'
    <2>1. n \in Nat /\ n > 0 /\ Wraps(n)
      BY <1>0, RoomWraps
    <2>2. BackBy(n) \in 1..recorded /\ Goto(At(R, BackBy(n)))
      BY <1>0, <1>1, <1>5, <2>1, BackByIs, ReverseGoes
    <2> QED
      BY <1>4, <2>2
  <1>6. ASSUME NEW n \in 1..MaxPlay, PlayForward(n) PROVE (idx = current)'
    <2>1. n \in Nat /\ ~last
      BY <1>0, <1>6 DEF PlayForward
    <2>2. OnBy(n) \in 1..recorded /\ Goto(At(R, OnBy(n)))
      BY <1>0, <1>1, <1>6, <2>1, OnByIs, ForwardGoes
    <2> QED
      BY <1>4, <2>2
  <1>7. ASSUME ClientReset PROVE (idx = current)'
    BY <1>1, <1>7, ResetKeeps
  <1>8. ASSUME UNCHANGED vars PROVE (idx = current)'
    BY <1>8 DEF vars, ring
  <1> QED
    BY <1>3, <1>5, <1>6, <1>7, <1>8 DEF Next

(* Whatever the length of the ring, the recorder implements the timeline    *)
(* through every step but RecorderWrap's: a playback that goes from slot 0  *)
(* to the slot before it in a ring whose length does not divide 2^64        *)
(* (PlaybackReverse()'s m_stateIdx - 1).                                    *)
THEOREM RecorderIsTimeline ==
  ASSUME ResetFirst, ~ForwardWhileLive
  PROVE  Spec /\ [][NotOverStart]_vars => ImplementsTimeline
  <1>1. Init => IInv /\ T!Init
    BY InitRefines
  <1>2. IInv /\ [Next]_vars /\ [NotOverStart]_vars => IInv' /\ [T!Next]_(T!tvars)
    BY NextRefines
  <1> QED
    BY <1>1, <1>2, PTL DEF Spec, ImplementsTimeline, T!Spec

(* For every length, the recorder implements the timeline as long as its    *)
(* ring has not filled up: the playback then never steps over the ring's    *)
(* start, where m_stateIdx - 1 goes below 0.                                *)
THEOREM RecorderIsTimelineUntilFull ==
  ASSUME ResetFirst, ~ForwardWhileLive
  PROVE  Spec => ([](recorded < size) => ImplementsTimeline)
  <1> DEFINE Room == recorded < size
             Numbered == IInv /\ idx = current
  <1>1. Init /\ Room => Numbered /\ T!Init
    BY InitRefines
  <1>2. Numbered /\ Room /\ [Next]_vars => [T!Next]_(T!tvars) /\ (Room' => Numbered')
    <2> SUFFICES ASSUME Numbered, Room, [Next]_vars
                 PROVE  [T!Next]_(T!tvars) /\ (Room' => Numbered')
      OBVIOUS
    <2>1. NotOverStart
      <3>1. \A n \in 1..MaxPlay : n \in Nat
        BY RecorderAssumption
      <3> QED
        BY <3>1, RoomWraps DEF NotOverStart
    <2>2. IInv' /\ [T!Next]_(T!tvars)
      BY <2>1, NextRefines
    <2>3. Room' => (idx = current)'
      BY RoomKeeps
    <2> QED
      BY <2>2, <2>3
  <1> HIDE DEF Room, Numbered
  <1>3. Spec /\ []Room => T!Init /\ [][T!Next]_(T!tvars)
    BY <1>1, <1>2, PTL DEF Spec
  <1> QED
    BY <1>3, PTL DEF ImplementsTimeline, T!Spec, Room

-----------------------------------------------------------------------------
(* The types, whatever the length of the ring. *)

(* A loop is a function of the number of its iterations. *)
Steps(S) == [S -> S]
Looped(S, F, n, a) ==
  \E g \in [0..n -> S] : g[0] = a /\ \A k \in 1..n : g[k] = F[g[k - 1]]

LEMMA LoopIs ==
  ASSUME NEW S, NEW F \in Steps(S), NEW n \in Nat, NEW a \in S
  PROVE  Looped(S, F, n, a)
  <1>0. F \in [S -> S]
    BY DEF Steps
  <1> DEFINE M == {m \in 0..n : \E g \in [0..m -> S] :
                     g[0] = a /\ \A k \in 1..m : g[k] = F[g[k - 1]]}
  <1>1. 0 \in M
    <2>1. PICK h : h = [k \in 0..0 |-> a]
      OBVIOUS
    <2>2. h \in [0..0 -> S] /\ h[0] = a /\ \A k \in 1..0 : h[k] = F[h[k - 1]]
      BY <2>1
    <2>3. \E g \in [0..0 -> S] : g[0] = a /\ \A k \in 1..0 : g[k] = F[g[k - 1]]
      BY <2>2
    <2>4. 0 \in 0..n
      OBVIOUS
    <2> QED
      BY <2>3, <2>4
  <1>2. ASSUME NEW m \in 0..n - 1, m \in M PROVE m + 1 \in M
    <2>1. PICK g \in [0..m -> S] : g[0] = a /\ \A k \in 1..m : g[k] = F[g[k - 1]]
      BY <1>2
    <2>2. PICK h : h = [k \in 0..m + 1 |-> IF k <= m THEN g[k] ELSE F[g[m]]]
      OBVIOUS
    <2>3. F[g[m]] \in S
      BY <1>0
    <2>4. h \in [0..m + 1 -> S] /\ h[0] = a /\ h[m + 1] = F[g[m]] /\ \A k \in 0..m : h[k] = g[k]
      BY <2>1, <2>2, <2>3
    <2>5. ASSUME NEW k \in 1..m + 1 PROVE h[k] = F[h[k - 1]]
      <3>1. k - 1 \in 0..m /\ h[k - 1] = g[k - 1]
        BY <2>4
      <3>2. CASE k = m + 1
        BY <2>4, <3>1, <3>2
      <3>3. CASE k # m + 1
        <4>1. k \in 1..m /\ k \in 0..m
          BY <3>3
        <4> QED
          BY <2>1, <2>4, <3>1, <4>1
      <3> QED
        BY <3>2, <3>3
    <2>6. m + 1 \in 0..n
      OBVIOUS
    <2>7. \E f \in [0..m + 1 -> S] : f[0] = a /\ \A k \in 1..m + 1 : f[k] = F[f[k - 1]]
      BY <2>4, <2>5
    <2> QED
      BY <2>6, <2>7
  <1>3. n \in M
    <2> HIDE DEF M
    <2> QED
      BY <1>1, <1>2, Induct
  <1> QED
    BY <1>3 DEF Looped

(* The word modulo a length is a number. *)
LEMMA WordModType ==
  ASSUME NEW n \in Nat, n # 0
  PROVE  WordMod(n) \in Nat
  <1> DEFINE Body(f, k) == IF k = 0 THEN 1 % n ELSE (2 * f[k - 1]) % n
             Defines(f) == f = [k \in 0..64 |-> Body(f, k)]
             pow == CHOOSE f : Defines(f)
  <1>1. WordMod(n) = pow[64]
    BY Zenon DEF WordMod
  <1>2. PICK F : F = [x \in Nat |-> (2 * x) % n]
    OBVIOUS
  <1>3. F \in [Nat -> Nat] /\ 1 % n \in Nat
    BY <1>2
  <1>4. PICK g \in [0..64 -> Nat] : g[0] = 1 % n /\ \A k \in 1..64 : g[k] = F[g[k - 1]]
    <2> DEFINE one == 1 % n
               N == Nat
               top == 64
    <2>1. F \in Steps(N) /\ one \in N /\ top \in Nat
      BY <1>3 DEF Steps
    <2>2. Looped(N, F, top, one)
      <3> HIDE DEF one, N, top
      <3> QED
        BY <2>1, LoopIs
    <2> QED
      BY <2>2 DEF Looped
  <1>5. Defines(g)
    <2>1. ASSUME NEW k \in 0..64 PROVE g[k] = Body(g, k)
      <3>1. CASE k = 0
        BY <1>4, <3>1
      <3>2. CASE k # 0
        <4>1. k - 1 \in 0..64 /\ g[k] = F[g[k - 1]]
          BY <1>4, <3>2
        <4>2. g[k - 1] \in Nat
          BY <4>1
        <4>3. F[g[k - 1]] = (2 * g[k - 1]) % n
          BY <1>2, <4>2
        <4> QED
          BY <3>2, <4>1, <4>3
      <3> QED
        BY <3>1, <3>2
    <2>2. g = [k \in 0..64 |-> g[k]]
      OBVIOUS
    <2> HIDE DEF Body
    <2> QED
      BY <2>1, <2>2
  <1>6. Defines(pow)
    <2> HIDE DEF Defines
    <2> QED
      BY <1>5, Zenon
  <1> HIDE DEF pow
  <1> DEFINE S == {k \in 0..64 : pow[k] \in Nat}
  <1>7. 0 \in S
    BY <1>3, <1>6
  <1>8. ASSUME NEW k \in 0..64 - 1, k \in S PROVE k + 1 \in S
    <2>1. k + 1 \in 0..64 /\ k + 1 # 0 /\ (k + 1) - 1 = k
      OBVIOUS
    <2>2. pow[k + 1] = (2 * pow[k]) % n
      BY <1>6, <2>1
    <2>3. PICK x \in Nat : x = pow[k]
      BY <1>8
    <2>4. 2 * x \in Nat /\ (2 * x) % n \in Nat
      OBVIOUS
    <2> QED
      BY <2>1, <2>2, <2>3, <2>4
  <1> DEFINE top == 64
  <1>9. top \in Nat /\ \A k \in 0..top - 1 : k \in S => k + 1 \in S
    BY <1>8
  <1>10. \A k \in 0..top : k \in S
    <2> HIDE DEF S, top
    <2> QED
      BY <1>7, <1>9, Induct
  <1>11. 64 \in S
    BY <1>10
  <1> QED
    BY <1>1, <1>11

(* What playback moves stays what it is. *)
Moved ==
  {s \in [idx : 0..size - 1, current : 1..recorded, last : BOOLEAN,
          hw : Moments, ram : [Addrs -> Values]] : s.last => s.current = recorded}

(* The parts of a slot. *)
LEMMA SlotTypes ==
  ASSUME Types, NEW i \in 0..size - 1
  PROVE  slots[i].hw \in Moments /\ slots[i].diffs \in Seq(Writes)
  <1>1. slots[i] \in Slots
    BY DEF Types, RingOK
  <1> QED
    BY <1>1 DEF Slots

(* Each iteration of a playback leaves what it moves in its range. *)
LEMMA HereMoved ==
  ASSUME Types
  PROVE  Here \in Moved
  BY DEF Types, RingOK, Moved, Here

LEMMA BackMoved ==
  ASSUME Types, NEW s \in Moved
  PROVE  BackOnce(s) \in Moved
  <1>1. /\ size \in Nat /\ size # 0 /\ recorded \in Nat
        /\ s.idx \in 0..size - 1 /\ s.current \in 1..recorded /\ s.last \in BOOLEAN
        /\ s.ram \in [Addrs -> Values] /\ (s.last => s.current = recorded)
    BY DEF Types, RingOK, Moved
  <1>2. CASE s.current = 1 /\ ~s.last
    BY <1>2 DEF BackOnce
  <1>3. CASE ~ (s.current = 1 /\ ~s.last)
    <2> DEFINE i == IF s.last THEN s.idx ELSE PrevIdx(s.idx)
               c == IF s.last THEN s.current ELSE s.current - 1
               r == Undo(s.ram, slots[i].diffs)
    <2>1. PrevIdx(s.idx) \in 0..size - 1
      <3>1. WordMod(size) \in Nat
        BY <1>1, WordModType
      <3>2. PICK x \in Nat : x = WordMod(size) + size - 1
        BY <1>1, <3>1
      <3>3. x % size \in 0..size - 1
        BY <1>1
      <3> QED
        BY <1>1, <3>2, <3>3 DEF PrevIdx
    <2>2. i \in 0..size - 1 /\ c \in 1..recorded
      BY <1>1, <1>3, <2>1
    <2>3. BackOnce(s) = [idx |-> i, current |-> c, last |-> FALSE, hw |-> slots[i].hw, ram |-> r]
      BY <1>3 DEF BackOnce
    <2> HIDE DEF i, c
    <2>4. slots[i].hw \in Moments /\ r \in [Addrs -> Values]
      BY <1>1, <2>2, SlotTypes, UndoRedoTypes
    <2> HIDE DEF r
    <2> QED
      BY <2>2, <2>3, <2>4 DEF Moved
  <1> QED
    BY <1>2, <1>3

LEMMA ForwardMoved ==
  ASSUME Types, NEW s \in Moved
  PROVE  ForwardOnce(s) \in Moved
  <1>1. /\ size \in Nat /\ size # 0 /\ recorded \in Nat
        /\ s.idx \in 0..size - 1 /\ s.current \in 1..recorded /\ s.last \in BOOLEAN
        /\ s.ram \in [Addrs -> Values] /\ (s.last => s.current = recorded)
    BY DEF Types, RingOK, Moved
  <1>2. CASE s.current = recorded
    BY <1>2 DEF ForwardOnce, Moved
  <1>3. CASE s.current # recorded
    <2> DEFINE i == NextIdx(s.idx)
               r == Redo(s.ram, slots[s.idx].diffs)
               c == s.current + 1
    <2>1. i \in 0..size - 1 /\ c \in 1..recorded /\ ~s.last
      BY <1>1, <1>3 DEF NextIdx
    <2>2. ForwardOnce(s) = [s EXCEPT !.idx = i, !.current = c, !.hw = slots[i].hw, !.ram = r]
      BY <1>3 DEF ForwardOnce
    <2> HIDE DEF i, c
    <2>3. slots[i].hw \in Moments /\ r \in [Addrs -> Values]
      BY <1>1, <2>1, SlotTypes, UndoRedoTypes
    <2> HIDE DEF r
    <2> QED
      BY <2>1, <2>2, <2>3 DEF Moved
  <1> QED
    BY <1>2, <1>3

LEMMA GotoMoved ==
  ASSUME Types, NEW s \in Moved, Goto(s)
  PROVE  Types'
  BY DEF Types, RingOK, Moved, Goto

(* Playback keeps the types, wherever it ends. *)
LEMMA ReverseTypes ==
  ASSUME Types, NEW n \in Nat, PlayReverse(n)
  PROVE  Types'
  <1> DEFINE Defines(f) == f = [k \in 0..n |-> IF k = 0 THEN Here ELSE BackOnce(f[k - 1])]
             played == CHOOSE f : Defines(f)
             M == Moved
             here == Here
  <1>1. Goto(played[n])
    BY Zenon DEF PlayReverse
  <1>2. PICK F : F = [s \in M |-> BackOnce(s)]
    OBVIOUS
  <1>3. F \in [M -> M] /\ here \in M
    BY <1>2, BackMoved, HereMoved
  <1>4. PICK g \in [0..n -> M] : g[0] = here /\ \A k \in 1..n : g[k] = F[g[k - 1]]
    <2>1. F \in Steps(M)
      BY <1>3 DEF Steps
    <2>2. Looped(M, F, n, here)
      <3> HIDE DEF M, here
      <3> QED
        BY <1>3, <2>1, LoopIs
    <2> HIDE DEF M, here
    <2> QED
      BY <2>2 DEF Looped
  <1> HIDE DEF Here
  <1>5. Defines(g)
    <2>1. ASSUME NEW k \in 0..n PROVE g[k] = IF k = 0 THEN Here ELSE BackOnce(g[k - 1])
      <3>1. CASE k = 0
        BY <1>4, <3>1
      <3>2. CASE k # 0
        <4>1. k - 1 \in 0..n /\ g[k] = F[g[k - 1]]
          BY <1>4, <3>2
        <4>2. g[k - 1] \in M
          BY <4>1
        <4> QED
          BY <1>2, <3>2, <4>1, <4>2
      <3> QED
        BY <3>1, <3>2
    <2>2. g = [k \in 0..n |-> g[k]]
      OBVIOUS
    <2> QED
      BY <2>1, <2>2
  <1>6. Defines(played)
    <2> HIDE DEF Defines
    <2> QED
      BY <1>5, Zenon
  <1> HIDE DEF played
  <1> DEFINE S == {k \in 0..n : played[k] \in Moved}
  <1>7. 0 \in S
    BY <1>6, HereMoved
  <1>8. ASSUME NEW k \in 0..n - 1, k \in S PROVE k + 1 \in S
    <2>1. k + 1 \in 0..n /\ k + 1 # 0 /\ (k + 1) - 1 = k
      OBVIOUS
    <2>2. played[k + 1] = BackOnce(played[k]) /\ played[k] \in Moved
      BY <1>6, <1>8, <2>1
    <2>3. BackOnce(played[k]) \in Moved
      BY <2>2, BackMoved
    <2> QED
      BY <2>1, <2>2, <2>3
  <1>9. played[n] \in Moved
    <2>1. n \in S
      <3> HIDE DEF S, M
      <3>1. \A k \in 0..n - 1 : k \in S => k + 1 \in S
        BY <1>8
      <3>2. \A k \in 0..n : k \in S
        BY <1>7, <3>1, Induct
      <3> QED
        BY <3>2
    <2> QED
      BY <2>1
  <1> QED
    BY <1>1, <1>9, GotoMoved

LEMMA ForwardTypes ==
  ASSUME Types, NEW n \in Nat, PlayForward(n)
  PROVE  Types'
  <1> DEFINE Defines(f) == f = [k \in 0..n |-> IF k = 0 THEN Here ELSE ForwardOnce(f[k - 1])]
             played == CHOOSE f : Defines(f)
             M == Moved
             here == Here
  <1>1. Goto(played[n])
    BY Zenon DEF PlayForward
  <1>2. PICK F : F = [s \in M |-> ForwardOnce(s)]
    OBVIOUS
  <1>3. F \in [M -> M] /\ here \in M
    BY <1>2, ForwardMoved, HereMoved
  <1>4. PICK g \in [0..n -> M] : g[0] = here /\ \A k \in 1..n : g[k] = F[g[k - 1]]
    <2>1. F \in Steps(M)
      BY <1>3 DEF Steps
    <2>2. Looped(M, F, n, here)
      <3> HIDE DEF M, here
      <3> QED
        BY <1>3, <2>1, LoopIs
    <2> HIDE DEF M, here
    <2> QED
      BY <2>2 DEF Looped
  <1> HIDE DEF Here
  <1>5. Defines(g)
    <2>1. ASSUME NEW k \in 0..n PROVE g[k] = IF k = 0 THEN Here ELSE ForwardOnce(g[k - 1])
      <3>1. CASE k = 0
        BY <1>4, <3>1
      <3>2. CASE k # 0
        <4>1. k - 1 \in 0..n /\ g[k] = F[g[k - 1]]
          BY <1>4, <3>2
        <4>2. g[k - 1] \in M
          BY <4>1
        <4> QED
          BY <1>2, <3>2, <4>1, <4>2
      <3> QED
        BY <3>1, <3>2
    <2>2. g = [k \in 0..n |-> g[k]]
      OBVIOUS
    <2> QED
      BY <2>1, <2>2
  <1>6. Defines(played)
    <2> HIDE DEF Defines
    <2> QED
      BY <1>5, Zenon
  <1> HIDE DEF played
  <1> DEFINE S == {k \in 0..n : played[k] \in Moved}
  <1>7. 0 \in S
    BY <1>6, HereMoved
  <1>8. ASSUME NEW k \in 0..n - 1, k \in S PROVE k + 1 \in S
    <2>1. k + 1 \in 0..n /\ k + 1 # 0 /\ (k + 1) - 1 = k
      OBVIOUS
    <2>2. played[k + 1] = ForwardOnce(played[k]) /\ played[k] \in Moved
      BY <1>6, <1>8, <2>1
    <2>3. ForwardOnce(played[k]) \in Moved
      BY <2>2, ForwardMoved
    <2> QED
      BY <2>1, <2>2, <2>3
  <1>9. played[n] \in Moved
    <2>1. n \in S
      <3> HIDE DEF S, M
      <3>1. \A k \in 0..n - 1 : k \in S => k + 1 \in S
        BY <1>8
      <3>2. \A k \in 0..n : k \in S
        BY <1>7, <3>1, Induct
      <3> QED
        BY <3>2
    <2> QED
      BY <2>1
  <1> QED
    BY <1>1, <1>9, GotoMoved

(* An instruction keeps them too. *)
LEMMA ExecuteTypes ==
  ASSUME Types, NEW f \in {0, 1}, NEW w, Execute(f, w),
         w = NoWrite \/ \E a \in Addrs, v \in Values : w = WriteOf(a, v)
  PROVE  Types'
  <1> DEFINE d == (IF last THEN slots[idx].diffs ELSE <<>>) \o w
             state == [instr |-> hw.instr + 1, frame |-> hw.frame + f]
  <1>1. /\ size \in Nat /\ size # 0 /\ size \in Sizes /\ idx \in 0..size - 1
        /\ recorded \in 1..size /\ current \in 1..recorded
        /\ slots \in [0..size - 1 -> Slots] /\ frameNum \in 0..MaxInstr
        /\ last \in BOOLEAN /\ (last => current = recorded) /\ ram \in [Addrs -> Values]
    BY DEF Types, RingOK
  <1>2. w \in Seq(Writes)
    <2>1. ASSUME NEW a \in Addrs, NEW v \in Values PROVE WriteOf(a, v) \in Seq(Writes)
      <3>1. [addr |-> a, before |-> ram[a], after |-> v] \in Writes
        BY <1>1 DEF Writes
      <3> QED
        BY <3>1 DEF WriteOf
    <2>2. NoWrite \in Seq(Writes)
      BY DEF NoWrite
    <2> QED
      BY <2>1, <2>2
  <1>3. d \in Seq(Writes)
    <2>1. (IF last THEN slots[idx].diffs ELSE <<>>) \in Seq(Writes)
      BY <1>1, SlotTypes
    <2> QED
      BY <1>2, <2>1, ConcatProperties
  <1>4. PICK ss : ss = [slots EXCEPT ![idx].diffs = d]
    OBVIOUS
  <1>5. Redo(ram, w) \in [Addrs -> Values]
    BY <1>1, <1>2, UndoRedoTypes
  <1>6. state \in Moments /\ hw' = state /\ ram' = Redo(ram, w) /\ size' = size
    <2>1. hw \in Moments /\ hw.instr < MaxInstr /\ MaxInstr \in Nat
      BY RecorderAssumption DEF Types, Execute
    <2>2. state \in Moments
      BY <2>1 DEF Moments, HwStates
    <2> QED
      BY <2>2 DEF Execute
  <1>7. state.frame \in 0..MaxInstr
    BY <1>6 DEF Moments, HwStates
  <1>8. /\ last' = TRUE /\ frameNum' = state.frame
        /\ IF frameNum # state.frame THEN StoreState(ss, idx, current, state)
           ELSE /\ slots' = ss /\ recorded' = (IF last THEN recorded ELSE current)
                /\ UNCHANGED <<idx, current>>
    <2>1. Update(w, hw')
      BY Zenon DEF Execute
    <2> QED
      BY <1>4, <1>6, <2>1 DEF Update
  <1> HIDE DEF d, state
  <1>9. ss \in [0..size - 1 -> Slots]
    <2>1. slots[idx] \in Slots
      BY <1>1
    <2>2. [slots[idx] EXCEPT !.diffs = d] \in Slots
      BY <1>3, <2>1 DEF Slots
    <2> QED
      BY <1>1, <1>4, <2>2
  <1>10. CASE frameNum # state.frame
    <2> DEFINE n == NextIdx(idx)
               c == IF current + 1 < size THEN current + 1 ELSE size
    <2>1. /\ idx' = n /\ current' = c /\ recorded' = c
          /\ slots' = [ss EXCEPT ![n] = Snapshot(state)]
      BY <1>8, <1>10 DEF StoreState
    <2>2. n \in 0..size - 1 /\ c \in 1..size
      BY <1>1 DEF NextIdx
    <2> HIDE DEF n, c
    <2>3. Snapshot(state) \in Slots
      BY <1>6 DEF Snapshot, Slots
    <2>4. slots' \in [0..size - 1 -> Slots]
      BY <1>9, <2>1, <2>2, <2>3
    <2> QED
      BY <1>1, <1>5, <1>6, <1>7, <1>8, <2>1, <2>2, <2>4 DEF Types, RingOK
  <1>11. CASE frameNum = state.frame
    BY <1>1, <1>5, <1>6, <1>7, <1>8, <1>9, <1>11 DEF Types, RingOK
  <1> QED
    BY <1>10, <1>11

(* The counters of a recorder that was reset stay in their ranges and the   *)
(* ring holds whole snapshots, whatever its length and wherever playback    *)
(* goes, played forward while live or not.                                  *)
THEOREM TypesOK ==
  ASSUME ResetFirst
  PROVE  Spec => []TypeOK
  <1>1. Init => Types
    BY InitKeeps
  <1>2. Types /\ [Next]_vars => Types'
    <2> SUFFICES ASSUME Types, [Next]_vars PROVE Types'
      OBVIOUS
    <2>0. MaxPlay \in Nat
      BY RecorderAssumption
    <2>1. ASSUME NEW f \in {0, 1}, Instruction(f) PROVE Types'
      <3>1. PICK w : Execute(f, w) /\ (w = NoWrite \/ \E a \in Addrs, v \in Values : w = WriteOf(a, v))
        BY <2>1, Zenon DEF Instruction, NoWrite, WriteOf
      <3> QED
        BY <3>1, ExecuteTypes
    <2>2. ASSUME NEW n \in 1..MaxPlay, PlayReverse(n) PROVE Types'
      BY <2>0, <2>2, ReverseTypes
    <2>3. ASSUME NEW n \in 1..MaxPlay, PlayForward(n) PROVE Types'
      BY <2>0, <2>3, ForwardTypes
    <2>4. ASSUME ClientReset PROVE Types'
      BY <2>4, ResetKeeps
    <2>5. ASSUME UNCHANGED vars PROVE Types'
      BY <2>5 DEF vars, ring, Types, RingOK
    <2> QED
      BY <2>1, <2>2, <2>3, <2>4, <2>5, Zenon DEF Next
  <1>3. Types => TypeOK
    BY DEF Types, RingOK, TypeOK, Moments, Slots
  <1> QED
    BY <1>1, <1>2, <1>3, PTL DEF Spec
=============================================================================
