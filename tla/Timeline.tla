------------------------------ MODULE Timeline ------------------------------
(***************************************************************************)
(* What a recorder of past states promises: a list of the last snapshots   *)
(* of the whole machine, a position in it, and playback that puts the      *)
(* machine exactly into the snapshot at the position.  Running on from a   *)
(* rewound position forgets what came after it.                            *)
(***************************************************************************)
EXTENDS Integers, Sequences

CONSTANTS
  Machines,    \* the states of the machine
  MaxPlay      \* bound: frames asked for in one playback

VARIABLES
  size,        \* how many snapshots are kept, never changed
  machine,     \* the machine's state now
  past,        \* the snapshots, oldest first
  cursor,      \* the position of the playback, or of the last snapshot
  live         \* the machine is running on past the snapshot at cursor

tvars == <<size, machine, past, cursor, live>>

Init ==
  /\ size \in Nat \ {0}
  /\ machine \in Machines
  /\ past \in {<<>>, <<machine>>}
  /\ cursor = Len(past)
  /\ live = TRUE

(* The newest snapshots that fit. *)
Newest(s) == IF Len(s) > size THEN Tail(s) ELSE s

(* The machine executes; its new state may be recorded. *)
Run ==
  /\ machine' \in Machines
  /\ LET kept == IF live THEN past ELSE SubSeq(past, 1, cursor)
     IN  past' \in {kept, Newest(Append(kept, machine'))}
  /\ cursor' = Len(past')
  /\ live' = TRUE
  /\ UNCHANGED size

(* Back by n snapshots; the first of them is the one the machine runs on from. *)
Reverse(n) ==
  /\ past # <<>>
  /\ LET target == IF live THEN cursor - n + 1 ELSE cursor - n
     IN  cursor' = IF target < 1 THEN 1 ELSE target
  /\ machine' = past[cursor']
  /\ live' = FALSE
  /\ UNCHANGED <<size, past>>

(* Forward by n snapshots, never past the last one. *)
Forward(n) ==
  /\ ~live
  /\ cursor' = IF cursor + n > Len(past) THEN Len(past) ELSE cursor + n
  /\ machine' = past[cursor']
  /\ UNCHANGED <<size, past, live>>

(* Playing forward while live, and backward with nothing recorded, do nothing: *)
(* both are stuttering steps.                                                  *)

(* Starting again with the present as the only snapshot. *)
Restart ==
  /\ past' = <<machine>> /\ cursor' = 1 /\ live' = TRUE
  /\ UNCHANGED <<size, machine>>

Next == Run \/ Restart \/ \E n \in 1..MaxPlay : Reverse(n) \/ Forward(n)

Spec == Init /\ [][Next]_tvars
=============================================================================
