----------------------------- MODULE DebuggerMC -----------------------------
(***************************************************************************)
(* Debugger for the model checker: two bytes of memory, one breakpoint     *)
(* address, and a watchpoint of each type on both bytes.                   *)
(***************************************************************************)
EXTENDS Debugger

Watch(type, len, access, cond, value) ==
  [addr |-> 0, len |-> len, value |-> value, access |-> access, cond |-> cond,
   type |-> type, active |-> TRUE]

SomeWatches ==
  {Watch("LEN", 2, "R", "EQU", 1),
   Watch("WORD", 2, "RW", "EQU", 1)}

SomeEdits == {[entered |-> 1, readonly |-> r, active |-> TRUE] : r \in BOOLEAN}

(* report and recorded are what the last step has put out: no step depends   *)
(* on them, and the properties look at them only after a step.               *)
Collections == <<ram, edits, breaks, watches, frame, requests>>
=============================================================================
