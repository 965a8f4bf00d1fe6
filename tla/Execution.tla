----------------------------- MODULE Execution -----------------------------
(***************************************************************************)
(* The two threads of the emulator and the request channel between them.   *)
(*                                                                         *)
(* The emulation thread is Hardware::Execution() with everything it calls  *)
(* that serves requests: ExecuteInstruction(), ExecuteFrameNoBreaks(),     *)
(* RunHeadless() and ReqHandling().  The caller is the IPC / main thread,  *)
(* reduced to what it may ask of Hardware and in what order: it is inside  *)
(* at most one Request() at a time, and once it has requested EXIT it only *)
(* runs the tail of RunServerMode() and the destructors.                   *)
(*                                                                         *)
(* The queues are the atomic ones module TQueue justifies.  A result       *)
(* carries, as a ghost, the request it was made for; the code's results    *)
(* do not, and Request() takes whatever result comes first.                *)
(***************************************************************************)
EXTENDS Naturals, Sequences

CONSTANTS
  MaxLength,     \* the nominal maximum of both queues
  HasDebugger,   \* a Debugger object exists (server mode) or not (test mode)
  GraceSuffices  \* assume the caller is never later than m_exitGracePeriod

ASSUME ExecutionAssumption ==
  MaxLength \in Nat /\ HasDebugger \in BOOLEAN /\ GraceSuffices \in BOOLEAN

VARIABLES
  status,     \* m_status
  at,         \* where the emulation thread is
  stack,      \* the ReqHandling() calls it is inside, outermost first
  reqs,       \* m_reqs
  results,    \* m_reqRes
  call,       \* the request the caller is inside Request() with, or NoCall
  reply,      \* the result Request() last returned
  phase       \* how far the caller is in the life of the Hardware object

vars == <<status, at, stack, reqs, results, call, reply, phase>>
emuVars == <<status, at, stack, results>>
callerVars == <<call, reply, phase>>

NoCall == "none"

(* One request for each effect on the control state. *)
Requests == {
  "RUN", "STOP", "EXIT",
  "LOAD_ROM",           \* and MOUNT_FDD: stop and restart, then maybe run
  "GET_CC",             \* every request that only reads or sets data
  "EXECUTE_INSTR",
  "EXECUTE_FRAME",      \* and EXECUTE_FRAME_NO_BREAKS
  "RUN_HEADLESS",
  "GET_MEM_BAD",        \* every request whose handler throws
  "DEBUG_ATTACH",
  "DEBUG_SCRIPT_RUN_ONCE",   \* may end in StopForScript()
  "DEBUG_GET" }         \* the default case: Debugger::DebugReqHandling

Result(r, outcome) == [req |-> r, outcome |-> outcome]
Results == [req : Requests, outcome : {"handled", "unhandled", "error"}]

-----------------------------------------------------------------------------
(* push() and emplace() of a full queue drop the oldest item. *)
Enqueue(q, x) == Append(IF Len(q) > MaxLength THEN Tail(q) ELSE q, x)

Init ==
  /\ status = "STOP"
  /\ at = "loop"
  /\ stack = <<>>
  /\ reqs = <<>>
  /\ results = <<>>
  /\ call = NoCall
  /\ reply = Result("GET_CC", "handled")
  /\ phase = "open"

-----------------------------------------------------------------------------
(* Hardware::Request() on the caller's thread. *)

(* Mutant: fire and forget. *)
RequestNoWait(r) ==
  /\ call = NoCall
  /\ reqs' = Enqueue(reqs, r)
  /\ UNCHANGED <<call, reply>>
  /\ UNCHANGED emuVars

Request(r) ==
  /\ call = NoCall
  /\ reqs' = Enqueue(reqs, r)
  /\ call' = r
  /\ UNCHANGED reply
  /\ UNCHANGED emuVars

(* Mutant: Request() gives up waiting. *)
TakeOrGiveUp ==
  /\ call # NoCall
  /\ IF results # <<>> THEN reply' = Head(results) /\ results' = Tail(results)
                       ELSE UNCHANGED <<reply, results>>
  /\ call' = NoCall
  /\ UNCHANGED <<status, at, stack, reqs, phase>>

TakeResult ==
  /\ call # NoCall /\ results # <<>>
  /\ reply' = Head(results)
  /\ results' = Tail(results)
  /\ call' = NoCall
  /\ UNCHANGED <<status, at, stack, reqs, phase>>

(* What an open caller may ask for.  ValidateRequest() and main() let every *)
(* request through but EXIT, which the server loop treats apart.            *)
Ask(r) ==
  /\ phase = "open" /\ r # "EXIT"
  /\ Request(r)
  /\ UNCHANGED phase

(* The EXIT command, and the Request(EXIT) after the loop when a signal has *)
(* set g_shutdown; a signal during the EXIT command brings both.            *)
AskExit ==
  /\ HasDebugger
  /\ phase \in {"open", "exiting"}
  /\ Request("EXIT")
  /\ phase' = IF phase = "open" THEN "exiting" ELSE "exited"

(* ~Debugger.  RunServerMode() also returns without EXIT, when it cannot    *)
(* listen again.                                                            *)
Detach ==
  /\ HasDebugger
  /\ phase \in {"open", "exiting", "exited"}
  /\ Request("DEBUG_ATTACH")
  /\ phase' = "detaching"

(* ~Hardware: EXIT unless the emulation thread has already had it, ... *)
Destroy ==
  /\ phase = IF HasDebugger THEN "detaching" ELSE "open"
  /\ phase' = "joining"
  /\ IF status # "EXIT"
     THEN Request("EXIT")
     ELSE call = NoCall /\ UNCHANGED <<reqs, call, reply>> /\ UNCHANGED emuVars

(* ... then join. *)
Join ==
  /\ phase = "joining" /\ call = NoCall
  /\ at = "done"
  /\ phase' = "joined"
  /\ UNCHANGED <<reqs, call, reply>>
  /\ UNCHANGED emuVars

Caller ==
  \/ \E r \in Requests : Ask(r)
  \/ AskExit \/ Detach \/ Destroy \/ Join \/ TakeResult

-----------------------------------------------------------------------------
(* The emulation thread: ReqHandling(). *)

(* Where each place that polls goes on when its ReqHandling() returns.  The *)
(* poll inside ExecuteInstruction() has two callers: Execution() itself and *)
(* the handler of a stepping request ("step").                              *)
After(place) ==
  CASE place = "poll"  -> "frame"
    [] place = "step"  -> "stepped"
    [] place = "idle"  -> "loop"
    [] OTHER           -> place        \* "vsync" and "grace" poll again

Polling == {"poll", "step", "vsync", "idle", "grace"}

(* pop() finds a request: the handler starts. *)
Serve ==
  /\ at \in Polling /\ reqs # <<>>
  /\ stack' = Append(stack, [req |-> Head(reqs), from |-> at])
  /\ reqs' = Tail(reqs)
  /\ at' = "handler"
  /\ UNCHANGED <<status, results>> /\ UNCHANGED callerVars

(* pop(0ns) and a timed pop() give up; only the latter leaves it where it is. *)
PollNothing ==
  /\ at \in {"poll", "step"} /\ reqs = <<>>
  /\ at' = After(at)
  /\ UNCHANGED <<status, stack, reqs, results>> /\ UNCHANGED callerVars

Top == stack[Len(stack)]

(* Mutant: nothing comes back to the caller when a handler throws. *)
DropError(outcome) ==
  /\ results' = IF outcome = "error" THEN results
                ELSE Enqueue(results, Result(Top.req, outcome))
  /\ at' = After(Top.from)
  /\ stack' = SubSeq(stack, 1, Len(stack) - 1)
  /\ UNCHANGED reqs /\ UNCHANGED callerVars

(* The end of a handler: one result, then back to where it polled. *)
Answer(outcome) ==
  /\ results' = Enqueue(results, Result(Top.req, outcome))
  /\ at' = After(Top.from)
  /\ stack' = SubSeq(stack, 1, Len(stack) - 1)
  /\ UNCHANGED reqs /\ UNCHANGED callerVars

DebugRequests == {"DEBUG_GET", "DEBUG_SCRIPT_RUN_ONCE"}

OutcomeOf(r) ==
  CASE r = "GET_MEM_BAD"                  -> "error"
    [] r \in DebugRequests /\ ~HasDebugger -> "unhandled"
    [] OTHER                              -> "handled"

(* Mutant: detaching the debugger also stops the emulation. *)
StatusDetachStops(r, s) ==
  IF r = "EXIT" THEN {"EXIT"} ELSE IF r = "DEBUG_ATTACH" THEN {"STOP"} ELSE {s}

(* m_status after the handler of r has run in status s. *)
StatusAfter(r, s) ==
  CASE r = "RUN"      -> {"RUN"}
    [] r = "STOP"     -> {"STOP"}
    [] r = "EXIT"     -> {"EXIT"}
    [] r = "LOAD_ROM" -> {"STOP", "RUN"}
    [] r = "DEBUG_SCRIPT_RUN_ONCE" /\ HasDebugger -> {s, "STOP"}
    [] OTHER          -> {s}

Stepping == {"EXECUTE_INSTR", "EXECUTE_FRAME", "RUN_HEADLESS"}

Handle ==
  /\ at = "handler" /\ Top.req \notin Stepping
  /\ status' \in StatusAfter(Top.req, status)
  /\ Answer(OutcomeOf(Top.req))

(* A stepping handler executes an instruction.  Without a break it polls; a  *)
(* break or a RAM disk exception skips the poll and leaves the status alone. *)
(* RunHeadless() neither polls nor breaks.                                   *)
Step ==
  /\ at = "handler" /\ Top.req \in Stepping
  /\ at' \in {"stepped"} \union (IF Top.req = "RUN_HEADLESS" THEN {} ELSE {"step"})
  /\ UNCHANGED <<status, stack, reqs, results>> /\ UNCHANGED callerVars

(* The do-while of ExecuteFrameNoBreaks() and the loop of RunHeadless(). *)
StepAgain ==
  /\ at = "stepped" /\ Top.req # "EXECUTE_INSTR"
  /\ at' = "handler"
  /\ UNCHANGED <<status, stack, reqs, results>> /\ UNCHANGED callerVars

StepEnd ==
  /\ at = "stepped"
  /\ UNCHANGED status
  /\ Answer("handled")

-----------------------------------------------------------------------------
(* The emulation thread: Execution(). *)

(* Mutant: the thread ends as soon as it has processed EXIT. *)
LoopNoGrace ==
  /\ at = "loop"
  /\ at' = CASE status = "RUN" -> "instr" [] status = "STOP" -> "idle"
             [] OTHER -> "done"
  /\ UNCHANGED <<status, stack, reqs, results>> /\ UNCHANGED callerVars

(* Which inner loop the status selects. *)
Loop ==
  /\ at = "loop"
  /\ at' = CASE status = "RUN" -> "instr" [] status = "STOP" -> "idle"
             [] OTHER -> "grace"
  /\ UNCHANGED <<status, stack, reqs, results>> /\ UNCHANGED callerVars

(* ExecuteInstruction() true: Stop(false) and out of the frame. *)
Break ==
  /\ at = "instr"
  /\ status' = "STOP"
  /\ at' = "loop"
  /\ UNCHANGED <<stack, reqs, results>> /\ UNCHANGED callerVars

(* ExecuteInstruction() false so far: its last act is ReqHandling(0ns). *)
Instruction ==
  /\ at = "instr"
  /\ at' = "poll"
  /\ UNCHANGED <<status, stack, reqs, results>> /\ UNCHANGED callerVars

(* Mutant: the do-while looks at the frame number only. *)
FrameIgnoresStatus ==
  /\ at = "frame"
  /\ at' \in {"instr", "vsync"}
  /\ UNCHANGED <<status, stack, reqs, results>> /\ UNCHANGED callerVars

(* The conditions of the do-while and of the vsync block, and the outer     *)
(* while: the frame goes on, ends, or the status has left RUN.              *)
Frame ==
  /\ at = "frame"
  /\ at' \in IF status = "RUN" THEN {"instr", "vsync"} ELSE {"loop"}
  /\ UNCHANGED <<status, stack, reqs, results>> /\ UNCHANGED callerVars

(* The frame's time is up. *)
Vsync ==
  /\ at = "vsync"
  /\ at' = "loop"
  /\ UNCHANGED <<status, stack, reqs, results>> /\ UNCHANGED callerVars

(* pop(m_exitGracePeriod) returns nothing and the thread ends: 250 ms have  *)
(* gone by, or the condition variable woke up spuriously.  GraceSuffices     *)
(* excludes that this happens to a caller that has more to ask.             *)
GraceOver ==
  /\ at = "grace" /\ reqs = <<>>
  /\ GraceSuffices => phase = "joining" /\ call = NoCall
  /\ at' = "done"
  /\ UNCHANGED <<status, stack, reqs, results>> /\ UNCHANGED callerVars

Serving == Serve \/ PollNothing \/ Handle \/ Step \/ StepAgain \/ StepEnd
Running == Loop \/ Break \/ Instruction \/ Frame \/ Vsync
Emulation == Serving \/ Running \/ GraceOver

(* Not a deadlock: the object is gone. *)
Finished == phase = "joined" /\ UNCHANGED vars

Next == Caller \/ Emulation \/ Finished

(* Both threads are scheduled.  A frame's vsync wait and a stepping request  *)
(* end (RUN_HEADLESS has been given a limit).  The caller may stop asking    *)
(* for good, but takes a result that is there and leaves a destructor.       *)
Fairness ==
  /\ WF_vars(Emulation)
  /\ SF_vars(Vsync) /\ SF_vars(StepEnd)
  /\ WF_vars(TakeResult)
  /\ WF_vars(phase # "open" /\ (Detach \/ Destroy \/ Join))

Spec == Init /\ [][Next]_vars /\ Fairness

-----------------------------------------------------------------------------
(* The type invariant; ReqHandling() is never inside itself. *)
TypeOK ==
  /\ status \in {"RUN", "STOP", "EXIT"}
  /\ at \in {"loop", "instr", "poll", "frame", "vsync", "idle", "grace", "done",
            "handler", "step", "stepped"}
  /\ stack \in Seq([req : Requests, from : Polling]) /\ Len(stack) <= 1
  /\ reqs \in Seq(Requests)
  /\ results \in Seq(Results)
  /\ call \in Requests \union {NoCall}
  /\ reply \in Results
  /\ phase \in {"open", "exiting", "exited", "detaching", "joining", "joined"}

(* The conversation: while the caller is inside Request() its request is in  *)
(* exactly one place, on its way, being handled, or answered; otherwise the  *)
(* channel is empty.  So a handler's own poll never finds a request, no queue *)
(* is ever full, and no result is left over for a later request.             *)
Conversation ==
  LET inFlight == reqs \o [i \in 1..Len(stack) |-> stack[i].req]
                       \o [i \in 1..Len(results) |-> results[i].req]
  IN  inFlight = IF call = NoCall THEN <<>> ELSE <<call>>

(* Request() returns the result of the request it was called with, although *)
(* nothing in a result says which request it answers.                       *)
OwnResult ==
  [][call # NoCall /\ call' = NoCall => reply'.req = call]_vars

(* Once EXIT has been processed no request and no break brings the emulation *)
(* back: the status stays EXIT, whatever the destructors still ask.          *)
ExitIsFinal == [][status = "EXIT" => status' = "EXIT"]_vars

(* ... and no instruction is executed any more, neither by Execution() nor   *)
(* by a stepping request.                                                    *)
NothingRunsAfterExit ==
  status = "EXIT" =>
    /\ at \notin {"instr", "poll", "step", "stepped"}
    /\ at = "handler" => Top.req \notin Stepping

(* Every Request() returns, and a program that starts to shut down ends      *)
(* (with GraceSuffices; without it a destructor's Request() may never return *)
(* because the emulation thread has gone).                                   *)
EveryRequestReturns == (call # NoCall) ~> (call = NoCall)
ShutdownCompletes == (phase # "open") ~> (phase = "joined")
=============================================================================
