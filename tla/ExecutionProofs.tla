--------------------------- MODULE ExecutionProofs --------------------------
(***************************************************************************)
(* The request channel and the shutdown of module Execution, for every     *)
(* maximum length of the queues, with and without a debugger, and with or  *)
(* without the assumption that the grace period suffices.                  *)
(***************************************************************************)
EXTENDS Execution, SequenceTheorems, TLAPS

(* The four places a request can be in while its caller waits. *)
Silent  == call = NoCall /\ reqs = <<>> /\ stack = <<>> /\ results = <<>>
OnItsWay == /\ call \in Requests
            /\ reqs = <<call>> /\ stack = <<>> /\ results = <<>>
BeingHandled(from) ==
  /\ call \in Requests
  /\ reqs = <<>> /\ stack = <<[req |-> call, from |-> from]>> /\ results = <<>>
AnsweredWith(outcome) ==
  /\ call \in Requests
  /\ reqs = <<>> /\ stack = <<>> /\ results = <<Result(call, outcome)>>

Outcomes == {"handled", "unhandled", "error"}
Inside == {"handler", "step", "stepped"}

Channel ==
  \/ Silent
  \/ OnItsWay
  \/ \E from \in Polling \ {"step"} : BeingHandled(from)
  \/ \E outcome \in Outcomes : AnsweredWith(outcome)

(* The emulation thread is inside ReqHandling() exactly while it serves. *)
Nesting == at \in Inside <=> stack # <<>>

(* Everything but the queues, which Channel gives their types. *)
ControlTypes ==
  /\ status \in {"RUN", "STOP", "EXIT"}
  /\ at \in {"loop", "instr", "poll", "frame", "vsync", "idle", "grace", "done"}
            \union Inside
  /\ reply \in Results
  /\ phase \in {"open", "exiting", "exited", "detaching", "joining", "joined"}

OneRequest == Channel /\ Nesting /\ ControlTypes

-----------------------------------------------------------------------------
(* The queues are only ever empty or hold one element. *)
LEMMA Singletons ==
  ASSUME NEW x
  PROVE  /\ <<x>> # <<>> /\ Len(<<x>>) = 1 /\ <<x>>[1] = x
         /\ Head(<<x>>) = x /\ Tail(<<x>>) = <<>>
         /\ SubSeq(<<x>>, 1, 1 - 1) = <<>>
         /\ Append(<<>>, x) = <<x>> /\ Enqueue(<<>>, x) = <<x>>
  <1>1. <<x>> \in Seq({x}) /\ <<>> \in Seq({x}) /\ Len(<<>>) = 0
    BY EmptySeq
  <1>2. <<x>> # <<>> /\ Len(<<x>>) = 1 /\ <<x>>[1] = x /\ Head(<<x>>) = x
    BY <1>1
  <1>3. Tail(<<x>>) = <<>>
    <2>1. Tail(<<x>>) \in Seq({x}) /\ Len(Tail(<<x>>)) = 0
      BY <1>1, <1>2, HeadTailProperties
    <2> QED
      BY <2>1, EmptySeq
  <1>4. SubSeq(<<x>>, 1, 1 - 1) = <<>>
    BY SubSeqEmpty
  <1>5. Append(<<>>, x) = <<x>>
    <2>1. Append(<<>>, x) = <<>> \o <<x>>
      BY <1>1, AppendIsConcat
    <2> QED
      BY <1>1, <2>1, ConcatEmptySeq
  <1>6. Enqueue(<<>>, x) = <<x>>
    BY <1>1, <1>5, ExecutionAssumption DEF Enqueue
  <1> QED
    BY <1>2, <1>3, <1>4, <1>5, <1>6

-----------------------------------------------------------------------------
(* The caller's steps: a request is made on a silent channel only. *)
LEMMA CallerStep ==
  ASSUME OneRequest, Caller
  PROVE  OneRequest'
  <1> USE ExecutionAssumption DEF OneRequest
  <1>1. \A r \in Requests : r # NoCall
    BY DEF Requests, NoCall
  <1>2. ASSUME NEW r \in Requests, Request(r)
        PROVE  Channel' /\ Nesting' /\ UNCHANGED <<status, at, reply>>
    <2>1. call = NoCall /\ reqs' = Enqueue(reqs, r) /\ call' = r
          /\ UNCHANGED <<status, at, stack, results, reply>>
      BY <1>2 DEF Request, emuVars
    <2>2. Silent
      BY <1>1, <2>1 DEF Channel, OnItsWay, BeingHandled, AnsweredWith
    <2>3. OnItsWay'
      BY <2>1, <2>2, Singletons DEF Silent, OnItsWay
    <2> QED
      BY <2>1, <2>3 DEF Channel, Nesting
  <1>3. ASSUME NEW r \in Requests, Ask(r) PROVE OneRequest'
    BY <1>2, <1>3 DEF Ask, ControlTypes
  <1>4. CASE AskExit
    <2>1. "EXIT" \in Requests
      BY DEF Requests
    <2> QED
      BY <1>2, <1>4, <2>1 DEF AskExit, ControlTypes
  <1>5. CASE Detach
    <2>1. "DEBUG_ATTACH" \in Requests
      BY DEF Requests
    <2> QED
      BY <1>2, <1>5, <2>1 DEF Detach, ControlTypes
  <1>6. CASE Destroy
    <2>1. "EXIT" \in Requests /\ phase' = "joining"
      BY <1>6 DEF Requests, Destroy
    <2>2. CASE status # "EXIT"
      BY <1>2, <1>6, <2>1, <2>2 DEF Destroy, ControlTypes
    <2>3. CASE status = "EXIT"
      BY <1>6, <2>1, <2>3 DEF Destroy, ControlTypes, Channel, Silent, OnItsWay,
         BeingHandled, AnsweredWith, Nesting, emuVars
    <2> QED
      BY <2>2, <2>3
  <1>7. CASE Join
    BY <1>7 DEF Join, ControlTypes, Channel, Silent, OnItsWay, BeingHandled,
       AnsweredWith, Nesting, emuVars
  <1>8. CASE TakeResult
    <2>1. PICK outcome \in Outcomes : AnsweredWith(outcome)
      BY <1>8 DEF TakeResult, Channel, Silent, OnItsWay, BeingHandled
    <2>2. reply' = Result(call, outcome) /\ Silent'
      BY <1>8, <2>1, Singletons DEF TakeResult, AnsweredWith, Silent
    <2>3. reply' \in Results
      BY <2>1, <2>2 DEF AnsweredWith, Results, Result, Outcomes
    <2> QED
      BY <1>8, <2>2, <2>3 DEF TakeResult, Channel, Silent, Nesting, AnsweredWith,
         ControlTypes
  <1> QED
    BY <1>3, <1>4, <1>5, <1>6, <1>7, <1>8 DEF Caller

(* The steps of the emulation thread that leave the channel alone. *)
LEMMA RunningStep ==
  ASSUME OneRequest, Running \/ PollNothing \/ Step \/ StepAgain \/ GraceOver
  PROVE  OneRequest'
  <1> USE DEF OneRequest
  <1>1. UNCHANGED <<stack, reqs, results, call, reply, phase>>
    BY DEF Running, PollNothing, Step, StepAgain, GraceOver, Loop, Break, Instruction,
       Frame, Vsync, callerVars
  <1>2. Channel'
    BY <1>1 DEF Channel, Silent, OnItsWay, BeingHandled, AnsweredWith
  <1>3. at \in Inside <=> at' \in Inside
    <2>1. CASE PollNothing
      BY <2>1 DEF PollNothing, After, Inside
    <2>2. CASE Step \/ StepAgain
      BY <2>2 DEF Step, StepAgain, Inside
    <2>3. CASE Running
      BY <2>3 DEF Running, Loop, Break, Instruction, Frame, Vsync, Inside
    <2>4. CASE GraceOver
      BY <2>4 DEF GraceOver, Inside
    <2> QED
      BY <2>1, <2>2, <2>3, <2>4
  <1>4. ControlTypes'
    <2>1. reply' \in Results /\ phase' = phase
      BY <1>1 DEF ControlTypes
    <2>2. status' \in {"RUN", "STOP", "EXIT"}
      BY DEF ControlTypes, Running, PollNothing, Step, StepAgain, GraceOver, Loop,
         Break, Instruction, Frame, Vsync
    <2>3. at' \in {"loop", "instr", "poll", "frame", "vsync", "idle", "grace", "done"}
                 \union Inside
      BY DEF Running, PollNothing, Step, StepAgain, GraceOver, Loop, After,
         Break, Instruction, Frame, Vsync, Inside
    <2> QED
      BY <2>1, <2>2, <2>3 DEF ControlTypes
  <1> QED
    BY <1>1, <1>2, <1>3, <1>4 DEF Nesting

(* Finding a request, and answering the one that is being handled. *)
LEMMA ServeStep ==
  ASSUME OneRequest, Serve
  PROVE  OneRequest'
  <1> USE DEF OneRequest
  <1>1. OnItsWay /\ at # "step"
    BY DEF Serve, Channel, Silent, OnItsWay, BeingHandled, AnsweredWith, Nesting, Inside
  <1>2. at \in Polling \ {"step"}
    BY <1>1 DEF Serve
  <1>3. /\ reqs' = <<>> /\ stack' = <<[req |-> call, from |-> at]>>
        /\ UNCHANGED <<status, results, call, reply, phase>> /\ at' = "handler"
    BY <1>1, Singletons DEF Serve, OnItsWay, callerVars
  <1>4. Channel'
    <2>1. /\ call' \in Requests /\ reqs' = <<>> /\ results' = <<>>
          /\ stack' = <<[req |-> call', from |-> at]>>
      BY <1>1, <1>3 DEF OnItsWay
    <2> QED
      BY <1>2, <2>1 DEF Channel, BeingHandled
  <1> QED
    BY <1>3, <1>4, Singletons DEF Nesting, Inside, ControlTypes

LEMMA AnswerStep ==
  ASSUME OneRequest, at \in Inside,
         NEW outcome \in Outcomes, Answer(outcome),
         status' \in {"RUN", "STOP", "EXIT"}
  PROVE  OneRequest'
  <1> USE DEF OneRequest
  <1>1. PICK from \in Polling \ {"step"} : BeingHandled(from)
    <2>1. stack # <<>>
      BY DEF Nesting
    <2> QED
      BY <2>1 DEF Channel, Silent, OnItsWay, AnsweredWith
  <1>2. Top = [req |-> call, from |-> from] /\ Len(stack) = 1
    BY <1>1, Singletons DEF BeingHandled, Top
  <1>3. /\ results' = <<Result(call, outcome)>> /\ stack' = <<>> /\ at' = After(from)
        /\ reqs' = <<>> /\ UNCHANGED <<call, reply, phase>>
    BY <1>1, <1>2, Singletons DEF Answer, BeingHandled, callerVars
  <1>4. AnsweredWith(outcome)'
    BY <1>1, <1>3 DEF AnsweredWith, BeingHandled
  <1>5. at' \in {"frame", "loop", "vsync", "grace"}
    BY <1>1, <1>3 DEF After, Polling
  <1> QED
    BY <1>3, <1>4, <1>5 DEF Channel, Nesting, Inside, ControlTypes

(* Whatever a handler does to the status, it leaves a status. *)
LEMMA HandleTypes ==
  ASSUME OneRequest, Handle
  PROVE  /\ at \in Inside /\ OutcomeOf(Top.req) \in Outcomes
         /\ Answer(OutcomeOf(Top.req)) /\ status' \in {"RUN", "STOP", "EXIT"}
  BY DEF Handle, OneRequest, ControlTypes, StatusAfter, OutcomeOf, Outcomes, Inside

LEMMA OneRequestStep ==
  ASSUME OneRequest, [Next]_vars
  PROVE  OneRequest'
  <1>1. CASE Caller
    BY <1>1, CallerStep
  <1>2. CASE Serve
    BY <1>2, ServeStep
  <1>3. CASE Handle
    BY <1>3, HandleTypes, AnswerStep
  <1>4. CASE StepEnd
    <2>1. /\ at \in Inside /\ "handled" \in Outcomes /\ Answer("handled")
          /\ status' \in {"RUN", "STOP", "EXIT"}
      BY <1>4 DEF StepEnd, Inside, Outcomes, OneRequest, ControlTypes
    <2> QED
      BY <2>1, AnswerStep
  <1>5. CASE Running \/ PollNothing \/ Step \/ StepAgain \/ GraceOver
    BY <1>5, RunningStep
  <1>6. CASE UNCHANGED vars
    BY <1>6 DEF vars, OneRequest, Channel, Silent, OnItsWay, BeingHandled, AnsweredWith,
       Nesting, ControlTypes
  <1> QED
    BY <1>1, <1>2, <1>3, <1>4, <1>5, <1>6 DEF Next, Emulation, Serving, Finished

LEMMA OneRequestAlways == Spec => []OneRequest
  <1>1. Init => OneRequest
    <2>1. Result("GET_CC", "handled") \in Results
      BY DEF Result, Results, Requests
    <2> QED
      BY <2>1 DEF Init, OneRequest, Channel, Silent, Nesting, Inside, ControlTypes
  <1>2. OneRequest /\ [Next]_vars => OneRequest'
    BY OneRequestStep
  <1> QED
    BY <1>1, <1>2, PTL DEF Spec

-----------------------------------------------------------------------------
(* The type invariant; in particular ReqHandling() never runs inside itself, *)
(* although every handler that executes instructions polls the queue.        *)
THEOREM TypeCorrect == Spec => []TypeOK
  <1>1. OneRequest => TypeOK
    <2> SUFFICES ASSUME OneRequest PROVE TypeOK
      OBVIOUS
    <2>1. /\ <<>> \in Seq(Requests) /\ <<>> \in Seq(Results)
          /\ <<>> \in Seq([req : Requests, from : Polling]) /\ Len(<<>>) = 0
      BY EmptySeq
    <2>2. ASSUME NEW S, NEW x \in S PROVE <<x>> \in Seq(S) /\ Len(<<x>>) = 1
      OBVIOUS
    <2>3. reqs \in Seq(Requests)
      BY <2>1, <2>2 DEF OneRequest, Channel, Silent, OnItsWay, BeingHandled, AnsweredWith
    <2>4. stack \in Seq([req : Requests, from : Polling]) /\ Len(stack) <= 1
      <3>1. ASSUME NEW from \in Polling, BeingHandled(from)
            PROVE  stack \in Seq([req : Requests, from : Polling]) /\ Len(stack) <= 1
        <4>1. [req |-> call, from |-> from] \in [req : Requests, from : Polling]
          BY <3>1 DEF BeingHandled
        <4> QED
          BY <2>2, <3>1, <4>1 DEF BeingHandled
      <3>2. stack = <<>> \/ \E from \in Polling : BeingHandled(from)
        BY DEF OneRequest, Channel, Silent, OnItsWay, AnsweredWith
      <3>3. CASE stack = <<>>
        BY <2>1, <3>3
      <3> QED
        BY <3>1, <3>2, <3>3
    <2>5. results \in Seq(Results)
      <3>1. ASSUME NEW outcome \in Outcomes, AnsweredWith(outcome)
            PROVE  results \in Seq(Results)
        <4>1. Result(call, outcome) \in Results
          BY <3>1 DEF AnsweredWith, Result, Results, Outcomes
        <4> QED
          BY <2>2, <3>1, <4>1 DEF AnsweredWith
      <3>2. results = <<>> \/ \E outcome \in Outcomes : AnsweredWith(outcome)
        BY DEF OneRequest, Channel, Silent, OnItsWay, BeingHandled
      <3> QED
        BY <2>1, <3>1, <3>2
    <2>6. call \in Requests \union {NoCall}
      BY DEF OneRequest, Channel, Silent, OnItsWay, BeingHandled, AnsweredWith
    <2>7. at \in {"loop", "instr", "poll", "frame", "vsync", "idle", "grace", "done",
                  "handler", "step", "stepped"}
      BY DEF OneRequest, ControlTypes, Inside
    <2> QED
      BY <2>3, <2>4, <2>5, <2>6, <2>7 DEF TypeOK, OneRequest, ControlTypes
  <1> QED
    BY <1>1, OneRequestAlways, PTL

(* The request of a waiting caller is in exactly one place and nothing else *)
(* is anywhere, so neither queue can overflow or hold a stale result.       *)
THEOREM ConversationHolds == Spec => []Conversation
  <1>1. OneRequest => Conversation
    <2> SUFFICES ASSUME OneRequest PROVE Conversation
      OBVIOUS
    <2> DEFINE asked == [i \in 1..Len(stack) |-> stack[i].req]
               given == [i \in 1..Len(results) |-> results[i].req]
    <2>1. Len(<<>>) = 0 /\ 1..0 = {}
      BY EmptySeq
    <2>2. stack = <<>> => asked = <<>>
      BY <2>1
    <2>3. results = <<>> => given = <<>>
      BY <2>1
    <2>4. \A from \in Polling : BeingHandled(from) => asked = <<call>>
      BY Singletons DEF BeingHandled
    <2>5. \A outcome \in Outcomes : AnsweredWith(outcome) => given = <<call>>
      BY Singletons DEF AnsweredWith, Result
    <2>6. \A x : /\ <<x>> \o <<>> = <<x>> /\ <<>> \o <<x>> = <<x>>
                 /\ <<>> \o <<>> = <<>>
      <3> TAKE x
      <3>1. <<x>> \in Seq({x}) /\ <<>> \in Seq({x})
        OBVIOUS
      <3> QED
        BY <3>1, ConcatEmptySeq
    <2> HIDE DEF asked, given
    <2>7. (reqs \o asked) \o given = IF call = NoCall THEN <<>> ELSE <<call>>
      <3>1. call \in Requests => call # NoCall
        BY DEF Requests, NoCall
      <3>2. CASE Silent
        <4>1. asked = <<>> /\ given = <<>> /\ reqs = <<>> /\ call = NoCall
          BY <2>2, <2>3, <3>2 DEF Silent
        <4>2. (<<>> \o <<>>) \o <<>> = <<>>
          BY <2>6
        <4> QED
          BY <4>1, <4>2
      <3>3. CASE OnItsWay
        BY <2>2, <2>3, <2>6, <3>1, <3>3 DEF OnItsWay
      <3>4. CASE \E from \in Polling : BeingHandled(from)
        BY <2>3, <2>4, <2>6, <3>1, <3>4 DEF BeingHandled
      <3>5. CASE \E outcome \in Outcomes : AnsweredWith(outcome)
        BY <2>2, <2>5, <2>6, <3>1, <3>5 DEF AnsweredWith
      <3> QED
        BY <3>2, <3>3, <3>4, <3>5 DEF OneRequest, Channel
    <2> QED
      BY <2>7 DEF Conversation, asked, given
  <1> QED
    BY <1>1, OneRequestAlways, PTL

(* Request() returns its own result. *)
THEOREM OwnResultReturned == Spec => OwnResult
  <1>1. OneRequest /\ [Next]_vars
          => [call # NoCall /\ call' = NoCall => reply'.req = call]_vars
    <2> SUFFICES ASSUME OneRequest, [Next]_vars, call # NoCall, call' = NoCall
                 PROVE  reply'.req = call
      OBVIOUS
    <2>1. TakeResult
      <3>1. UNCHANGED call \/ TakeResult \/ \E r \in Requests : Request(r)
        BY DEF Next, Caller, Ask, AskExit, Detach, Destroy, Join, Emulation, Serving,
           Running, Serve, PollNothing, Handle, Step, StepAgain, StepEnd, Answer, Loop,
           Break, Instruction, Frame, Vsync, GraceOver, Finished, vars, callerVars,
           Requests
      <3> QED
        BY <3>1 DEF Request
    <2>2. PICK outcome \in Outcomes : AnsweredWith(outcome)
      BY <2>1 DEF TakeResult, OneRequest, Channel, Silent, OnItsWay, BeingHandled
    <2> QED
      BY <2>1, <2>2, Singletons DEF TakeResult, AnsweredWith, Result
  <1> QED
    BY <1>1, OneRequestAlways, PTL DEF Spec, OwnResult

-----------------------------------------------------------------------------
(* The shutdown: EXIT is only requested by a caller that leaves "open", and   *)
(* after that it only asks for what does not execute instructions.            *)
AfterExitRequests == {"EXIT", "DEBUG_ATTACH", NoCall}

ShuttingDown ==
  /\ phase = "open" => status # "EXIT" /\ call # "EXIT"
  /\ phase # "open" => call \in AfterExitRequests
  /\ status = "EXIT" => at \notin {"instr", "poll", "step", "stepped"}

(* The request a handler works on is the caller's. *)
LEMMA HandlingTheCall ==
  ASSUME OneRequest, at \in Inside
  PROVE  Top.req = call /\ call \in Requests /\ Top.from \in Polling \ {"step"}
  <1>1. PICK from \in Polling \ {"step"} : BeingHandled(from)
    BY DEF OneRequest, Nesting, Channel, Silent, OnItsWay, AnsweredWith
  <1>2. stack = <<[req |-> call, from |-> from]>> /\ call \in Requests
    BY <1>1 DEF BeingHandled
  <1> QED
    BY <1>2, Singletons DEF Top

(* Nothing executes in the EXIT status. *)
LEMMA Quiet ==
  ASSUME OneRequest, ShuttingDown
  PROVE  NothingRunsAfterExit
  <1> SUFFICES ASSUME status = "EXIT", at = "handler" PROVE Top.req \notin Stepping
    BY DEF NothingRunsAfterExit, ShuttingDown
  <1>1. Top.req = call /\ call \in AfterExitRequests
    BY HandlingTheCall DEF Inside, ShuttingDown
  <1> QED
    BY <1>1 DEF AfterExitRequests, Stepping, NoCall

LEMMA HandleAtShutdown ==
  ASSUME OneRequest, ShuttingDown, Handle
  PROVE  ShuttingDown' /\ (status = "EXIT" => status' = "EXIT")
  <1>1. /\ Top.req = call /\ call \in Requests /\ Top.from \in Polling \ {"step"}
        /\ UNCHANGED <<call, phase>> /\ at' = After(Top.from)
        /\ status' \in StatusAfter(call, status) /\ status \in {"RUN", "STOP", "EXIT"}
    BY HandlingTheCall DEF Handle, Inside, Answer, callerVars, OneRequest, ControlTypes
  <1>2. at' \in {"frame", "loop", "vsync", "grace"}
    BY <1>1 DEF After, Polling
  <1>3. phase = "open" => status' # "EXIT" /\ call # "EXIT"
    BY <1>1 DEF ShuttingDown, StatusAfter
  <1>4. status = "EXIT" => status' = "EXIT"
    <2> SUFFICES ASSUME status = "EXIT" PROVE status' = "EXIT"
      OBVIOUS
    <2>1. call \in {"EXIT", "DEBUG_ATTACH"}
      BY <1>1 DEF ShuttingDown, AfterExitRequests, NoCall, Requests
    <2> QED
      BY <1>1, <2>1 DEF StatusAfter
  <1> QED
    BY <1>1, <1>2, <1>3, <1>4 DEF ShuttingDown

LEMMA ShutdownStep ==
  ASSUME OneRequest, ShuttingDown, [Next]_vars
  PROVE  ShuttingDown' /\ (status = "EXIT" => status' = "EXIT")
  <1>1. CASE Caller
    <2>1. UNCHANGED <<status, at>>
      BY <1>1 DEF Caller, Ask, AskExit, Detach, Destroy, Join, TakeResult, Request,
         emuVars
    <2>2. CASE \E r \in Requests : Ask(r)
      BY <2>1, <2>2 DEF Ask, Request, ShuttingDown
    <2>3. CASE AskExit
      BY <2>1, <2>3 DEF AskExit, Request, ShuttingDown, AfterExitRequests
    <2>4. CASE Detach
      BY <2>1, <2>4 DEF Detach, Request, ShuttingDown, AfterExitRequests
    <2>5. CASE Destroy
      <3>1. phase' = "joining" /\ call' \in {"EXIT", NoCall}
        BY <2>5 DEF Destroy, Request
      <3> QED
        BY <2>1, <3>1 DEF ShuttingDown, AfterExitRequests
    <2>6. CASE Join
      BY <2>1, <2>6 DEF Join, ShuttingDown
    <2>7. CASE TakeResult
      BY <2>1, <2>7 DEF TakeResult, ShuttingDown, AfterExitRequests, NoCall
    <2> QED
      BY <1>1, <2>2, <2>3, <2>4, <2>5, <2>6, <2>7 DEF Caller
  <1>2. CASE Handle
    BY <1>2, HandleAtShutdown
  <1>3. CASE Serve \/ PollNothing \/ Running \/ GraceOver
    <2>1. UNCHANGED <<call, phase>>
      BY <1>3 DEF Serve, PollNothing, Running, GraceOver, Loop, Break, Instruction,
         Frame, Vsync, callerVars
    <2>2. CASE Break
      BY <2>1, <2>2 DEF Break, ShuttingDown
    <2>3. CASE Serve \/ PollNothing \/ GraceOver
      BY <2>1, <2>3 DEF Serve, PollNothing, GraceOver, After, ShuttingDown
    <2>4. CASE Loop \/ Instruction \/ Frame \/ Vsync
      BY <2>1, <2>4 DEF Loop, Instruction, Frame, Vsync, ShuttingDown
    <2> QED
      BY <1>3, <2>2, <2>3, <2>4 DEF Running
  <1>4. CASE Step \/ StepAgain \/ StepEnd
    <2>1. UNCHANGED <<status, call, phase>>
      BY <1>4 DEF Step, StepAgain, StepEnd, Answer, callerVars
    <2>2. status # "EXIT"
      BY <1>4, Quiet DEF Step, StepAgain, StepEnd, NothingRunsAfterExit
    <2> QED
      BY <2>1, <2>2 DEF ShuttingDown
  <1>5. CASE UNCHANGED vars
    BY <1>5 DEF vars, ShuttingDown
  <1> QED
    BY <1>1, <1>2, <1>3, <1>4, <1>5 DEF Next, Emulation, Serving, Finished

LEMMA ShuttingDownAlways == Spec => [](OneRequest /\ ShuttingDown)
  <1>1. Init => ShuttingDown
    BY DEF Init, ShuttingDown, NoCall
  <1>2. OneRequest /\ ShuttingDown /\ [Next]_vars => ShuttingDown'
    BY ShutdownStep
  <1> QED
    BY <1>1, <1>2, OneRequestAlways, PTL DEF Spec

(* The EXIT status is never left: no break, stop or restart that is still to *)
(* be handled revives an emulation that has been told to end.                *)
THEOREM ExitFinal == Spec => ExitIsFinal
  <1>1. OneRequest /\ ShuttingDown /\ [Next]_vars
          => [status = "EXIT" => status' = "EXIT"]_vars
    BY ShutdownStep
  <1> QED
    BY <1>1, ShuttingDownAlways, PTL DEF Spec, ExitIsFinal

(* No instruction is executed in it. *)
THEOREM QuietAfterExit == Spec => []NothingRunsAfterExit
  <1>1. OneRequest /\ ShuttingDown => NothingRunsAfterExit
    BY Quiet
  <1> QED
    BY <1>1, ShuttingDownAlways, PTL

=============================================================================
