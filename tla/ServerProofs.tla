---------------------------- MODULE ServerProofs ----------------------------
(***************************************************************************)
(* The server's session, for any number of connections and messages, with  *)
(* and without SIGPIPE, and wherever signals fall: what it may ask of the  *)
(* emulation thread, and that answers reach their own clients in order.    *)
(***************************************************************************)
EXTENDS Server, SequenceTheorems, TLAPS

(* The request channel, as in ExecutionProofs: a request is in one place.  *)
Silent == call = E!NoCall /\ reqs = <<>> /\ stack = <<>> /\ results = <<>>
OnItsWay == call \in E!Requests /\ reqs = <<call>> /\ stack = <<>> /\ results = <<>>
BeingHandled(from) ==
  /\ call \in E!Requests /\ reqs = <<>> /\ results = <<>>
  /\ stack = <<[req |-> call, from |-> from]>>
AnsweredWith(outcome) ==
  /\ call \in E!Requests /\ reqs = <<>> /\ stack = <<>>
  /\ results = <<E!Result(call, outcome)>>
Polls == E!Polling \ {"step"}
Inside == {"handler", "step", "stepped"}

OneRequest ==
  /\ \/ Silent \/ OnItsWay
     \/ \E from \in Polls : BeingHandled(from)
     \/ \E outcome : AnsweredWith(outcome)
  /\ at \in Inside <=> stack # <<>>

(* Before the loop is left the server has not asked for EXIT. *)
Early == {"listen", "boot", "bootColor", "loop", "accept", "store", "session",
          "recv", "dispatch", "send", "relisten", "exit"}
Places == Early \union {"close", "closed", "return", "destroy", "join", "ended", "killed"}

Stage ==
  /\ mpc \in Places /\ exits \in 0..2
  /\ mpc \in Early => exits = 0
  /\ mpc \in {"close", "closed"} => exits \in 0..1

(* An open connection is one whose descriptor is kept. *)
Descriptors ==
  /\ accepted \in 0..Conns /\ client \in 0..Conns
  /\ link \in [1..Conns -> {"new", "backlog", "open", "closed"}]
  /\ \A c \in 1..Conns : link[c] = "open" => c \in {client, accepted}
  /\ \A c \in 1..Conns : c \in {client, accepted} => link[c] \in {"open", "closed"}
  /\ mpc \in {"accept", "store"} => client = NoConn
  /\ mpc # "store" => accepted = NoConn

Letters ==
  /\ message \in Messages
  /\ sent \in [1..Conns -> Seq(Messages)]
  /\ taken \in [1..Conns -> Nat]
  /\ answers \in [1..Conns -> Seq(Messages)]

(* What the connections have said so far. *)
Counted(c) ==
  /\ Len(sent[c]) <= MaxMessages
  /\ taken[c] <= Len(sent[c]) /\ Len(answers[c]) <= taken[c]
  /\ \A i \in 1..Len(answers[c]) : answers[c][i] = sent[c][i]
  /\ link[c] \in {"new", "backlog"} => taken[c] = 0

(* A client that is still there has had an answer to all but the message   *)
(* the server is at.                                                       *)
Serving(c) == mpc \in {"dispatch", "send"} /\ client = c
UpToDate(c) ==
  mpc \in Early /\ link[c] = "open" =>
    IF Serving(c) THEN taken[c] = Len(answers[c]) + 1 /\ message = sent[c][taken[c]]
                  ELSE taken[c] = Len(answers[c])

(* The result the server is about to send is that of the message. *)
OwnReply ==
  mpc = "send" /\ message \in ClientRequests =>
    \/ call = message
    \/ call = E!NoCall /\ reply.req = message

Dialogue ==
  /\ Stage /\ Descriptors /\ Letters /\ OwnReply
  /\ \A c \in 1..Conns : Counted(c) /\ UpToDate(c)

-----------------------------------------------------------------------------
(* The queues are only ever empty or hold one element. *)
LEMMA Singletons ==
  ASSUME NEW x
  PROVE  /\ <<x>> # <<>> /\ Len(<<x>>) = 1 /\ <<x>>[1] = x
         /\ Head(<<x>>) = x /\ Tail(<<x>>) = <<>>
         /\ SubSeq(<<x>>, 1, 1 - 1) = <<>>
         /\ Append(<<>>, x) = <<x>> /\ E!Enqueue(<<>>, x) = <<x>>
  <1>1. <<x>> \in Seq({x}) /\ <<>> \in Seq({x}) /\ Len(<<>>) = 0
    BY EmptySeq
  <1>2. <<x>> # <<>> /\ Len(<<x>>) = 1 /\ <<x>>[1] = x /\ Head(<<x>>) = x
    BY <1>1
  <1>3. Tail(<<x>>) = <<>>
    <2>1. Tail(<<x>>) \in Seq({x}) /\ Len(Tail(<<x>>)) = 0
      BY <1>1, <1>2, HeadTailProperties
    <2> QED
      BY <2>1, EmptySeq
  <1>4. SubSeq(<<x>>, 1, 1 - 1) = <<>>
    BY SubSeqEmpty
  <1>5. Append(<<>>, x) = <<x>>
    <2>1. Append(<<>>, x) = <<>> \o <<x>>
      BY <1>1, AppendIsConcat
    <2> QED
      BY <1>1, <2>1, ConcatEmptySeq
  <1>6. E!Enqueue(<<>>, x) = <<x>>
    BY <1>1, <1>5, ServerAssumption DEF E!Enqueue
  <1> QED
    BY <1>2, <1>3, <1>4, <1>5, <1>6

(* A request is made on a silent channel only, ... *)
LEMMA RequestStep ==
  ASSUME OneRequest, NEW r \in E!Requests, E!Request(r)
  PROVE  OneRequest'
  <1>1. r # E!NoCall
    BY DEF E!Requests, E!NoCall
  <1>2. /\ call = E!NoCall /\ reqs' = E!Enqueue(reqs, r) /\ call' = r
        /\ UNCHANGED <<status, at, stack, results>>
    BY DEF E!Request, E!emuVars
  <1>3. Silent
    BY <1>2 DEF OneRequest, OnItsWay, BeingHandled, AnsweredWith, E!Requests, E!NoCall
  <1>4. OnItsWay'
    BY <1>2, <1>3, Singletons DEF Silent, OnItsWay
  <1> QED
    BY <1>2, <1>4 DEF OneRequest

(* ... and its own result is what comes back. *)
LEMMA ReplyStep ==
  ASSUME OneRequest, E!TakeResult
  PROVE  OneRequest' /\ call # E!NoCall /\ call' = E!NoCall /\ reply'.req = call
  <1>1. PICK outcome : AnsweredWith(outcome)
    BY DEF E!TakeResult, OneRequest, Silent, OnItsWay, BeingHandled
  <1>2. reply' = E!Result(call, outcome) /\ Silent'
    BY <1>1, Singletons DEF E!TakeResult, AnsweredWith, Silent
  <1> QED
    BY <1>1, <1>2 DEF E!TakeResult, OneRequest, Silent, AnsweredWith, E!Result

(* The emulation thread serves it without disturbing the caller. *)
LEMMA EmulationStep ==
  ASSUME OneRequest, E!Emulation
  PROVE  OneRequest' /\ UNCHANGED <<call, reply>>
  <1>0. UNCHANGED <<call, reply>>
    BY DEF E!Emulation, E!Serving, E!Running, E!PollNothing, E!Step, E!StepAgain, E!GraceOver,
       E!Loop, E!Break, E!Instruction, E!Frame, E!Vsync, E!Serve, E!Handle, E!StepEnd,
       E!Answer, E!callerVars
  <1>1. CASE E!Running \/ E!PollNothing \/ E!Step \/ E!StepAgain \/ E!GraceOver
    <2>1. UNCHANGED <<stack, reqs, results>>
      BY <1>1 DEF E!Running, E!PollNothing, E!Step, E!StepAgain, E!GraceOver, E!Loop,
         E!Break, E!Instruction, E!Frame, E!Vsync
    <2>2. at \in Inside <=> at' \in Inside
      <3>1. CASE E!PollNothing
        BY <3>1 DEF E!PollNothing, E!After, Inside
      <3>2. CASE E!Step \/ E!StepAgain
        BY <3>2 DEF E!Step, E!StepAgain, Inside
      <3>3. CASE E!Running
        BY <3>3 DEF E!Running, E!Loop, E!Break, E!Instruction, E!Frame, E!Vsync, Inside
      <3>4. CASE E!GraceOver
        BY <3>4 DEF E!GraceOver, Inside
      <3> QED
        BY <1>1, <3>1, <3>2, <3>3, <3>4
    <2> QED
      BY <1>0, <2>1, <2>2 DEF OneRequest, Silent, OnItsWay, BeingHandled, AnsweredWith
  <1>2. CASE E!Serve
    <2>1. OnItsWay /\ at \in Polls
      BY <1>2 DEF E!Serve, OneRequest, Silent, OnItsWay, BeingHandled, AnsweredWith, Inside,
         Polls
    <2>2. /\ reqs' = <<>> /\ stack' = <<[req |-> call', from |-> at]>>
          /\ UNCHANGED results /\ at' = "handler"
      BY <1>0, <1>2, <2>1, Singletons DEF E!Serve, OnItsWay
    <2>3. \E from \in Polls : BeingHandled(from)'
      BY <1>0, <2>1, <2>2 DEF OnItsWay, BeingHandled
    <2> QED
      BY <1>0, <2>2, <2>3, Singletons DEF OneRequest, Inside
  <1>3. ASSUME NEW outcome, E!Answer(outcome), at \in Inside
        PROVE  OneRequest'
    <2>1. PICK from \in Polls : BeingHandled(from)
      BY <1>3 DEF OneRequest, Silent, OnItsWay, AnsweredWith
    <2>2. E!Top = [req |-> call, from |-> from] /\ Len(stack) = 1
      BY <2>1, Singletons DEF BeingHandled, E!Top
    <2>3. /\ results' = <<E!Result(call, outcome)>> /\ stack' = <<>> /\ reqs' = <<>>
          /\ at' = E!After(from)
      BY <1>3, <2>1, <2>2, Singletons DEF E!Answer, BeingHandled
    <2>4. AnsweredWith(outcome)'
      BY <1>0, <2>1, <2>3 DEF AnsweredWith, BeingHandled, E!Result
    <2>5. at' \notin Inside
      BY <2>1, <2>3 DEF E!After, Polls, E!Polling, Inside
    <2> QED
      BY <2>3, <2>4, <2>5 DEF OneRequest
  <1>4. CASE E!Handle \/ E!StepEnd
    BY <1>0, <1>3, <1>4 DEF E!Handle, E!StepEnd, Inside
  <1> QED
    BY <1>0, <1>1, <1>2, <1>4 DEF E!Emulation, E!Serving

-----------------------------------------------------------------------------
(* Steps that leave the messages and the connections alone: only the place  *)
(* matters to the session.                                                  *)
LEMMA QuietStep ==
  ASSUME Dialogue, UNCHANGED <<message, taken, clientVars>>,
         mpc' \in Early => mpc \in Early,
         \A c \in 1..Conns : link[c] = "open" /\ mpc' \in Early => (Serving(c)' <=> Serving(c))
  PROVE  Letters' /\ \A c \in 1..Conns : Counted(c)' /\ UpToDate(c)'
  <1>1. Letters'
    BY DEF Dialogue, Letters, clientVars
  <1>2. ASSUME NEW c \in 1..Conns PROVE Counted(c)'
    BY DEF Dialogue, Counted, clientVars
  <1>3. ASSUME NEW c \in 1..Conns PROVE UpToDate(c)'
    BY DEF Dialogue, UpToDate, clientVars
  <1> QED
    BY <1>1, <1>2, <1>3

(* Closing the sockets ends the session of the client and of who waits. *)
LEMMA CloseStep ==
  ASSUME Dialogue, CloseSockets, UNCHANGED <<sent, answers>>, message' \in Messages,
         taken' \in [1..Conns -> Nat],
         mpc' \in Early => mpc \in Early,
         \A c \in 1..Conns :
           \/ taken'[c] = taken[c]
           \/ c = client /\ taken'[c] = taken[c] + 1 /\ taken[c] < Len(sent[c])
  PROVE  Letters' /\ \A c \in 1..Conns : Counted(c)' /\ UpToDate(c)'
  <1>1. Letters'
    BY DEF Dialogue, Letters
  <1>2. ASSUME NEW c \in 1..Conns
        PROVE  /\ link'[c] = IF c = client \/ link[c] = "backlog" THEN "closed" ELSE link[c]
               /\ link'[c] \in {"new", "backlog"} => c # client
    BY DEF CloseSockets, Dialogue, Descriptors
  <1>3. ASSUME NEW c \in 1..Conns PROVE Counted(c)'
    <2>1. taken'[c] \in Nat /\ taken'[c] <= Len(sent[c]) /\ taken[c] <= taken'[c]
          /\ (link'[c] \in {"new", "backlog"} => taken'[c] = taken[c])
      BY <1>2 DEF Dialogue, Letters, Counted
    <2>2. Len(answers[c]) \in Nat /\ Len(answers[c]) <= taken'[c]
      BY <2>1 DEF Dialogue, Letters, Counted
    <2>3. link'[c] \in {"new", "backlog"} => link[c] \in {"new", "backlog"}
      BY <1>2
    <2> QED
      BY <2>1, <2>2, <2>3 DEF Dialogue, Counted
  <1>4. ASSUME NEW c \in 1..Conns PROVE UpToDate(c)'
    <2> SUFFICES ASSUME mpc' \in Early, link'[c] = "open"
                 PROVE  taken'[c] = Len(answers'[c]) /\ ~Serving(c)'
      BY DEF UpToDate
    <2>1. link[c] = "open" /\ c # client /\ taken'[c] = taken[c]
      BY <1>2
    <2>2. client' # c
      BY DEF CloseSockets, NoConn
    <2> QED
      BY <2>1, <2>2 DEF Dialogue, UpToDate, Serving
  <1> QED
    BY <1>1, <1>3, <1>4
(* Where the main thread goes, whatever else it does. *)
LEMMA StageStep ==
  ASSUME Stage, [Next]_vars
  PROVE  Stage' /\ (mpc' \in Early => mpc \in Early)
  <1> USE DEF Stage, Early, Places
  <1>1. CASE UNCHANGED vars \/ Client \/ Signal \/ Emulation \/ Ended \/ TakeResult
    <2>1. UNCHANGED <<mpc, exits>>
      BY <1>1 DEF vars, Client, Connect, ClientClose, ClientSend, Signal, Emulation, Ended,
         TakeResult, serverVars
    <2> QED
      BY <2>1
  <1>2. CASE Listen("listen", "boot") \/ Listen("relisten", "loop") \/ Boot \/ LoopTest
             \/ AcceptFails \/ Accept \/ StoreClient \/ Session \/ RecvFails
    BY <1>2 DEF Listen, Boot, LoopTest, AcceptFails, Accept, StoreClient, Session, RecvFails,
       NoPayload, At, Goto
  <1>3. CASE RecvMessage \/ Dispatch \/ Send \/ SendLost \/ SendFails \/ SendKills
    BY <1>3 DEF RecvMessage, Dispatch, Send, SendLost, SendFails, SendKills, NoPayload,
       AfterSend, At, Goto
  <1>4. CASE AskExit("exit", "close") \/ Close \/ SignalledExit \/ ReturnSilently
             \/ Detach \/ Destroy \/ Join
    BY <1>4 DEF AskExit, Close, SignalledExit, ReturnSilently, Detach, Destroy, Join, At, Goto
  <1> QED
    BY <1>1, <1>2, <1>3, <1>4 DEF Next, Main

(* What becomes of the descriptors. *)
LEMMA DescriptorsStep ==
  ASSUME Descriptors, [Next]_vars
  PROVE  Descriptors'
  <1> USE DEF Descriptors
  <1>1. CASE UNCHANGED vars \/ Emulation \/ Ended \/ TakeResult
    BY <1>1 DEF vars, Emulation, Ended, TakeResult, serverVars, sockets, clientVars
  <1>2. CASE Listen("listen", "boot") \/ Listen("relisten", "loop") \/ Boot \/ LoopTest
             \/ AcceptFails \/ Session \/ Dispatch \/ Send \/ SendLost \/ SendKills
             \/ AskExit("exit", "close") \/ SignalledExit \/ ReturnSilently
             \/ Detach \/ Destroy \/ Join
    BY <1>2 DEF Listen, Boot, LoopTest, AcceptFails, Session, Dispatch, Send, SendLost,
       SendKills, AskExit, SignalledExit, ReturnSilently, Detach, Destroy, Join, AfterSend,
       At, Goto, sockets, clientVars
  <1>3. ASSUME CloseSockets, UNCHANGED accepted,
               mpc' \notin {"accept", "store"} \/ mpc' = mpc,
               mpc' = "store" \/ mpc # "store"
        PROVE  Descriptors'
    BY <1>3 DEF CloseSockets, NoConn
  <1>4. ASSUME UNCHANGED <<accepted, client, link>>, mpc' \notin {"accept", "store"},
               mpc # "store"
        PROVE  Descriptors'
    BY <1>4
  <1>5. CASE RecvFails \/ RecvMessage
    BY <1>3, <1>4, <1>5 DEF RecvFails, RecvMessage, NoPayload, At, Goto
  <1>6. CASE SendFails
    BY <1>3, <1>4, <1>6 DEF SendFails, AfterSend, At, Goto
  <1>7. CASE Close
    BY <1>3, <1>7 DEF Close, At, Goto
  <1>8. CASE Signal
    BY <1>3, <1>8 DEF Signal
  <1>9. CASE Accept
    BY <1>9 DEF Accept, At, Goto, NoConn
  <1>10. CASE StoreClient
    BY <1>10 DEF StoreClient, At, Goto, clientVars, NoConn
  <1>11. CASE Client
    <2>1. PICK d \in 1..Conns :
            Connect(d) \/ ClientClose(d) \/ \E m \in Messages : ClientSend(d, m)
      BY <1>11 DEF Client
    <2> QED
      BY <2>1 DEF Connect, ClientSend, ClientClose, sockets
  <1> QED
    BY <1>1, <1>2, <1>5, <1>6, <1>7, <1>8, <1>9, <1>10, <1>11 DEF Next, Main
-----------------------------------------------------------------------------
(* A message is taken, an answer reaches the client, a client speaks. *)
Spoken == Letters /\ \A c \in 1..Conns : Counted(c) /\ UpToDate(c)

LEMMA RecvStep ==
  ASSUME Dialogue, RecvMessage
  PROVE  Spoken'
  <1>1. /\ mpc = "recv" /\ client \in 1..Conns /\ taken[client] < Len(sent[client])
        /\ taken' = [taken EXCEPT ![client] = @ + 1]
        /\ message' = sent[client][taken[client] + 1] /\ UNCHANGED <<sent, answers>>
    BY DEF RecvMessage, At, Dialogue, Descriptors, NoConn
  <1>2. message' \in Messages /\ taken' \in [1..Conns -> Nat]
    BY <1>1 DEF Dialogue, Letters
  <1>3. CASE CloseSockets
    <2>1. \A c \in 1..Conns :
            \/ taken'[c] = taken[c]
            \/ c = client /\ taken'[c] = taken[c] + 1 /\ taken[c] < Len(sent[c])
      BY <1>1 DEF Dialogue, Letters
    <2> QED
      BY <1>1, <1>2, <1>3, <2>1, CloseStep DEF Spoken, Early
  <1>4. CASE ~CloseSockets
    <2>1. link' = link /\ client' = client /\ mpc' \in {"dispatch", "close"}
      BY <1>4 DEF RecvMessage, NoPayload, Goto
    <2>2. ASSUME NEW c \in 1..Conns PROVE Counted(c)'
      <3>1. Len(answers[c]) \in Nat /\ taken[c] \in Nat /\ Len(sent[c]) \in Nat
        BY DEF Dialogue, Letters
      <3>2. taken'[c] = IF c = client THEN taken[c] + 1 ELSE taken[c]
        BY <1>1 DEF Dialogue, Letters
      <3>3. c = client => link[c] \notin {"new", "backlog"}
        BY <1>1 DEF Dialogue, Descriptors, NoConn
      <3> QED
        BY <1>1, <2>1, <3>1, <3>2, <3>3 DEF Dialogue, Counted
    <2>3. ASSUME NEW c \in 1..Conns PROVE UpToDate(c)'
      <3>1. Len(answers[c]) \in Nat /\ taken[c] \in Nat
        BY DEF Dialogue, Letters
      <3>2. taken'[c] = IF c = client THEN taken[c] + 1 ELSE taken[c]
        BY <1>1 DEF Dialogue, Letters
      <3> QED
        BY <1>1, <2>1, <3>1, <3>2 DEF Dialogue, UpToDate, Serving, Early
    <2> QED
      BY <1>1, <1>2, <2>2, <2>3 DEF Spoken, Dialogue, Letters
  <1> QED
    BY <1>3, <1>4

LEMMA SendStep ==
  ASSUME Dialogue, Send
  PROVE  Spoken'
  <1>1. /\ mpc = "send" /\ client \in 1..Conns /\ link[client] = "open" /\ call = E!NoCall
        /\ answers' = [answers EXCEPT ![client] = Append(@, Answered)]
        /\ mpc' \in {"exit", "loop"} /\ UNCHANGED <<client, message, taken, link, sent>>
    BY DEF Send, At, AfterSend, Goto, Dialogue, Descriptors, NoConn, sockets
  <1>2. Answered = message
    <2>1. message \in ClientRequests => call # message
      BY <1>1, ServerAssumption DEF E!Requests, E!NoCall
    <2> QED
      BY <1>1, <2>1 DEF Answered, Dialogue, OwnReply
  <1>3. /\ taken[client] = Len(answers[client]) + 1 /\ message = sent[client][taken[client]]
        /\ message \in Messages /\ answers[client] \in Seq(Messages)
    BY <1>1 DEF Dialogue, UpToDate, Serving, Early, Letters
  <1>4. ASSUME NEW c \in 1..Conns PROVE Counted(c)' /\ UpToDate(c)'
    <2>1. CASE c # client
      BY <1>1, <2>1 DEF Dialogue, Letters, Counted, UpToDate, Serving, Early
    <2>2. CASE c = client
      <3>1. answers'[c] = Append(answers[c], message)
        BY <1>1, <1>2, <2>2 DEF Dialogue, Letters
      <3>2. /\ Len(answers'[c]) = Len(answers[c]) + 1
            /\ \A i \in 1..Len(answers[c]) : answers'[c][i] = answers[c][i]
            /\ answers'[c][Len(answers[c]) + 1] = message
        BY <1>3, <2>2, <3>1
      <3>3. Len(answers[c]) \in Nat
        BY <1>3, <2>2
      <3> QED
        BY <1>1, <1>3, <2>2, <3>2, <3>3 DEF Dialogue, Letters, Counted, UpToDate, Serving, Early
    <2> QED
      BY <2>1, <2>2
  <1> QED
    BY <1>1, <1>2, <1>3, <1>4 DEF Spoken, Dialogue, Letters

LEMMA ClientStep ==
  ASSUME Dialogue, Client
  PROVE  Spoken'
  <1>1. PICK d \in 1..Conns :
          Connect(d) \/ ClientClose(d) \/ \E m \in Messages : ClientSend(d, m)
    BY DEF Client
  <1>2. CASE Connect(d) \/ ClientClose(d)
    <2>1. \A c \in 1..Conns : link'[c] = "open" => link[c] = "open"
      BY <1>1, <1>2 DEF Connect, ClientClose, Dialogue, Descriptors
    <2>2. \A c \in 1..Conns : link'[c] \in {"new", "backlog"} => link[c] \in {"new", "backlog"}
      BY <1>1, <1>2 DEF Connect, ClientClose, Dialogue, Descriptors
    <2>3. UNCHANGED <<mpc, client, message, taken, sent, answers>>
      BY <1>2 DEF Connect, ClientClose, sockets
    <2> QED
      BY <2>1, <2>2, <2>3 DEF Spoken, Dialogue, Letters, Counted, UpToDate, Serving
  <1>3. ASSUME NEW m \in Messages, ClientSend(d, m) PROVE Spoken'
    <2>1. /\ sent' = [sent EXCEPT ![d] = Append(@, m)] /\ Len(sent[d]) < MaxMessages
          /\ UNCHANGED <<mpc, client, message, taken, link, answers>>
      BY <1>3 DEF ClientSend, sockets
    <2>2. ASSUME NEW c \in 1..Conns
          PROVE  /\ sent'[c] \in Seq(Messages) /\ Len(sent[c]) <= Len(sent'[c])
                 /\ Len(sent'[c]) <= MaxMessages
                 /\ \A i \in 1..Len(sent[c]) : sent'[c][i] = sent[c][i]
      <3>1. sent[c] \in Seq(Messages) /\ Len(sent[c]) \in Nat /\ Len(sent[c]) <= MaxMessages
        BY DEF Dialogue, Letters, Counted
      <3>2. CASE c # d
        BY <2>1, <3>1, <3>2 DEF Dialogue, Letters
      <3>3. CASE c = d
        <4>1. sent'[c] = Append(sent[c], m)
          BY <2>1, <3>3 DEF Dialogue, Letters
        <4>2. /\ sent'[c] \in Seq(Messages) /\ Len(sent'[c]) = Len(sent[c]) + 1
              /\ \A i \in 1..Len(sent[c]) : sent'[c][i] = sent[c][i]
          BY <3>1, <4>1
        <4> QED
          BY <2>1, <3>1, <3>3, <4>2, ServerAssumption
      <3> QED
        BY <3>2, <3>3
    <2>3. ASSUME NEW c \in 1..Conns
          PROVE  /\ taken[c] \in Nat /\ Len(answers[c]) \in Nat
                 /\ Len(sent[c]) \in Nat /\ Len(sent'[c]) \in Nat
      BY <2>2 DEF Dialogue, Letters
    <2>4. ASSUME NEW c \in 1..Conns PROVE Counted(c)'
      BY <2>1, <2>2, <2>3 DEF Dialogue, Counted
    <2>5. ASSUME NEW c \in 1..Conns PROVE UpToDate(c)'
      BY <2>1, <2>2, <2>3 DEF Dialogue, Counted, UpToDate, Serving
    <2>6. sent' \in [1..Conns -> Seq(Messages)]
      BY <2>1, <2>2 DEF Dialogue, Letters
    <2> QED
      BY <2>1, <2>4, <2>5, <2>6 DEF Spoken, Dialogue, Letters
  <1> QED
    BY <1>1, <1>2, <1>3
LEMMA SpokenStep ==
  ASSUME Dialogue, [Next]_vars
  PROVE  Spoken'
  <1>1. mpc' \in Early => mpc \in Early
    BY StageStep DEF Dialogue
  <1>2. CASE UNCHANGED vars \/ Emulation \/ Ended \/ TakeResult
    <2>1. UNCHANGED <<mpc, client, message, taken, clientVars>>
      BY <1>2 DEF vars, Emulation, Ended, TakeResult, serverVars, sockets
    <2> QED
      BY <1>1, <2>1, QuietStep DEF Spoken, Serving
  <1>3. CASE Listen("listen", "boot") \/ Listen("relisten", "loop") \/ Boot \/ LoopTest
             \/ AcceptFails \/ StoreClient \/ Session
             \/ AskExit("exit", "close") \/ SignalledExit \/ ReturnSilently
             \/ Detach \/ Destroy \/ Join
    <2>1. UNCHANGED <<message, taken, clientVars>>
      BY <1>3 DEF Listen, Boot, LoopTest, AcceptFails, StoreClient, Session, AskExit,
         SignalledExit, ReturnSilently, Detach, Destroy, Join
    <2>2. {mpc, mpc'} \cap {"dispatch", "send"} = {}
      BY <1>3 DEF Listen, Boot, LoopTest, AcceptFails, StoreClient, Session, AskExit,
         SignalledExit, ReturnSilently, Detach, Destroy, Join, At, Goto
    <2> QED
      BY <1>1, <2>1, <2>2, QuietStep DEF Spoken, Serving
  <1>4. CASE Dispatch
    <2>1. /\ UNCHANGED <<client, message, taken, clientVars>>
          /\ mpc = "dispatch" /\ mpc' = "send"
      BY <1>4 DEF Dispatch, At, Goto, sockets
    <2> QED
      BY <1>1, <2>1, QuietStep DEF Spoken, Serving
  <1>5. CASE SendLost \/ SendKills \/ (SendFails /\ ~CloseSockets)
    <2>1. /\ UNCHANGED <<message, taken, client, clientVars>> /\ mpc = "send"
          /\ mpc' \notin {"dispatch", "send"}
          /\ client = NoConn \/ link[client] # "open"
      BY <1>5 DEF SendLost, SendKills, SendFails, PeerGone, AfterSend, At, Goto, sockets,
         clientVars
    <2>2. \A c \in 1..Conns : link[c] = "open" /\ mpc' \in Early => (Serving(c)' <=> Serving(c))
      BY <2>1 DEF Serving, NoConn
    <2> QED
      BY <1>1, <2>1, <2>2, QuietStep DEF Spoken
  <1>6. CASE (SendFails \/ RecvFails \/ Close \/ Signal) /\ CloseSockets
    <2>1. UNCHANGED <<message, taken, sent, answers>>
      BY <1>6 DEF SendFails, RecvFails, Close, Signal
    <2> QED
      BY <1>1, <1>6, <2>1, CloseStep DEF Spoken, Dialogue, Letters
  <1>7. CASE (RecvFails \/ Signal) /\ ~CloseSockets
    <2>1. /\ UNCHANGED <<message, taken, client, clientVars>>
          /\ mpc' = mpc \/ {mpc, mpc'} \cap {"dispatch", "send"} = {}
      BY <1>7 DEF RecvFails, NoPayload, Signal, At, Goto, clientVars
    <2> QED
      BY <1>1, <2>1, QuietStep DEF Spoken, Serving
  <1>8. CASE Accept
    <2>1. /\ UNCHANGED <<message, taken, sent, answers>> /\ mpc = "accept"
          /\ mpc' \in {"session", "store"}
      BY <1>8 DEF Accept, At, Goto
    <2>2. ASSUME NEW c \in 1..Conns PROVE UpToDate(c)' /\ Counted(c)'
      <3>1. /\ link'[c] = "open" => link[c] \in {"open", "backlog"}
            /\ link'[c] \in {"new", "backlog"} => link[c] \in {"new", "backlog"}
        BY <1>8 DEF Accept, Dialogue, Descriptors
      <3>2. link[c] = "backlog" => taken[c] = Len(answers[c])
        BY DEF Dialogue, Counted, Letters
      <3> QED
        BY <2>1, <3>1, <3>2 DEF Dialogue, UpToDate, Counted, Serving, Early
    <2> QED
      BY <2>1, <2>2 DEF Spoken, Dialogue, Letters
  <1>9. CASE SendFails \/ RecvFails \/ Close \/ Signal
    <2>1. CASE CloseSockets
      BY <1>6, <1>9, <2>1
    <2>2. CASE ~CloseSockets
      BY <1>5, <1>7, <1>9, <2>2 DEF Close
    <2> QED
      BY <2>1, <2>2
  <1>10. CASE SendLost \/ SendKills
    BY <1>5, <1>10
  <1>11. CASE RecvMessage \/ Send \/ Client
    BY <1>11, RecvStep, SendStep, ClientStep
  <1> QED
    BY <1>2, <1>3, <1>4, <1>8, <1>9, <1>10, <1>11 DEF Next, Main

(* The server's reply is that of the message, from the dispatch to the send. *)
LEMMA OwnReplyStep ==
  ASSUME OneRequest, OwnReply, [Next]_vars
  PROVE  OwnReply'
  <1> SUFFICES ASSUME mpc' = "send", message' \in ClientRequests
               PROVE  call' = message' \/ (call' = E!NoCall /\ reply'.req = message')
    BY DEF OwnReply
  <1>1. CASE Dispatch
    BY <1>1 DEF Dispatch, E!Request
  <1>2. CASE ~Dispatch
    <2>1. mpc = "send" /\ UNCHANGED message
      BY <1>2 DEF Next, Main, Listen, Boot, LoopTest, AcceptFails, Accept, StoreClient,
         Session, RecvFails, RecvMessage, NoPayload, Send, SendLost, SendFails, SendKills,
         AfterSend, AskExit, Close, SignalledExit, ReturnSilently, Detach, Destroy, Join,
         TakeResult, Signal, Client, Connect, ClientSend, ClientClose, Emulation, Ended,
         vars, serverVars, Goto
    <2>2. CASE TakeResult
      <3>1. call # E!NoCall /\ call' = E!NoCall /\ reply'.req = call
        BY <2>2, ReplyStep DEF TakeResult
      <3> QED
        BY <2>1, <3>1 DEF OwnReply
    <2>3. CASE Emulation
      BY <2>1, <2>3, EmulationStep DEF Emulation, OwnReply
    <2>4. CASE ~TakeResult /\ ~Emulation
      <3>1. UNCHANGED <<call, reply>>
        BY <1>2, <2>1, <2>4 DEF Next, Main, Listen, Boot, LoopTest, AcceptFails, Accept,
           StoreClient, Session, RecvFails, RecvMessage, Send, SendLost, SendFails, SendKills,
           AskExit, Close, SignalledExit, ReturnSilently, Detach, Destroy, Join,
           Signal, Client, Connect, ClientSend, ClientClose, Ended, vars, execVars, At, Goto
      <3> QED
        BY <2>1, <3>1 DEF OwnReply
    <2> QED
      BY <2>2, <2>3, <2>4
  <1> QED
    BY <1>1, <1>2
(* The main thread is a caller of the channel. *)
LEMMA ChannelStep ==
  ASSUME OneRequest, [Next]_vars
  PROVE  OneRequest'
  <1>1. CASE Boot \/ Session \/ Dispatch \/ AskExit("exit", "close") \/ SignalledExit
             \/ Detach \/ Destroy
    <2>1. UNCHANGED execVars \/ \E r \in E!Requests : E!Request(r)
      <3>1. ClientRequests \cup {"RUN", "GET_CC", "EXIT", "DEBUG_ATTACH"} \subseteq E!Requests
        BY ServerAssumption DEF E!Requests
      <3> QED
        BY <1>1, <3>1 DEF Boot, Session, Dispatch, AskExit, SignalledExit, Detach, Destroy
    <2>2. CASE UNCHANGED execVars
      BY <2>2 DEF execVars, OneRequest, Silent, OnItsWay, BeingHandled, AnsweredWith
    <2> QED
      BY <2>1, <2>2, RequestStep
  <1>2. CASE TakeResult
    BY <1>2, ReplyStep DEF TakeResult
  <1>3. CASE Emulation
    BY <1>3, EmulationStep DEF Emulation
  <1>4. CASE UNCHANGED execVars
    BY <1>4 DEF execVars, OneRequest, Silent, OnItsWay, BeingHandled, AnsweredWith
  <1>5. CASE ~(Boot \/ Session \/ Dispatch \/ AskExit("exit", "close") \/ SignalledExit
               \/ Detach \/ Destroy \/ TakeResult \/ Emulation)
    <2>1. UNCHANGED execVars
      BY <1>5 DEF Next, Main, Listen, LoopTest, AcceptFails, Accept,
         StoreClient, RecvFails, RecvMessage, Send, SendLost, SendFails, SendKills,
         Close, ReturnSilently, Join, Signal, Client, Connect, ClientSend,
         ClientClose, Ended, vars
    <2> QED
      BY <1>4, <2>1
  <1> QED
    BY <1>1, <1>2, <1>3, <1>5

LEMMA CorrectAlways == Spec => [](OneRequest /\ Dialogue)
  <1>1. Init => OneRequest /\ Dialogue
    <2> SUFFICES ASSUME Init PROVE OneRequest /\ Dialogue
      OBVIOUS
    <2>1. OneRequest
      BY DEF Init, OneRequest, Silent, Inside
    <2>2. Stage /\ Descriptors /\ OwnReply
      BY ServerAssumption DEF Init, Stage, Early, Places, Descriptors, OwnReply, NoConn
    <2>3. <<>> \in Seq(Messages) /\ Len(<<>>) = 0
      BY EmptySeq
    <2>4. Letters
      BY <2>3 DEF Init, Letters, Messages
    <2>5. \A c \in 1..Conns : Counted(c) /\ UpToDate(c)
      BY <2>3, ServerAssumption DEF Init, Counted, UpToDate, Serving
    <2> QED
      BY <2>1, <2>2, <2>4, <2>5 DEF Dialogue
  <1>2. OneRequest /\ Dialogue /\ [Next]_vars => OneRequest' /\ Dialogue'
    <2> SUFFICES ASSUME OneRequest, Dialogue, [Next]_vars PROVE OneRequest' /\ Dialogue'
      OBVIOUS
    <2>1. Stage' /\ Descriptors' /\ OwnReply'
      BY StageStep, DescriptorsStep, OwnReplyStep DEF Dialogue
    <2> QED
      BY <2>1, ChannelStep, SpokenStep DEF Dialogue, Spoken
  <1> QED
    BY <1>1, <1>2, PTL DEF Spec

-----------------------------------------------------------------------------
(* Every answer a client receives is that to its own messages, one for each *)
(* and in their order (RunServerMode(), Transport::Send()).                 *)
THEOREM AnswersCorrect == Spec => []AnswersInOrder
  <1>1. Dialogue => AnswersInOrder
    BY DEF Dialogue, Counted, AnswersInOrder
  <1> QED
    BY <1>1, CorrectAlways, PTL
(* The type invariant; an open connection is one whose descriptor is kept,  *)
(* so none is lost in accept(), Recv(), Send(), Close() or a signal.        *)
THEOREM TypeCorrect == Spec => []TypeOK
  <1> DEFINE Flags == shutdown \in BOOLEAN /\ listening \in BOOLEAN
  <1>1. Spec => []Flags
    <2>1. Init => Flags
      BY DEF Init
    <2>2. Flags /\ [Next]_vars => Flags'
      BY DEF Next, Main, Listen, Boot, LoopTest, AcceptFails, Accept, StoreClient,
         Session, RecvFails, RecvMessage, NoPayload, Dispatch, Send, SendLost, SendFails,
         SendKills, AskExit, Close, SignalledExit, ReturnSilently, Detach, Destroy, Join,
         TakeResult, Signal, Client, Connect, ClientSend, ClientClose, Emulation, Ended,
         vars, serverVars, sockets, CloseSockets
    <2> QED
      BY <2>1, <2>2, PTL DEF Spec
  <1>2. Dialogue /\ Flags => TypeOK
    <2> SUFFICES ASSUME Dialogue, Flags PROVE TypeOK
      OBVIOUS
    <2>1. taken \in [1..Conns -> 0..MaxMessages]
      <3>1. \A c \in 1..Conns : taken[c] \in Nat /\ Len(sent[c]) \in Nat
                                /\ taken[c] <= Len(sent[c]) /\ Len(sent[c]) <= MaxMessages
        BY DEF Dialogue, Letters, Counted
      <3> QED
        BY <3>1, ServerAssumption DEF Dialogue, Letters
    <2> QED
      BY <2>1 DEF TypeOK, Dialogue, Stage, Places, Early, Descriptors, Letters
  <1> QED
    BY <1>1, <1>2, CorrectAlways, PTL

-----------------------------------------------------------------------------
(* Where the caller is, as module Execution sees it. *)
PhaseIs ==
  /\ mpc = "destroy" => Phase = "detaching"
  /\ mpc = "join" => Phase = "joining"
  /\ mpc = "ended" => Phase = "joined"
  /\ mpc \notin {"destroy", "join", "ended"} =>
       /\ exits = 0 => Phase = "open"
       /\ exits = 1 => Phase = "exiting"
       /\ exits = 2 => Phase = "exited"

LEMMA PhaseOf == PhaseIs
  <1>1. <<"open", "exiting", "exited">>[0 + 1] = "open"
    OBVIOUS
  <1>2. <<"open", "exiting", "exited">>[1 + 1] = "exiting"
    OBVIOUS
  <1>3. <<"open", "exiting", "exited">>[2 + 1] = "exited"
    OBVIOUS
  <1> QED
    BY <1>1, <1>2, <1>3 DEF Phase, PhaseIs

(* RunServerMode() and the destructors ask of the emulation thread only what *)
(* module Execution lets a caller ask, one request at a time and the         *)
(* shutdown in its order: the safety part of ImplementsExecution.            *)
THEOREM CallerAllowed == Spec => E!Init /\ [][E!Next]_(E!vars)
  <1>1. Init => E!Init
    BY DEF Init, E!Init, Phase
  <1>2. Dialogue /\ [Next]_vars => [E!Next]_(E!vars)
    <2> SUFFICES ASSUME Stage, Stage', [Next]_vars PROVE [E!Next]_(E!vars)
      BY StageStep DEF Dialogue
    <2>0. PhaseIs /\ PhaseIs'
      BY PhaseOf, PTL
    <2>1. CASE UNCHANGED <<mpc, exits>>
      <3>1. Phase' = Phase
        BY <2>1 DEF Phase
      <3>2. CASE TakeResult
        BY <3>1, <3>2 DEF TakeResult, E!Next, E!Caller
      <3>3. CASE Emulation
        BY <3>3 DEF Emulation, E!Next
      <3>4. CASE UNCHANGED execVars
        BY <3>1, <3>4 DEF execVars, E!vars
      <3>5. CASE ~(TakeResult \/ Emulation \/ UNCHANGED execVars)
        BY <2>1, <3>5 DEF Next, Main, Listen, Boot, LoopTest, AcceptFails, Accept, StoreClient,
           Session, RecvFails, RecvMessage, Dispatch, Send, SendLost, SendFails, SendKills,
           AskExit, SignalledExit, Close, ReturnSilently, Detach, Destroy, Join, Signal,
           Client, Connect, ClientSend, ClientClose, Ended, vars, At, Goto
      <3> QED
        BY <3>2, <3>3, <3>4, <3>5
    <2>2. CASE Boot \/ Session \/ Dispatch
      <3>1. /\ exits = 0 /\ exits' = 0 /\ mpc \in Early /\ mpc' \in Early
            /\ \/ UNCHANGED execVars
               \/ \E r \in E!Requests \ {"EXIT"} : E!Request(r)
        <4>1. ClientRequests \cup {"RUN", "GET_CC"} \subseteq E!Requests \ {"EXIT"}
          BY ServerAssumption DEF E!Requests
        <4> QED
          BY <2>2, <4>1 DEF Boot, Session, Dispatch, At, Goto, Stage, Early
      <3>2. Phase = "open" /\ Phase' = "open"
        BY <2>0, <3>1 DEF PhaseIs, Early
      <3> QED
        BY <3>1, <3>2 DEF execVars, E!vars, E!Next, E!Caller, E!Ask
    <2>3. CASE AskExit("exit", "close") \/ SignalledExit
      <3>1. /\ E!Request("EXIT") /\ exits \in {0, 1} /\ exits' = exits + 1
            /\ mpc \notin {"destroy", "join", "ended"} /\ mpc' \notin {"destroy", "join", "ended"}
        BY <2>3 DEF AskExit, SignalledExit, At, Goto, Stage, Early
      <3>2. \/ Phase = "open" /\ Phase' = "exiting"
            \/ Phase = "exiting" /\ Phase' = "exited"
        BY <2>0, <3>1 DEF PhaseIs
      <3> QED
        BY <3>1, <3>2 DEF E!Next, E!Caller, E!AskExit, HasDebugger
    <2>4. CASE Detach
      <3>1. Phase \in {"open", "exiting", "exited"} /\ Phase' = "detaching"
        BY <2>0, <2>4 DEF PhaseIs, Detach, At, Goto, Stage
      <3> QED
        BY <2>4, <3>1 DEF Detach, E!Next, E!Caller, E!Detach, HasDebugger
    <2>5. CASE Destroy
      <3>1. Phase = "detaching" /\ Phase' = "joining"
        BY <2>0, <2>5 DEF PhaseIs, Destroy, At, Goto
      <3> QED
        BY <2>5, <3>1 DEF Destroy, E!Next, E!Caller, E!Destroy, HasDebugger, At, execVars,
           E!emuVars
    <2>6. CASE Join
      <3>1. Phase = "joining" /\ Phase' = "joined"
        BY <2>0, <2>6 DEF PhaseIs, Join, At, Goto
      <3> QED
        BY <2>6, <3>1 DEF Join, E!Next, E!Caller, E!Join, At, execVars, E!emuVars
    <2>7. CASE Listen("listen", "boot") \/ Listen("relisten", "loop") \/ LoopTest
               \/ AcceptFails \/ Accept \/ StoreClient \/ RecvFails \/ RecvMessage
               \/ Send \/ SendLost \/ SendFails \/ SendKills \/ Close \/ ReturnSilently
      <3>1. /\ UNCHANGED <<execVars, exits>>
            /\ mpc \notin {"destroy", "join", "ended"} /\ mpc' \notin {"destroy", "join", "ended"}
        BY <2>7 DEF Listen, LoopTest, AcceptFails, Accept, StoreClient, RecvFails, RecvMessage,
           NoPayload, Send, SendLost, SendFails, SendKills, AfterSend, Close, ReturnSilently,
           At, Goto
      <3>2. Phase' = Phase
        BY <2>0, <3>1 DEF PhaseIs, Stage
      <3> QED
        BY <3>1, <3>2 DEF execVars, E!vars
    <2>8. CASE UNCHANGED vars \/ Signal \/ Client \/ TakeResult \/ Emulation \/ Ended
      <3>1. UNCHANGED <<mpc, exits>>
        BY <2>8 DEF vars, Client, Connect, ClientClose, ClientSend, Signal, Emulation, Ended,
           TakeResult, serverVars
      <3> QED
        BY <2>1, <3>1
    <2> QED
      BY <2>2, <2>3, <2>4, <2>5, <2>6, <2>7, <2>8 DEF Next, Main
  <1> QED
    BY <1>1, <1>2, CorrectAlways, PTL DEF Spec
=============================================================================
