------------------------------- MODULE Server -------------------------------
(***************************************************************************)
(* The IPC server (app/server_mode.cpp, v6ipc/transport.cpp) on the main   *)
(* thread, its clients, the signal handler, and the emulation thread of    *)
(* module Execution it talks to.  Each step of RunServerMode() between two *)
(* blocking calls is an action; what it asks of Hardware goes through      *)
(* Execution's Request().  The server's place determines Execution's       *)
(* caller phase, so Execution is what this module implements.              *)
(*                                                                         *)
(* A message is its kind: "local" for everything the main thread answers   *)
(* itself (PING, GET_SERVER_INFO, GET_FRAME, an undecodable or invalid     *)
(* request), "exit", "empty" for what makes Recv() return no payload (a    *)
(* zero or oversized length), else the request to dispatch.                *)
(***************************************************************************)
EXTENDS Naturals, Sequences, FiniteSets

CONSTANTS
  MaxLength,
  ClientRequests,  \* the requests clients dispatch
  Conns,           \* bound: the connections clients open, 1..n
  MaxMessages,     \* bound: messages per connection
  Posix,           \* send() on a broken connection may raise SIGPIPE
  StoreAtomic      \* no signal falls between accept() and m_clientSock's store

NoConn == 0
HasDebugger == TRUE      \* Execution's parameters here: server mode, ...
GraceSuffices == TRUE    \* ... and a main thread that is never 250 ms late

VARIABLES
  status, at, stack, reqs, results, call, reply,  \* see Execution
  mpc,        \* where the main thread is
  exits,      \* how many EXIT requests RunServerMode() has made
  shutdown,   \* g_shutdown
  listening,  \* m_listenSock is valid
  accepted,   \* the descriptor accept() has returned, before it is stored
  client,     \* m_clientSock
  message,    \* the message being served
  link,       \* each connection: "new", "backlog", "open", "closed"
  sent,       \* the messages a client has sent
  taken,      \* how many of them Recv() has returned
  answers     \* what reached the client: the messages that were answered

execVars == <<status, at, stack, reqs, results, call, reply>>
sockets == <<listening, accepted, client>>
clientVars == <<link, sent, answers>>
serverVars == <<mpc, exits, shutdown, sockets, message, taken, clientVars>>
vars == <<execVars, serverVars>>

(* Where the main thread is in the life of the Hardware object. *)
Phase ==
  CASE mpc = "destroy" -> "detaching"
    [] mpc = "join"    -> "joining"
    [] mpc = "ended"   -> "joined"
    [] OTHER           -> <<"open", "exiting", "exited">>[exits + 1]

E == INSTANCE Execution WITH phase <- Phase

Messages == {"local", "empty", "exit"} \union ClientRequests

ASSUME ServerAssumption ==
  /\ ClientRequests \subseteq E!Requests \ {"EXIT"}
  /\ MaxLength \in Nat /\ Conns \in Nat /\ MaxMessages \in Nat
  /\ Posix \in BOOLEAN /\ StoreAtomic \in BOOLEAN

Init ==
  /\ status = "STOP" /\ at = "loop" /\ stack = <<>>
  /\ reqs = <<>> /\ results = <<>>
  /\ call = E!NoCall /\ reply = E!Result("GET_CC", "handled")
  /\ mpc = "listen" /\ exits = 0 /\ shutdown = FALSE
  /\ listening = FALSE /\ accepted = NoConn /\ client = NoConn
  /\ message = "local"
  /\ link = [c \in 1..Conns |-> "new"]
  /\ sent = [c \in 1..Conns |-> <<>>]
  /\ taken = [c \in 1..Conns |-> 0]
  /\ answers = [c \in 1..Conns |-> <<>>]

-----------------------------------------------------------------------------
(* RunServerMode().  A step is taken only between two calls of Request().    *)

At(place) == mpc = place /\ call = E!NoCall
Goto(place) == mpc' = place

(* Mutant: the descriptors are forgotten, the client's is not closed. *)
ForgetSockets ==
  /\ client' = NoConn /\ listening' = FALSE
  /\ UNCHANGED link

(* Transport::Close(): both sockets, which also resets whoever is waiting in *)
(* the listening socket's backlog.                                           *)
CloseSockets ==
  /\ client' = NoConn /\ listening' = FALSE
  /\ link' = [c \in 1..Conns |->
                IF c = client \/ link[c] = "backlog" THEN "closed" ELSE link[c]]

Listen(from, next) ==
  /\ At(from)
  /\ \/ listening' = TRUE /\ Goto(next)
     \/ listening' = FALSE /\ Goto("return")
  /\ UNCHANGED <<exits, shutdown, accepted, client, message, taken>>
  /\ UNCHANGED clientVars /\ UNCHANGED execVars

(* RUN and SET_COLOR_FORMAT before the loop. *)
Boot ==
  /\ \/ At("boot") /\ E!Request("RUN") /\ Goto("bootColor")
     \/ At("bootColor") /\ E!Request("GET_CC") /\ Goto("loop")
  /\ UNCHANGED <<exits, shutdown, sockets, message, taken, clientVars>>

LoopTest ==
  /\ At("loop")
  /\ Goto(IF shutdown THEN "close" ELSE IF client = NoConn THEN "accept" ELSE "recv")
  /\ UNCHANGED <<exits, shutdown, sockets, message, taken, clientVars, execVars>>

(* accept() blocks until someone is in the backlog or the socket is closed. *)
AcceptFails ==
  /\ At("accept") /\ ~listening
  /\ Goto(IF shutdown THEN "close" ELSE "loop")
  /\ UNCHANGED <<exits, shutdown, sockets, message, taken, clientVars, execVars>>

Accept ==
  /\ At("accept") /\ listening
  /\ \E c \in 1..Conns :
       /\ link[c] = "backlog"
       /\ link' = [link EXCEPT ![c] = "open"]
       /\ accepted' = IF StoreAtomic THEN NoConn ELSE c
       /\ client' = IF StoreAtomic THEN c ELSE client
  /\ Goto(IF StoreAtomic THEN "session" ELSE "store")
  /\ UNCHANGED <<exits, shutdown, listening, message, taken, sent, answers, execVars>>

StoreClient ==
  /\ At("store")
  /\ client' = accepted /\ accepted' = NoConn
  /\ Goto("session")
  /\ UNCHANGED <<exits, shutdown, listening, message, taken, clientVars, execVars>>

(* BeginSession() *)
Session ==
  /\ At("session") /\ E!Request("GET_CC")
  /\ Goto("recv")
  /\ UNCHANGED <<exits, shutdown, sockets, message, taken, clientVars>>

(* The client has closed its end of the connection being served. *)
PeerGone == client # NoConn /\ link[client] = "closed"

(* Recv() returns no payload: the socket is closed, the peer is gone, or an  *)
(* "empty" message was read.                                                 *)
NoPayload ==
  IF shutdown
  THEN Goto("close") /\ UNCHANGED <<listening, client, link>>
  ELSE Goto("relisten") /\ CloseSockets

RecvFails ==
  /\ At("recv")
  /\ client = NoConn \/ PeerGone
  /\ NoPayload
  /\ UNCHANGED <<exits, shutdown, accepted, message, taken, sent, answers, execVars>>

RecvMessage ==
  /\ At("recv") /\ client # NoConn /\ taken[client] < Len(sent[client])
  /\ taken' = [taken EXCEPT ![client] = @ + 1]
  /\ message' = sent[client][taken[client] + 1]
  /\ IF message' = "empty" THEN NoPayload
                           ELSE Goto("dispatch") /\ UNCHANGED <<listening, client, link>>
  /\ UNCHANGED <<exits, shutdown, accepted, sent, answers, execVars>>

Dispatch ==
  /\ At("dispatch")
  /\ Goto("send")
  /\ IF message \in ClientRequests THEN E!Request(message) ELSE UNCHANGED execVars
  /\ UNCHANGED <<exits, shutdown, sockets, message, taken, clientVars>>

(* The message the outgoing response belongs to: Request()'s result is what  *)
(* Request() returned, whichever request it was made for.                    *)
Answered == IF message \in ClientRequests THEN reply.req ELSE message

(* Only the send of a result looks at what Send() returns. *)
SendChecked == message \in ClientRequests /\ reply.outcome # "error"

(* Mutant: no `continue` after the response to an invalid request. *)
AfterSendNoContinue ==
  CASE message = "exit" -> "exit" [] message = "local" -> "send" [] OTHER -> "loop"

AfterSend == IF message = "exit" THEN "exit" ELSE "loop"

Send ==
  /\ At("send") /\ client # NoConn /\ link[client] = "open"
  /\ answers' = [answers EXCEPT ![client] = Append(@, Answered)]
  /\ Goto(AfterSend)
  /\ UNCHANGED <<exits, shutdown, sockets, message, taken, link, sent, execVars>>

(* The peer is gone but the kernel still accepts the bytes. *)
SendLost ==
  /\ At("send") /\ PeerGone
  /\ Goto(AfterSend)
  /\ UNCHANGED <<exits, shutdown, sockets, message, taken, clientVars, execVars>>

(* The socket is closed or broken. *)
SendFails ==
  /\ At("send") /\ (client = NoConn \/ PeerGone)
  /\ IF SendChecked THEN Goto("relisten") /\ CloseSockets
                    ELSE Goto(AfterSend) /\ UNCHANGED <<listening, client, link>>
  /\ UNCHANGED <<exits, shutdown, accepted, message, taken, sent, answers, execVars>>

(* SIGPIPE, whose default action ends the process. *)
SendKills ==
  /\ Posix
  /\ At("send") /\ PeerGone
  /\ Goto("killed")
  /\ UNCHANGED <<exits, shutdown, sockets, message, taken, clientVars, execVars>>

(* Mutant: no `break` after the EXIT command. *)
AskExitNoBreak(from, next) ==
  /\ At(from) /\ E!Request("EXIT")
  /\ Goto(IF from = "exit" THEN "loop" ELSE next)
  /\ UNCHANGED <<exits, shutdown, sockets, message, taken, clientVars>>

AskExit(from, next) ==
  /\ At(from) /\ E!Request("EXIT")
  /\ exits' = exits + 1
  /\ Goto(next)
  /\ UNCHANGED <<shutdown, sockets, message, taken, clientVars>>

(* server.Close() and g_serverPtr = nullptr after the loop. *)
Close ==
  /\ At("close")
  /\ CloseSockets
  /\ Goto("closed")
  /\ UNCHANGED <<exits, shutdown, accepted, message, taken, sent, answers, execVars>>

SignalledExit == shutdown /\ AskExit("closed", "return")

ReturnSilently ==
  /\ At("closed") /\ ~shutdown
  /\ Goto("return")
  /\ UNCHANGED <<exits, shutdown, sockets, message, taken, clientVars, execVars>>

(* main() returns: ~Transport, ~Debugger, ~Hardware. *)
Detach ==
  /\ At("return") /\ E!Request("DEBUG_ATTACH")
  /\ Goto("destroy")
  /\ UNCHANGED <<exits, shutdown, sockets, message, taken, clientVars>>

(* Mutant: ~Hardware asks for EXIT whatever the status. *)
DestroyAlways ==
  /\ At("destroy")
  /\ Goto("join")
  /\ E!Request("EXIT")
  /\ UNCHANGED <<exits, shutdown, sockets, message, taken, clientVars>>

Destroy ==
  /\ At("destroy")
  /\ Goto("join")
  /\ IF status # "EXIT" THEN E!Request("EXIT") ELSE UNCHANGED execVars
  /\ UNCHANGED <<exits, shutdown, sockets, message, taken, clientVars>>

Join ==
  /\ At("join") /\ at = "done"
  /\ Goto("ended")
  /\ UNCHANGED <<exits, shutdown, sockets, message, taken, clientVars, execVars>>

(* The end of a Request(): its result arrives. *)
TakeResult == mpc # "killed" /\ UNCHANGED serverVars /\ E!TakeResult

Main ==
  \/ Listen("listen", "boot") \/ Boot \/ LoopTest
  \/ AcceptFails \/ Accept \/ StoreClient \/ Session
  \/ RecvFails \/ RecvMessage \/ Dispatch
  \/ Send \/ SendLost \/ SendFails \/ SendKills
  \/ Listen("relisten", "loop")
  \/ AskExit("exit", "close") \/ Close \/ SignalledExit \/ ReturnSilently
  \/ Detach \/ Destroy \/ Join \/ TakeResult

-----------------------------------------------------------------------------
(* Mutant: the handler leaves the sockets open. *)
SignalFlagOnly ==
  /\ ~shutdown /\ mpc \notin {"killed", "ended"}
  /\ shutdown' = TRUE
  /\ UNCHANGED <<mpc, exits, sockets, message, taken, clientVars, execVars>>

(* SignalHandler(): between any two steps once it is installed; it closes the *)
(* sockets only while g_serverPtr is set.                                     *)
Signal ==
  /\ ~shutdown /\ mpc \notin {"killed", "ended"}
  /\ shutdown' = TRUE
  /\ IF mpc \in {"closed", "return", "destroy", "join"}
     THEN UNCHANGED <<listening, client, link>>
     ELSE CloseSockets
  /\ UNCHANGED <<mpc, exits, accepted, message, taken, sent, answers, execVars>>

-----------------------------------------------------------------------------
(* The clients.  The backlog takes one connection; a client may send before  *)
(* it is accepted and before it has read earlier answers.                    *)
Connect(c) ==
  /\ link[c] = "new" /\ listening
  /\ \A d \in 1..Conns : link[d] # "backlog"
  /\ link' = [link EXCEPT ![c] = "backlog"]
  /\ UNCHANGED <<mpc, exits, shutdown, sockets, message, taken, sent, answers, execVars>>

ClientSend(c, m) ==
  /\ link[c] \in {"backlog", "open"} /\ Len(sent[c]) < MaxMessages
  /\ sent' = [sent EXCEPT ![c] = Append(@, m)]
  /\ UNCHANGED <<mpc, exits, shutdown, sockets, message, taken, link, answers, execVars>>

ClientClose(c) ==
  /\ link[c] = "open"
  /\ link' = [link EXCEPT ![c] = "closed"]
  /\ UNCHANGED <<mpc, exits, shutdown, sockets, message, taken, sent, answers, execVars>>

Client == \E c \in 1..Conns :
  Connect(c) \/ ClientClose(c) \/ \E m \in Messages : ClientSend(c, m)

-----------------------------------------------------------------------------
Emulation == mpc # "killed" /\ UNCHANGED serverVars /\ E!Emulation

(* The process is gone. *)
Ended == mpc \in {"ended", "killed"} /\ UNCHANGED vars

Next == Main \/ Signal \/ Client \/ Emulation \/ Ended

(* Both threads run.  Clients and signals owe nothing. *)
Fairness ==
  /\ WF_vars(Main)
  /\ WF_vars(Emulation)
  /\ SF_vars(mpc # "killed" /\ UNCHANGED serverVars /\ E!Vsync)
  /\ SF_vars(mpc # "killed" /\ UNCHANGED serverVars /\ E!StepEnd)

Spec == Init /\ [][Next]_vars /\ Fairness

-----------------------------------------------------------------------------
(* The type invariant; an open connection is one the server still knows, so  *)
(* no descriptor is lost across disconnections and signals.                  *)
TypeOK ==
  /\ \A c \in 1..Conns : link[c] = "open" => c \in {client, accepted}
  /\ mpc \in {"listen", "boot", "bootColor", "loop", "accept", "store", "session",
              "recv", "dispatch", "send", "relisten", "exit", "close", "closed",
              "return", "destroy", "join", "ended", "killed"}
  /\ exits \in 0..2
  /\ shutdown \in BOOLEAN /\ listening \in BOOLEAN
  /\ accepted \in 0..Conns /\ client \in 0..Conns
  /\ message \in Messages
  /\ link \in [1..Conns -> {"new", "backlog", "open", "closed"}]
  /\ sent \in [1..Conns -> Seq(Messages)]
  /\ taken \in [1..Conns -> 0..MaxMessages]
  /\ answers \in [1..Conns -> Seq(Messages)]

(* Every answer a client receives is the answer to its own messages, one per *)
(* message and in their order, across disconnections, failed sends, handlers *)
(* that throw and clients that do not wait.                                  *)
AnswersInOrder ==
  \A c \in 1..Conns :
    /\ Len(answers[c]) <= taken[c]
    /\ \A i \in 1..Len(answers[c]) : answers[c][i] = sent[c][i]

(* The main thread is a caller module Execution allows: one request at a     *)
(* time, nothing but the shutdown requests after EXIT, the destructors in    *)
(* their order.                                                              *)
ImplementsExecution == E!Spec

(* A SIGINT or SIGTERM ends the program. *)
SignalEndsProgram == shutdown ~> (mpc = "ended")

(* So does the EXIT command. *)
ExitEndsProgram == (mpc = "exit") ~> (mpc = "ended")
=============================================================================
