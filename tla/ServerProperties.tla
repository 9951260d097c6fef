-------------------------- MODULE ServerProperties --------------------------
(***************************************************************************)
(* What the server owes to its clients and to its CGI children.            *)
(***************************************************************************)
EXTENDS ServerInvariants, SequencesExt

CONSTANT Steady  \* the clients that never stop sending and reading

ASSUME SteadyAssumption == Steady \subseteq Client

SlotBytes(c) ==
  FoldSet(LAMBDA s, acc : acc \o Peer(s).sending_buffer, <<>>,
          {s \in Slot : Peer(s).socket = c})

AnswerList(c) == [k \in 1 .. Len(script[c]) |-> Answer(<<c, k>>)]
Answers(c) == FlattenSeq(AnswerList(c))

\* What client c has read, what the kernel holds for it and what its sending
\* buffer holds is always, in this order, a beginning of the answers to its
\* own requests: nothing is lost, doubled, reordered, or another client's,
\* through partial sends, full buffers and slot reuse.
AnswersInOrder ==
  \A c \in Client :
    net[c].st # "gone" =>
      IsPrefix(net[c].got \o net[c].outq \o SlotBytes(c), Answers(c))

\* The server as its clients see it.
AskedCount(c) == net[c].next[1] - 1
SentTo(c) == IF net[c].st = "gone" THEN <<>> ELSE net[c].got \o net[c].outq
Link(c) ==
  IF net[c].st = "gone" THEN "left"
  ELSE IF net[c].conn = "none" THEN "idle"
  ELSE IF net[c].conn = "open" THEN "open"
  ELSE "over"

\* Each client sees an ordered responder: bytes are only appended to what was
\* sent to it, and only answers of requests it has sent completely; nothing
\* follows once the server has hung up (http.c:66, message.c:419).
Promise == INSTANCE Responder WITH
  answers <- [c \in Client |-> AnswerList(c)],
  asked <- [c \in Client |-> AskedCount(c)],
  reply <- [c \in Client |-> SentTo(c)],
  link <- [c \in Client |-> Link(c)]

PromiseSpec == Promise!Spec

\* A body that fits into cgi_buffer, or there is none.
BodyFits(q) == BodyLen(q) <= BUF_DATA_MAXSIZE

\* A CGI child gets the body of its request whole and in order, or, when it is
\* larger than cgi_buffer, not a byte of it: what it has read, what is in the
\* pipe and what is still buffered make up the body, never a part of it
\* (http.c:852, message.c:300).
ChildInputWhole ==
  \A a \in ExecAddr : execs[a].live =>
    LET p == execs[a].pid
        q == RequestOf(proc[p].env)
    IN /\ proc[p].env = p
       /\ proc[p].read \o proc[p].stdin \o execs[a].cgi_buffer =
            IF q.method = "POST" /\ BodyFits(q)
              THEN [i \in 1 .. BodyLen(q) |-> Token(p, "body", i)] ELSE <<>>
-----------------------------------------------------------------------------
(* What the comments of the code claim and the code does not do: each is   *)
(* checked by a run that finds it violated.                                *)

\* A CGI script is only started in a slot that has no executor left
\* (http.c:841: "the cgi_executor should be NULL at this point").
ExecutorIsNull ==
  InHandler("CHECK_CGI") /\ request # NULL /\ Wanted.target = "cgi" =>
    Me.cgi_executor = NULL

\* A task whose header does not fit into the sending buffer waits with the
\* rest of it (http.c:509: "sending buffer is full so stay in the current
\* state").
HeaderWaits ==
  [][InHandler("SEND_HEADER_STATE") /\ Len(Task.response_buf) > Room(Me.sending_buffer)
       => connection_list'[cur].http_task.state = "SEND_HEADER_STATE"]_vars

\* No request of a connection is looked at after the one that said it was the
\* last (http.c:108: "check if the current request is the last one").
LastRequestIsLast ==
  pc = "http" /\ Task.own # None =>
    \A k \in 1 .. Task.own[2] - 1 : ~script[Task.own[1]][k].close

\* A connection that ends while its client is still there has carried the
\* whole output of the scripts it asked for (README:43: "Send all bytes from
\* the stdout of the spawned process to the requesting client").
CgiOutputWhole ==
  \A c \in Client : net[c].conn = "closed" /\ net[c].st = "on" =>
    \A k \in 1 .. Len(script[c]) : proc[<<c, k>>].st # "none" =>
      Range(Answer(<<c, k>>)) \subseteq Range(net[c].got \o net[c].outq)
-----------------------------------------------------------------------------
\* The single thread keeps running, and so do the children.  Steady clients go
\* on sending and reading, while the other clients may stop anywhere.  As the model lets the environment move at the system
\* calls of the server only, its steps are enabled again and again rather than
\* all the time, hence strong fairness.
ChildStep(p) == p \in Pids /\ (ChildRead(p) \/ ChildWrite(p) \/ ChildExit(p))

Fairness ==
  /\ WF_vars(ServerStep)
  /\ \A c \in Steady :
       SF_vars(Connect(c)) /\ SF_vars(ClientSend(c)) /\ SF_vars(ClientRead(c))
  /\ \A c \in Client, k \in 1 .. 2 : SF_vars(ChildStep(<<c, k>>))

FairSpec == Spec /\ Fairness

Sent(r) == net[r[1]].next[1] > r[2]

\* The clients that the end of their connection has reached: the server has
\* closed it, and no script that was forked with a copy of the socket
\* (http.c:868) still runs.
SeeEnd ==
  {c \in Client : /\ net[c].conn \in {"closed", "refused"}
                  /\ \A p \in Pids : proc[p].st = "run" => c \notin proc[p].holds}

\* The requests the server has to deal with, and those it has dealt with.  A
\* body larger than cgi_buffer is lost and its script waits for it for ever
\* (http.c:852).
Due == {r \in Pids : Sent(r) /\ BodyFits(RequestOf(r))}
Done == {r \in Pids : IF Refused(RequestOf(r)) THEN r[1] \in SeeEnd ELSE Answered(r)}

\* Every request that a steady client has sent is answered to its last byte,
\* however much longer than the buffers the file or the output of the script
\* is, and wherever another client stops; a request that is refused ends the
\* connection, and the client sees that, whatever scripts run meanwhile.
EveryRequestAnswered ==
  \A c \in Steady, k \in 1 .. 2 : <<c, k>> \in Due ~> <<c, k>> \in Done

\* A pass over the slots always ends: no client and no child can hold the
\* server in a handler or in a read.
PassEnds == (pc # "select") ~> (pc = "select")
=============================================================================
