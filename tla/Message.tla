------------------------------ MODULE Message -------------------------------
(***************************************************************************)
(* message.c: http_task_t, CGI_executor, peer_t and the functions that     *)
(* move bytes between the buffers of a peer and the kernel.  A cbuf_t is   *)
(* the sequence of the tokens it holds (module CircularBuffer shows that   *)
(* it is a bounded queue, also under buf_putback).                         *)
(***************************************************************************)
EXTENDS ServerState

\* http_task_t after reset_http_task.  own is a history: the request that
\* this task has parsed.
FreshTask ==
  [state |-> "RECV_HEADER_STATE", parse_buf |-> <<>>, response_buf |-> <<>>,
   method_type |-> "NO_METHOD", last_request |-> FALSE, response_code |-> -1,
   body_bytes_num |-> 0, post_body |-> <<>>, fp |-> None, own |-> None]

\* Slip: the response code of the last request stays.
reset_http_task_keeps_code(t) ==
  [FreshTask EXCEPT !.fp = t.fp, !.response_code = t.response_code]

\* fp is left as it is.
reset_http_task(t) == [FreshTask EXCEPT !.fp = t.fp]

\* A slot as create_peer leaves it (it drops the task it has created).
FreshPeer ==
  [socket |-> NO_SOCKET, http_task |-> FreshTask, cgi_executor |-> NULL,
   sending_buffer |-> <<>>, receiving_buffer |-> <<>>, close_conn |-> FALSE]

FreeExecutor == [live |-> FALSE, pid |-> None, cgi_buffer |-> <<>>]

\* What the next dereference of pointer a meets.
Dangling(a) == a # NULL /\ ~execs[a].live
Die ==
  /\ pc' = "dead"
  /\ UNCHANGED <<connection_list, request, execs, cur, rfds, wfds, has_read,
                 has_sent, script, net, backlog, proc, streams>>

\* The sets of select are forgotten with the last slot.
NextSlot ==
  /\ IF cur < MAX_CLIENTS
       THEN pc' = "cgi_write" /\ cur' = cur + 1 /\ UNCHANGED <<rfds, wfds>>
       ELSE pc' = "select" /\ cur' = 1 /\ rfds' = {} /\ wfds' = {}
  /\ has_read' = FALSE
  /\ has_sent' = FALSE

GoTo(l) == pc' = l /\ UNCHANGED <<cur, rfds, wfds>>
-----------------------------------------------------------------------------
\* The object stays in place, with its content, until malloc reuses it; the
\* pointer of the slot is not set to NULL, and no pipe is closed.  Freeing an
\* object twice is undefined: here nothing happens, elsewhere Abort.
free_CGI_executor(a) ==
  execs' = IF a = NULL THEN execs
           ELSE [execs EXCEPT ![a].live = FALSE, ![a].cgi_buffer = <<>>]

\* A slot whose connection is given up; its task, its executor and the
\* pointers to them stay.
Vacated(p) ==
  [p EXCEPT !.socket = NO_SOCKET, !.close_conn = FALSE,
            !.sending_buffer = <<>>, !.receiving_buffer = <<>>]

\* Slip: the sending buffer is left as it is.
close_client_connection_keeps_bytes(s, k) ==
  /\ connection_list' =
       [connection_list EXCEPT
          ![s] = [@ EXCEPT !.socket = NO_SOCKET, !.close_conn = FALSE,
                           !.receiving_buffer = <<>>]]
  /\ net' = IF Peer(s).socket = NO_SOCKET THEN k
            ELSE [k EXCEPT ![Peer(s).socket].conn = "closed",
                           ![Peer(s).socket].inq = <<>>]
  /\ free_CGI_executor(Peer(s).cgi_executor)

\* Slip: the slot is freed and the socket is not closed.
close_client_connection_leaks(s, k) ==
  /\ connection_list' = [connection_list EXCEPT ![s] = Vacated(@)]
  /\ net' = k
  /\ free_CGI_executor(Peer(s).cgi_executor)

\* k is the state of the kernel at the call (net, or net after a send).
close_client_connection(s, k) ==
  /\ connection_list' = [connection_list EXCEPT ![s] = Vacated(@)]
  /\ net' = IF Peer(s).socket = NO_SOCKET THEN k
            ELSE [k EXCEPT ![Peer(s).socket].conn = "closed",
                           ![Peer(s).socket].inq = <<>>]
  /\ free_CGI_executor(Peer(s).cgi_executor)

\* Slip: a connection that finds no slot stays open.
handle_new_connection_leaks ==
  LET c == Head(backlog)
      free == {s \in Slot : Peer(s).socket = NO_SOCKET}
  IN /\ backlog' = Tail(backlog)
     /\ net' = [net EXCEPT ![c].conn = "open"]
     /\ \/ \E s \in free :
             connection_list' =
               [connection_list EXCEPT
                  ![s] = [@ EXCEPT !.socket = c, !.close_conn = FALSE,
                                   !.http_task = FreshTask]]
        \/ free = {} /\ UNCHANGED connection_list

\* Slip: the task of the last client of the slot is used again.
handle_new_connection_old_task ==
  LET c == Head(backlog)
      free == {s \in Slot : Peer(s).socket = NO_SOCKET}
  IN /\ backlog' = Tail(backlog)
     /\ \/ \E s \in free :
             /\ \A t \in free : s <= t
             /\ connection_list' =
                  [connection_list EXCEPT
                     ![s] = [@ EXCEPT !.socket = c, !.close_conn = FALSE]]
             /\ net' = [net EXCEPT ![c].conn = "open"]
        \/ /\ free = {}
           /\ net' = [net EXCEPT ![c].conn = "refused", ![c].inq = <<>>]
           /\ UNCHANGED connection_list

\* Slip: the last slot is not looked at.
handle_new_connection_but_last ==
  LET c == Head(backlog)
      free == {s \in Slot \ {MAX_CLIENTS} : Peer(s).socket = NO_SOCKET}
  IN /\ backlog' = Tail(backlog)
     /\ \/ \E s \in free :
             /\ \A t \in free : s <= t
             /\ connection_list' =
                  [connection_list EXCEPT
                     ![s] = [@ EXCEPT !.socket = c, !.close_conn = FALSE,
                                      !.http_task = FreshTask]]
             /\ net' = [net EXCEPT ![c].conn = "open"]
        \/ /\ free = {}
           /\ net' = [net EXCEPT ![c].conn = "refused", ![c].inq = <<>>]
           /\ UNCHANGED connection_list

\* accept fails when no descriptor is left, and the connection goes on waiting.
\* Otherwise it gets the first slot without a socket, of which only socket,
\* close_conn and http_task are initialised, or is closed at once.
handle_new_connection ==
  LET c == Head(backlog)
      free == {s \in Slot : Peer(s).socket = NO_SOCKET}
  IN \/ /\ OpenCount >= OPEN_MAX
        /\ UNCHANGED <<connection_list, net, backlog>>
     \/ /\ OpenCount < OPEN_MAX
        /\ backlog' = Tail(backlog)
        /\ \/ \E s \in free :
                /\ \A t \in free : s <= t
                /\ connection_list' =
                     [connection_list EXCEPT
                        ![s] = [@ EXCEPT !.socket = c, !.close_conn = FALSE,
                                         !.http_task = FreshTask]]
                /\ net' = [net EXCEPT ![c].conn = "open"]
           \/ /\ free = {}
              /\ net' = [net EXCEPT ![c].conn = "refused", ![c].inq = <<>>]
              /\ UNCHANGED connection_list
-----------------------------------------------------------------------------
(* The two pipes of the CGI child of the current slot.                     *)

Executor == execs[Me.cgi_executor]

\* Slip: what the pipe did not take is not put back.
SendToCGINoPutback ==
  \/ Executor.cgi_buffer = <<>> /\ UNCHANGED <<execs, proc>>
  \/ /\ proc[Executor.pid].st = "run"
     /\ \E n \in 1 .. Len(Executor.cgi_buffer) :
          /\ execs' = [execs EXCEPT ![Me.cgi_executor].cgi_buffer = <<>>]
          /\ proc' = [proc EXCEPT ![Executor.pid].stdin =
                        @ \o Take(Executor.cgi_buffer, n)]

\* Nothing buffered, or the child takes the first n tokens of the buffer and
\* the others are put back.
SendToCGI ==
  \/ Executor.cgi_buffer = <<>> /\ UNCHANGED <<execs, proc>>
  \/ /\ proc[Executor.pid].st = "run"
     /\ \E n \in 1 .. Len(Executor.cgi_buffer) :
          /\ execs' = [execs EXCEPT ![Me.cgi_executor].cgi_buffer = Drop(@, n)]
          /\ proc' = [proc EXCEPT ![Executor.pid].stdin =
                        @ \o Take(Executor.cgi_buffer, n)]

\* The child has closed its end: write fails with EPIPE, and the bytes read
\* out of the buffer are gone.
SendToCGIFails ==
  Executor.cgi_buffer # <<>> /\ proc[Executor.pid].st = "done"

\* pipe_from_CGI_process_to_client: no room, or something to read, or the
\* end of the output.  The read blocks when none of them holds.
PipeFull ==
  Room(Me.sending_buffer) = 0 /\ UNCHANGED <<connection_list, execs, proc>>

PipeOutput ==
  LET out == proc[Executor.pid].stdout
      n == Least(Len(out), Room(Me.sending_buffer))
  IN /\ n > 0
     /\ connection_list' =
          [connection_list EXCEPT ![cur].sending_buffer = @ \o Take(out, n)]
     /\ proc' = [proc EXCEPT ![Executor.pid].stdout = Drop(out, n)]
     /\ UNCHANGED execs

\* Slip: the executor is freed and the slot still points to it.
PipeEofKeepsPointer ==
  /\ proc[Executor.pid].stdout = <<>> /\ proc[Executor.pid].st = "done"
  /\ Room(Me.sending_buffer) > 0
  /\ connection_list' =
       [connection_list EXCEPT ![cur].http_task.state = "FINISHED_STATE"]
  /\ free_CGI_executor(Me.cgi_executor)
  /\ UNCHANGED proc

PipeEof ==
  /\ proc[Executor.pid].stdout = <<>> /\ proc[Executor.pid].st = "done"
  /\ Room(Me.sending_buffer) > 0
  /\ connection_list' =
       [connection_list EXCEPT
          ![cur] = [@ EXCEPT !.cgi_executor = NULL,
                             !.http_task.state = "FINISHED_STATE"]]
  /\ free_CGI_executor(Me.cgi_executor)
  /\ UNCHANGED proc
-----------------------------------------------------------------------------
(* The socket of the current slot.                                         *)

Received == Take(net[Me.socket].inq,
                 Least(Len(net[Me.socket].inq), Room(Me.receiving_buffer)))

\* write_to_receiving_buffer returns the number of bytes it stored, and its
\* caller compares it with EXIT_FAILURE, which is 1.
TakenForFailure(data) == Len(data) = 1 /\ data[1].part \in OneBytePart

\* recv returned 0 (the peer has shut down, or there is no room to receive
\* into), an error, or a count taken for a failure.
ReceiveFails == Received = <<>> \/ TakenForFailure(Received)

ReceiveFromPeer ==
  /\ connection_list' =
       [connection_list EXCEPT ![cur].receiving_buffer = @ \o Received]
  /\ net' = [net EXCEPT ![Me.socket].inq = Drop(@, Len(Received))]

Taken == Least(Len(Me.sending_buffer), NetCap - Len(net[Me.socket].outq))

\* send_to_peer tells the caller to close: the connection was to be closed
\* once everything is sent, or send failed.
SendSaysClose ==
  IF Me.sending_buffer = <<>>
    THEN Me.close_conn /\ Task.state # "PROCESSING_CGI"
    ELSE \/ net[Me.socket].st = "gone"
         \/ Me.close_conn /\ Taken = Len(Me.sending_buffer)

\* The kernel takes what fits; the rest goes back into the buffer.
SentByKernel ==
  IF net[Me.socket].st = "gone" THEN net
  ELSE [net EXCEPT ![Me.socket].outq = @ \o Take(Me.sending_buffer, Taken)]

\* Slip: what the kernel did not take is not put back.
SendToPeerNoPutback ==
  /\ connection_list' = [connection_list EXCEPT ![cur].sending_buffer = <<>>]
  /\ net' = SentByKernel

SendToPeer ==
  /\ connection_list' =
       [connection_list EXCEPT ![cur].sending_buffer = Drop(@, Taken)]
  /\ net' = SentByKernel
=============================================================================
