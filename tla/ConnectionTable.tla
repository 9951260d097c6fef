--------------------------- MODULE ConnectionTable ---------------------------
(***************************************************************************)
(* What the server promises about connections: they are taken in the order *)
(* in which they came, one is refused only when MAX_CLIENTS others are     *)
(* open, and one that is over never comes back.                            *)
(***************************************************************************)
EXTENDS Integers, Sequences, FiniteSets

CONSTANTS Client, MAX_CLIENTS

VARIABLES
  queue,  \* the clients that wait, in order
  status  \* client -> "none", "waiting", "open", "closed" or "refused"

vars == <<queue, status>>

Is(s) == {c \in Client : status[c] = s}

Waits(c) == \E i \in 1 .. Len(queue) : queue[i] = c

Init == queue = <<>> /\ status = [c \in Client |-> "none"]

Arrive(c) ==
  /\ status[c] = "none"
  /\ queue' = Append(queue, c)
  /\ status' = [status EXCEPT ![c] = "waiting"]

Admit ==
  /\ queue # <<>>
  /\ Cardinality(Is("open")) < MAX_CLIENTS
  /\ status' = [status EXCEPT ![Head(queue)] = "open"]
  /\ queue' = Tail(queue)

Refuse ==
  /\ queue # <<>>
  /\ Cardinality(Is("open")) = MAX_CLIENTS
  /\ status' = [status EXCEPT ![Head(queue)] = "refused"]
  /\ queue' = Tail(queue)

Release(c) ==
  /\ status[c] = "open"
  /\ status' = [status EXCEPT ![c] = "closed"]
  /\ UNCHANGED queue

\* The end of the server is the end of every connection.
Shutdown ==
  /\ queue' = <<>>
  /\ status' = [c \in Client |->
       CASE status[c] = "open" -> "closed"
         [] Waits(c) -> "refused"
         [] OTHER -> status[c]]

Next ==
  \/ \E c \in Client : Arrive(c) \/ Release(c)
  \/ Admit \/ Refuse \/ Shutdown

Spec == Init /\ [][Next]_vars
=============================================================================
