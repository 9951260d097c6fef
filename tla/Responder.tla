------------------------------ MODULE Responder ------------------------------
(***************************************************************************)
(* What the server promises about bytes.  Towards each client it is an     *)
(* ordered responder: it only appends to what it has sent, only answers to *)
(* requests the client has sent completely, in their order, and nothing    *)
(* after it has hung up.                                                   *)
(***************************************************************************)
EXTENDS SequencesExt

CONSTANT Client

VARIABLES
  answers, \* client -> the sequence of the answers to its requests
  asked,   \* client -> how many requests it has sent completely
  reply,   \* client -> what the server has sent and the client can still read
  link     \* client -> "idle", "open" or "over" for the server, "left" by the client

Init ==
  /\ asked = [c \in Client |-> 0]
  /\ reply = [c \in Client |-> <<>>]
  /\ link = [c \in Client |-> "idle"]

\* Also of a client that no longer has a connection.
Ask(c) ==
  /\ asked' = [asked EXCEPT ![c] = @ + 1]
  /\ UNCHANGED <<reply, link>>

Open(c) ==
  /\ link[c] = "idle"
  /\ link' = [link EXCEPT ![c] = "open"]
  /\ UNCHANGED <<asked, reply>>

\* Some more of the answers, perhaps the last before the server hangs up.
Answer(c) ==
  /\ link[c] = "open"
  /\ link'[c] \in {"open", "over"}
  /\ link' = [link EXCEPT ![c] = link'[c]]
  /\ reply' = [reply EXCEPT ![c] = reply'[c]]
  /\ IsPrefix(reply[c], reply'[c])
  /\ IsPrefix(reply'[c], FlattenSeq(SubSeq(answers[c], 1, asked[c])))
  /\ UNCHANGED asked

\* A connection is refused, or the server ends and with it all connections.
End ==
  /\ \E S \in SUBSET {c \in Client : link[c] \in {"idle", "open"}} :
       link' = [c \in Client |-> IF c \in S THEN "over" ELSE link[c]]
  /\ UNCHANGED <<asked, reply>>

\* The client goes away with what it has read.
Leave(c) ==
  /\ link' = [link EXCEPT ![c] = "left"]
  /\ reply' = [reply EXCEPT ![c] = <<>>]
  /\ UNCHANGED asked

Next ==
  /\ End \/ \E c \in Client : Ask(c) \/ Open(c) \/ Answer(c) \/ Leave(c)
  /\ UNCHANGED answers

vars == <<answers, asked, reply, link>>
Spec == Init /\ [][Next]_vars
=============================================================================
