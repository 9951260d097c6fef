---------------------------- MODULE ServerState -----------------------------
(***************************************************************************)
(* The state of the Liso server and of its surroundings, shared by Message *)
(* (message.c), Http (http.c) and Server (server.c and the environment).   *)
(*                                                                         *)
(* Bytes travel as tokens [req, part, n]: a piece of the request or of the *)
(* response `req', which is <<c, k>> for the k-th request of client c.     *)
(*   to the server:  "head", "end" (the part of the header that holds its  *)
(*                   terminator), "body" number n                          *)
(*   to the client:  "head" (status line and header lines) and "end" (the  *)
(*                   blank line) of code n, "body" number n of the file,   *)
(*                   "eof" (the byte made of the EOF of fgetc), "cgi"      *)
(*                   number n of the output of the CGI script              *)
(***************************************************************************)
EXTENDS Integers, Sequences, FiniteSets

CONSTANTS
  Client,           \* the clients
  MAX_CLIENTS,      \* slots of connection_list
  BUF_DATA_MAXSIZE, \* capacity, in tokens, of every cbuf_t and of parse_buf
  Scripts,          \* the possible values of script: what the clients will ask
  FileLen,          \* length of a file, in tokens
  CgiLen,           \* length of the output of a CGI script
  NetCap,           \* capacity of a kernel socket queue (bound of the model)
  ExecAddr,         \* addresses that malloc can give a CGI_executor
  OPEN_MAX,         \* descriptors the process may open after its start
  NULL,             \* the null pointer
  Faults,           \* what may go wrong around the server
  Pipelined,        \* do clients send a request before the last answer came
  OneBytePart       \* the parts whose tokens are a single byte

\* A request as its client sends it.  yyparse fails on a MALFORMED one; the
\* length is the Content-Length, negative when there is none; close says
\* whether Connection is Close.
Request == [method : {"GET", "HEAD", "POST", "OTHER", "MALFORMED"},
            target : {"file", "missing", "dir", "noperm", "cgi"},
            length : Int, close : BOOLEAN]

ASSUME StateAssumption ==
  /\ MAX_CLIENTS \in Nat \ {0}
  /\ BUF_DATA_MAXSIZE \in Nat /\ BUF_DATA_MAXSIZE >= 4
  /\ FileLen \in Nat /\ CgiLen \in Nat
  /\ NetCap \in Nat \ {0}
  /\ OPEN_MAX \in Nat
  /\ Faults \subseteq {"vanish", "shutdown", "childfail", "sigint", "sigterm"}
  /\ Pipelined \in BOOLEAN
  /\ Scripts \subseteq [Client -> Seq(Request)]
  /\ NULL \notin ExecAddr /\ NULL \notin Client
  /\ NULL \notin [of : Client \X Nat, freed : BOOLEAN]

VARIABLES
  \* memory of the server process
  connection_list, \* slot -> peer_t
  request,         \* the global pointer of http.c, with the object it points to
  execs,           \* address -> CGI_executor, live or freed
  \* control of the event loop in main
  pc,              \* next system call or handler of the pass
  cur,             \* the slot being served (variable i)
  rfds, wfds,      \* descriptors select found ready
  has_read, has_sent,
  \* the environment
  script,          \* client -> sequence of requests
  net,             \* client -> both ends of its connection, seen by the kernel
  backlog,         \* connections waiting for accept
  proc,            \* CGI child processes
  streams          \* requests whose file stream is open

peers == <<connection_list, request, execs>>
loop  == <<pc, cur, rfds, wfds, has_read, has_sent>>
world == <<script, net, backlog, proc, streams>>
vars  == <<connection_list, request, execs, pc, cur, rfds, wfds, has_read,
           has_sent, script, net, backlog, proc, streams>>

Slot == 1 .. MAX_CLIENTS
NO_SOCKET == NULL
None == <<>>

\* r is <<client, ordinal>>.
RequestOf(r) == script[r[1]][r[2]]
HasLength(q) == q.length >= 0
BodyLen(q) == IF HasLength(q) THEN q.length ELSE 0

Token(r, part, n) == [req |-> r, part |-> part, n |-> n]

Least(a, b) == IF a < b THEN a ELSE b
Take(s, n) == SubSeq(s, 1, n)
Drop(s, n) == SubSeq(s, n + 1, Len(s))

\* Slip: one token more than the capacity.
RoomAndOne(buf) == BUF_DATA_MAXSIZE + 1 - Len(buf)

Room(buf) == BUF_DATA_MAXSIZE - Len(buf)

\* Descriptors: the listening socket, the socket of a client, the server's
\* ends of the two pipes of a child.
ListenFd == <<"listen", None>>
SockFd(c) == <<"sock", <<c>> >>
StdinFd(pid) == <<"stdin", pid>>
StdoutFd(pid) == <<"stdout", pid>>

Peer(s) == connection_list[s]
Me == connection_list[cur]
Task == connection_list[cur].http_task

Connected == {s \in Slot : Peer(s).socket # NO_SOCKET}

\* The descriptors in use: sockets, the server's two ends of the pipes of every
\* child there ever was (nothing closes them), and file streams.
OpenCount ==
  Cardinality(Connected) + 2 * Cardinality({p \in DOMAIN proc : proc[p].st # "none"})
    + Cardinality(streams)
=============================================================================
