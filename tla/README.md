# A TLA+ model of the Liso HTTP server

Liso is a single-threaded HTTP/1.1 server in C: a `select` loop over at most
`MAX_CLIENTS` slots, a state machine per connection that survives between the
turns of the loop, ring buffers between the state machine and the sockets, and
CGI scripts run as child processes over two pipes. This directory holds the
specification of that program, the instances TLC checks, and proofs checked by
TLAPS. Line numbers refer to `src/src/`.

## 1. The system

| part | code | state it keeps | operations |
|---|---|---|---|
| circular buffer | message.c:8-152 | `data`, `head`, `tail`, `num_byte` | `buf_put`, `buf_get`, `buf_putback`, `buf_write`, `buf_read`, `buf_reset` |
| header reader, recognisers | http.c:312-393, parser/parse.c | `parse_buf`, `parse_buf_idx`, `header_term_token_status`; the locals `i`, `state` | `read_header_data`, `parse` |
| HTTP handler | http.c | the global `request`; one `http_task_t` per slot | `handle_http`, one branch per state |
| connections and transfers | message.c:154-535 | `connection_list` of `peer_t`, heap of `CGI_executor` | `create_peer`, `handle_new_connection`, `close_client_connection`, `receive_from_peer`, `send_to_peer`, the two pipe functions, `reset_http_task` |
| event loop | server.c:40-192 | `rfds`, `wfds`, `has_read`, `has_sent`, the loop index | `build_fd_sets`, `select`, a pass over the slots |
| request grammar | parser/lexer.l, parser.y | `Request` under construction | `yyparse` |
| start-up, daemon | server.c:253-344, utility.c | listening socket, lock file | `init_server`, `daemonize`, `start_listen_socket` |
| shutdown and signals | server.c:194-252 | every slot | `server_shutdown_properly`, `handle_signal_action` |
| echo mode, file helpers, logging | connection_handlers.c, file_handlers.c, utility.c, logger.h | none | |

How they meet. There is one thread. A pass of `main` is one `select`, at most
one `accept`, and then for every slot in turn: write to the pipe of its script,
read from the pipe of its script, `recv`, `send`, and `handle_http` if something
was read, was left over, or was sent. All coupling is through memory: the
handler moves bytes from the receiving buffer of the slot to its task and from
its task to the sending buffer; the pipe functions read the executor that the
handler made; every handler uses the one global `request`. The concurrency is
that of the surroundings (clients, kernel queues, child processes) with the
loop, and of the requests of different slots with each other, because
`handle_http` returns in the middle of a request and is resumed in a later
pass.

What is hard here:

- a request is suspended at four places (header, body, file, script) while other
  slots run the same code over the same global;
- a slot is closed in any of these states and given to another client, with
  only three of its fields initialised;
- every transfer may be partial, and the rest must go back where it came from;
- a full buffer must make its producer wait, without stopping the thread;
- two hand-written recognisers of `CR LF CR LF` have to agree, with input cut
  anywhere;
- descriptors (sockets, pipes, files) are one bounded resource, which most error
  paths do not give back, and a forked script holds copies of them;
- signals arrive between any two steps, and several instances may be started on
  the same port and with the same lock file.

What makes each part correct: the ring is a bounded FIFO queue even when bytes
are put back; a stream is cut into headers at its first terminators and loses
no byte; what a client gets is a beginning of the answers to its own requests;
slots, kernel connections and executors correspond; connections are taken in
order and refused only when the table is full; file streams are closed when their
task is done with them; every pass ends and every request of a client that goes
on reading is answered; of several instances at most one serves, and one does. The
hazards are listed, line by line, in `PROJECT.json`.

## 2. Modules

- `ByteQueue` - the abstract promise of a bounded byte queue.
- `CircularBuffer` - `cbuf_t`, one byte per step, with the three loops of its
  users: write a whole message or nothing, read everything out, put back what
  the kernel did not take. `QueueSpec` instantiates `ByteQueue` under the
  mapping *accepted <- input, delivered <- output*.
- `HeaderReader` - `read_header_data` and `parse`, one byte per step, over the
  headers of one connection and the next connections of the slot.
  `HeaderReaderProperties` states what cutting must mean, without automata.
- `ServerState` - variables and vocabulary of the server model. Bytes travel as
  *tokens*: two for a header (its beginning and the part with the terminator),
  one for a piece of a body, a file or the output of a script. A `cbuf_t` is a
  bounded sequence of tokens, which `CircularBuffer` justifies.
- `Message` - the functions of message.c on one slot.
- `Http` - `handle_http`, one action per branch of its `while`. The loop inside
  the handler is kept: `Continue` stays in the handler, `Return` goes on to the
  next slot.
- `Server` - `main`, the shutdown and its two signals, and the environment: clients
  that connect, send, read, shut down or vanish; children that read, write, exit
  or fail.
- `ServerInvariants`, `ServerProperties` - what the runs check about it: slots, tasks,
  executors and streams in the first, the bytes and the liveness in the second.
- `ConnectionTable` - the abstract server seen from its connections: a queue, and a
  status per client. `ServerInvariants!TableSpec` instantiates it under
  *queue <- backlog, status <- waiting or the kernel's view of the connection*. The slots
  do not occur in it: that they implement it is the point.
- `Responder` - the abstract server seen from its bytes: per client it only appends,
  and only answers of requests the client has sent completely, and nothing after it has
  hung up. Refused connections and a shutdown are its step `End`.
  `ServerProperties!PromiseSpec` instantiates it under *reply <- what the client has read
  and what the kernel holds for it*.
- `StartUp` - several instances that go through `init_server`, `daemonize` and
  `start_listen_socket`, one system call per step, and may be stopped at any of them. A
  server forks scripts, and these inherit its listening socket (`heirs`): when the server
  is stopped before they end, the socket goes on listening.
- `MCCircularBuffer`, `MCHeaderReader`, `MCServer`, `MCStartUp` - the instances.
- `CircularBufferProofs`, `HeaderReaderProofs`, `ServerProofs`, `ServerInputProofs`,
  `ServerRequestProofs`, `ServerAnswerProofs`, `ServerCloseProofs`, `StartUpProofs` -
  the theorems.

Correspondence worth knowing:

- `pc` names the system call or handler at which `main` stands; `cur` is its loop
  index, counted from 1. `NextSlot` is the end of the loop's body. `dead` is a process
  that has crashed, `exit` one that has called `exit`.
- The environment only moves the kernel's state, and only at a moment when the
  next thing the server does is look at it (`KernelTurn`). A move at another
  moment commutes with the server's steps up to the next such moment, so no
  behaviour of the server is left out; `select` is such a moment always.
- `request` is a record of the request it was made from and a bit saying whether
  the object has been freed; `execs` maps an address to the `CGI_executor` there.
  A pointer kept after `free` is thereby visible. What a use of freed memory
  does is undefined: the model lets it read the old contents or end the process
  (`SelectDies`, `CgiDies`, `HandlerDies`, which are choices beside the ordinary
  actions). A failed `assert` and a null dereference only end the process.
- Descriptors are counted, not numbered: `OpenCount` is sockets, two pipe ends for every
  child there ever was (message.c:515-535 frees the executor and closes no pipe) and
  the open file streams (`streams`). At `OPEN_MAX`, `accept` fails and the connection goes
  on waiting, `fopen` fails and the answer is 500, `pipe` fails and its assert ends
  the process.
- A child that is forked while other connections are open keeps a copy of their sockets
  (`holds`): `close` in the server does not end such a connection for its client before
  the child ends (`SeeEnd`).
- `SIGINT` runs `server_shutdown_properly` between any two steps. `SIGTERM` has the same
  handler, whose `if` does not name it: it does nothing, except that a `select` that is
  blocked at that moment fails, and then `main` shuts down. At any other moment it is
  lost.
- `RUN_AS_DAEMON` is a compile-time constant that is false in this tree; `StartUp`
  chooses it, so that both builds are covered.
- `own` in a task and `stopped` in `StartUp` are history variables: the request that the
  task has parsed; the instances that somebody has stopped.
- The operators commented *Slip* beside a definition are plausible mistakes in
  it; no specification uses them. Each property is known to fail when the slip
  paired with it in `PROJECT.json` takes the definition's place.

## 3. Runs

| run | instance | what it shows |
|---|---|---|
| `circular_buffer` | 3 cells, 2 byte values, 5 bytes accepted between two resets | the ring is a queue; the loops' asserts hold and the loops end |
| `header_reader` | bytes CR, LF, other; streams of 9; `parse_buf` of 7 | every stream is cut at its first terminators; the recognisers cut at the same place; parse refuses only headers with a doubled CR |
| `server_isolation` | 3 symmetric clients, 2 slots, each asking for a file or (at most one) sending a malformed header, and vanishing at any moment | slots and connections correspond; the next client of a slot inherits nothing; nobody gets another's bytes; nobody is closed without a reason; both abstract servers are implemented |
| `server_one` | a steady client with ten pairs of requests (each kind of answer first and second), a file and an output of 6 and a body of 3 in buffers of 5 and kernel queues of 3; a refused request; a body too large; a second client that may stop anywhere, one whose script holds a copy of the first's socket | the answers come whole, in order and in the end; the script gets its body whole or not at all; a slot has an executor exactly while its task waits for one; the handler's asserts hold; every pass ends |
| `server_faults` | 2 clients, 2 slots, 7 descriptors, vanishing, shutdown, dying scripts, bodies left unread, a directory, six HEAD requests in a row, a file asked for in a slot that still points to the executor of a dead script, interleaved handlers of two slots, reused freed memory, both signals at any moment | types and capacities, the handler's asserts, the slot bookkeeping and the streams survive all of it, until the process dies; connections are taken and refused as `ConnectionTable` says |
| `start_up` | 3 instances, with and without daemon, one of them possibly with a wrong folder, an empty or an unset lock file; any of them stopped at any call, scripts left behind | at most one serves, and never beside the socket of a stopped one; the lock file is its holder's while it is held; an instance that finds no other, and no script of an earlier one, leads to a server |
| `shared_request` ... `one_byte` | one scenario each | the six disagreements of section 6 |

Why these bounds. A ring of 3 cells wraps twice within 5 bytes, with head before,
at and behind tail. A stream of 9 bytes holds two terminators, one that
overlaps a failed beginning of another, and a header that is too long. In the
server the smallest capacity is chosen so that a header and its blank line
fit together with something else: files, outputs and bodies are longer than a
buffer or than a kernel queue, so everything is cut in several ways. Two slots are
enough for one to run between two turns of another; the third client meets a
full table and later a used slot. Seven descriptors are two sockets and the streams of
five HEAD requests, so the sixth request and the second client meet the limit, and two
children exhaust it as well. In `start_up` the process numbers are of two lengths, for the
lock file is overwritten and not truncated; three instances are one that serves or lingers,
and two that race. The bounds of the model, none in the code, are
`MaxBytes`, `NetCap` (the real socket queues are larger than the 8192 bytes of a
`cbuf_t`; here they are smaller, so that partial sends occur), `FileLen`, `CgiLen`,
that an instance is started once, and the finite `Scripts`. Clients wait for an answer
before they send the next request unless `Pipelined`; in `header_cut` they do not wait.

The premises of a passing run are real limits of the code, not conveniences:
`server_isolation` has requests that are finished in the turn that parsed them,
because the others meet the shared `request` (finding 1); requests with
`Connection: Close` are in the runs of findings 4 and 5 and in `server_faults`.
`server_one` has no client that leaves while its script runs (finding 2); a request whose
body is larger than `cgi_buffer` is in it, but `EveryRequestAnswered` does not promise its
answer (`Due`), for the body is thrown away (http.c:852) and the script waits for it.
Scripts print a fixed output, and only its first part when they are asked with HEAD
(`OutputLen`); they read as much as `CONTENT_LENGTH` says and end. One that never ends keeps
the connections whose sockets it holds open for ever, so `EveryRequestAnswered`, which says
that a client whose request was refused sees the end of its connection, is about scripts that end.

Deadlock is not checked in the server runs, in `header_reader` and in `start_up`: a server
without connections waits in `select` for ever, a silent connection waits, and a
process that has died does nothing. `circular_buffer` checks it.

Fairness. `WF(LoopStep)` for the loops of the ring: a C loop that was entered runs.
For the server `WF(ServerStep)`: one thread that nobody suspends. Clients in
`Steady` get strong fairness on connecting, sending and reading, and all
children on reading, writing and exiting; strong, because `KernelTurn` makes their
steps possible again and again instead of continuously. In the continuous time of
the kernel it is what weak fairness says. Nothing is assumed about other clients.
In particular nothing is assumed about how fast a client is, and the server is never
promised that a client reads. In `StartUp`, `WF(Step(i))` for each instance: a process that
was started goes on. Nobody has to start or stop one.

## 4. Proofs

TLAPS checks, for every value of the constants:

- `CircularBufferProofs`: `TypeCorrect`, `FifoCorrect`, `RingCorrect`, `ConservationHolds`,
  `LoopsNeverFailHolds` and `ImplementsQueue` (`Spec => QueueSpec`), for every
  capacity, every set of bytes and every bound on the history. Assumption:
  `BUF_DATA_MAXSIZE` is a positive natural number (`BufferAssumption`).
- `HeaderReaderProofs`: `TypeCorrect`, `StatusCorrect`, `FirstTerminatorCorrect`,
  `ParseAgreement`, `ParseRefusal`, `ConservationCorrect`, for every set of bytes that has CR and
  LF and every size of `parse_buf` (`ReaderAssumption`).
- `ServerProofs`: `SlotsCorrect`, `AssertsHold`, `ImplementsTable` (`Spec => TableSpec`),
  `TypeCorrect` (`ServerInvariants!TypeOK`: every buffer within its capacity) and
  `StreamsHold` (`StreamsAccounted`), for any set of clients, any number of slots, any
  scripts, capacities and faults (`StateAssumption`: at least one slot, buffers of at least
  four tokens, well-formed requests, and `NULL` is neither a client, nor an address, nor a
  pointer to a request).
- `ServerInputProofs`: `InputHolds`, what the clients say reaches their tasks in order,
  under the same assumption and for any scripts and faults.
- `ServerRequestProofs`: `SlotsEmptied` (`FreeSlotsAreEmpty`) and `BodiesWhole`
  (`ChildInputWhole`). Each of these has a premise about what the clients may ask, because
  without it the code breaks the property; for any number of clients and slots and any
  faults otherwise.
- `ServerAnswerProofs`: `AnswersOrdered` (`Spec /\ []Enough => [](Orderly(script) =>
  AnswersInOrder)`) and `KeepsPromise` (`Spec /\ []Enough /\ Orderly(script) /\
  Posted(script) => PromiseSpec`): what a client has got is a beginning of the answers to
  its own requests, in their order, whatever is cut by buffers and kernel queues, for any
  number of clients and slots, any lengths and any faults. `Orderly` says that a client
  waits for an answer before it asks again, that nobody asks for a script, and that the
  global request cannot be taken by another slot; `Enough` that a descriptor is left when a
  file is opened; `Posted` that only a `POST` has a body. `RequestKept` (`Spec /\ []Enough =>
  [](OneTurn(script) => RequestIsOwn)`) is about any number of slots that share the global
  request: the handler finds there the request of its own task. `OneTurn` says that no
  request has a script or a body to wait for, that an answer fits into a sending buffer and
  that a client waits for it; `server_isolation` is its small instance.
- `ServerCloseProofs`: `ClosesDue` (`NoUndueClose`) under these premises and `Undisturbed`
  (no signal reaches the server, and no `recv` of one byte is taken for a failure): the
  server closes a connection only for a reason that the client has given, whatever else the
  clients and the kernel do. `ExecutorsMatch` (`ExecutorMatchesTask`) is about the clients
  that do ask for scripts: a slot has an executor exactly while its task waits for a script,
  live and for the slot's own request, under `Attended` (nobody leaves, no script dies and no
  signal comes; the requests for scripts leave the connection open, and what follows them
  fits the receiving buffer).
- `StartUpProofs`: `OneServerHolds`, `ListenerIsServer` (`NoDeadListener`) and
  `LockFileHolds`, for any set of instances, process numbers and configurations
  (`StartUpAssumption`).

The argument for the ring. `FifoOrder` is not inductive: a putback makes bytes
readable again that `buf_get` has passed, so it depends on cells which are, by the
indices, free. `RingInv` says that byte number `p` of the history lives in cell
`(p - 1) % BUF_DATA_MAXSIZE` for every undelivered byte, those inside the temporary
array included, and that these never exceed the capacity, so no `buf_put` can
overwrite them. `IInv == TypeOK /\ FifoOrder /\ RingInv` is inductive; its steps
rest on lemmas about remainders (`ModStep`, `ModNext`, `ModDistinct`, `ModShift`) and
on one lemma for each ring operation (`PutKeeps`, `GetKeeps`, `PutbackKeeps`). The
refinement uses it: `Put` and `WriteByte` are `Accept`, `Get` and `Sent` are
`Deliver`, `Reset` is `Clear`, everything else is a stutter.

The argument for the reader. The status of `read_header_data` is the *longest*
match of the terminator with the end of what was collected; `StatusStep` shows that
one byte takes longest matches to longest matches, from how matches of different
lengths exclude or imply each other (`ExtendMatch`, `ShorterMatches`). The `state`
of `parse` is only *a* match (`StateIsMatch`), and since only one terminator ends
inside `parse_buf`, at its end (`StopsAtTerminator`), a match of length four can
only be that one. `ParseRefusal` needs more: without a doubled CR the state of
`parse` is the longest match too (`StateIsLongest`), for the two recognisers only
differ on a CR that follows a CR.

The argument for the server. `SlotsMatchConnections` alone is not inductive: `accept`
would be free to hand out a connection that a slot already holds. `BacklogInv` says
that what waits for `accept` is there once and was never accepted, and `AcceptInv`
that `main` only calls `accept` when `select` saw something to accept. The steps fall
into three kinds: those that leave sockets and connections alone (`SameKeeps`,
`TouchesKeeps`), those that close the current slot (`ClosesKeeps`), and `Accept` and
`Shutdown`. `TaskInv` says of every task, resumed or not, what its state implies for its
other fields; it is what the asserts read, stated for all slots instead of the current one.
`IInv == SlotInv /\ TaskInv` is inductive.

The argument for the table. The abstract server counts open connections, the code looks
for a free slot. `OpenCounted` closes the gap: by `SlotsMatchConnections` the sockets of the
slots are a bijection between the occupied slots and the open connections, so there are
`MAX_CLIENTS` of these exactly when no slot is free. With it every action of the server
is one of the table or a stutter: `Accept` is `Admit`, `Refuse` or, when `accept` fails,
nothing; every way of closing is `Release`; `Connect` is `Arrive`; both signals are
`Shutdown`.

The argument for types and streams. `Full == IInv /\ Typed /\ Resting /\ StreamInv` is
inductive. `Typed` says of each state of a task what its buffers hold: `response_buf` is
empty until the header is generated, has at most two tokens while it is, and at most four
after; `post_body` never exceeds what is announced; what a slot has received is its
client's, and a free slot has received nothing. A stream is that of a `HEAD` request, or of
a connection that is over, or has a task that sends it (`StreamInv`). The last does not
hold by itself: a freed executor that a slot still points to may report the end of a
script, and the code then sets the state of whatever task the slot has now to
`FINISHED_STATE` (message.c:352), which would leave its file open. `Resting` excludes
it: outside the handler a task is only in the middle of a file when its sending buffer
is full, and then the pipe of a script is not read.

The argument for the input. `InputInv` follows the tokens of a client through the kernel's
queue, the receiving buffer and `parse_buf`: what lies there, read one after the other, is a
run of consecutive tokens of its script (`InOrder`) that ends where the client goes on
(`Flow`), and the task in between has taken exactly what lies before it (`Taking`). A client
that has vanished leaves a gap, since the kernel throws away what it holds, so the run need not
end at the client's place then (`Certain`). No script has been started for a request whose
header is still unread (`NotStarted`), which is why a child's input begins empty. The lemmas
are about runs: what a run is after one token more, after a beginning of it is taken
away, and where the next token of a run is.

The argument for the request. `NextKind` sorts every step of the server into eight kinds, by
what it does to a task, to `cgi_executor` and to the global `request`; the invariants are
then proved kind by kind instead of action by action. The premises are those of the code:

- `RequestIsOwn` needs that a request is finished in the turn of the handler that has parsed
  it (`OneTurn`), because every slot that parses a header replaces the one global request.
  With two slots a big file rests in `SEND_BODY_STATE` while the handler of another slot
  replaces the request, and `FINISHED_STATE` then frees a request that is not its own
  (`shared_request`). `TurnInv` says that only the slot whose turn it is can have left
  `RECV_HEADER_STATE`, and only while the handler runs, that the global request is then
  its own, and that the answer has all of the sending buffer to go into
  (`Brief`). That this holds when a turn begins depends on the clients: one that has read the
  whole of its last answer has nothing left in its sending buffer (`GoesOnNext`, from
  `AnswerInv`), and it says no more than its next request (`Late`), so what the task
  finds behind the header is nothing. The lemma `RequestAlone` (`ServerRequestProofs`) adds
  the case without sharing, where a request may take any number of turns: one client that
  asks anything, or one slot and no scripts (`NeverInherits`); with one slot and scripts the
  next client inherits an executor, whose EOF sets the new task to `FINISHED_STATE` before it
  has parsed anything (`executor_reuse`).
- `ChildInputWhole` needs one connection at a time, or no body to wait for (`Unshared`), for
  the length of the body is read from the global request. Slots that inherit an executor are
  no exception to it: `ExecInv` says that what a child has read, its pipe and `cgi_buffer` make up
  the body, that a freed executor has nothing left and that no two live ones feed one child. The body itself is
  the one that was announced because of `InputInv`.
- `FreeSlotsAreEmpty` needs that no script is asked for (`NoScripts`), for a free slot with
  an executor is still drained into its sending buffer.

The argument for the answers. `AnswersInOrder` speaks of what has left the server, and says
nothing about what is still to come; so it is not inductive. `AnswerInv` says of every
occupied slot that what its client has got, what the kernel holds for it, the sending buffer
and what the state of its task still has to produce are, one after the other, the answers
up to the request it is at (`Owes`, `Settles`): nothing in
`RECV_HEADER_STATE`, the rest of the file in `SEND_BODY_STATE`, everything after the status
line while the header is generated (`Pays`). A client that waits (`Waits`) has nothing in
the receiving buffer while its answer is under way, and a slot that
minds a request has the one that `InputInv` says it has (`Minds`). Each step of the handler
moves tokens from what is owed to the buffer and each `send` from the buffer to the
kernel, so the whole does not change; only the step that parses a header extends it, by one
answer. What a list of answers is up to a request, and that a beginning of one is
a beginning of a longer one, are lemmas of their own (`UpToGrows`, `Climb`); they need
induction, which is done with the least element of a set of naturals (`LeastOf`).

The argument for the promise. `KeepsPromise` needs, beside what a client gets, that no
answer comes too early. `AtRequest`, a part of `AnswerInv`, says that what a task reads next,
unless it waits for a body, is the beginning of a request. So when an answer is under way its
request has been sent completely, and all that lies in the sending buffer belongs to
such requests (`TotalAsked`); by `UpToMonotone` it is a beginning of what the client is to
have. With this every step is `Ask`, `Open`, `Answer`, `End` or `Leave` of `Responder`, or a
stutter (`PromiseStep`): a `send` is `Answer`, and so is every way of closing one slot; `accept`
is `Open`, and both signals and a refused connection are `End`.

The argument for hanging up. `NoUndueClose` looks at connections that are closed already, so
`WelcomeInv` says of the slots of clients that have given no reason (`Excused`) that nothing
in them is about to make the server close (`Lasting`), and that between two turns they
rest: an empty receiving buffer, no task in `FINISHED_STATE` (`Rested`). Four
ways of closing have to be excluded. `recv` returns 0 also when there is no room to receive
into, so the receiving buffer must be empty whenever `select` has reported the socket; that is
so because the handler runs after each `recv` and reads all it can, and what it
leaves behind a request does not exist: while an answer is under way its client has
not heard the end of it, and hence has not sent more (`HasHeard`, `NothingUnread`, from
`AnswerInv`). `recv` must find something, so a socket that `select` has reported stays
readable until its slot's turn, and a socket that is accepted after `select` is not taken for the
one that had its number (`Heralds`). `parse` refuses a header only if the client wrote
it badly: a header that came in pieces consists of the first two tokens of one request
(`HeaderFirst`, `SecondEnds`, `RefusedExcused`). And a task that sends a directory is that of a
request for one (`OwnFile`).

The premises are again those of the code. Without `Undisturbed` the run `one_byte` breaks
`NoUndueClose`, and a signal closes every connection. Without `Orderly` the runs of findings 1, 2, 3 and 5
break the property. `[]Enough` cannot be had from a bound on clients, for streams of connections that
have ended stay open: after enough of them `fopen` fails and the answer to a file is
200 and then 500. Without `Posted` a request with an unknown method and a body breaks
`PromiseSpec`: http.c answers it by 501 before it reads the body, so the answered request has
not been sent completely. The proofs found three definitions that could not be reasoned about:
`Answer`, what a request is answered with, and `Link` of the refinement mapping had a CASE whose
guards overlapped, of which TLC takes the first and TLA+ says nothing, and their cases are
disjoint now; `Responder` had no step in which a shutdown ends several connections at once.

The argument for the scripts. `ExecutorMatchesTask` breaks as soon as a slot is given up while
its script runs, because `close_client_connection` frees the executor and leaves the pointer and
the task in the slot. So the invariant (`Tended`) has to exclude, for a slot with a script, every
call of it. `recv` must not return 0: select has reported the socket for bytes that are still
there (`AwaitedInv`), and there is room for them, since all that lies behind a request for a
script is one request that fits (`LeavesRoom`). That it is one request only is the long part: the
client sends the next one after it has seen a token of the answer (`Patient`), and `EchoInv` says
of every token on its way to a client, and of those it has read, that it is about a request which
came before the one that the task reads next (`Told`, `Follows`), so that no client is told of an
answer in advance. `send` must not close: `close_conn` is only set for a request that says so,
and the task remembers what its own request says (`KeepingInv`, with `OwnInv` for the
global request that decides whether there is a script). The pipe must not break: a script
that is done has read all it was given, so its executor has nothing left to write (`Drained`, from
`ExecInv` and the length of the body). With these an executor is freed at the end of its output
only, by the slot that points to it (`KeepsClient`, `ExecsSpared`, `TwoExecutors`), and
`EngagedInv`, which is `ExecutorMatchesTask` with what its steps need, is kept.

The premises are those of the code here too. A client that leaves, a script that dies and
`Connection: close` end the connection under the script (`server_faults`, `executor_reuse`,
`cgi_cut`). A body larger than the receiving buffer that is sent after the script's first output
fills that buffer while the task waits, and `recv` into no room returns 0.

The argument for the start. The control point of an instance, and whether it has left
scripts behind, tell the state of its socket (`SockInv`); the control point also tells whether
it holds the lock (`LockInv`). Two sockets never listen, because
`listen` fails for the second: that, not the lock, is what makes `OneServer` inductive.
`OverwriteKeepsNew` is the lemma about a write at the beginning of a file that is not
truncated.

Only model-checked: the liveness properties (liveness under fairness is outside the
prover) and the violations. Every safety invariant and every refinement that a run checks is
stated by a theorem, some of them under the premises above; outside these premises, where a
run has such an instance, it is TLC's result alone.

## 5. Not modelled

- The grammar (generated code): a request parses or it does not, and the verdict is
  part of the request the client sends. `200`, `400`, `505` distinctions inside the
  grammar do not exist in the handler: a refused header closes the connection.
- Echo mode: compiled out by `IS_HTTP_SERVER`. The file helpers beyond what they say of
  a path, logging, the CGI application, certificates and build files.
- Formatting of header lines, MIME types and dates, and the way a URI becomes a path
  (`make_full_path`, http.c:907): abstracted to one token per part and to what the path
  turns out to be (a file, a directory, missing, not readable, a script).
- `fork` that fails (an assert ends the process, as it does for `pipe`), `pipe` that
  fails for another reason than descriptors, and errors of `select` other than `EINTR`. The
  branches on exceptional descriptors (server.c:93, server.c:159-167) are dead: only the
  listening socket is in that set, and it has no exceptional condition.
- Pipes to and from scripts have no capacity here: the 64 KiB of Linux hold a whole
  `cgi_buffer`, so the server never waits for them; that a script waits on a full
  stdout pipe is only a slower script. An error of `read` on the stdout pipe
  (message.c:344-347) is left out: the descriptor is open and its buffer is valid.
- A script that closes its stdin and goes on running. The server would then see one pipe broken
  and the other still open; in the model (`ChildFails`) both end together.
- Zombies (without a daemon nothing waits for children), and executor fields that are
  never read.

## 6. Where the code and what it says disagree

Each has a run that TLC ends with a counterexample (`expect: violation`):

1. `shared_request` - the request being answered is a global (http.c:63); a POST
   that waits for its body goes on with a freed request of another client.
2. `executor_reuse` - `close_client_connection` frees the executor and keeps the
   pointer (message.c:533); the next client of the slot runs into the assert of
   http.c:841, if `main` has not read freed memory before.
3. `header_cut` - a response header that does not fit is cut, not resumed
   (http.c:185 tests for a value that http.c:509 does not return).
4. `last_request` - `Connection: Close` is forgotten for static answers
   (http.c:296-298).
5. `cgi_cut` - with `Connection: Close` the output of a script is cut after the
   first part that is flushed (message.c:464).
6. `one_byte` - a `recv` of one byte counts as a failure (message.c:403).

Seen while modelling, present in the model, not stated by a run of their own:
the EOF of `fgetc` is appended to a file (http.c:643); a static POST is answered
by a status line without a blank line (http.c:408-412); a file that cannot be
opened is answered by 200 and then 500 (http.c:625-628); a script that fails gives no
500 (README:42), the connection is closed; a header longer than 8192 bytes gets no
error message (README:98-99, http.c:87-88); a full receiving buffer looks like a
shutdown (message.c:385); a client that shuts down its sending side loses its answers
(message.c:398); a dangling executor can still be drained into the sending buffer of
a free slot, so `FreeSlotsAreEmpty` is no property of `server_faults`; a body larger
than `cgi_buffer` is not delivered at all, and its request never answered (http.c:852);
streams of HEAD requests and of connections that end before the end of the file, and all
pipe ends, stay open until nothing can be opened any more (`StreamsAccounted` lists the
streams, `OpenCount` counts them); `SIGTERM` is lost unless `select` is blocked.

About the start: "only first instance continues" (server.c:332) is not what the lock does,
for `close` gives it back right after the number is written (server.c:336), and a POSIX lock
of a process does not survive that; the second instance ends because it cannot bind or
listen. The lock file is opened without `O_TRUNC`, so the end of an older, longer
number can follow the newline of a shorter one. With fewer than eight arguments `lock_file` is read
uninitialised when the server is built as a daemon (server.c:266): the model lets the process
end there.

A script inherits the listening socket (nothing closes it before `execve`, http.c:869-888, and it
is not `FD_CLOEXEC`). So a server that is stopped while a script runs leaves a port behind that
listens and is never accepted from: clients connect to nobody, and the next
instance fails in `bind` (utility.c:29), `SO_REUSEADDR` or not, until the script has ended.
`SomeoneServes` is about instances that find no such script; that none ever serves beside such a
socket is `NoDeadListener`.

A connected socket is always in the write set, so `select` never blocks while a
connected client has room; the thread then spins.

## 7. Plan

Order of the work: the ring and its queue; the header reader; the server, first one
slot, then isolation between slots, then faults, then liveness; the disagreements; the
descriptors, the signals and the start; the two abstract servers; the proofs of the
byte-level components, of the slots, of their types and streams, of the table, of
the start, of the input, of the request, of the answers, of the promise, of the turns, of
hanging up and of the scripts. This is done.
What is left:

1. Path handling (`make_full_path`, `remove_redundancy_from_uri`) as pure operators,
   compared with a reference definition.
