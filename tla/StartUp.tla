------------------------------- MODULE StartUp -------------------------------
(***************************************************************************)
(* init_server, daemonize and start_listen_socket: instances of the server *)
(* that are started on the same port and with the same lock file, one      *)
(* system call per step, and that may be stopped at any moment.            *)
(***************************************************************************)
EXTENDS Integers, Sequences

CONSTANTS
  Instance,  \* processes that may be started, each once
  Pid,       \* instance -> what it records: the digits of its process number, a newline
  Configs,   \* the possible values of config
  None       \* no instance

ASSUME StartUpAssumption ==
  /\ None \notin Instance
  /\ Pid \in [Instance -> Seq(Nat)]

VARIABLES
  RUN_AS_DAEMON, \* compiled in or not
  config,        \* instance -> the folder exists; the lock file argument
  pc,            \* instance -> the next system call
  holder,        \* the instance that holds the lock of the lock file
  lockfile,      \* content of the lock file
  sock,          \* instance -> state of its listening socket
  heirs,         \* instances of which a script is running, with a copy of the socket
  lingering,     \* connections of an earlier server linger in the kernel
  stopped        \* history: the instances that were stopped from outside

vars == <<RUN_AS_DAEMON, config, pc, holder, lockfile, sock, heirs, lingering, stopped>>

Init ==
  /\ RUN_AS_DAEMON \in BOOLEAN
  /\ config \in Configs
  /\ pc = [i \in Instance |-> "off"]
  /\ holder = None
  /\ lockfile = <<>>
  /\ sock = [i \in Instance |-> "none"]
  /\ heirs = {}
  /\ lingering = FALSE
  /\ stopped = {}

At(i, l) == pc[i] = l
GoTo(i, l) ==
  pc' = [pc EXCEPT ![i] = l] /\ UNCHANGED <<RUN_AS_DAEMON, config, heirs, stopped>>

\* The kernel takes back what a process holds that has not served yet.
Exit(i) ==
  /\ GoTo(i, "ended")
  /\ holder' = IF holder = i THEN None ELSE holder
  /\ sock' = [sock EXCEPT ![i] = "none"]
  /\ UNCHANGED <<lockfile, lingering>>

Resources == <<holder, lockfile, sock, lingering>>
-----------------------------------------------------------------------------
Start(i) == At(i, "off") /\ GoTo(i, "init_server") /\ UNCHANGED Resources

\* The folder is checked; without a daemon only the signals are set up.
InitServer(i) ==
  /\ At(i, "init_server")
  /\ config[i].www
  /\ GoTo(i, IF RUN_AS_DAEMON THEN "daemonize" ELSE "bind")
  /\ UNCHANGED Resources

\* daemonize up to the fork.  With too few arguments lock_file is read before
\* it is set: the process crashes, or finds what looks like an empty name.
Daemonize(i) ==
  /\ At(i, "daemonize")
  /\ config[i].lock = "path"
  /\ GoTo(i, "lockf")
  /\ UNCHANGED Resources

GiveUp(i) ==
  /\ \/ At(i, "init_server") /\ ~config[i].www
     \/ At(i, "daemonize") /\ config[i].lock \in {"empty", "unset"}
  /\ Exit(i)

\* Slip: the lock is not asked for.
LockUnasked(i) ==
  /\ At(i, "lockf")
  /\ GoTo(i, "write")
  /\ holder' = i
  /\ UNCHANGED <<lockfile, sock, lingering>>

Lock(i) ==
  /\ At(i, "lockf")
  /\ \/ holder = None /\ GoTo(i, "write") /\ holder' = i
        /\ UNCHANGED <<lockfile, sock, lingering>>
     \/ holder # None /\ Exit(i)

\* What a write at the beginning of a file leaves in it: nothing is truncated.
Overwrite(new, old) == new \o SubSeq(old, Len(new) + 1, Len(old))

WritePid(i) ==
  /\ At(i, "write")
  /\ lockfile' = Overwrite(Pid[i], lockfile)
  /\ GoTo(i, "close")
  /\ UNCHANGED <<holder, sock, lingering>>

\* close releases the lock, long before the instance ends.
CloseLock(i) ==
  /\ At(i, "close")
  /\ holder' = None
  /\ GoTo(i, "bind")
  /\ UNCHANGED <<lockfile, sock, lingering>>
-----------------------------------------------------------------------------
(* start_listen_socket                                                     *)

Others(i, s) == {j \in Instance \ {i} : sock[j] = s}

\* Slip: no SO_REUSEADDR, so that lingering connections keep the port.
BindWithoutReuse(i) ==
  /\ At(i, "bind")
  /\ \/ /\ Others(i, "listen") = {} /\ ~lingering
        /\ sock' = [sock EXCEPT ![i] = "bound"]
        /\ GoTo(i, "listen")
        /\ UNCHANGED <<holder, lockfile, lingering>>
     \/ Others(i, "listen") \cup Others(i, "bound") # {} /\ Exit(i)
     \/ lingering /\ Exit(i)

\* SO_REUSEADDR: bind fails when another socket listens on the port; when one
\* is bound there that does not listen yet, kernels differ.
Bind(i) ==
  /\ At(i, "bind")
  /\ \/ /\ Others(i, "listen") = {}
        /\ sock' = [sock EXCEPT ![i] = "bound"]
        /\ GoTo(i, "listen")
        /\ UNCHANGED <<holder, lockfile, lingering>>
     \/ Others(i, "listen") \cup Others(i, "bound") # {} /\ Exit(i)

\* Slip: the result of listen is not looked at.
ListenUnchecked(i) ==
  /\ At(i, "listen")
  /\ sock' = [sock EXCEPT ![i] = IF Others(i, "listen") = {} THEN "listen" ELSE @]
  /\ GoTo(i, "serve")
  /\ UNCHANGED <<holder, lockfile, lingering>>

\* listen fails when another socket has come first.
Listen(i) ==
  /\ At(i, "listen")
  /\ \/ /\ Others(i, "listen") = {}
        /\ sock' = [sock EXCEPT ![i] = "listen"]
        /\ GoTo(i, "serve")
        /\ UNCHANGED <<holder, lockfile, lingering>>
     \/ Others(i, "listen") # {} /\ Exit(i)

Step(i) ==
  \/ InitServer(i) \/ Daemonize(i) \/ GiveUp(i)
  \/ Lock(i) \/ WritePid(i) \/ CloseLock(i)
  \/ Bind(i) \/ Listen(i)

-----------------------------------------------------------------------------
(* The scripts of a server, and its end.                                   *)

\* A server forks its scripts, and nothing closes the listening socket in them,
\* before execve or on it.
Fork(i) ==
  /\ At(i, "serve") /\ i \notin heirs
  /\ heirs' = heirs \cup {i}
  /\ UNCHANGED <<RUN_AS_DAEMON, config, pc, Resources, stopped>>

\* The instance is killed or shut down, or a call fails for lack of a resource
\* and it exits.  The connections of a server linger, and while one of its
\* scripts runs its socket goes on listening.
Stop(i) ==
  /\ pc[i] \notin {"off", "ended"}
  /\ pc' = [pc EXCEPT ![i] = "ended"]
  /\ holder' = IF holder = i THEN None ELSE holder
  /\ sock' = IF i \in heirs THEN sock ELSE [sock EXCEPT ![i] = "none"]
  /\ lingering' = (lingering \/ At(i, "serve"))
  /\ stopped' = stopped \cup {i}
  /\ UNCHANGED <<RUN_AS_DAEMON, config, heirs, lockfile>>

\* The last script of the server has ended.
ScriptsEnd(i) ==
  /\ i \in heirs
  /\ heirs' = heirs \ {i}
  /\ sock' = IF At(i, "ended") THEN [sock EXCEPT ![i] = "none"] ELSE sock
  /\ UNCHANGED <<RUN_AS_DAEMON, config, pc, holder, lockfile, lingering, stopped>>

Next ==
  \E i \in Instance : Start(i) \/ Step(i) \/ Fork(i) \/ Stop(i) \/ ScriptsEnd(i)

Spec == Init /\ [][Next]_vars

\* An instance that was started goes on; nobody has to start one or to stop it,
\* and a script need not end.
FairSpec == Spec /\ \A i \in Instance : WF_vars(Step(i))
-----------------------------------------------------------------------------
Serving == {i \in Instance : At(i, "serve")}

TypeOK ==
  /\ RUN_AS_DAEMON \in BOOLEAN
  /\ pc \in [Instance -> {"off", "init_server", "daemonize", "lockf", "write", "close",
                          "bind", "listen", "serve", "ended"}]
  /\ holder \in Instance \cup {None}
  /\ lockfile \in Seq(Nat)
  /\ sock \in [Instance -> {"none", "bound", "listen"}]
  /\ heirs \subseteq Instance
  /\ lingering \in BOOLEAN
  /\ stopped \subseteq Instance

\* However many instances are started at once, at most one of them serves,
\* with or without the lock file: it is the port that decides, and the results
\* of bind and listen are looked at (utility.c:29, utility.c:38).
OneServer == \A i, j \in Serving : i = j

\* While an instance holds the lock it has written its number under, the lock
\* file begins with that number: no other instance writes in between
\* (server.c:335: "record pid to lockfile").
LockFileIsHolders ==
  \A i \in Instance : At(i, "close") =>
    holder = i /\ SubSeq(lockfile, 1, Len(Pid[i])) = Pid[i]

Ready(i) ==
  config[i].www /\ (RUN_AS_DAEMON => config[i].lock = "path")

\* No instance serves while another socket listens on its port from which nobody
\* accepts, that of a stopped server whose script has inherited it (http.c:869-888
\* closes pipe ends only): the kernel would give that socket a part of the clients.
NoDeadListener ==
  \A i \in heirs : At(i, "ended") => Serving = {}

\* An instance that finds no other one alive, and no script of an earlier one, and is
\* well configured leads to a server, unless somebody is stopped from outside:
\* instances that start at the same time do not all give way to each other, and
\* the connections of a server that was stopped do not keep the next one away.
SomeoneServes ==
  \A i \in Instance, K \in SUBSET Instance :
    (/\ At(i, "init_server") /\ Ready(i) /\ stopped = K
     /\ \A j \in Instance \ {i} : (At(j, "off") \/ At(j, "ended")) /\ j \notin heirs)
      ~> (Serving # {} \/ stopped # K)
=============================================================================
