---------------------------- MODULE StartUpProofs ----------------------------
(***************************************************************************)
(* For any number of instances, any process numbers and any configuration: *)
(* one server at most, no other listener beside it, and an undisturbed     *)
(* lock file.                                                              *)
(***************************************************************************)
EXTENDS StartUp, TLAPS

\* The control point of an instance tells what it holds.
SockInv ==
  /\ \A i \in Instance : sock[i] = "bound" <=> pc[i] = "listen"
  /\ \A i \in Instance : sock[i] = "listen" <=> pc[i] = "serve" \/ i \in heirs
  /\ \A i \in heirs : pc[i] \in {"serve", "ended"}
  /\ \A i, j \in Instance : sock[i] = "listen" /\ sock[j] = "listen" => i = j

LockInv ==
  \A i \in Instance : pc[i] \in {"write", "close"} <=> holder = i

IInv == TypeOK /\ SockInv /\ LockInv /\ LockFileIsHolders

\* A number that is written at the beginning of a file is read back there,
\* whatever the file held (server.c:335).
LEMMA OverwriteKeepsNew ==
  ASSUME NEW new \in Seq(Nat), NEW old \in Seq(Nat)
  PROVE  /\ Overwrite(new, old) \in Seq(Nat)
         /\ SubSeq(Overwrite(new, old), 1, Len(new)) = new
<1> DEFINE rest == SubSeq(old, Len(new) + 1, Len(old))
<1>1. rest \in Seq(Nat) BY Len(new) + 1 \in Nat, Len(old) \in Nat
<1>2. new \o rest \in Seq(Nat) BY <1>1
<1>3. SubSeq(new \o rest, 1, Len(new)) = new BY <1>1
<1> QED BY <1>2, <1>3 DEF Overwrite

LEMMA InitHolds == ASSUME Init PROVE IInv
<1>1. TypeOK
  <2>1. lockfile \in Seq(Nat) BY DEF Init
  <2>2. holder \in Instance \cup {None} BY DEF Init
  <2>3. /\ pc \in [Instance -> {"off", "init_server", "daemonize", "lockf", "write",
                               "close", "bind", "listen", "serve", "ended"}]
        /\ sock \in [Instance -> {"none", "bound", "listen"}]
    BY DEF Init
  <2>4. /\ RUN_AS_DAEMON \in BOOLEAN /\ lingering \in BOOLEAN
        /\ stopped \subseteq Instance /\ heirs \subseteq Instance
    BY DEF Init
  <2> QED BY <2>1, <2>2, <2>3, <2>4 DEF TypeOK
<1>2. SockInv BY DEF Init, SockInv
<1>3. LockInv BY StartUpAssumption DEF Init, LockInv
<1>4. LockFileIsHolders BY DEF Init, LockFileIsHolders, At
<1> QED BY <1>1, <1>2, <1>3, <1>4 DEF IInv

\* An instance that ends and has no script gives everything back.
LEMMA ExitKeeps ==
  ASSUME IInv, NEW i \in Instance, i \notin heirs, pc' = [pc EXCEPT ![i] = "ended"],
         holder' = IF holder = i THEN None ELSE holder,
         sock' = [sock EXCEPT ![i] = "none"],
         lingering' \in BOOLEAN, stopped' \subseteq Instance,
         UNCHANGED <<RUN_AS_DAEMON, config, heirs, lockfile>>
  PROVE  IInv'
<1>1. TypeOK' BY DEF IInv, TypeOK
<1>2. SockInv' BY DEF IInv, TypeOK, SockInv
<1>3. LockInv' BY StartUpAssumption DEF IInv, TypeOK, LockInv
<1>4. LockFileIsHolders' BY DEF IInv, TypeOK, LockFileIsHolders, At
<1> QED BY <1>1, <1>2, <1>3, <1>4 DEF IInv

\* A step from one control point to another that touches no resource.
LEMMA MoveKeeps ==
  ASSUME IInv, NEW i \in Instance, NEW l, GoTo(i, l), UNCHANGED Resources,
         pc[i] \in {"off", "init_server", "daemonize"},
         l \in {"init_server", "daemonize", "bind", "lockf"}
  PROVE  IInv'
  BY DEF IInv, TypeOK, SockInv, LockInv, LockFileIsHolders, At, GoTo, Resources

LEMMA LockKeeps ==
  ASSUME IInv, NEW i \in Instance,
         Lock(i) \/ WritePid(i) \/ CloseLock(i)
  PROVE  IInv'
<1>1. CASE Lock(i) /\ holder = None
  <2> USE <1>1 DEF Lock, Exit, GoTo, At
  <2>1. TypeOK' BY DEF IInv, TypeOK
  <2>2. SockInv' BY DEF IInv, TypeOK, SockInv
  <2>3. LockInv' BY StartUpAssumption DEF IInv, TypeOK, LockInv
  <2>4. LockFileIsHolders' BY StartUpAssumption DEF IInv, TypeOK, LockInv, LockFileIsHolders
  <2> QED BY <2>1, <2>2, <2>3, <2>4 DEF IInv
<1>2. CASE Lock(i) /\ holder # None
  BY <1>2, ExitKeeps DEF Lock, Exit, GoTo, At, IInv, TypeOK, SockInv
<1>3. CASE WritePid(i)
  <2> USE <1>3 DEF WritePid, GoTo, At
  <2>1. Pid[i] \in Seq(Nat) BY StartUpAssumption
  <2>2. /\ lockfile' \in Seq(Nat)
        /\ SubSeq(lockfile', 1, Len(Pid[i])) = Pid[i]
    BY <2>1, OverwriteKeepsNew DEF IInv, TypeOK
  <2>3. TypeOK' BY <2>2 DEF IInv, TypeOK
  <2>4. SockInv' BY DEF IInv, TypeOK, SockInv
  <2>5. LockInv' BY DEF IInv, TypeOK, LockInv
  <2>6. LockFileIsHolders'
    BY <2>2 DEF IInv, TypeOK, LockInv, LockFileIsHolders
  <2> QED BY <2>3, <2>4, <2>5, <2>6 DEF IInv
<1>4. CASE CloseLock(i)
  <2> USE <1>4 DEF CloseLock, GoTo, At
  <2>1. TypeOK' BY DEF IInv, TypeOK
  <2>2. SockInv' BY DEF IInv, TypeOK, SockInv
  <2>3. LockInv' BY StartUpAssumption DEF IInv, TypeOK, LockInv
  <2>4. LockFileIsHolders' BY DEF IInv, TypeOK, LockInv, LockFileIsHolders
  <2> QED BY <2>1, <2>2, <2>3, <2>4 DEF IInv
<1> QED BY <1>1, <1>2, <1>3, <1>4

LEMMA SocketKeeps ==
  ASSUME IInv, NEW i \in Instance, Bind(i) \/ Listen(i)
  PROVE  IInv'
<1>1. CASE Exit(i)
  BY <1>1, ExitKeeps DEF Exit, GoTo, Bind, Listen, At, IInv, TypeOK, SockInv
<1>2. CASE Bind(i) /\ ~Exit(i)
  <2> USE <1>2 DEF Bind, GoTo, At, Others
  <2>1. TypeOK' BY DEF IInv, TypeOK
  <2>2. i \notin heirs BY DEF IInv, SockInv
  <2>3. /\ pc' = [pc EXCEPT ![i] = "listen"]
        /\ sock' = [sock EXCEPT ![i] = "bound"]
        /\ heirs' = heirs
    OBVIOUS
  <2>4. SockInv' BY <2>2, <2>3 DEF IInv, TypeOK, SockInv
  <2>5. LockInv' BY DEF IInv, TypeOK, LockInv
  <2>6. LockFileIsHolders' BY DEF IInv, TypeOK, LockFileIsHolders
  <2> QED BY <2>1, <2>4, <2>5, <2>6 DEF IInv
<1>3. CASE Listen(i) /\ ~Exit(i)
  <2> USE <1>3 DEF Listen, GoTo, At, Others
  <2>1. TypeOK' BY DEF IInv, TypeOK
  <2>2. \A j \in Instance \ {i} : sock[j] # "listen" OBVIOUS
  <2>3. SockInv' BY <2>2 DEF IInv, TypeOK, SockInv
  <2>4. LockInv' BY DEF IInv, TypeOK, LockInv
  <2>5. LockFileIsHolders' BY DEF IInv, TypeOK, LockFileIsHolders
  <2> QED BY <2>1, <2>3, <2>4, <2>5 DEF IInv
<1> QED BY <1>1, <1>2, <1>3

LEMMA NextKeeps == ASSUME IInv, [Next]_vars PROVE IInv'
<1>1. CASE UNCHANGED vars
  BY <1>1 DEF vars, IInv, TypeOK, SockInv, LockInv, LockFileIsHolders, At
<1>2. ASSUME NEW i \in Instance, Start(i) PROVE IInv'
  BY <1>2, MoveKeeps DEF Start, At
<1>3. ASSUME NEW i \in Instance, InitServer(i) PROVE IInv'
  <2>1. CASE RUN_AS_DAEMON BY <1>3, <2>1, MoveKeeps DEF InitServer, At
  <2>2. CASE ~RUN_AS_DAEMON BY <1>3, <2>2, MoveKeeps DEF InitServer, At
  <2> QED BY <2>1, <2>2
<1>4. ASSUME NEW i \in Instance, Daemonize(i) PROVE IInv'
  BY <1>4, MoveKeeps DEF Daemonize, At
<1>5. ASSUME NEW i \in Instance, GiveUp(i) PROVE IInv'
  BY <1>5, ExitKeeps DEF GiveUp, Exit, GoTo, At, IInv, TypeOK, SockInv
<1>6. ASSUME NEW i \in Instance, Stop(i) PROVE IInv'
  <2>1. lingering' \in BOOLEAN /\ stopped' \subseteq Instance
    BY <1>6 DEF Stop, IInv, TypeOK
  <2>2. CASE i \notin heirs
    BY <1>6, <2>1, <2>2, ExitKeeps DEF Stop
  <2>3. CASE i \in heirs
    <3> USE <1>6, <2>3 DEF Stop
    <3>1. TypeOK' BY <2>1 DEF IInv, TypeOK
    <3>2. SockInv' BY DEF IInv, TypeOK, SockInv
    <3>3. LockInv' BY StartUpAssumption DEF IInv, TypeOK, LockInv
    <3>4. LockFileIsHolders' BY DEF IInv, TypeOK, LockFileIsHolders, At
    <3> QED BY <3>1, <3>2, <3>3, <3>4 DEF IInv
  <2> QED BY <2>2, <2>3
<1>7. ASSUME NEW i \in Instance, Fork(i) \/ ScriptsEnd(i) PROVE IInv'
  <2> USE <1>7 DEF Fork, ScriptsEnd, Resources, At
  <2>1. TypeOK' BY DEF IInv, TypeOK
  <2>2. SockInv' BY DEF IInv, TypeOK, SockInv
  <2>3. LockInv' BY DEF IInv, TypeOK, LockInv
  <2>4. LockFileIsHolders' BY DEF IInv, TypeOK, LockFileIsHolders
  <2> QED BY <2>1, <2>2, <2>3, <2>4 DEF IInv
<1> QED BY <1>1, <1>2, <1>3, <1>4, <1>5, <1>6, <1>7, LockKeeps, SocketKeeps DEF Next, Step

LEMMA InvHolds == Spec => []IInv
<1>1. Init => IInv BY InitHolds
<1>2. IInv /\ [Next]_vars => IInv' BY NextKeeps
<1> QED BY <1>1, <1>2, PTL DEF Spec

\* At most one of the instances serves (utility.c:29, utility.c:38).
THEOREM OneServerHolds == Spec => []OneServer
<1>1. IInv => OneServer BY DEF IInv, SockInv, OneServer, Serving, At
<1> QED BY <1>1, InvHolds, PTL

\* A server is the only one that listens on its port: no script of a server that
\* was stopped keeps a socket there from which nobody accepts (http.c:869-888).
THEOREM ListenerIsServer == Spec => []NoDeadListener
<1>1. IInv => NoDeadListener
  BY DEF IInv, TypeOK, SockInv, NoDeadListener, Serving, At
<1> QED BY <1>1, InvHolds, PTL

\* No other instance writes into the lock file while one holds its lock
\* (server.c:330-336).
THEOREM LockFileHolds == Spec => []LockFileIsHolders
<1>1. IInv => LockFileIsHolders BY DEF IInv
<1> QED BY <1>1, InvHolds, PTL
=============================================================================
