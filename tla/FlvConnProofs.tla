---------------------------- MODULE FlvConnProofs ----------------------------
(***************************************************************************)
(* Theorems about FlvConn, for any channels, hosts, streams, descriptors   *)
(* and thread slots.                                                       *)
(***************************************************************************)
EXTENDS FlvConn, FiniteSetTheorems, TLAPS

USE NoneAssumption, BoundsAssumption

\* Updates of a thread's locals that the actions are made of.
LEMMA LocalsPc ==
  ASSUME NEW pcs, NEW l \in Locals(pcs), NEW pc \in pcs
  PROVE  [l EXCEPT !.pc = pc] \in Locals(pcs)
  BY DEF Locals

LEMMA LocalsFresh ==
  ASSUME NEW pcs, NEW pc \in pcs, NEW c \in Channels \cup {None},
         NEW h \in Hosts \cup {None}, NEW s \in Streams \cup {None}, NEW g \in Nat,
         NEW fd \in Fds \cup {None}
  PROVE  [pc |-> pc, ch |-> c, host |-> h, stream |-> s, gen |-> g, fd |-> fd]
            \in Locals(pcs)
  BY DEF Locals

LEMMA LocalsFields ==
  ASSUME NEW pcs, NEW l \in Locals(pcs)
  PROVE  /\ l.pc \in pcs
         /\ l.ch \in Channels \cup {None}
         /\ l.host \in Hosts \cup {None}
         /\ l.stream \in Streams \cup {None}
         /\ l.gen \in Nat
         /\ l.fd \in Fds \cup {None}
  BY DEF Locals

LEMMA InitTypeOK == Init => TypeOK
  BY DEF Init, TypeOK, ChannelTypeOK, ThreadTypeOK, EmployedOK, WorldTypeOK, IdleSetup,
         IdlePush, Locals, SetupPcs, PushPcs, PeerStates, SetupThreads

----------------------------------------------------------------------------
(* Type correctness of each action, in the four parts of TypeOK. *)

LEMMA CtlConnectTypeOK ==
  ASSUME TypeOK, NEW c \in Channels, NEW h \in Hosts, NEW s \in Streams,
         CtlConnect(c, h, s)
  PROVE  TypeOK'
  <1> USE DEF TypeOK, CtlConnect
  <1>1. ChannelTypeOK' BY DEF ChannelTypeOK, chanVars
  <1>2. ThreadTypeOK' BY DEF ThreadTypeOK, Locals, SetupPcs
  <1>3. EmployedOK' BY DEF EmployedOK
  <1>4. WorldTypeOK' BY DEF WorldTypeOK, sockVars
  <1>5. QED BY <1>1, <1>2, <1>3, <1>4

LEMMA CtlDisconnectTypeOK ==
  ASSUME TypeOK, NEW c \in Channels, CtlDisconnect(c)
  PROVE  TypeOK'
  <1> USE DEF TypeOK, CtlDisconnect
  <1>1. ChannelTypeOK' BY DEF ChannelTypeOK
  <1>2. ThreadTypeOK' BY DEF ThreadTypeOK
  <1>3. EmployedOK' BY DEF EmployedOK
  <1>4. WorldTypeOK' BY DEF WorldTypeOK, CloseFd, sockVars, PeerStates
  <1>5. QED BY <1>1, <1>2, <1>3, <1>4

LEMMA RetryWakeTypeOK ==
  ASSUME TypeOK, NEW r \in RetryThreads, RetryWake(r)
  PROVE  TypeOK'
  <1> USE DEF TypeOK, RetryWake
  <1>1. ChannelTypeOK' BY DEF ChannelTypeOK, chanVars
  <1>2. ThreadTypeOK' BY DEF ThreadTypeOK, Locals, IdleSetup, SetupPcs, SetupThreads
  <1>3. EmployedOK' BY DEF EmployedOK, IdleSetup
  <1>4. WorldTypeOK' BY DEF WorldTypeOK, sockVars
  <1>5. QED BY <1>1, <1>2, <1>3, <1>4

LEMMA ConnectBeginTypeOK ==
  ASSUME TypeOK, NEW t \in SetupThreads, ConnectBegin(t)
  PROVE  TypeOK'
  <1> USE DEF TypeOK, ConnectBegin
  <1>1. ChannelTypeOK' BY DEF ChannelTypeOK, ThreadTypeOK, Locals
  <1>2. ThreadTypeOK' BY DEF ThreadTypeOK, Locals, SetupPcs
  <1>3. EmployedOK' BY DEF EmployedOK
  <1>4. WorldTypeOK' BY DEF WorldTypeOK, sockVars
  <1>5. QED BY <1>1, <1>2, <1>3, <1>4

LEMMA DialFailsTypeOK ==
  ASSUME TypeOK, NEW t \in SetupThreads, DialFails(t)
  PROVE  TypeOK'
  <1> USE DEF TypeOK, DialFails
  <1>1. ChannelTypeOK' BY DEF ChannelTypeOK, chanVars
  <1>2. ThreadTypeOK' BY DEF ThreadTypeOK, Locals, SetupPcs
  <1>3. EmployedOK' BY DEF EmployedOK
  <1>4. WorldTypeOK' BY DEF WorldTypeOK, sockVars
  <1>5. QED BY <1>1, <1>2, <1>3, <1>4

LEMMA DialSucceedsTypeOK ==
  ASSUME TypeOK, NEW t \in SetupThreads, NEW fd \in Fds, DialSucceeds(t, fd)
  PROVE  TypeOK'
  <1> USE DEF TypeOK, DialSucceeds
  <1>1. ChannelTypeOK' BY DEF ChannelTypeOK, chanVars
  <1>2. ThreadTypeOK'
    <2>1. setup[t] \in Locals(SetupPcs) BY DEF ThreadTypeOK
    <2>2. [setup[t] EXCEPT !.pc = "dialled", !.fd = fd] \in Locals(SetupPcs)
      BY <2>1 DEF Locals, SetupPcs
    <2>3. QED BY <2>2 DEF ThreadTypeOK
  <1>3. EmployedOK' BY DEF EmployedOK, ThreadTypeOK
  <1>4. WorldTypeOK' BY DEF WorldTypeOK, PeerStates
  <1>5. QED BY <1>1, <1>2, <1>3, <1>4

LEMMA ConnectRearmTypeOK ==
  ASSUME TypeOK, NEW t \in SetupThreads, NEW r \in RetryThreads, ConnectRearm(t, r)
  PROVE  TypeOK'
  <1> USE DEF TypeOK, ConnectRearm, ScheduleFrom
  <1>1. ChannelTypeOK' BY DEF ChannelTypeOK, chanVars
  <1>2. ThreadTypeOK'
    <2>1. /\ setup[t] \in Locals(SetupPcs)
          /\ setup[t].ch \in Channels
          /\ generation[setup[t].ch] \in Nat
      BY DEF ThreadTypeOK, EmployedOK, ChannelTypeOK
    <2>2. [pc |-> "sleep", ch |-> setup[t].ch, host |-> setup[t].host,
           stream |-> setup[t].stream, gen |-> generation[setup[t].ch], fd |-> None]
             \in Locals(SetupPcs)
      <3>1. /\ setup[t].host \in Hosts \cup {None}
            /\ setup[t].stream \in Streams \cup {None}
        BY <2>1, LocalsFields
      <3>2. QED BY <2>1, <3>1, LocalsFresh DEF SetupPcs
    <2>3. IdleSetup \in Locals(SetupPcs)
      BY LocalsFresh DEF IdleSetup, SetupPcs
    <2>4. QED BY <2>2, <2>3 DEF ThreadTypeOK
  <1>3. EmployedOK' BY DEF EmployedOK, ThreadTypeOK, IdleSetup
  <1>4. WorldTypeOK' BY DEF WorldTypeOK, sockVars
  <1>5. QED BY <1>1, <1>2, <1>3, <1>4

LEMMA ConnectInstallTypeOK ==
  ASSUME TypeOK, NEW t \in SetupThreads, ConnectInstall(t)
  PROVE  TypeOK'
  <1> USE DEF TypeOK, ConnectInstall
  <1>1. /\ setup[t] \in Locals(SetupPcs)
        /\ setup[t].ch \in Channels
        /\ generation[setup[t].ch] + 1 \in Nat
    BY DEF ThreadTypeOK, EmployedOK, ChannelTypeOK
  <1>2. ChannelTypeOK' BY <1>1, LocalsFields DEF ChannelTypeOK
  <1>3. ThreadTypeOK'
    <2>1. [setup[t] EXCEPT !.pc = "spawn", !.gen = generation[setup[t].ch] + 1]
             \in Locals(SetupPcs)
      BY <1>1 DEF Locals, SetupPcs
    <2>2. QED BY <2>1 DEF ThreadTypeOK
  <1>4. EmployedOK' BY <1>1 DEF EmployedOK, ThreadTypeOK
  <1>5. WorldTypeOK' BY DEF WorldTypeOK, CloseFd, PeerStates
  <1>6. QED BY <1>2, <1>3, <1>4, <1>5

LEMMA ConnectSpawnTypeOK ==
  ASSUME TypeOK, NEW t \in SetupThreads, NEW p \in PushThreads, ConnectSpawn(t, p)
  PROVE  TypeOK'
  <1> USE DEF TypeOK, ConnectSpawn
  <1>1. setup[t] \in Locals(SetupPcs) /\ setup[t].ch \in Channels
    BY DEF ThreadTypeOK, EmployedOK
  <1>2. ChannelTypeOK' BY DEF ChannelTypeOK, chanVars
  <1>3. ThreadTypeOK'
    <2>1. IdleSetup \in Locals(SetupPcs)
      BY LocalsFresh DEF IdleSetup, SetupPcs
    <2>2. [IdlePush EXCEPT !.pc = "starting", !.ch = setup[t].ch, !.gen = setup[t].gen]
             \in Locals(PushPcs)
      BY <1>1 DEF Locals, IdlePush, PushPcs
    <2>3. QED BY <2>1, <2>2 DEF ThreadTypeOK
  <1>4. EmployedOK' BY <1>1 DEF EmployedOK, IdleSetup
  <1>5. WorldTypeOK' BY DEF WorldTypeOK, sockVars
  <1>6. QED BY <1>2, <1>3, <1>4, <1>5

LEMMA PushStartTypeOK ==
  ASSUME TypeOK, NEW p \in PushThreads, PushStart(p)
  PROVE  TypeOK'
  <1> USE DEF TypeOK, PushStart
  <1>1. /\ push[p] \in Locals(PushPcs)
        /\ activeFd[push[p].ch] \in Fds \cup {None}
        /\ streamName[push[p].ch] \in Streams \cup {None}
    BY DEF ThreadTypeOK, EmployedOK, ChannelTypeOK
  <1>2. ChannelTypeOK' BY DEF ChannelTypeOK, chanVars
  <1>3. ThreadTypeOK'
    <2>1. [push[p] EXCEPT !.pc = "header", !.fd = activeFd[push[p].ch],
                          !.stream = streamName[push[p].ch]] \in Locals(PushPcs)
      BY <1>1 DEF Locals, PushPcs
    <2>2. QED BY <2>1 DEF ThreadTypeOK
  <1>4. EmployedOK' BY DEF EmployedOK, ThreadTypeOK
  <1>5. WorldTypeOK' BY DEF WorldTypeOK, sockVars
  <1>6. QED BY <1>2, <1>3, <1>4, <1>5

LEMMA PushWritesTypeOK ==
  ASSUME TypeOK, NEW p \in PushThreads, push[p].pc # "idle", PushWrites(p, "loop"),
         UNCHANGED <<chanVars, connectMutex, setup, peer, requested, left>>
  PROVE  TypeOK'
  <1> USE DEF TypeOK, PushWrites
  <1>1. push[p] \in Locals(PushPcs) /\ push[p].ch \in Channels /\ push[p].gen \in Nat
    BY LocalsFields DEF ThreadTypeOK, EmployedOK
  <1>2. ChannelTypeOK' BY DEF ChannelTypeOK, chanVars
  <1>3. ThreadTypeOK'
    <2>1. PICK pc \in {"loop", "ending"} : push' = [push EXCEPT ![p].pc = pc]
      OBVIOUS
    <2>2. [push[p] EXCEPT !.pc = pc] \in Locals(PushPcs)
      BY <1>1, LocalsPc DEF PushPcs
    <2>3. QED BY <2>1, <2>2 DEF ThreadTypeOK
  <1>4. EmployedOK' BY <1>1 DEF EmployedOK
  <1>5. WorldTypeOK'
    <2>1. <<push[p].ch, push[p].gen>> \in Channels \X Nat BY <1>1
    <2>2. QED BY <2>1 DEF WorldTypeOK
  <1>6. QED BY <1>2, <1>3, <1>4, <1>5

LEMMA PushCheckTypeOK ==
  ASSUME TypeOK, NEW p \in PushThreads, PushCheck(p)
  PROVE  TypeOK'
  <1> USE DEF TypeOK, PushCheck
  <1>1. ChannelTypeOK' BY DEF ChannelTypeOK, chanVars
  <1>2. ThreadTypeOK'
    <2>1. PICK pc \in {"body", "ending"} : push' = [push EXCEPT ![p].pc = pc]
      OBVIOUS
    <2>2. [push[p] EXCEPT !.pc = pc] \in Locals(PushPcs)
      BY LocalsPc DEF ThreadTypeOK, PushPcs
    <2>3. QED BY <2>1, <2>2 DEF ThreadTypeOK
  <1>3. EmployedOK' BY DEF EmployedOK
  <1>4. WorldTypeOK' BY DEF WorldTypeOK, sockVars
  <1>5. QED BY <1>1, <1>2, <1>3, <1>4

LEMMA PushEndTypeOK ==
  ASSUME TypeOK, NEW p \in PushThreads, PushEnd(p)
  PROVE  TypeOK'
  <1> USE DEF TypeOK, PushEnd
  <1>1. push[p] \in Locals(PushPcs) /\ push[p].ch \in Channels
        /\ host[push[p].ch] \in Hosts \cup {None}
    BY DEF ThreadTypeOK, EmployedOK, ChannelTypeOK
  <1>2. ChannelTypeOK' BY <1>1 DEF ChannelTypeOK
  <1>3. ThreadTypeOK'
    <2>1. [push[p] EXCEPT !.pc = "redial", !.host = host[push[p].ch]] \in Locals(PushPcs)
      BY <1>1 DEF Locals, PushPcs
    <2>2. IdlePush \in Locals(PushPcs)
      BY LocalsFresh DEF IdlePush, PushPcs
    <2>3. QED BY <2>1, <2>2 DEF ThreadTypeOK
  <1>4. EmployedOK' BY <1>1 DEF EmployedOK, IdlePush
  <1>5. WorldTypeOK' BY DEF WorldTypeOK, CloseFd, sockVars, PeerStates
  <1>6. QED BY <1>2, <1>3, <1>4, <1>5

LEMMA PushRedialTypeOK ==
  ASSUME TypeOK, NEW p \in PushThreads, NEW r \in RetryThreads, PushRedial(p, r)
  PROVE  TypeOK'
  <1> USE DEF TypeOK, PushRedial, ScheduleFrom
  <1>1. push[p] \in Locals(PushPcs) /\ push[p].ch \in Channels
    BY DEF ThreadTypeOK, EmployedOK
  <1>2. ChannelTypeOK' BY DEF ChannelTypeOK, chanVars
  <1>3. ThreadTypeOK' BY <1>1, LocalsFields, LocalsFresh
                      DEF ThreadTypeOK, IdleSetup, IdlePush, SetupPcs, PushPcs, SetupThreads
  <1>4. EmployedOK' BY <1>1 DEF ThreadTypeOK, IdleSetup, SetupThreads
  <1>5. WorldTypeOK' BY DEF WorldTypeOK, sockVars
  <1>6. QED BY <1>2, <1>3, <1>4, <1>5

LEMMA PeerLeavesTypeOK ==
  ASSUME TypeOK, NEW fd \in Fds, NEW how \in {"closed", "stalled"}, PeerLeaves(fd, how)
  PROVE  TypeOK'
  <1> USE DEF TypeOK, PeerLeaves
  <1>1. ChannelTypeOK' BY DEF ChannelTypeOK, chanVars
  <1>2. ThreadTypeOK' BY DEF ThreadTypeOK
  <1>3. EmployedOK' BY DEF EmployedOK
  <1>4. WorldTypeOK' BY DEF WorldTypeOK, PeerStates
  <1>5. QED BY <1>1, <1>2, <1>3, <1>4

LEMMA NextTypeOK == TypeOK /\ [Next]_vars => TypeOK'
  <1> SUFFICES ASSUME TypeOK, [Next]_vars
               PROVE  TypeOK'
    OBVIOUS
  <1>1. CASE UNCHANGED vars
    BY <1>1 DEF vars, chanVars, sockVars, TypeOK, ChannelTypeOK, ThreadTypeOK, EmployedOK,
            WorldTypeOK
  <1>2. CASE AtRest
    BY <1>1, <1>2 DEF AtRest
  <1>3. CASE \E c \in Channels, h \in Hosts, s \in Streams : CtlConnect(c, h, s)
    BY <1>3, CtlConnectTypeOK
  <1>4. CASE \E c \in Channels : CtlDisconnect(c)
    BY <1>4, CtlDisconnectTypeOK
  <1>5. CASE \E r \in RetryThreads : RetryWake(r)
    BY <1>5, RetryWakeTypeOK
  <1>6. CASE \E t \in SetupThreads : SetupStep(t)
    BY <1>6, ConnectBeginTypeOK, DialFailsTypeOK, DialSucceedsTypeOK, ConnectRearmTypeOK,
       ConnectInstallTypeOK, ConnectSpawnTypeOK DEF SetupStep
  <1>7. ASSUME NEW p \in PushThreads, PushStep(p)
        PROVE  TypeOK'
    <2>1. CASE PushHeader(p)
      BY <2>1, PushWritesTypeOK DEF PushHeader
    <2>2. CASE PushBody(p)
      BY <2>2, PushWritesTypeOK DEF PushBody
    <2>3. QED
      BY <1>7, <2>1, <2>2, PushStartTypeOK, PushCheckTypeOK, PushEndTypeOK, PushRedialTypeOK
      DEF PushStep
  <1>8. CASE \E fd \in Fds, how \in {"closed", "stalled"} : PeerLeaves(fd, how)
    BY <1>8, PeerLeavesTypeOK
  <1>9. QED BY <1>1, <1>2, <1>3, <1>4, <1>5, <1>6, <1>7, <1>8 DEF Next

\* The channel state, the threads' locals and the descriptor table keep their
\* types in every run of the connection manager.
THEOREM TypeCorrect == Spec => []TypeOK
  BY InitTypeOK, NextTypeOK, PTL DEF Spec

----------------------------------------------------------------------------
(***************************************************************************)
(* The inductive invariant.  NoFdLeak, NoSharedFd, OneWriterPerConnection, *)
(* CurrentThreadHoldsActiveFd and NeverAbandoned are not inductive one by  *)
(* one: that an exiting thread closes only its own socket needs that no    *)
(* other thread has its generation, which needs that generations only      *)
(* grow, and that a dial is never interleaved with another one needs the   *)
(* mutex.                                                                  *)
(***************************************************************************)

\* The thread inside doConnect's dial is the one that holds g_connectMutex.
MutexInv ==
    \A t \in SetupThreads : setup[t].pc \in {"dialling", "dialled"} <=> connectMutex = t

\* Every open descriptor has exactly one owner, and every owner's is open.
FdInv ==
    /\ \A c \in Channels : activeFd[c] # None => peer[activeFd[c]] # "none"
    /\ \A t \in SetupThreads : setup[t].pc = "dialled" =>
            setup[t].fd \in Fds /\ peer[setup[t].fd] # "none"
    /\ \A fd \in Fds : peer[fd] # "none" =>
            \/ \E c \in Channels : activeFd[c] = fd
            \/ \E t \in SetupThreads : setup[t].pc = "dialled" /\ setup[t].fd = fd
    /\ NoSharedFd

\* No thread carries a generation its channel has not reached.
GenInv ==
    /\ \A p \in PushThreads : push[p].pc # "idle" => push[p].gen <= generation[push[p].ch]
    /\ \A t \in SetupThreads : setup[t].pc = "spawn" => setup[t].gen <= generation[setup[t].ch]

\* A generation of a channel has one push thread at most, running or to come.
UniqueInv ==
    /\ \A p, q \in PushThreads :
            /\ push[p].pc # "idle" /\ push[q].pc # "idle"
            /\ push[p].ch = push[q].ch /\ push[p].gen = push[q].gen
            => p = q
    /\ \A t, u \in SetupThreads :
            /\ setup[t].pc = "spawn" /\ setup[u].pc = "spawn"
            /\ setup[t].ch = setup[u].ch /\ setup[t].gen = setup[u].gen
            => t = u
    /\ \A t \in SetupThreads, p \in PushThreads :
            ~ /\ setup[t].pc = "spawn" /\ push[p].pc # "idle"
              /\ setup[t].ch = push[p].ch /\ setup[t].gen = push[p].gen

\* As long as a generation is current its thread finds the socket open.
CurrentInv ==
    /\ CurrentThreadHoldsActiveFd
    /\ \A p \in PushThreads :
            push[p].pc = "starting" /\ push[p].gen = generation[push[p].ch]
            => activeFd[push[p].ch] # None
    /\ \A p \in PushThreads :
            push[p].pc = "redial" /\ push[p].gen = generation[push[p].ch]
            => activeFd[push[p].ch] = None
    /\ \A t \in SetupThreads :
            setup[t].pc = "spawn" /\ setup[t].gen = generation[setup[t].ch]
            => activeFd[setup[t].ch] # None

\* Every connection has its thread.
ServedInv ==
    \A c \in Channels : activeFd[c] # None =>
        \/ \E p \in PushThreads : Serves(p, c)
        \/ \E t \in SetupThreads : AboutToServe(t, c)

\* Every wanted channel has a thread that tends it and a host to dial.
CareInv ==
    /\ NeverAbandoned
    /\ \A c \in Channels : wanted[c] => host[c] # None
    /\ \A t \in SetupThreads : setup[t].pc # "idle" => setup[t].host # None
    /\ \A p \in PushThreads : push[p].pc = "redial" => push[p].host # None

IInv ==
    /\ TypeOK /\ MutexInv /\ FdInv /\ GenInv
    /\ UniqueInv /\ CurrentInv /\ ServedInv /\ CareInv

LEMMA CtlConnectIInv ==
  ASSUME IInv, NEW c \in Channels, NEW h \in Hosts, NEW s \in Streams,
         CtlConnect(c, h, s)
  PROVE  IInv'
  <1> USE DEF IInv, TypeOK, CtlConnect, chanVars, sockVars
  <1>1. TypeOK' BY CtlConnectTypeOK
  <1>2. MutexInv' BY DEF MutexInv
  <1>3. FdInv' BY DEF FdInv, NoSharedFd
  <1>4. GenInv' BY DEF GenInv
  <1>5. UniqueInv' BY DEF UniqueInv
  <1>6. CurrentInv' BY DEF CurrentInv, CurrentThreadHoldsActiveFd
  <1>7. ServedInv' BY DEF ServedInv, Serves, AboutToServe
  <1>8. CareInv'
    <2>1. setup' = [setup EXCEPT ![Ctl] = [pc |-> "ready", ch |-> c, host |-> h,
                                           stream |-> s, gen |-> 0, fd |-> None]]
      OBVIOUS
    <2>2. \A d \in Channels, t \in SetupThreads : Tends(t, d) => Tends(t, d)'
      BY <2>1 DEF Tends
    <2>3. \A d \in Channels, p \in PushThreads : Serves(p, d) => Serves(p, d)'
      BY DEF Serves
    <2>4. NeverAbandoned' BY <2>2, <2>3 DEF CareInv, NeverAbandoned
    <2>5. \A t \in SetupThreads : setup'[t].pc # "idle" => setup'[t].host # None
      BY <2>1 DEF CareInv
    <2>6. QED BY <2>4, <2>5 DEF CareInv
  <1>9. QED BY <1>1, <1>2, <1>3, <1>4, <1>5, <1>6, <1>7, <1>8

LEMMA CtlDisconnectIInv ==
  ASSUME IInv, NEW c \in Channels, CtlDisconnect(c)
  PROVE  IInv'
  <1> USE DEF IInv, TypeOK, CtlDisconnect, CloseFd, chanVars, sockVars
  <1>1. TypeOK' BY CtlDisconnectTypeOK
  <1>2. MutexInv' BY DEF MutexInv
  <1>3. FdInv' BY DEF FdInv, NoSharedFd, ChannelTypeOK
  <1>4. GenInv' BY DEF GenInv, ChannelTypeOK, ThreadTypeOK, EmployedOK, Locals
  <1>5. UniqueInv' BY DEF UniqueInv
  <1>6. CurrentInv'
    <2>1. /\ \A d \in Channels : d # c => generation'[d] = generation[d] /\ activeFd'[d] = activeFd[d]
          /\ \/ generation'[c] = generation[c] /\ activeFd'[c] = activeFd[c]
             \/ generation'[c] = generation[c] + 1
      BY DEF ChannelTypeOK
    <2>2. push' = push /\ setup' = setup
      OBVIOUS
    <2>3. /\ generation[c] \in Nat
          /\ \A p \in PushThreads : push[p].gen \in Nat
          /\ \A t \in SetupThreads : setup[t].gen \in Nat
      BY LocalsFields DEF ChannelTypeOK, ThreadTypeOK
    <2>4. QED BY <2>1, <2>2, <2>3 DEF CurrentInv, CurrentThreadHoldsActiveFd, GenInv, EmployedOK
  <1>7. ServedInv' BY DEF ServedInv, Serves, AboutToServe, ChannelTypeOK
  <1>8. CareInv' BY DEF CareInv, NeverAbandoned, Tends, Serves, ChannelTypeOK
  <1>9. QED BY <1>1, <1>2, <1>3, <1>4, <1>5, <1>6, <1>7, <1>8

LEMMA RetryWakeIInv ==
  ASSUME IInv, NEW r \in RetryThreads, RetryWake(r)
  PROVE  IInv'
  <1>1. TypeOK' BY RetryWakeTypeOK DEF IInv
  <1>2. /\ UNCHANGED <<generation, activeFd, host, wanted, connectMutex, push, peer>>
        /\ r \in SetupThreads
        /\ \A u \in SetupThreads : u # r => setup'[u] = setup[u]
        /\ setup[r].pc = "sleep"
        /\ \/ setup'[r].pc = "idle" /\ ~Tends(r, setup[r].ch)
           \/ setup'[r].pc = "idle" /\ ~wanted[setup[r].ch]
           \/ /\ setup'[r].pc = "ready" /\ setup'[r].ch = setup[r].ch
              /\ setup'[r].host = setup[r].host
    BY DEF RetryWake, IInv, TypeOK, ThreadTypeOK, Locals, SetupThreads, IdleSetup, Tends,
           chanVars, sockVars
  <1>3. MutexInv' BY <1>2 DEF IInv, MutexInv
  <1>4. FdInv' BY <1>2 DEF IInv, FdInv, NoSharedFd
  <1>5. GenInv' BY <1>2 DEF IInv, GenInv
  <1>6. UniqueInv' BY <1>2 DEF IInv, UniqueInv
  <1>7. CurrentInv' BY <1>2 DEF IInv, CurrentInv, CurrentThreadHoldsActiveFd
  <1>8. ServedInv' BY <1>2 DEF IInv, ServedInv, Serves, AboutToServe
  <1>9. CareInv'
    <2>1. \A c \in Channels, u \in SetupThreads :
              wanted[c] /\ Tends(u, c) => Tends(u, c)'
      BY <1>2 DEF Tends
    <2>2. \A c \in Channels, q \in PushThreads : Serves(q, c) => Serves(q, c)'
      BY <1>2 DEF Serves
    <2>3. NeverAbandoned'
      BY <1>2, <2>1, <2>2 DEF IInv, CareInv, NeverAbandoned
    <2>4. QED BY <1>2, <2>3 DEF IInv, CareInv
  <1>10. QED BY <1>1, <1>3, <1>4, <1>5, <1>6, <1>7, <1>8, <1>9 DEF IInv

LEMMA ConnectBeginIInv ==
  ASSUME IInv, NEW t \in SetupThreads, ConnectBegin(t)
  PROVE  IInv'
  <1> USE DEF IInv, TypeOK, ConnectBegin, chanVars, sockVars
  <1>1. TypeOK' BY ConnectBeginTypeOK
  <1>a. /\ \A u \in SetupThreads : u # t => setup'[u] = setup[u]
        /\ setup[t].pc = "ready" /\ setup'[t].pc = "dialling"
    BY DEF ThreadTypeOK
  <1>3. MutexInv' BY DEF MutexInv, ThreadTypeOK, SetupThreads
  <1>4. FdInv' BY <1>a DEF FdInv, NoSharedFd
  <1>5. GenInv' BY DEF GenInv
  <1>6. UniqueInv' BY DEF UniqueInv
  <1>7. CurrentInv' BY DEF CurrentInv, CurrentThreadHoldsActiveFd
  <1>8. ServedInv' BY DEF ServedInv, Serves, AboutToServe
  <1>9. CareInv' BY DEF CareInv, NeverAbandoned, Tends, Serves, ChannelTypeOK
  <1>10. QED BY <1>1, <1>3, <1>4, <1>5, <1>6, <1>7, <1>8, <1>9

LEMMA DialFailsIInv ==
  ASSUME IInv, NEW t \in SetupThreads, DialFails(t)
  PROVE  IInv'
  <1> USE DEF IInv, TypeOK, DialFails, chanVars, sockVars
  <1>1. TypeOK' BY DialFailsTypeOK
  <1>2. MutexInv' BY DEF MutexInv, ThreadTypeOK, SetupThreads
  <1>3. FdInv' BY DEF FdInv, NoSharedFd, MutexInv
  <1>4. GenInv' BY DEF GenInv
  <1>5. UniqueInv' BY DEF UniqueInv
  <1>6. CurrentInv' BY DEF CurrentInv, CurrentThreadHoldsActiveFd
  <1>7. ServedInv' BY DEF ServedInv, Serves, AboutToServe
  <1>8. CareInv' BY DEF CareInv, NeverAbandoned, Tends, Serves
  <1>9. QED BY <1>1, <1>2, <1>3, <1>4, <1>5, <1>6, <1>7, <1>8

LEMMA DialSucceedsIInv ==
  ASSUME IInv, NEW t \in SetupThreads, NEW fd \in Fds, DialSucceeds(t, fd)
  PROVE  IInv'
  <1>1. TypeOK' BY DialSucceedsTypeOK DEF IInv
  <1>2. /\ UNCHANGED <<generation, activeFd, host, wanted, connectMutex, push>>
        /\ \A u \in SetupThreads : u # t => setup'[u] = setup[u]
        /\ setup[t].pc = "dialling" /\ setup'[t].pc = "dialled" /\ setup'[t].fd = fd
        /\ setup'[t].ch = setup[t].ch /\ setup'[t].host = setup[t].host
        /\ peer[fd] = "none" /\ peer'[fd] = "reading"
        /\ \A f \in Fds : f # fd => peer'[f] = peer[f]
    BY DEF DialSucceeds, open, IInv, TypeOK, ThreadTypeOK, WorldTypeOK, chanVars
  <1>3. MutexInv' BY <1>2 DEF IInv, MutexInv
  <1>4. FdInv'
    <2>1. \A u \in SetupThreads : setup'[u].pc = "dialled" => u = t
      BY <1>2, <1>3 DEF MutexInv
    <2>2. \A u \in SetupThreads : setup[u].pc # "dialled"
      BY <1>2 DEF IInv, MutexInv
    <2>3. \A c \in Channels : activeFd[c] # None => activeFd[c] \in Fds /\ activeFd[c] # fd
      BY <1>2 DEF IInv, TypeOK, ChannelTypeOK, FdInv
    <2>4. \A c \in Channels : activeFd'[c] # None => peer'[activeFd'[c]] # "none"
      BY <1>2, <2>3 DEF IInv, FdInv
    <2>5. \A f \in Fds : peer'[f] # "none" =>
              \/ \E c \in Channels : activeFd'[c] = f
              \/ setup'[t].pc = "dialled" /\ setup'[t].fd = f
      BY <1>2, <2>2 DEF IInv, FdInv
    <2>6. NoSharedFd'
      BY <1>2, <2>1, <2>3 DEF IInv, FdInv, NoSharedFd
    <2>7. QED BY <1>2, <2>1, <2>4, <2>5, <2>6 DEF FdInv
  <1>5. GenInv' BY <1>2 DEF IInv, GenInv
  <1>6. UniqueInv' BY <1>2 DEF IInv, UniqueInv
  <1>7. CurrentInv' BY <1>2 DEF IInv, CurrentInv, CurrentThreadHoldsActiveFd
  <1>8. ServedInv' BY <1>2 DEF IInv, ServedInv, Serves, AboutToServe
  <1>9. CareInv'
    <2>1. \A c \in Channels, u \in SetupThreads : Tends(u, c) => Tends(u, c)'
      BY <1>2 DEF Tends
    <2>2. \A c \in Channels, q \in PushThreads : Serves(q, c) => Serves(q, c)'
      BY <1>2 DEF Serves
    <2>3. QED BY <1>2, <2>1, <2>2 DEF IInv, CareInv, NeverAbandoned
  <1>10. QED BY <1>1, <1>3, <1>4, <1>5, <1>6, <1>7, <1>8, <1>9 DEF IInv

LEMMA ConnectRearmIInv ==
  ASSUME IInv, NEW t \in SetupThreads, NEW r \in RetryThreads, ConnectRearm(t, r)
  PROVE  IInv'
  <1>1. TypeOK' BY ConnectRearmTypeOK DEF IInv
  <1>2. /\ UNCHANGED <<generation, activeFd, host, wanted, connectMutex, push, peer>>
        /\ r \in SetupThreads
        /\ \A u \in SetupThreads : u # t /\ u # r => setup'[u] = setup[u]
        /\ setup[t].pc = "failed" /\ setup[r].pc \in {"idle", "failed"}
        /\ setup[r].pc = "failed" => r = t
        /\ r # t => setup'[t].pc = "idle"
        /\ setup'[r].pc = "sleep" /\ setup'[r].ch = setup[t].ch
        /\ setup'[r].host = setup[t].host /\ setup'[r].gen = generation[setup[t].ch]
    BY DEF ConnectRearm, ScheduleFrom, IdleSetup, IInv, TypeOK, ThreadTypeOK, SetupThreads,
           chanVars, sockVars
  <1>3. MutexInv' BY <1>2 DEF IInv, MutexInv
  <1>a. \A u \in SetupThreads : setup'[u].pc \in {"dialled", "spawn"} => setup'[u] = setup[u]
    BY <1>2
  <1>b. \A u \in SetupThreads : setup[u].pc \in {"dialled", "spawn"} => setup'[u] = setup[u]
    BY <1>2
  <1>6. FdInv' BY <1>2, <1>a, <1>b DEF IInv, FdInv, NoSharedFd
  <1>7. GenInv' BY <1>2, <1>a DEF IInv, GenInv
  <1>8. UniqueInv' BY <1>2, <1>a DEF IInv, UniqueInv
  <1>9. CurrentInv' BY <1>2, <1>a DEF IInv, CurrentInv, CurrentThreadHoldsActiveFd
  <1>10. ServedInv' BY <1>2, <1>b DEF IInv, ServedInv, Serves, AboutToServe
  <1>11. CareInv'
    <2>1. \A c \in Channels : Tends(t, c) => Tends(r, c)'
      BY <1>2 DEF Tends
    <2>2. \A c \in Channels : ~Tends(r, c) \/ r = t
      BY <1>2 DEF Tends
    <2>3. \A c \in Channels, u \in SetupThreads :
              u # t /\ u # r /\ Tends(u, c) => Tends(u, c)'
      BY <1>2 DEF Tends
    <2>4. \A c \in Channels, q \in PushThreads : Serves(q, c) => Serves(q, c)'
      BY <1>2 DEF Serves
    <2>5. NeverAbandoned'
      BY <1>2, <2>1, <2>2, <2>3, <2>4 DEF IInv, CareInv, NeverAbandoned
    <2>6. \A u \in SetupThreads : setup'[u].pc # "idle" => setup'[u].host # None
      BY <1>2 DEF IInv, CareInv
    <2>7. QED BY <1>2, <2>5, <2>6 DEF IInv, CareInv
  <1>12. QED BY <1>1, <1>3, <1>6, <1>7, <1>8, <1>9, <1>10, <1>11 DEF IInv

LEMMA ConnectInstallIInv ==
  ASSUME IInv, NEW t \in SetupThreads, ConnectInstall(t)
  PROVE  IInv'
  <1> DEFINE c == setup[t].ch
  <1>1. TypeOK' BY ConnectInstallTypeOK DEF IInv
  <1>2. /\ UNCHANGED <<host, wanted, push>>
        /\ connectMutex' = None
        /\ \A u \in SetupThreads : u # t => setup'[u] = setup[u]
        /\ setup[t].pc = "dialled" /\ setup'[t].pc = "spawn"
        /\ setup'[t].ch = c /\ setup'[t].host = setup[t].host
        /\ setup'[t].gen = generation[c] + 1
    BY DEF ConnectInstall, IInv, TypeOK, ThreadTypeOK
  <1>3. /\ c \in Channels
        /\ \A d \in Channels : d # c => activeFd'[d] = activeFd[d] /\ generation'[d] = generation[d]
        /\ activeFd'[c] = setup[t].fd
        /\ generation'[c] = generation[c] + 1
        /\ \A f \in Fds : peer'[f] = IF f = activeFd[c] THEN "none" ELSE peer[f]
    BY DEF ConnectInstall, CloseFd, IInv, TypeOK, ChannelTypeOK, EmployedOK
  <1>4. /\ \A d \in Channels : generation[d] \in Nat /\ activeFd[d] \in Fds \cup {None}
        /\ \A p \in PushThreads : push[p].gen \in Nat
        /\ \A u \in SetupThreads : setup[u].gen \in Nat
    BY LocalsFields DEF IInv, TypeOK, ChannelTypeOK, ThreadTypeOK
  <1>5. /\ setup[t].fd \in Fds /\ peer[setup[t].fd] # "none"
        /\ \A d \in Channels : activeFd[d] # setup[t].fd
    BY <1>2 DEF IInv, FdInv, NoSharedFd
  <1>6. \A u \in SetupThreads : setup[u].pc = "dialled" => u = t
    BY <1>2 DEF IInv, MutexInv
  <1>7. MutexInv' BY <1>2, <1>6 DEF IInv, MutexInv, SetupThreads
  <1>8. FdInv'
    <2>1. \A u \in SetupThreads : setup'[u].pc # "dialled"
      BY <1>2, <1>6
    <2>2. \A d \in Channels : activeFd'[d] # None => peer'[activeFd'[d]] # "none"
      BY <1>3, <1>4, <1>5 DEF IInv, FdInv, NoSharedFd
    <2>3. \A d, e \in Channels : activeFd'[d] # None /\ activeFd'[d] = activeFd'[e] => d = e
      BY <1>3, <1>5 DEF IInv, FdInv, NoSharedFd
    <2>4. \A f \in Fds : peer'[f] # "none" => \E d \in Channels : activeFd'[d] = f
      <3> SUFFICES ASSUME NEW f \in Fds, peer'[f] # "none"
                   PROVE  \E d \in Channels : activeFd'[d] = f
        OBVIOUS
      <3>1. peer[f] # "none" /\ f # activeFd[c]
        BY <1>3
      <3>2. CASE f = setup[t].fd
        BY <1>3, <3>2
      <3>3. CASE f # setup[t].fd
        <4>1. PICK d \in Channels : activeFd[d] = f
          BY <3>1, <3>3, <1>6 DEF IInv, FdInv
        <4>2. d # c
          BY <4>1, <3>1
        <4>3. QED BY <4>1, <4>2, <1>3
      <3>4. QED BY <3>2, <3>3
    <2>5. QED BY <2>1, <2>2, <2>3, <2>4 DEF FdInv, NoSharedFd
  <1>9. GenInv'
    <2>1. \A p \in PushThreads : push[p].pc # "idle" => push[p].gen <= generation'[push[p].ch]
      BY <1>3, <1>4 DEF IInv, TypeOK, EmployedOK, GenInv
    <2>2. \A u \in SetupThreads : setup'[u].pc = "spawn" => setup'[u].gen <= generation'[setup'[u].ch]
      BY <1>2, <1>3, <1>4 DEF IInv, TypeOK, EmployedOK, GenInv
    <2>3. QED BY <1>2, <2>1, <2>2 DEF GenInv
  <1>10. UniqueInv'
    <2>1. \A p \in PushThreads : push[p].pc # "idle" /\ push[p].ch = c => push[p].gen # generation[c] + 1
      BY <1>3, <1>4 DEF IInv, GenInv
    <2>2. \A u \in SetupThreads : setup[u].pc = "spawn" /\ setup[u].ch = c => setup[u].gen # generation[c] + 1
      BY <1>3, <1>4 DEF IInv, GenInv
    <2>3. QED BY <1>2, <2>1, <2>2 DEF IInv, UniqueInv
  <1>11. CurrentInv'
    <2>1. \A p \in PushThreads : push[p].pc # "idle" =>
              \/ push[p].ch = c /\ push[p].gen # generation'[c]
              \/ /\ push[p].ch \in Channels /\ push[p].ch # c
                 /\ generation'[push[p].ch] = generation[push[p].ch]
                 /\ activeFd'[push[p].ch] = activeFd[push[p].ch]
      BY <1>3, <1>4 DEF IInv, TypeOK, EmployedOK, GenInv
    <2>2. CurrentThreadHoldsActiveFd'
      BY <1>2, <2>1 DEF IInv, CurrentInv, CurrentThreadHoldsActiveFd
    <2>3. \A p \in PushThreads : push[p].pc \in {"starting", "redial"} /\ push[p].gen = generation'[push[p].ch]
              => (activeFd'[push[p].ch] # None <=> push[p].pc = "starting")
      BY <2>1 DEF IInv, CurrentInv
    <2>4. \A u \in SetupThreads : setup'[u].pc = "spawn" /\ setup'[u].gen = generation'[setup'[u].ch]
              => activeFd'[setup'[u].ch] # None
      <3>1. activeFd'[c] # None
        BY <1>3, <1>5
      <3>2. \A u \in SetupThreads : u # t /\ setup[u].pc = "spawn" => setup[u].ch \in Channels
        BY DEF IInv, TypeOK, EmployedOK
      <3>3. QED BY <1>2, <1>3, <3>1, <3>2 DEF IInv, CurrentInv
    <2>5. QED BY <1>2, <2>2, <2>3, <2>4 DEF CurrentInv
  <1>12. ServedInv'
    <2>1. AboutToServe(t, c)'
      BY <1>2, <1>3 DEF AboutToServe
    <2>2. \A d \in Channels, q \in PushThreads : d # c /\ Serves(q, d) => Serves(q, d)'
      BY <1>2, <1>3 DEF Serves
    <2>3. \A d \in Channels, u \in SetupThreads : d # c /\ AboutToServe(u, d) => AboutToServe(u, d)'
      BY <1>2, <1>3 DEF AboutToServe
    <2>4. \A d \in Channels : d # c /\ activeFd[d] # None =>
              \/ \E q \in PushThreads : Serves(q, d)'
              \/ \E u \in SetupThreads : AboutToServe(u, d)'
      BY <2>2, <2>3 DEF IInv, ServedInv
    <2>5. QED BY <1>2, <1>3, <2>1, <2>4 DEF ServedInv
  <1>13. CareInv'
    <2>1. Tends(t, c)'
      BY <1>2, <1>3 DEF Tends
    <2>2. \A d \in Channels, q \in PushThreads : d # c /\ Serves(q, d) => Serves(q, d)'
      BY <1>2, <1>3 DEF Serves
    <2>3. \A d \in Channels, u \in SetupThreads : d # c /\ Tends(u, d) => Tends(u, d)'
      BY <1>2, <1>3 DEF Tends
    <2>4. \A d \in Channels : d # c /\ wanted[d] =>
              \/ \E u \in SetupThreads : Tends(u, d)'
              \/ \E q \in PushThreads : Serves(q, d)'
      BY <2>2, <2>3 DEF IInv, CareInv, NeverAbandoned
    <2>5. NeverAbandoned'
      BY <1>2, <1>3, <2>1, <2>4 DEF NeverAbandoned
    <2>6. \A u \in SetupThreads : setup'[u].pc # "idle" => setup'[u].host # None
      BY <1>2 DEF IInv, CareInv
    <2>7. QED BY <1>2, <2>5, <2>6 DEF IInv, CareInv
  <1>14. QED BY <1>1, <1>7, <1>8, <1>9, <1>10, <1>11, <1>12, <1>13 DEF IInv

LEMMA ConnectSpawnIInv ==
  ASSUME IInv, NEW t \in SetupThreads, NEW p \in PushThreads, ConnectSpawn(t, p)
  PROVE  IInv'
  <1> USE DEF IInv, TypeOK, ConnectSpawn, IdleSetup, IdlePush, chanVars, sockVars
  <1>1. TypeOK' BY ConnectSpawnTypeOK
  <1>2. MutexInv' BY DEF MutexInv
  <1>3. FdInv' BY DEF FdInv, NoSharedFd
  <1>4. GenInv' BY DEF GenInv
  <1>5. UniqueInv' BY DEF UniqueInv, ThreadTypeOK
  <1>6. CurrentInv' BY DEF CurrentInv, CurrentThreadHoldsActiveFd
  <1>7. ServedInv' BY DEF ServedInv, Serves, AboutToServe, ChannelTypeOK, ThreadTypeOK
  <1>8. CareInv' BY DEF CareInv, NeverAbandoned, Tends, Serves, CurrentInv, ChannelTypeOK, ThreadTypeOK, EmployedOK, WorldTypeOK
  <1>9. QED BY <1>1, <1>2, <1>3, <1>4, <1>5, <1>6, <1>7, <1>8

\* A push thread moves on along its loop: nothing but its own program counter and
\* descriptor changes, and if its generation is current it holds the socket.
LEMMA PushMovesIInv ==
  ASSUME IInv, TypeOK', NEW p \in PushThreads,
         UNCHANGED <<generation, activeFd, host, wanted, connectMutex, setup, peer>>,
         \A q \in PushThreads : q # p => push'[q] = push[q],
         push[p].pc \in {"starting", "header", "loop", "body"},
         push'[p].pc \in {"header", "loop", "body", "ending"},
         push'[p].ch = push[p].ch, push'[p].gen = push[p].gen,
         \/ push'[p].fd = activeFd[push[p].ch]
         \/ push'[p].fd = push[p].fd /\ push[p].pc # "starting"
  PROVE  IInv'
  <1>1. MutexInv' /\ FdInv' BY DEF IInv, MutexInv, FdInv, NoSharedFd
  <1>2. GenInv' BY DEF IInv, GenInv
  <1>3. UniqueInv' BY DEF IInv, UniqueInv
  <1>4. CurrentInv' BY DEF IInv, CurrentInv, CurrentThreadHoldsActiveFd
  <1>5. \A c \in Channels, q \in PushThreads : Serves(q, c) => Serves(q, c)'
    BY DEF Serves
  <1>6. ServedInv' BY <1>5 DEF IInv, ServedInv, AboutToServe
  <1>7. CareInv'
    <2>1. NeverAbandoned' BY <1>5 DEF IInv, CareInv, NeverAbandoned, Tends
    <2>2. QED BY <2>1 DEF IInv, CareInv
  <1>8. QED BY <1>1, <1>2, <1>3, <1>4, <1>6, <1>7 DEF IInv

LEMMA PushStartIInv ==
  ASSUME IInv, NEW p \in PushThreads, PushStart(p)
  PROVE  IInv'
  <1>1. TypeOK' BY PushStartTypeOK DEF IInv
  <1>2. /\ UNCHANGED <<generation, activeFd, host, wanted, connectMutex, setup, peer>>
        /\ \A q \in PushThreads : q # p => push'[q] = push[q]
        /\ push[p].pc = "starting" /\ push'[p].pc = "header"
        /\ push'[p].ch = push[p].ch /\ push'[p].gen = push[p].gen
        /\ push'[p].fd = activeFd[push[p].ch]
    BY DEF PushStart, IInv, TypeOK, ThreadTypeOK, chanVars, sockVars
  <1>3. push[p].pc \in {"starting", "header", "loop", "body"} BY <1>2
  <1>4. push'[p].pc \in {"header", "loop", "body", "ending"} BY <1>2
  <1>5. \/ push'[p].fd = activeFd[push[p].ch]
        \/ push'[p].fd = push[p].fd /\ push[p].pc # "starting"
    BY <1>2
  <1>6. QED BY <1>1, <1>2, <1>3, <1>4, <1>5, PushMovesIInv

LEMMA PushWritesIInv ==
  ASSUME IInv, NEW p \in PushThreads, push[p].pc \in {"header", "body"}, PushWrites(p, "loop"),
         UNCHANGED <<chanVars, connectMutex, setup, peer, requested, left>>
  PROVE  IInv'
  <1>1. TypeOK' BY PushWritesTypeOK DEF IInv
  <1>2. /\ UNCHANGED <<generation, activeFd, host, wanted, connectMutex, setup, peer>>
        /\ \A q \in PushThreads : q # p => push'[q] = push[q]
        /\ push'[p].pc \in {"loop", "ending"}
        /\ push'[p].ch = push[p].ch /\ push'[p].gen = push[p].gen /\ push'[p].fd = push[p].fd
    BY DEF PushWrites, IInv, TypeOK, ThreadTypeOK, chanVars
  <1>3. QED BY <1>1, <1>2, PushMovesIInv

LEMMA PushCheckIInv ==
  ASSUME IInv, NEW p \in PushThreads, PushCheck(p)
  PROVE  IInv'
  <1>1. TypeOK' BY PushCheckTypeOK DEF IInv
  <1>2. /\ UNCHANGED <<generation, activeFd, host, wanted, connectMutex, setup, peer>>
        /\ \A q \in PushThreads : q # p => push'[q] = push[q]
        /\ push[p].pc = "loop" /\ push'[p].pc \in {"body", "ending"}
        /\ push'[p].ch = push[p].ch /\ push'[p].gen = push[p].gen /\ push'[p].fd = push[p].fd
    BY DEF PushCheck, IInv, TypeOK, ThreadTypeOK, chanVars, sockVars
  <1>3. QED BY <1>1, <1>2, PushMovesIInv

LEMMA PushEndIInv ==
  ASSUME IInv, NEW p \in PushThreads, PushEnd(p)
  PROVE  IInv'
  <1> DEFINE c == push[p].ch
             current == generation[c] = push[p].gen
  <1>1. TypeOK' BY PushEndTypeOK DEF IInv
  <1>2. /\ UNCHANGED <<generation, host, wanted, connectMutex, setup>>
        /\ c \in Channels
        /\ \A d \in Channels : activeFd'[d] = IF d = c /\ current THEN None ELSE activeFd[d]
        /\ \A f \in Fds : peer'[f] = IF f = activeFd[c] /\ current THEN "none" ELSE peer[f]
    BY DEF PushEnd, CloseFd, IInv, TypeOK, ChannelTypeOK, EmployedOK, sockVars
  <1>3. /\ \A q \in PushThreads : q # p => push'[q] = push[q]
        /\ push[p].pc = "ending"
        /\ \/ push'[p].pc = "idle" /\ ~(current /\ wanted[c] /\ host[c] # None)
           \/ /\ current
              /\ push'[p].pc = "redial" /\ push'[p].ch = c /\ push'[p].gen = push[p].gen
              /\ push'[p].host # None
    BY DEF PushEnd, IdlePush, IInv, TypeOK, ThreadTypeOK
  <1>4. current => activeFd[c] # None
    BY <1>3 DEF IInv, CurrentInv, CurrentThreadHoldsActiveFd
  <1>5. \A q \in PushThreads : q # p /\ push[q].pc # "idle" /\ push[q].ch = c =>
            push[q].gen # push[p].gen
    BY <1>3 DEF IInv, UniqueInv
  <1>6. \A u \in SetupThreads : setup[u].pc = "spawn" /\ setup[u].ch = c =>
            setup[u].gen # push[p].gen
    BY <1>3 DEF IInv, UniqueInv
  <1>7. MutexInv' BY <1>2 DEF IInv, MutexInv
  <1>8. FdInv'
    <2>1. \A d \in Channels : activeFd[d] # None => activeFd[d] \in Fds
      BY DEF IInv, TypeOK, ChannelTypeOK
    <2>2. \A d \in Channels : activeFd'[d] # None => peer'[activeFd'[d]] # "none"
      BY <1>2, <1>4, <2>1 DEF IInv, FdInv, NoSharedFd
    <2>3. \A u \in SetupThreads : setup'[u].pc = "dialled" =>
              setup'[u].fd \in Fds /\ peer'[setup'[u].fd] # "none"
      BY <1>2 DEF IInv, FdInv, NoSharedFd
    <2>4. NoSharedFd'
      <3>1. \A d, e \in Channels : activeFd'[d] # None /\ activeFd'[d] = activeFd'[e] => d = e
        BY <1>2 DEF IInv, FdInv, NoSharedFd
      <3>2. \A d \in Channels, u \in SetupThreads :
                setup'[u].pc = "dialled" => activeFd'[d] # setup'[u].fd
        BY <1>2, <2>3 DEF IInv, FdInv, NoSharedFd
      <3>3. QED BY <3>1, <3>2 DEF NoSharedFd
    <2>5. \A f \in Fds : peer'[f] # "none" =>
              \/ \E d \in Channels : activeFd'[d] = f
              \/ \E u \in SetupThreads : setup'[u].pc = "dialled" /\ setup'[u].fd = f
      BY <1>2 DEF IInv, FdInv
    <2>6. QED BY <2>2, <2>3, <2>4, <2>5 DEF FdInv
  <1>9. GenInv' BY <1>2, <1>3 DEF IInv, GenInv
  <1>10. UniqueInv' BY <1>2, <1>3 DEF IInv, UniqueInv
  <1>11. CurrentInv'
    <2>1. CurrentThreadHoldsActiveFd'
      BY <1>2, <1>3, <1>5 DEF IInv, TypeOK, EmployedOK, CurrentInv, CurrentThreadHoldsActiveFd
    <2>2. \A q \in PushThreads :
              push'[q].pc = "starting" /\ push'[q].gen = generation[push'[q].ch]
              => activeFd'[push'[q].ch] # None
      BY <1>2, <1>3, <1>5 DEF IInv, TypeOK, EmployedOK, CurrentInv
    <2>3. \A q \in PushThreads :
              push'[q].pc = "redial" /\ push'[q].gen = generation[push'[q].ch]
              => activeFd'[push'[q].ch] = None
      BY <1>2, <1>3 DEF IInv, TypeOK, EmployedOK, CurrentInv
    <2>4. \A u \in SetupThreads :
              setup[u].pc = "spawn" /\ setup[u].gen = generation[setup[u].ch]
              => activeFd'[setup[u].ch] # None
      BY <1>2, <1>6 DEF IInv, TypeOK, EmployedOK, CurrentInv
    <2>5. QED BY <1>2, <2>1, <2>2, <2>3, <2>4 DEF CurrentInv
  <1>12. ServedInv'
    <2>1. \A d \in Channels, q \in PushThreads :
              activeFd'[d] # None /\ Serves(q, d) => Serves(q, d)'
      BY <1>2, <1>3 DEF Serves
    <2>2. \A d \in Channels, u \in SetupThreads : AboutToServe(u, d) => AboutToServe(u, d)'
      BY <1>2 DEF AboutToServe
    <2>3. QED BY <1>2, <2>1, <2>2 DEF IInv, ServedInv
  <1>13. CareInv'
    <2>1. \A d \in Channels, q \in PushThreads : wanted[d] /\ Serves(q, d) => Serves(q, d)'
      BY <1>2, <1>3 DEF Serves, IInv, CareInv
    <2>2. \A d \in Channels, u \in SetupThreads : Tends(u, d) => Tends(u, d)'
      BY <1>2 DEF Tends
    <2>3. NeverAbandoned'
      BY <1>2, <2>1, <2>2 DEF IInv, CareInv, NeverAbandoned
    <2>4. QED BY <1>2, <1>3, <2>3 DEF IInv, CareInv
  <1>14. QED BY <1>1, <1>7, <1>8, <1>9, <1>10, <1>11, <1>12, <1>13 DEF IInv

LEMMA PushRedialIInv ==
  ASSUME IInv, NEW p \in PushThreads, NEW r \in RetryThreads, PushRedial(p, r)
  PROVE  IInv'
  <1>1. TypeOK' BY PushRedialTypeOK DEF IInv
  <1>2. /\ UNCHANGED <<generation, activeFd, host, wanted, connectMutex, peer>>
        /\ r \in SetupThreads
        /\ \A u \in SetupThreads : u # r => setup'[u] = setup[u]
        /\ setup[r].pc = "idle" /\ setup'[r].pc = "sleep"
        /\ setup'[r].ch = push[p].ch /\ setup'[r].gen = push[p].gen
        /\ setup'[r].host = push[p].host
    BY DEF PushRedial, ScheduleFrom, IInv, TypeOK, ThreadTypeOK, SetupThreads, chanVars, sockVars
  <1>3. /\ \A q \in PushThreads : q # p => push'[q] = push[q]
        /\ push[p].pc = "redial" /\ push'[p].pc = "idle"
    BY DEF PushRedial, IdlePush, IInv, TypeOK, ThreadTypeOK
  <1>4. MutexInv' BY <1>2 DEF IInv, MutexInv
  <1>5. FdInv'
    <2>1. \A u \in SetupThreads : setup'[u].pc = "dialled" => setup'[u] = setup[u]
      BY <1>2
    <2>2. \A u \in SetupThreads : setup[u].pc = "dialled" => setup'[u] = setup[u]
      BY <1>2
    <2>3. QED BY <1>2, <2>1, <2>2 DEF IInv, FdInv, NoSharedFd
  <1>6. GenInv' BY <1>2, <1>3 DEF IInv, GenInv
  <1>7. UniqueInv' BY <1>2, <1>3 DEF IInv, UniqueInv
  <1>8. CurrentInv' BY <1>2, <1>3 DEF IInv, CurrentInv, CurrentThreadHoldsActiveFd
  <1>9. ServedInv'
    <2>1. \A c \in Channels, q \in PushThreads :
              activeFd[c] # None /\ Serves(q, c) => Serves(q, c)'
      BY <1>2, <1>3 DEF Serves, IInv, CurrentInv
    <2>2. \A c \in Channels, u \in SetupThreads : AboutToServe(u, c) => AboutToServe(u, c)'
      BY <1>2 DEF AboutToServe
    <2>3. QED BY <1>2, <2>1, <2>2 DEF IInv, ServedInv
  <1>10. CareInv'
    <2>1. \A c \in Channels : Serves(p, c) => Tends(r, c)'
      BY <1>2, <1>3 DEF Serves, Tends
    <2>2. \A c \in Channels, q \in PushThreads : q # p /\ Serves(q, c) => Serves(q, c)'
      BY <1>2, <1>3 DEF Serves
    <2>3. \A c \in Channels, u \in SetupThreads : Tends(u, c) => Tends(u, c)'
      BY <1>2 DEF Tends
    <2>4. NeverAbandoned'
      BY <1>2, <2>1, <2>2, <2>3 DEF IInv, CareInv, NeverAbandoned
    <2>5. \A u \in SetupThreads : setup'[u].pc # "idle" => setup'[u].host # None
      BY <1>2, <1>3 DEF IInv, CareInv
    <2>6. \A q \in PushThreads : push'[q].pc = "redial" => push'[q].host # None
      BY <1>3 DEF IInv, CareInv
    <2>7. QED BY <1>2, <2>4, <2>5, <2>6 DEF IInv, CareInv
  <1>11. QED BY <1>1, <1>4, <1>5, <1>6, <1>7, <1>8, <1>9, <1>10 DEF IInv

LEMMA PeerLeavesIInv ==
  ASSUME IInv, NEW fd \in Fds, NEW how \in {"closed", "stalled"}, PeerLeaves(fd, how)
  PROVE  IInv'
  <1> USE DEF IInv, TypeOK, PeerLeaves, chanVars, sockVars
  <1>1. TypeOK' BY PeerLeavesTypeOK
  <1>2. MutexInv' BY DEF MutexInv
  <1>3. FdInv' BY DEF FdInv, NoSharedFd
  <1>4. GenInv' BY DEF GenInv
  <1>5. UniqueInv' BY DEF UniqueInv
  <1>6. CurrentInv' BY DEF CurrentInv, CurrentThreadHoldsActiveFd
  <1>7. ServedInv' BY DEF ServedInv, Serves, AboutToServe
  <1>8. CareInv' BY DEF CareInv, NeverAbandoned, Tends, Serves
  <1>9. QED BY <1>1, <1>2, <1>3, <1>4, <1>5, <1>6, <1>7, <1>8

LEMMA InitIInv == Init => IInv
  <1> SUFFICES ASSUME Init PROVE IInv
    OBVIOUS
  <1>1. TypeOK BY InitTypeOK
  <1>2. MutexInv BY DEF Init, MutexInv, IdleSetup, SetupThreads
  <1>3. FdInv BY DEF Init, FdInv, NoSharedFd, IdleSetup
  <1>4. GenInv BY DEF Init, GenInv, IdleSetup, IdlePush
  <1>5. UniqueInv BY DEF Init, UniqueInv, IdleSetup, IdlePush
  <1>6. CurrentInv BY DEF Init, CurrentInv, CurrentThreadHoldsActiveFd, IdleSetup, IdlePush
  <1>7. ServedInv BY DEF Init, ServedInv
  <1>8. CareInv BY DEF Init, CareInv, NeverAbandoned, IdleSetup, IdlePush
  <1>9. QED BY <1>1, <1>2, <1>3, <1>4, <1>5, <1>6, <1>7, <1>8 DEF IInv

LEMMA NextIInv == IInv /\ [Next]_vars => IInv'
  <1> SUFFICES ASSUME IInv, [Next]_vars
               PROVE  IInv'
    OBVIOUS
  <1>1. CASE UNCHANGED vars
    <2>1. TypeOK' BY <1>1, NextTypeOK DEF IInv
    <2>2. /\ UNCHANGED <<generation, activeFd, host, wanted, connectMutex, setup, push, peer>>
      BY <1>1 DEF vars, chanVars, sockVars
    <2>3. MutexInv' /\ FdInv' /\ GenInv' /\ UniqueInv'
      BY <2>2 DEF IInv, MutexInv, FdInv, NoSharedFd, GenInv, UniqueInv
    <2>4. CurrentInv' BY <2>2 DEF IInv, CurrentInv, CurrentThreadHoldsActiveFd
    <2>5. ServedInv' BY <2>2 DEF IInv, ServedInv, Serves, AboutToServe
    <2>6. CareInv' BY <2>2 DEF IInv, CareInv, NeverAbandoned, Serves, Tends
    <2>7. QED BY <2>1, <2>3, <2>4, <2>5, <2>6 DEF IInv
  <1>2. CASE AtRest
    BY <1>1, <1>2 DEF AtRest
  <1>3. CASE \E c \in Channels, h \in Hosts, s \in Streams : CtlConnect(c, h, s)
    BY <1>3, CtlConnectIInv
  <1>4. CASE \E c \in Channels : CtlDisconnect(c)
    BY <1>4, CtlDisconnectIInv
  <1>5. CASE \E r \in RetryThreads : RetryWake(r)
    BY <1>5, RetryWakeIInv
  <1>6. CASE \E t \in SetupThreads : SetupStep(t)
    BY <1>6, ConnectBeginIInv, DialFailsIInv, DialSucceedsIInv, ConnectRearmIInv,
       ConnectInstallIInv, ConnectSpawnIInv DEF SetupStep
  <1>7. ASSUME NEW p \in PushThreads, PushStep(p)
        PROVE  IInv'
    <2>1. CASE PushHeader(p)
      BY <2>1, PushWritesIInv DEF PushHeader
    <2>2. CASE PushBody(p)
      BY <2>2, PushWritesIInv DEF PushBody
    <2>3. QED
      BY <1>7, <2>1, <2>2, PushStartIInv, PushCheckIInv, PushEndIInv, PushRedialIInv
      DEF PushStep
  <1>8. CASE \E fd \in Fds, how \in {"closed", "stalled"} : PeerLeaves(fd, how)
    BY <1>8, PeerLeavesIInv
  <1>9. QED BY <1>1, <1>2, <1>3, <1>4, <1>5, <1>6, <1>7, <1>8 DEF Next

\* The inductive invariant: types, who holds g_connectMutex, which descriptors are
\* open, generations never ahead of the channel's, one thread per generation, and
\* somebody at work for every wanted channel.
THEOREM InductiveInvariant == Spec => []IInv
  BY InitIInv, NextIInv, PTL DEF Spec

----------------------------------------------------------------------------
(* What the inductive invariant says of each property. *)

LEMMA IInvNoFdLeak == IInv => NoFdLeak
  <1> SUFFICES ASSUME IInv PROVE NoFdLeak
    OBVIOUS
  <1>1. ASSUME NEW fd, fd \in open
        PROVE  \/ \E c \in Channels : activeFd[c] # None /\ activeFd[c] = fd
               \/ \E t \in SetupThreads : setup[t].pc = "dialled" /\ setup[t].fd = fd
    BY <1>1 DEF open, IInv, FdInv
  <1>2. ASSUME NEW c \in Channels, activeFd[c] # None
        PROVE  activeFd[c] \in open
    BY <1>2 DEF open, IInv, TypeOK, ChannelTypeOK, FdInv
  <1>3. ASSUME NEW t \in SetupThreads, setup[t].pc = "dialled"
        PROVE  setup[t].fd \in open
    BY <1>3 DEF open, IInv, FdInv
  <1>4. QED BY <1>1, <1>2, <1>3 DEF NoFdLeak

LEMMA IInvOneWriter == IInv => OneWriterPerConnection
  <1> SUFFICES ASSUME IInv, NEW c \in Channels, activeFd[c] # None
               PROVE  Cardinality({p \in PushThreads : Serves(p, c)})
                        + Cardinality({t \in SetupThreads : AboutToServe(t, c)}) = 1
    BY DEF OneWriterPerConnection
  <1> DEFINE P == {p \in PushThreads : Serves(p, c)}
             T == {t \in SetupThreads : AboutToServe(t, c)}
  <1>1. \A p, q \in P : p = q
    BY DEF Serves, IInv, UniqueInv
  <1>2. \A t, u \in T : t = u
    BY DEF AboutToServe, IInv, UniqueInv
  <1>3. P = {} \/ T = {}
    BY DEF Serves, AboutToServe, IInv, UniqueInv
  <1>4. P # {} \/ T # {}
    BY DEF IInv, ServedInv
  <1>5. CASE P # {}
    <2>1. PICK p \in P : TRUE BY <1>5
    <2>2. P = {p} BY <1>1, <2>1
    <2>3. Cardinality(P) = 1 BY <2>2, FS_Singleton
    <2>4. Cardinality(T) = 0 BY <1>3, <1>5, FS_EmptySet
    <2>5. QED BY <2>3, <2>4
  <1>6. CASE T # {}
    <2>1. PICK t \in T : TRUE BY <1>6
    <2>2. T = {t} BY <1>2, <2>1
    <2>3. Cardinality(T) = 1 BY <2>2, FS_Singleton
    <2>4. Cardinality(P) = 0 BY <1>3, <1>6, FS_EmptySet
    <2>5. QED BY <2>3, <2>4
  <1>7. QED BY <1>4, <1>5, <1>6

----------------------------------------------------------------------------
(* The theorems. *)

\* No descriptor leaks: whatever the interleaving of commands, retries and
\* departing peers, the open sockets are the channels' and the one being set up.
THEOREM NoFdLeakCorrect == Spec => []NoFdLeak
  BY InductiveInvariant, IInvNoFdLeak, PTL

\* Two channels never hold the same socket.
THEOREM NoSharedFdCorrect == Spec => []NoSharedFd
  <1>1. IInv => NoSharedFd BY DEF IInv, FdInv
  <1>2. QED BY <1>1, InductiveInvariant, PTL

\* Every connection has exactly one push thread of its generation.
THEOREM OneWriterCorrect == Spec => []OneWriterPerConnection
  BY InductiveInvariant, IInvOneWriter, PTL

\* The push thread of the current generation holds the channel's own socket.
THEOREM CurrentThreadCorrect == Spec => []CurrentThreadHoldsActiveFd
  <1>1. IInv => CurrentThreadHoldsActiveFd BY DEF IInv, CurrentInv
  <1>2. QED BY <1>1, InductiveInvariant, PTL

\* A wanted channel always has a thread at work for it.
THEOREM NeverAbandonedCorrect == Spec => []NeverAbandoned
  <1>1. IInv => NeverAbandoned BY DEF IInv, CareInv
  <1>2. QED BY <1>1, InductiveInvariant, PTL

----------------------------------------------------------------------------
(***************************************************************************)
(* FlvConn implements StreamSlot.  On top of IInv this needs that a        *)
(* channel stays wanted while it is dialled, which g_connectMutex sees to. *)
(***************************************************************************)

DialledWanted ==
    \A t \in SetupThreads : setup[t].pc \in {"dialling", "dialled"} => wanted[setup[t].ch]

SlotInv == IInv /\ DialledWanted

LEMMA InitSlotInv == Init => SlotInv
  <1> SUFFICES ASSUME Init PROVE SlotInv
    OBVIOUS
  <1>1. IInv BY InitIInv
  <1>2. DialledWanted BY DEF Init, DialledWanted, IdleSetup
  <1>3. QED BY <1>1, <1>2 DEF SlotInv

LEMMA NextSlotInv == SlotInv /\ [Next]_vars => SlotInv'
  <1> SUFFICES ASSUME SlotInv, [Next]_vars
               PROVE  DialledWanted'
    BY NextIInv DEF SlotInv
  <1> USE DEF SlotInv, DialledWanted
  <1>1. /\ setup \in [SetupThreads -> Locals(SetupPcs)]
        /\ wanted \in [Channels -> BOOLEAN]
        /\ EmployedOK /\ MutexInv
    BY DEF IInv, TypeOK, ThreadTypeOK, ChannelTypeOK
  <1>2. ASSUME UNCHANGED <<setup, wanted>>
        PROVE  DialledWanted'
    BY <1>2
  <1>3. ASSUME NEW c \in Channels, NEW h \in Hosts, NEW s \in Streams, CtlConnect(c, h, s)
        PROVE  DialledWanted'
    BY <1>1, <1>3 DEF CtlConnect, chanVars, SetupThreads
  <1>4. ASSUME NEW c \in Channels, CtlDisconnect(c)
        PROVE  DialledWanted'
    <2>1. \A t \in SetupThreads : setup[t].pc \notin {"dialling", "dialled"}
      BY <1>1, <1>4 DEF CtlDisconnect, MutexInv, SetupThreads
    <2>2. QED BY <1>4, <2>1 DEF CtlDisconnect
  <1>5. ASSUME NEW r \in RetryThreads, RetryWake(r)
        PROVE  DialledWanted'
    BY <1>1, <1>5 DEF RetryWake, chanVars, SetupThreads, IdleSetup
  <1>6. ASSUME NEW t \in SetupThreads, SetupStep(t)
        PROVE  DialledWanted'
    <2>1. CASE ConnectBegin(t)
      <3>1. setup[t].ch \in Channels
        BY <1>1, <2>1 DEF ConnectBegin, EmployedOK
      <3>2. \A u \in SetupThreads : u # t => setup'[u] = setup[u]
        BY <1>1, <2>1 DEF ConnectBegin
      <3>3. setup'[t].ch = setup[t].ch
        BY <1>1, <2>1 DEF ConnectBegin
      <3>4. \A u \in SetupThreads : setup[u].pc \notin {"dialling", "dialled"}
        BY <1>1, <2>1 DEF ConnectBegin, MutexInv, SetupThreads
      <3>5. QED BY <1>1, <2>1, <3>1, <3>2, <3>3, <3>4 DEF ConnectBegin
    <2>2. CASE DialFails(t)
      BY <1>1, <2>2 DEF DialFails, chanVars
    <2>3. CASE \E fd \in Fds : DialSucceeds(t, fd)
      BY <1>1, <2>3 DEF DialSucceeds, chanVars
    <2>4. CASE \E r \in RetryThreads : ConnectRearm(t, r)
      BY <1>1, <2>4 DEF ConnectRearm, ScheduleFrom, chanVars, IdleSetup, SetupThreads
    <2>5. CASE ConnectInstall(t)
      BY <1>1, <2>5 DEF ConnectInstall
    <2>6. CASE \E p \in PushThreads : ConnectSpawn(t, p)
      BY <1>1, <2>6 DEF ConnectSpawn, chanVars, IdleSetup
    <2>7. QED BY <1>6, <2>1, <2>2, <2>3, <2>4, <2>5, <2>6 DEF SetupStep
  <1>7. ASSUME NEW p \in PushThreads, PushStep(p)
        PROVE  DialledWanted'
    <2>1. CASE \E r \in RetryThreads : PushRedial(p, r)
      BY <1>1, <2>1 DEF PushRedial, ScheduleFrom, chanVars, SetupThreads, IdleSetup
    <2>2. CASE ~ \E r \in RetryThreads : PushRedial(p, r)
      BY <1>2, <1>7, <2>2
      DEF PushStep, PushStart, PushHeader, PushCheck, PushBody, PushEnd, chanVars
    <2>3. QED BY <2>1, <2>2
  <1>8. ASSUME NEW fd \in Fds, NEW how \in {"closed", "stalled"}, PeerLeaves(fd, how)
        PROVE  DialledWanted'
    BY <1>2, <1>8 DEF PeerLeaves, chanVars
  <1>9. CASE AtRest \/ UNCHANGED vars
    BY <1>2, <1>9 DEF AtRest, vars, chanVars
  <1>10. QED BY <1>3, <1>4, <1>5, <1>6, <1>7, <1>8, <1>9 DEF Next

\* The mapped dialled socket is that of the one thread that has dialled.
LEMMA SlotDialledIs ==
  ASSUME IInv
  PROVE  /\ \A t \in SetupThreads : setup[t].pc = "dialled" => SlotDialled = setup[t].fd
         /\ (\A t \in SetupThreads : setup[t].pc # "dialled") => SlotDialled = None
  <1>1. ASSUME NEW t \in SetupThreads, setup[t].pc = "dialled"
        PROVE  SlotDialled = setup[t].fd
    <2>1. \A u \in SetupThreads : setup[u].pc = "dialled" => u = t
      BY <1>1 DEF IInv, MutexInv
    <2>2. Dialled = {setup[t].fd}
      BY <1>1, <2>1 DEF Dialled
    <2>3. setup[t].fd \in Fds
      BY <1>1 DEF IInv, FdInv
    <2>4. QED BY <2>2, <2>3 DEF SlotDialled
  <1>2. ASSUME \A t \in SetupThreads : setup[t].pc # "dialled"
        PROVE  SlotDialled = None
    <2>1. Dialled = {} BY <1>2 DEF Dialled
    <2>2. QED BY <2>1 DEF SlotDialled
  <1>3. QED BY <1>1, <1>2

\* A step of a thread that neither dials nor gives up a dialled socket.
LEMMA SlotDialledKept ==
  ASSUME \A t \in SetupThreads :
            \/ setup'[t].pc = "dialled" /\ setup[t].pc = "dialled" /\ setup'[t].fd = setup[t].fd
            \/ setup'[t].pc # "dialled" /\ setup[t].pc # "dialled"
  PROVE  SlotDialled' = SlotDialled
  <1>1. Dialled' = Dialled BY DEF Dialled
  <1>2. QED BY <1>1 DEF SlotDialled

\* A step of a thread that neither creates nor is about to create a push thread.
LEMMA SlotWriterKept ==
  ASSUME UNCHANGED <<activeFd, generation>>,
         \A t \in SetupThreads :
            \/ setup'[t] = setup[t]
            \/ setup'[t].pc # "spawn" /\ setup[t].pc # "spawn"
  PROVE  \A c \in Channels : SlotWriter(c)' = SlotWriter(c)
  <1>1. \A c \in Channels, t \in SetupThreads : AboutToServe(t, c)' = AboutToServe(t, c)
    BY DEF AboutToServe
  <1>2. QED BY <1>1 DEF SlotWriter

LEMMA SlotStutters ==
  ASSUME UNCHANGED <<wanted, activeFd, generation>>, SlotDialled' = SlotDialled,
         \A c \in Channels : SlotWriter(c)' = SlotWriter(c)
  PROVE  UNCHANGED Slot!slotVars
  <1>1. [c \in Channels |-> SlotWriter(c)'] = [c \in Channels |-> SlotWriter(c)]
    OBVIOUS
  <1>2. QED BY <1>1 DEF Slot!slotVars

\* A step of the threads that no channel's connection takes part in.
LEMMA SlotStuttersIdle ==
  ASSUME UNCHANGED <<wanted, activeFd, generation>>,
         \A t \in SetupThreads :
            \/ setup'[t] = setup[t]
            \/ setup'[t].pc \notin {"dialled", "spawn"} /\ setup[t].pc \notin {"dialled", "spawn"}
  PROVE  UNCHANGED Slot!slotVars
  <1>1. SlotDialled' = SlotDialled BY SlotDialledKept
  <1>2. \A c \in Channels : SlotWriter(c)' = SlotWriter(c) BY SlotWriterKept
  <1>3. QED BY <1>1, <1>2, SlotStutters

LEMMA CtlDisconnectSlot ==
  ASSUME IInv, NEW c \in Channels, CtlDisconnect(c)
  PROVE  Slot!Unwant(c)
  <1> USE DEF CtlDisconnect
  <1>1. activeFd \in [Channels -> Fds \cup {None}] /\ generation \in [Channels -> Nat]
    BY DEF IInv, TypeOK, ChannelTypeOK
  <1>2. wanted' = [wanted EXCEPT ![c] = FALSE]
    OBVIOUS
  <1>3. activeFd' = [activeFd EXCEPT ![c] = None]
    BY <1>1
  <1>4. generation' = IF activeFd[c] = None THEN generation
                      ELSE [generation EXCEPT ![c] = @ + 1]
    OBVIOUS
  <1>5. SlotDialled' = SlotDialled BY SlotDialledKept
  <1>6. SlotWriter(c)' = "none" BY <1>1, <1>3 DEF SlotWriter
  <1>7. ASSUME NEW d \in Channels, d # c
        PROVE  SlotWriter(d)' = SlotWriter(d)
    <2>1. activeFd'[d] = activeFd[d] /\ generation'[d] = generation[d]
      BY <1>1, <1>3, <1>4, <1>7
    <2>2. \A t \in SetupThreads : AboutToServe(t, d)' = AboutToServe(t, d)
      BY <2>1 DEF AboutToServe
    <2>3. QED BY <2>1, <2>2 DEF SlotWriter
  <1>8. [d \in Channels |-> SlotWriter(d)'] =
            [[d \in Channels |-> SlotWriter(d)] EXCEPT ![c] = "none"]
    BY <1>6, <1>7
  <1>9. QED BY <1>2, <1>3, <1>4, <1>5, <1>8 DEF Slot!Unwant

LEMMA ConnectBeginSlot ==
  ASSUME IInv, NEW t \in SetupThreads, ConnectBegin(t)
  PROVE  setup[t].ch \in Channels /\ Slot!Want(setup[t].ch)
  <1> USE DEF ConnectBegin
  <1>1. setup \in [SetupThreads -> Locals(SetupPcs)] /\ setup[t].ch \in Channels
    BY DEF IInv, TypeOK, ThreadTypeOK, EmployedOK
  <1>2. \A u \in SetupThreads :
            \/ setup'[u] = setup[u]
            \/ setup'[u].pc = "dialling" /\ setup[u].pc = "ready"
    BY <1>1
  <1>3. SlotDialled' = SlotDialled BY <1>2, SlotDialledKept
  <1>4. \A c \in Channels : SlotWriter(c)' = SlotWriter(c) BY <1>2, SlotWriterKept
  <1>5. [c \in Channels |-> SlotWriter(c)'] = [c \in Channels |-> SlotWriter(c)]
    BY <1>4
  <1>6. QED BY <1>1, <1>3, <1>5 DEF Slot!Want

LEMMA DialSucceedsSlot ==
  ASSUME IInv, IInv', NEW t \in SetupThreads, NEW fd \in Fds, DialSucceeds(t, fd)
  PROVE  Slot!Dial(fd)
  <1> USE DEF DialSucceeds
  <1>1. setup \in [SetupThreads -> Locals(SetupPcs)] /\ peer \in [Fds -> PeerStates]
    BY DEF IInv, TypeOK, ThreadTypeOK, WorldTypeOK
  <1>2. \A u \in SetupThreads : setup[u].pc # "dialled"
    BY DEF IInv, MutexInv
  <1>3. SlotDialled = None BY <1>2, SlotDialledIs
  <1>4. setup'[t].pc = "dialled" /\ setup'[t].fd = fd
    BY <1>1 DEF Locals
  <1>5. SlotDialled' = fd
    <2>1. \A u \in SetupThreads : setup'[u].pc = "dialled" => u = t
      BY <1>1, <1>2
    <2>2. Dialled' = {fd} BY <1>4, <2>1 DEF Dialled
    <2>3. QED BY <2>2 DEF SlotDialled
  <1>6. \A c \in Channels : activeFd[c] # fd
    BY <1>1 DEF IInv, FdInv, open
  <1>7. \A u \in SetupThreads :
            \/ setup'[u] = setup[u]
            \/ setup'[u].pc # "spawn" /\ setup[u].pc # "spawn"
    BY <1>1, <1>4
  <1>8. \A c \in Channels : SlotWriter(c)' = SlotWriter(c)
    BY <1>7, SlotWriterKept DEF chanVars
  <1>9. [c \in Channels |-> SlotWriter(c)'] = [c \in Channels |-> SlotWriter(c)]
    BY <1>8
  <1>10. QED BY <1>3, <1>5, <1>6, <1>9 DEF Slot!Dial, chanVars

LEMMA ConnectInstallSlot ==
  ASSUME SlotInv, NEW t \in SetupThreads, ConnectInstall(t)
  PROVE  setup[t].ch \in Channels /\ Slot!Establish(setup[t].ch)
  <1> USE DEF ConnectInstall, SlotInv
  <1> PICK c \in Channels : c = setup[t].ch
    BY DEF IInv, TypeOK, EmployedOK
  <1>1. /\ setup \in [SetupThreads -> Locals(SetupPcs)]
        /\ activeFd \in [Channels -> Fds \cup {None}] /\ generation \in [Channels -> Nat]
    BY DEF IInv, TypeOK, ThreadTypeOK, ChannelTypeOK, EmployedOK
  <1>2. SlotDialled = setup[t].fd /\ setup[t].fd \in Fds
    BY SlotDialledIs DEF IInv, FdInv
  <1>3. wanted[c] BY DEF DialledWanted
  <1>4. /\ setup'[t].pc = "spawn" /\ setup'[t].ch = c
        /\ setup'[t].gen = generation[c] + 1
    BY <1>1 DEF Locals
  <1>5. \A u \in SetupThreads : u # t => setup'[u] = setup[u]
    BY <1>1
  <1>6. \A u \in SetupThreads : setup'[u].pc # "dialled"
    BY <1>4, <1>5 DEF IInv, MutexInv
  <1>7. SlotDialled' = None
    <2>1. Dialled' = {} BY <1>6 DEF Dialled
    <2>2. QED BY <2>1 DEF SlotDialled
  <1>8. SlotWriter(c)' = "due"
    <2>1. AboutToServe(t, c)' BY <1>1, <1>4 DEF AboutToServe
    <2>2. activeFd'[c] # None BY <1>1, <1>2
    <2>3. QED BY <2>1, <2>2 DEF SlotWriter
  <1>9. ASSUME NEW d \in Channels, d # c
        PROVE  SlotWriter(d)' = SlotWriter(d)
    <2>1. activeFd'[d] = activeFd[d] /\ generation'[d] = generation[d]
      BY <1>1, <1>9
    <2>2. \A u \in SetupThreads : AboutToServe(u, d)' = AboutToServe(u, d)
      BY <1>4, <1>5, <1>9, <2>1 DEF AboutToServe
    <2>3. QED BY <2>1, <2>2 DEF SlotWriter
  <1>10. [d \in Channels |-> SlotWriter(d)'] =
            [[d \in Channels |-> SlotWriter(d)] EXCEPT ![c] = "due"]
    BY <1>1, <1>8, <1>9
  <1>11. activeFd' = [activeFd EXCEPT ![c] = SlotDialled]
    BY <1>2
  <1>12. QED BY <1>1, <1>2, <1>3, <1>7, <1>10, <1>11 DEF Slot!Establish

LEMMA ConnectSpawnSlot ==
  ASSUME IInv, NEW t \in SetupThreads, NEW p \in PushThreads, ConnectSpawn(t, p)
  PROVE  (\E c \in Channels : Slot!Serve(c)) \/ UNCHANGED Slot!slotVars
  <1> USE DEF ConnectSpawn, chanVars
  <1> PICK c \in Channels : c = setup[t].ch
    BY DEF IInv, TypeOK, EmployedOK
  <1>1. setup \in [SetupThreads -> Locals(SetupPcs)]
    BY DEF IInv, TypeOK, ThreadTypeOK, EmployedOK
  <1>2. setup'[t].pc = "idle" /\ \A u \in SetupThreads : u # t => setup'[u] = setup[u]
    BY <1>1 DEF IdleSetup
  <1>3. SlotDialled' = SlotDialled
    BY <1>2, SlotDialledKept
  <1>4. ASSUME NEW d \in Channels, ~AboutToServe(t, d)
        PROVE  SlotWriter(d)' = SlotWriter(d)
    <2>1. \A u \in SetupThreads : AboutToServe(u, d)' = AboutToServe(u, d)
      BY <1>2, <1>4 DEF AboutToServe
    <2>2. QED BY <2>1 DEF SlotWriter
  <1>5. CASE setup[t].gen = generation[c]
    <2>1. activeFd[c] # None BY <1>5 DEF IInv, CurrentInv
    <2>2. AboutToServe(t, c) BY <1>5 DEF AboutToServe
    <2>3. SlotWriter(c) = "due" BY <2>1, <2>2 DEF SlotWriter
    <2>4. \A u \in SetupThreads : ~AboutToServe(u, c)'
      BY <1>2, <2>2 DEF AboutToServe, IInv, UniqueInv
    <2>5. SlotWriter(c)' = "runs" BY <2>1, <2>4 DEF SlotWriter
    <2>6. \A d \in Channels : d # c => SlotWriter(d)' = SlotWriter(d)
      BY <1>4 DEF AboutToServe
    <2>7. [d \in Channels |-> SlotWriter(d)'] =
            [[d \in Channels |-> SlotWriter(d)] EXCEPT ![c] = "runs"]
      BY <2>5, <2>6
    <2>8. Slot!Serve(c) BY <1>1, <1>3, <2>3, <2>7 DEF Slot!Serve
    <2>9. QED BY <1>1, <2>8
  <1>6. CASE setup[t].gen # generation[c]
    <2>1. \A d \in Channels : ~AboutToServe(t, d) BY <1>6 DEF AboutToServe
    <2>2. QED BY <1>3, <1>4, <2>1, SlotStutters
  <1>7. QED BY <1>5, <1>6

LEMMA PushEndSlot ==
  ASSUME IInv, NEW p \in PushThreads, PushEnd(p)
  PROVE  (\E c \in Channels : Slot!Lose(c)) \/ UNCHANGED Slot!slotVars
  <1> USE DEF PushEnd
  <1> PICK c \in Channels : c = push[p].ch
    BY DEF IInv, TypeOK, EmployedOK
  <1>1. activeFd \in [Channels -> Fds \cup {None}]
    BY DEF IInv, TypeOK, ChannelTypeOK, EmployedOK
  <1>2. SlotDialled' = SlotDialled BY SlotDialledKept
  <1>3. CASE generation[c] = push[p].gen
    <2>1. activeFd' = [activeFd EXCEPT ![c] = None] BY <1>3
    <2>2. activeFd[c] # None
      BY <1>3 DEF IInv, CurrentInv, CurrentThreadHoldsActiveFd
    <2>3. \A t \in SetupThreads : ~AboutToServe(t, c)
      BY <1>3 DEF AboutToServe, IInv, UniqueInv
    <2>4. SlotWriter(c) = "runs" BY <2>2, <2>3 DEF SlotWriter
    <2>5. SlotWriter(c)' = "none" BY <1>1, <2>1 DEF SlotWriter
    <2>6. ASSUME NEW d \in Channels, d # c
          PROVE  SlotWriter(d)' = SlotWriter(d)
      <3>1. activeFd'[d] = activeFd[d] BY <1>1, <2>1, <2>6
      <3>2. \A t \in SetupThreads : AboutToServe(t, d)' = AboutToServe(t, d)
        BY DEF AboutToServe
      <3>3. QED BY <3>1, <3>2 DEF SlotWriter
    <2>7. [d \in Channels |-> SlotWriter(d)'] =
            [[d \in Channels |-> SlotWriter(d)] EXCEPT ![c] = "none"]
      BY <2>5, <2>6
    <2>8. Slot!Lose(c) BY <1>1, <1>2, <2>1, <2>4, <2>7 DEF Slot!Lose
    <2>9. QED BY <1>1, <2>8
  <1>4. CASE generation[c] # push[p].gen
    <2>1. UNCHANGED <<wanted, activeFd, generation, setup>> BY <1>4
    <2>2. QED BY <2>1, SlotStuttersIdle
  <1>5. QED BY <1>3, <1>4

LEMMA NextSlot ==
  ASSUME SlotInv, SlotInv', [Next]_vars
  PROVE  [Slot!Next]_(Slot!slotVars)
  <1> USE DEF SlotInv
  <1>1. setup \in [SetupThreads -> Locals(SetupPcs)]
    BY DEF IInv, TypeOK, ThreadTypeOK
  <1>2. ASSUME NEW c \in Channels, NEW h \in Hosts, NEW s \in Streams, CtlConnect(c, h, s)
        PROVE  UNCHANGED Slot!slotVars
    BY <1>1, <1>2, SlotStuttersIdle DEF CtlConnect, chanVars, SetupThreads
  <1>3. ASSUME NEW c \in Channels, CtlDisconnect(c)
        PROVE  Slot!Next
    BY <1>3, CtlDisconnectSlot DEF Slot!Next
  <1>4. ASSUME NEW r \in RetryThreads, RetryWake(r)
        PROVE  UNCHANGED Slot!slotVars
    <2>1. \A t \in SetupThreads :
            \/ setup'[t] = setup[t]
            \/ setup'[t].pc \in {"ready", "idle"} /\ setup[t].pc = "sleep"
      BY <1>1, <1>4 DEF RetryWake, SetupThreads, IdleSetup
    <2>2. QED BY <1>4, <2>1, SlotStuttersIdle DEF RetryWake, chanVars
  <1>5. ASSUME NEW t \in SetupThreads, SetupStep(t)
        PROVE  [Slot!Next]_(Slot!slotVars)
    <2>1. CASE ConnectBegin(t)
      BY <2>1, ConnectBeginSlot DEF Slot!Next
    <2>2. CASE DialFails(t)
      BY <1>1, <2>2, SlotStuttersIdle DEF DialFails, chanVars
    <2>3. CASE \E fd \in Fds : DialSucceeds(t, fd)
      BY <2>3, DialSucceedsSlot DEF Slot!Next
    <2>4. ASSUME NEW r \in RetryThreads, ConnectRearm(t, r)
          PROVE  UNCHANGED Slot!slotVars
      <3>1. \A u \in SetupThreads :
              \/ setup'[u] = setup[u]
              \/ setup'[u].pc \in {"sleep", "idle"} /\ setup[u].pc \in {"failed", "idle"}
        BY <1>1, <2>4 DEF ConnectRearm, ScheduleFrom, SetupThreads, IdleSetup
      <3>2. QED BY <2>4, <3>1, SlotStuttersIdle DEF ConnectRearm, chanVars
    <2>5. CASE ConnectInstall(t)
      BY <2>5, ConnectInstallSlot DEF Slot!Next
    <2>6. CASE \E p \in PushThreads : ConnectSpawn(t, p)
      BY <2>6, ConnectSpawnSlot DEF Slot!Next
    <2>7. QED BY <1>5, <2>1, <2>2, <2>3, <2>4, <2>5, <2>6 DEF SetupStep
  <1>6. ASSUME NEW p \in PushThreads, PushStep(p)
        PROVE  [Slot!Next]_(Slot!slotVars)
    <2>1. CASE PushEnd(p)
      BY <2>1, PushEndSlot DEF Slot!Next
    <2>2. ASSUME NEW r \in RetryThreads, PushRedial(p, r)
          PROVE  UNCHANGED Slot!slotVars
      <3>1. \A t \in SetupThreads :
              \/ setup'[t] = setup[t]
              \/ setup'[t].pc = "sleep" /\ setup[t].pc = "idle"
        BY <1>1, <2>2 DEF PushRedial, ScheduleFrom, SetupThreads
      <3>2. QED BY <2>2, <3>1, SlotStuttersIdle DEF PushRedial, chanVars
    <2>3. CASE PushStart(p) \/ PushHeader(p) \/ PushCheck(p) \/ PushBody(p)
      BY <2>3, SlotStuttersIdle DEF PushStart, PushHeader, PushCheck, PushBody, chanVars
    <2>4. QED BY <1>6, <2>1, <2>2, <2>3 DEF PushStep
  <1>7. ASSUME NEW fd \in Fds, NEW how \in {"closed", "stalled"}, PeerLeaves(fd, how)
        PROVE  UNCHANGED Slot!slotVars
    BY <1>7, SlotStuttersIdle DEF PeerLeaves, chanVars
  <1>8. CASE AtRest \/ UNCHANGED vars
    BY <1>8, SlotStuttersIdle DEF AtRest, vars, chanVars
  <1>9. QED BY <1>2, <1>3, <1>4, <1>5, <1>6, <1>7, <1>8 DEF Next

LEMMA InitSlot == Init => Slot!Init
  <1> SUFFICES ASSUME Init PROVE Slot!Init
    OBVIOUS
  <1>1. SlotDialled = None
    BY InitIInv, SlotDialledIs DEF Init, IdleSetup
  <1>2. [c \in Channels |-> SlotWriter(c)] = [c \in Channels |-> "none"]
    BY DEF Init, SlotWriter
  <1>3. QED BY <1>1, <1>2 DEF Init, Slot!Init

\* For any number of channels, commands, retries and departing peers, the threads
\* of the connection manager implement one slot per channel.
THEOREM ImplementsSlot == Spec => Implements
  <1>1. Init => Slot!Init /\ SlotInv BY InitSlot, InitSlotInv
  <1>2. SlotInv /\ [Next]_vars => SlotInv' BY NextSlotInv
  <1>3. SlotInv /\ SlotInv' /\ [Next]_vars => [Slot!Next]_(Slot!slotVars)
    BY NextSlot
  <1>4. QED BY <1>1, <1>2, <1>3, PTL DEF Spec, Implements, Slot!Spec
============================================================================
