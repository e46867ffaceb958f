--------------------------- MODULE AdoptionProofs ---------------------------
(***************************************************************************)
(* Theorems about Adoption, for any controllers, handlers and number of    *)
(* pushes, resets, crashes and failed reboots.                             *)
(***************************************************************************)
EXTENDS Adoption, SequenceTheorems, TLAPS

USE HostAssumption, AdoptionBounds

\* What a handler is about to put into the channel is a push.
Carried == \A w \in Handlers : handler[w].pc # "idle" => handler[w].push \in Push

\* The gate is on disk: a boot finds it again.
GateOnDisk == gate => disk.await

TypeInv == TypeOK /\ Carried

IInv == TypeInv /\ GateOnDisk /\ GateHolds

----------------------------------------------------------------------------
(* What the steps share. *)

\* A handler that goes on keeps its push.
LEMMA HandlerGoes ==
  ASSUME TypeInv, NEW w \in Handlers, NEW pc \in {"leave", "remove", "drain", "send"},
         handler[w].pc # "idle",
         handler' = [handler EXCEPT ![w].pc = pc]
  PROVE  /\ handler' \in [Handlers -> [pc : {"idle", "leave", "remove", "drain", "send"},
                                       push : [host : Hosts, token : 0..MaxPushes]]]
         /\ \A v \in Handlers : handler'[v].pc # "idle" => handler'[v].push \in Push
  <1>1. /\ handler[w] \in [pc : {"idle", "leave", "remove", "drain", "send"},
                           push : [host : Hosts, token : 0..MaxPushes]]
        /\ handler[w].push \in Push
    BY DEF TypeInv, TypeOK, Carried
  <1> DEFINE r == [handler[w] EXCEPT !.pc = pc]
  <1>2. /\ r \in [pc : {"idle", "leave", "remove", "drain", "send"},
                  push : [host : Hosts, token : 0..MaxPushes]]
        /\ r.push = handler[w].push
    BY <1>1
  <1>3. handler' = [handler EXCEPT ![w] = r]
    OBVIOUS
  <1> HIDE DEF r
  <1>4. /\ handler'[w] = r
        /\ \A v \in Handlers \ {w} : handler'[v] = handler[v]
    BY <1>3 DEF TypeInv, TypeOK
  <1>5. handler' \in [Handlers -> [pc : {"idle", "leave", "remove", "drain", "send"},
                                   push : [host : Hosts, token : 0..MaxPushes]]]
    BY <1>2, <1>3 DEF TypeInv, TypeOK
  <1>6. \A v \in Handlers : handler'[v].pc # "idle" => handler'[v].push \in Push
    BY <1>1, <1>2, <1>4 DEF TypeInv, Carried
  <1>7. QED BY <1>5, <1>6

LEMMA FreeType ==
  /\ Free \in [pc : {"idle", "leave", "remove", "drain", "send"},
               push : [host : Hosts, token : 0..MaxPushes]]
  /\ Free.pc = "idle"
  BY DEF Free

\* A bound is used up one by one.
LEMMA LeftType ==
  ASSUME TypeInv
  PROVE  /\ left.pushes > 0 =>
              /\ MaxPushes - left.pushes + 1 \in 1..MaxPushes
              /\ [left EXCEPT !.pushes = @ - 1] \in
                    [pushes : 0..MaxPushes, resets : 0..MaxResets,
                     restarts : 0..MaxRestarts, stuck : 0..MaxStuck]
         /\ left.stuck > 0 =>
              [left EXCEPT !.stuck = @ - 1] \in
                    [pushes : 0..MaxPushes, resets : 0..MaxResets,
                     restarts : 0..MaxRestarts, stuck : 0..MaxStuck]
  <1>1. left \in [pushes : 0..MaxPushes, resets : 0..MaxResets,
                  restarts : 0..MaxRestarts, stuck : 0..MaxStuck]
    BY DEF TypeInv, TypeOK
  <1>2. left.pushes \in 0..MaxPushes /\ left.stuck \in 0..MaxStuck
    BY <1>1
  <1>3. /\ left.pushes > 0 => left.pushes - 1 \in 0..MaxPushes
        /\ left.pushes > 0 => MaxPushes - left.pushes + 1 \in 1..MaxPushes
        /\ left.stuck > 0 => left.stuck - 1 \in 0..MaxStuck
    BY <1>2
  <1>4. QED BY <1>1, <1>3

\* A boot leaves the files as they were, but for the certificate.
LEMMA BootType ==
  ASSUME TypeInv, Boot, left' \in [pushes : 0..MaxPushes, resets : 0..MaxResets,
                                   restarts : 0..MaxRestarts, stuck : 0..MaxStuck]
  PROVE  TypeInv' /\ main' = "boot" /\ disk'.await = disk.await /\ gate' = gate
  <1>1. disk \in [cert : BOOLEAN, adopted : BOOLEAN, await : BOOLEAN, host : Hosts]
    BY DEF TypeInv, TypeOK
  <1>2. /\ disk' \in [cert : BOOLEAN, adopted : BOOLEAN, await : BOOLEAN, host : Hosts]
        /\ disk'.await = disk.await
    BY <1>1 DEF Boot
  <1>3. /\ cfg' \in [host : Hosts, token : 0..MaxPushes]
        /\ isAdopted' \in BOOLEAN
        /\ awaitingManage' \in BOOLEAN
    <2>1. cfg' = [host |-> disk.host, token |-> 0] /\ disk.host \in Hosts /\ 0 \in 0..MaxPushes
      BY <1>1 DEF Boot
    <2>2. isAdopted' = disk.adopted
      BY DEF Boot
    <2>3. awaitingManage' = FALSE
      BY DEF Boot
    <2>4. QED BY <1>1, <2>1, <2>2, <2>3
  <1>4. manageCh' \in Seq(Push) /\ Len(manageCh') <= 1
    BY EmptySeq DEF Boot
  <1>5. /\ handler' \in [Handlers -> [pc : {"idle", "leave", "remove", "drain", "send"},
                                      push : [host : Hosts, token : 0..MaxPushes]]]
        /\ \A w \in Handlers : handler'[w].pc = "idle"
    BY FreeType DEF Boot
  <1>6. /\ main' = "boot" /\ reset' = "idle" /\ newest' = 0
        /\ dialled' = dialled /\ gate' = gate
    BY DEF Boot
  <1>7. QED
    BY <1>2, <1>3, <1>4, <1>5, <1>6 DEF TypeInv, TypeOK, Carried

\* The dial loop takes the push in the channel.
LEMMA ApplyPushType ==
  ASSUME TypeInv, ApplyPush, main' \in {"top", "dial"}
  PROVE  TypeInv' /\ disk'.await = disk.await
  <1>1. manageCh \in Seq(Push) /\ manageCh # <<>> /\ Len(manageCh) <= 1
    BY DEF TypeInv, TypeOK, ApplyPush
  <1>2. Head(manageCh) \in Push /\ Tail(manageCh) \in Seq(Push) /\ Len(Tail(manageCh)) <= 1
    BY <1>1, HeadTailProperties
  <1>3. cfg' = Head(manageCh) /\ disk' = [disk EXCEPT !.host = cfg'.host]
    BY DEF ApplyPush
  <1>4. cfg' \in [host : Hosts, token : 0..MaxPushes]
    BY <1>2, <1>3 DEF Push
  <1>5. /\ disk' \in [cert : BOOLEAN, adopted : BOOLEAN, await : BOOLEAN, host : Hosts]
        /\ disk'.await = disk.await
    BY <1>3, <1>4 DEF TypeInv, TypeOK
  <1>6. manageCh' = Tail(manageCh)
    BY DEF ApplyPush
  <1>7. UNCHANGED <<isAdopted, awaitingManage, reset, handler, dialled, newest, gate, left>>
    BY DEF ApplyPush, ghosts
  <1>8. QED
    BY <1>2, <1>4, <1>5, <1>6, <1>7 DEF TypeInv, TypeOK, Carried

----------------------------------------------------------------------------
(* The initial state and the steps of the dial loop. *)

LEMMA InitIInv == Init => IInv
  <1> SUFFICES ASSUME Init PROVE IInv
    OBVIOUS
  <1>1. handler \in [Handlers -> [pc : {"idle", "leave", "remove", "drain", "send"},
                                  push : [host : Hosts, token : 0..MaxPushes]]]
    BY FreeType DEF Init
  <1>2. manageCh \in Seq(Push) /\ Len(manageCh) <= 1
    BY EmptySeq DEF Init
  <1>3. isAdopted \in BOOLEAN /\ awaitingManage \in BOOLEAN
    <2>1. isAdopted = FALSE
      BY DEF Init
    <2>2. awaitingManage = FALSE
      BY DEF Init
    <2>3. QED BY <2>1, <2>2
  <1>4. gate = FALSE /\ gate \in BOOLEAN
    BY DEF Init
  <1>5. TypeOK
    <2>1. /\ disk \in [cert : BOOLEAN, adopted : BOOLEAN, await : BOOLEAN, host : Hosts]
          /\ cfg \in [host : Hosts, token : 0..MaxPushes]
          /\ left \in [pushes : 0..MaxPushes, resets : 0..MaxResets,
                       restarts : 0..MaxRestarts, stuck : 0..MaxStuck]
      BY DEF Init
    <2>2. /\ main = "boot" /\ reset = "idle"
          /\ dialled \in 0..MaxPushes /\ newest \in 0..MaxPushes
      BY DEF Init
    <2>3. QED BY <1>1, <1>2, <1>3, <1>4, <2>1, <2>2 DEF TypeOK
  <1>6. Carried
    BY FreeType DEF Init, Carried
  <1>7. QED BY <1>4, <1>5, <1>6 DEF IInv, TypeInv, GateOnDisk, GateHolds

\* Where no controller is off the subnet, a boot with the gate closed waits again.
LEMMA MainStepIInv == ASSUME OffSubnet = {}, IInv, MainStep PROVE IInv'
  <1>1. TypeInv /\ GateOnDisk /\ GateHolds
    BY DEF IInv
  <1>2. CASE BootGate
    <2>1. /\ UNCHANGED <<disk, isAdopted, cfg, manageCh, reset, handler, dialled, newest, gate, left>>
          /\ main' = "top"
      BY <1>2 DEF BootGate, ghosts
    <2>2. awaitingManage' = (Awaits \/ awaitingManage)
      BY <1>2 DEF BootGate
    <2>3. awaitingManage' \in BOOLEAN
      BY <2>2
    <2>4. TypeInv'
      BY <1>1, <2>1, <2>3 DEF TypeInv, TypeOK, Carried
    <2>5. gate => Awaits
      BY <1>1 DEF Awaits, GateOnDisk, TypeInv, TypeOK
    <2>6. QED BY <1>1, <2>1, <2>2, <2>4, <2>5 DEF IInv, GateOnDisk, GateHolds
  <1>3. CASE MainTop \/ PollTimeout \/ DialFails \/ BackoffOver
    <2>1. UNCHANGED <<disk, memory, reset, handler, dialled, newest, gate, left>>
      BY <1>3 DEF MainTop, PollTimeout, DialFails, BackoffOver, ghosts
    <2>2. main # "boot" /\ main' \in {"poll", "pick", "top", "backoff"}
      BY <1>3 DEF MainTop, PollTimeout, DialFails, BackoffOver
    <2>3. TypeInv'
      BY <1>1, <2>1, <2>2 DEF TypeInv, TypeOK, Carried, memory
    <2>4. QED BY <1>1, <2>1, <2>2, <2>3 DEF IInv, GateOnDisk, GateHolds, memory
  <1>4. CASE PollPush
    <2>1. ApplyPush /\ main' = "top" /\ main # "boot"
      BY <1>4 DEF PollPush
    <2>2. TypeInv' /\ disk'.await = disk.await
      BY <1>1, <2>1, ApplyPushType
    <2>3. UNCHANGED <<awaitingManage, gate>>
      BY <2>1 DEF ApplyPush, ghosts
    <2>4. QED BY <1>1, <2>1, <2>2, <2>3 DEF IInv, GateOnDisk, GateHolds
  <1>5. CASE Pick
    <2>1. main' = "dial" /\ main # "boot"
      BY <1>5 DEF Pick
    <2>2. CASE manageCh # <<>>
      <3>1. ApplyPush
        BY <1>5, <2>2 DEF Pick
      <3>2. TypeInv' /\ disk'.await = disk.await
        BY <1>1, <2>1, <3>1, ApplyPushType
      <3>3. UNCHANGED <<awaitingManage, gate>>
        BY <3>1 DEF ApplyPush, ghosts
      <3>4. QED BY <1>1, <2>1, <3>2, <3>3 DEF IInv, GateOnDisk, GateHolds
    <2>3. CASE manageCh = <<>>
      <3>1. UNCHANGED <<disk, memory, reset, handler, dialled, newest, gate, left>>
        BY <1>5, <2>3 DEF Pick, ghosts
      <3>2. TypeInv'
        BY <1>1, <2>1, <3>1 DEF TypeInv, TypeOK, Carried, memory
      <3>3. QED BY <1>1, <2>1, <3>1, <3>2 DEF IInv, GateOnDisk, GateHolds, memory
    <2>4. QED BY <2>2, <2>3
  <1>6. CASE DialSucceeds
    <2>1. /\ UNCHANGED <<disk, memory, reset, handler, newest, gate, left>>
          /\ main = "dial" /\ main' = "online" /\ dialled' = cfg.token
      BY <1>6 DEF DialSucceeds
    <2>2. dialled' \in 0..MaxPushes
      BY <1>1, <2>1 DEF TypeInv, TypeOK
    <2>3. TypeInv'
      BY <1>1, <2>1, <2>2 DEF TypeInv, TypeOK, Carried, memory
    <2>4. QED BY <1>1, <2>1, <2>3 DEF IInv, GateOnDisk, GateHolds, memory
  <1>7. QED BY <1>2, <1>3, <1>4, <1>5, <1>6 DEF MainStep

LEMMA ConnectionIInv ==
  ASSUME IInv, ParamAgreement \/ ResetToDefaults \/ ConnectionEnds PROVE IInv'
  <1>1. TypeInv /\ GateOnDisk /\ GateHolds
    BY DEF IInv
  <1>2. CASE ParamAgreement
    <2>1. /\ UNCHANGED <<awaitingManage, cfg, manageCh, reset, handler, dialled, newest, gate, left>>
          /\ main = "online" /\ main' = "agreed"
          /\ disk' = [disk EXCEPT !.adopted = TRUE]
      BY <1>2 DEF ParamAgreement, ghosts
    <2>2. isAdopted' = TRUE
      BY <1>2 DEF ParamAgreement
    <2>3. /\ disk' \in [cert : BOOLEAN, adopted : BOOLEAN, await : BOOLEAN, host : Hosts]
          /\ disk'.await = disk.await
      BY <1>1, <2>1 DEF TypeInv, TypeOK
    <2>4. TypeInv'
      BY <1>1, <2>1, <2>2, <2>3 DEF TypeInv, TypeOK, Carried
    <2>5. QED BY <1>1, <2>1, <2>3, <2>4 DEF IInv, GateOnDisk, GateHolds
  <1>3. CASE ResetToDefaults
    <2>1. /\ UNCHANGED <<disk, memory, main, handler, dialled, newest, gate>>
          /\ reset' = "delete"
          /\ left.resets > 0 /\ left' = [left EXCEPT !.resets = @ - 1]
      BY <1>3 DEF ResetToDefaults, ghosts
    <2>2. left' \in [pushes : 0..MaxPushes, resets : 0..MaxResets,
                     restarts : 0..MaxRestarts, stuck : 0..MaxStuck]
      BY <1>1, <2>1, SMTT(20) DEF TypeInv, TypeOK
    <2>3. TypeInv'
      BY <1>1, <2>1, <2>2 DEF TypeInv, TypeOK, Carried, memory
    <2>4. QED BY <1>1, <2>1, <2>3 DEF IInv, GateOnDisk, GateHolds, memory
  <1>4. CASE ConnectionEnds
    <2>1. /\ UNCHANGED <<disk, memory, reset, handler, dialled, newest, gate, left>>
          /\ main # "boot" /\ main' = "backoff"
      BY <1>4 DEF ConnectionEnds, ghosts
    <2>2. TypeInv'
      BY <1>1, <2>1 DEF TypeInv, TypeOK, Carried, memory
    <2>3. QED BY <1>1, <2>1, <2>2 DEF IInv, GateOnDisk, GateHolds, memory
  <1>5. QED BY <1>2, <1>3, <1>4

----------------------------------------------------------------------------
(* The reset, the crash and the handlers. *)

LEMMA ResetStepIInv == ASSUME IInv, ResetStep \/ Crash PROVE IInv'
  <1>1. TypeInv /\ GateOnDisk /\ GateHolds
    BY DEF IInv
  <1>2. CASE DeleteIdentity
    <2>1. /\ UNCHANGED <<awaitingManage, cfg, manageCh, main, handler, dialled, newest, gate, left>>
          /\ disk' = [disk EXCEPT !.cert = FALSE, !.adopted = FALSE]
          /\ reset' = "await"
      BY <1>2 DEF DeleteIdentity, ghosts
    <2>2. isAdopted' = FALSE
      BY <1>2 DEF DeleteIdentity
    <2>3. /\ disk' \in [cert : BOOLEAN, adopted : BOOLEAN, await : BOOLEAN, host : Hosts]
          /\ disk'.await = disk.await
      BY <1>1, <2>1 DEF TypeInv, TypeOK
    <2>4. TypeInv'
      BY <1>1, <2>1, <2>2, <2>3 DEF TypeInv, TypeOK, Carried
    <2>5. QED BY <1>1, <2>1, <2>3, <2>4 DEF IInv, GateOnDisk, GateHolds
  <1>3. CASE DeleteIdentityFails
    <2>1. /\ UNCHANGED <<memory, main, handler, dialled, newest, gate, left>>
          /\ reset' = "await"
      BY <1>3 DEF DeleteIdentityFails, ghosts
    <2>2. /\ disk' \in [cert : BOOLEAN, adopted : BOOLEAN, await : BOOLEAN, host : Hosts]
          /\ disk'.await = disk.await
      <3>1. PICK cert \in {disk.cert, FALSE} : disk' = [disk EXCEPT !.cert = cert]
        BY <1>3 DEF DeleteIdentityFails
      <3>2. cert \in BOOLEAN
        BY <1>1 DEF TypeInv, TypeOK
      <3>3. QED BY <1>1, <3>1, <3>2 DEF TypeInv, TypeOK
    <2>3. TypeInv'
      BY <1>1, <2>1, <2>2 DEF TypeInv, TypeOK, Carried, memory
    <2>4. QED BY <1>1, <2>1, <2>2, <2>3 DEF IInv, GateOnDisk, GateHolds, memory
  <1>4. CASE EnterAwaiting
    <2>1. /\ UNCHANGED <<disk, isAdopted, cfg, manageCh, main, handler, dialled, newest, gate, left>>
          /\ reset' = "persist"
      BY <1>4 DEF EnterAwaiting, ghosts
    <2>2. awaitingManage' = TRUE
      BY <1>4 DEF EnterAwaiting
    <2>3. TypeInv'
      BY <1>1, <2>1, <2>2 DEF TypeInv, TypeOK, Carried
    <2>4. QED BY <1>1, <2>1, <2>2, <2>3 DEF IInv, GateOnDisk, GateHolds
  <1>5. CASE PersistAwaiting
    <2>1. /\ UNCHANGED <<memory, main, handler, dialled, newest, left>>
          /\ disk' = [disk EXCEPT !.await = TRUE]
          /\ reset' = "token"
      BY <1>5 DEF PersistAwaiting
    <2>2. gate' = awaitingManage
      BY <1>5 DEF PersistAwaiting
    <2>3. /\ disk' \in [cert : BOOLEAN, adopted : BOOLEAN, await : BOOLEAN, host : Hosts]
          /\ disk'.await = TRUE
      BY <1>1, <2>1 DEF TypeInv, TypeOK
    <2>4. awaitingManage' = awaitingManage /\ gate' \in BOOLEAN
      BY <1>1, <2>1, <2>2 DEF memory, TypeInv, TypeOK
    <2>5. TypeInv'
      BY <1>1, <2>1, <2>3, <2>4 DEF TypeInv, TypeOK, Carried, memory
    <2>6. GateOnDisk'
      BY <2>3 DEF GateOnDisk
    <2>7. GateHolds'
      BY <2>2, <2>4 DEF GateHolds
    <2>8. QED BY <2>5, <2>6, <2>7 DEF IInv
  <1>6. CASE ClearToken
    <2>1. /\ UNCHANGED <<disk, isAdopted, awaitingManage, manageCh, main, handler,
                         dialled, newest, gate, left>>
          /\ cfg' = [cfg EXCEPT !.token = 0]
          /\ reset' = "reboot"
      BY <1>6 DEF ClearToken, ghosts
    <2>2. cfg' \in [host : Hosts, token : 0..MaxPushes]
      BY <1>1, <2>1 DEF TypeInv, TypeOK
    <2>3. TypeInv'
      BY <1>1, <2>1, <2>2 DEF TypeInv, TypeOK, Carried
    <2>4. QED BY <1>1, <2>1, <2>3 DEF IInv, GateOnDisk, GateHolds
  <1>7. CASE Reboot \/ Crash
    <2>1. /\ Boot
          /\ left' \in [pushes : 0..MaxPushes, resets : 0..MaxResets,
                        restarts : 0..MaxRestarts, stuck : 0..MaxStuck]
      BY <1>1, <1>7, SMTT(20) DEF Reboot, Crash, TypeInv, TypeOK
    <2>2. TypeInv' /\ main' = "boot" /\ disk'.await = disk.await /\ gate' = gate
      BY <1>1, <2>1, BootType
    <2>3. QED BY <1>1, <2>2 DEF IInv, GateOnDisk, GateHolds
  <1>8. CASE RebootFails
    <2>1. /\ UNCHANGED <<disk, memory, handler, dialled, newest, gate>>
          /\ left.stuck > 0 /\ left' = [left EXCEPT !.stuck = @ - 1]
          /\ main' = IF main \in {"online", "agreed"} THEN "backoff" ELSE main
          /\ reset' = "idle"
      BY <1>8 DEF RebootFails, ghosts
    <2>2. left' \in [pushes : 0..MaxPushes, resets : 0..MaxResets,
                     restarts : 0..MaxRestarts, stuck : 0..MaxStuck]
      BY <1>1, <2>1, LeftType
    <2>3. TypeInv'
      BY <1>1, <2>1, <2>2 DEF TypeInv, TypeOK, Carried, memory
    <2>4. QED BY <1>1, <2>1, <2>3 DEF IInv, GateOnDisk, GateHolds, memory
  <1>9. QED BY <1>2, <1>3, <1>4, <1>5, <1>6, <1>7, <1>8 DEF ResetStep

\* A push on its way opens the gate before anything else.
LEMMA HandlerIInv ==
  ASSUME IInv, NEW w \in Handlers, HandlerStep(w) \/ \E h \in Hosts : Accept(w, h)
  PROVE  IInv'
  <1>1. TypeInv /\ GateOnDisk /\ GateHolds
    BY DEF IInv
  <1>2. CASE \E h \in Hosts : Accept(w, h)
    <2>1. PICK h \in Hosts : Accept(w, h)
      BY <1>2
    <2> DEFINE token == MaxPushes - left.pushes + 1
               r == [pc |-> "leave", push |-> [host |-> h, token |-> token]]
    <2>2. /\ UNCHANGED <<disk, memory, main, reset, dialled, gate>>
          /\ left.pushes > 0 /\ left' = [left EXCEPT !.pushes = @ - 1]
          /\ handler' = [handler EXCEPT ![w] = r]
          /\ newest' = token
      BY <2>1 DEF Accept
    <2>3. /\ left' \in [pushes : 0..MaxPushes, resets : 0..MaxResets,
                        restarts : 0..MaxRestarts, stuck : 0..MaxStuck]
          /\ token \in 1..MaxPushes
      BY <1>1, <2>2, LeftType
    <2>4. /\ r \in [pc : {"idle", "leave", "remove", "drain", "send"},
                    push : [host : Hosts, token : 0..MaxPushes]]
          /\ r.push \in Push
      BY <2>3 DEF Push
    <2> HIDE DEF r
    <2>5. /\ handler' \in [Handlers -> [pc : {"idle", "leave", "remove", "drain", "send"},
                                        push : [host : Hosts, token : 0..MaxPushes]]]
          /\ \A v \in Handlers : handler'[v].pc # "idle" => handler'[v].push \in Push
      BY <1>1, <2>2, <2>4 DEF TypeInv, TypeOK, Carried
    <2>6. newest' \in 0..MaxPushes
      BY <2>2, <2>3
    <2>7. TypeInv'
      <3>1. UNCHANGED <<disk, isAdopted, awaitingManage, cfg, manageCh, main, reset, dialled, gate>>
        BY <2>2 DEF memory
      <3>2. TypeOK'
        BY <1>1, <2>3, <2>5, <2>6, <3>1 DEF TypeInv, TypeOK
      <3>3. Carried'
        BY <2>5 DEF Carried
      <3>4. QED BY <3>2, <3>3 DEF TypeInv
    <2>8. QED BY <1>1, <2>2, <2>7 DEF IInv, GateOnDisk, GateHolds, memory
  <1>3. CASE LeaveAwaiting(w)
    <2>1. /\ UNCHANGED <<disk, isAdopted, cfg, manageCh, main, reset, dialled, newest, left>>
          /\ handler[w].pc = "leave" /\ handler' = [handler EXCEPT ![w].pc = "remove"]
      BY <1>3 DEF LeaveAwaiting
    <2>2. awaitingManage' = FALSE
      BY <1>3 DEF LeaveAwaiting
    <2>3. gate' = FALSE
      BY <1>3 DEF LeaveAwaiting
    <2>4. TypeInv'
      BY <1>1, <2>1, <2>2, <2>3, HandlerGoes, ZenonT(30) DEF TypeInv, TypeOK, Carried
    <2>5. QED BY <2>3, <2>4 DEF IInv, GateOnDisk, GateHolds
  <1>4. CASE RemoveAwaiting(w)
    <2>1. /\ UNCHANGED <<memory, main, reset, dialled, newest, left>>
          /\ handler[w].pc = "remove" /\ handler' = [handler EXCEPT ![w].pc = "drain"]
          /\ disk' = [disk EXCEPT !.await = FALSE]
      BY <1>4 DEF RemoveAwaiting
    <2>2. gate' = FALSE
      BY <1>4 DEF RemoveAwaiting
    <2>3. disk' \in [cert : BOOLEAN, adopted : BOOLEAN, await : BOOLEAN, host : Hosts]
      BY <1>1, <2>1 DEF TypeInv, TypeOK
    <2>4. TypeInv'
      BY <1>1, <2>1, <2>2, <2>3, HandlerGoes DEF TypeInv, TypeOK, Carried, memory
    <2>5. QED BY <2>2, <2>4 DEF IInv, GateOnDisk, GateHolds
  <1>5. CASE Drain(w)
    <2>1. /\ UNCHANGED <<disk, isAdopted, awaitingManage, cfg, main, reset,
                         dialled, newest, gate, left>>
          /\ handler[w].pc = "drain" /\ handler' = [handler EXCEPT ![w].pc = "send"]
          /\ manageCh' = <<>>
      BY <1>5 DEF Drain, ghosts
    <2>2. manageCh' \in Seq(Push) /\ Len(manageCh') <= 1
      BY <2>1, EmptySeq
    <2>3. TypeInv'
      BY <1>1, <2>1, <2>2, HandlerGoes, SMTT(20) DEF TypeInv, TypeOK, Carried
    <2>4. QED BY <1>1, <2>1, <2>3 DEF IInv, GateOnDisk, GateHolds
  <1>6. CASE Send(w)
    <2>1. /\ UNCHANGED <<disk, isAdopted, awaitingManage, cfg, main, reset,
                         dialled, newest, gate, left>>
          /\ handler[w].pc = "send" /\ handler' = [handler EXCEPT ![w] = Free]
          /\ manageCh' = <<handler[w].push>>
      BY <1>6 DEF Send, ghosts
    <2>2. manageCh' \in Seq(Push) /\ Len(manageCh') <= 1
      <3>1. handler[w].push \in Push
        BY <1>1, <2>1 DEF TypeInv, Carried
      <3>2. QED BY <2>1, <3>1
    <2>3. /\ handler' \in [Handlers -> [pc : {"idle", "leave", "remove", "drain", "send"},
                                        push : [host : Hosts, token : 0..MaxPushes]]]
          /\ \A v \in Handlers : handler'[v].pc # "idle" => handler'[v].push \in Push
      BY <1>1, <2>1, FreeType DEF TypeInv, TypeOK, Carried
    <2>4. TypeInv'
      BY <1>1, <2>1, <2>2, <2>3 DEF TypeInv, TypeOK, Carried
    <2>5. QED BY <1>1, <2>1, <2>4 DEF IInv, GateOnDisk, GateHolds
  <1>7. QED BY <1>2, <1>3, <1>4, <1>5, <1>6 DEF HandlerStep

----------------------------------------------------------------------------

LEMMA NextIInv == ASSUME OffSubnet = {}, IInv, [Next]_vars PROVE IInv'
  <1>1. CASE UNCHANGED vars
    <2>1. UNCHANGED <<disk, isAdopted, awaitingManage, cfg, manageCh, main, reset, handler,
                      dialled, newest, gate, left>>
      BY <1>1 DEF vars, memory, ghosts
    <2>2. QED BY <2>1 DEF IInv, TypeInv, TypeOK, Carried, GateOnDisk, GateHolds
  <1>2. CASE Next
    BY <1>2, MainStepIInv, ConnectionIInv, ResetStepIInv, HandlerIInv DEF Next
  <1>3. QED BY <1>1, <1>2

\* Where no controller is off the camera's subnet, the gate that a reset has
\* closed stays closed until an adopt push, through every crash and every reboot,
\* failed ones too.  The hypothesis is needed: a boot that
\* finds its controller off-subnet ignores the await file.
THEOREM GateHoldsOnLink == OffSubnet = {} => (Spec => []GateHolds)
  <1> SUFFICES ASSUME OffSubnet = {} PROVE Spec => []GateHolds
    OBVIOUS
  <1>1. Init => IInv
    BY InitIInv
  <1>2. IInv /\ [Next]_vars => IInv'
    BY NextIInv
  <1>3. IInv => GateHolds
    BY DEF IInv
  <1>4. QED BY <1>1, <1>2, <1>3, PTL DEF Spec
=============================================================================
