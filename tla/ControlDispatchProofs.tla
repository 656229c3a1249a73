-------------------------- MODULE ControlDispatchProofs -------------------------
(***************************************************************************)
(* Proofs about the control server: first ControlDispatch, for any finite  *)
(* set of clients and any positive limits, with the conjunction IInv as    *)
(* the inductive invariant; then EventHistory, with HistoryInv.            *)
(***************************************************************************)
EXTENDS ControlDispatch, EventHistory, SequenceTheorems, FiniteSetTheorems, TLAPS

\* The calls the main loop has drained exist only while it works through them.
BatchPhase ==
  /\ host = "replying" => batch # << >>
  /\ host \notin {"dispatching", "replying"} => batch = << >>

\* A cleared flag means that no wake-up exists.  While the closure is installed, a
\* set flag means that one does.
WakeFlag ==
  /\ ~ wakePending => wakes = 0 /\ \A c \in Clients : pc[c] # "invoking"
  /\ installed /\ wakePending => wakes > 0 \/ \E c \in Clients : pc[c] = "invoking"

\* Which calls are accepted, by the place of their client.
CallStage ==
  \A c \in Clients :
    /\ pc[c] \in {"pushed", "invoking", "waiting"} => InSeq(c, Calls)
    /\ InSeq(c, Calls) => pc[c] \in {"pushed", "invoking", "waiting", "answered", "done"}

\* A client is told something only when its thread is through with the call.
AnswerStage ==
  \A c \in Clients : pc[c] \notin {"answered", "done"} => answer[c] = "none"

\* A response is in a channel, or about to be, only for a call carried out.
RepliesBacked ==
  /\ \A c \in replied : InSeq(c, carriedOut)
  /\ host = "replying" => InSeq(Head(batch), carriedOut)

\* One event for a refusal or a timeout, one for being carried out.
RecordCount ==
  \A c \in Clients :
    recorded[c] =
      (IF pc[c] = "draining" \/ answer[c] \in {"limit", "rejected", "busy", "timeout"}
       THEN 1 ELSE 0)
      + (IF InSeq(c, carriedOut) THEN 1 ELSE 0)

WakeInv == WakeFlag /\ OneWake /\ NoLostWake
CallInv == BatchPhase /\ CallStage /\ AnswerStage /\ AtMostOnce /\ AnswersMatch /\ RepliesBacked

IInv == TypeOK /\ WakeInv /\ SlotsCounted /\ CallInv /\ RecordCount

--------------------------------------------------------------------------------
(* Sequences. *)

LEMMA InSeqAppend ==
  ASSUME NEW S, NEW s \in Seq(S), NEW e \in S, NEW x
  PROVE  InSeq(x, Append(s, e)) <=> InSeq(x, s) \/ x = e
<1>1. /\ DOMAIN s = 1 .. Len(s) /\ Len(s) \in Nat
      /\ DOMAIN Append(s, e) = 1 .. Len(s) + 1
  BY AppendProperties, LenProperties
<1>2. /\ \A i \in 1 .. Len(s) : Append(s, e)[i] = s[i]
      /\ Append(s, e)[Len(s) + 1] = e
  BY AppendProperties
<1>3. \A i \in 1 .. Len(s) + 1 : i \in 1 .. Len(s) \/ i = Len(s) + 1
  BY <1>1
<1>4. Len(s) + 1 \in 1 .. Len(s) + 1 /\ \A i \in 1 .. Len(s) : i \in 1 .. Len(s) + 1
  BY <1>1
<1> QED  BY <1>1, <1>2, <1>3, <1>4, Zenon DEF InSeq

LEMMA InSeqConcat ==
  ASSUME NEW S, NEW s \in Seq(S), NEW t \in Seq(S), NEW x
  PROVE  InSeq(x, s \o t) <=> InSeq(x, s) \/ InSeq(x, t)
<1>1. /\ DOMAIN s = 1 .. Len(s) /\ Len(s) \in Nat
      /\ DOMAIN t = 1 .. Len(t) /\ Len(t) \in Nat
      /\ DOMAIN (s \o t) = 1 .. Len(s) + Len(t)
  BY ConcatProperties, LenProperties
<1>2. \A i \in 1 .. Len(s) + Len(t) :
        (s \o t)[i] = IF i <= Len(s) THEN s[i] ELSE t[i - Len(s)]
  BY ConcatProperties
<1>3. ASSUME InSeq(x, s \o t) PROVE InSeq(x, s) \/ InSeq(x, t)
  <2>1. PICK i \in 1 .. Len(s) + Len(t) : (s \o t)[i] = x
    BY <1>1, <1>3 DEF InSeq
  <2>2. CASE i <= Len(s)
    BY <2>1, <2>2, <1>1, <1>2 DEF InSeq
  <2>3. CASE i > Len(s)
    <3>1. i - Len(s) \in 1 .. Len(t) /\ t[i - Len(s)] = x
      BY <2>1, <2>3, <1>1, <1>2
    <3> QED  BY <3>1, <1>1 DEF InSeq
  <2> QED  BY <2>1, <2>2, <2>3, <1>1
<1>4. ASSUME InSeq(x, s) PROVE InSeq(x, s \o t)
  <2>1. PICK i \in 1 .. Len(s) : s[i] = x
    BY <1>1, <1>4 DEF InSeq
  <2> QED  BY <2>1, <1>1, <1>2 DEF InSeq
<1>5. ASSUME InSeq(x, t) PROVE InSeq(x, s \o t)
  <2>1. PICK i \in 1 .. Len(t) : t[i] = x
    BY <1>1, <1>5 DEF InSeq
  <2>2. Len(s) + i \in 1 .. Len(s) + Len(t) /\ (s \o t)[Len(s) + i] = x
    BY <2>1, <1>1, <1>2
  <2> QED  BY <2>2, <1>1 DEF InSeq
<1> QED  BY <1>3, <1>4, <1>5

LEMMA ConcatAppend ==
  ASSUME NEW S, NEW s \in Seq(S), NEW t \in Seq(S), NEW e \in S
  PROVE  s \o Append(t, e) = Append(s \o t, e)
<1>1. <<e>> \in Seq(S)
  OBVIOUS
<1>2. s \o t \in Seq(S)
  BY ConcatProperties
<1> QED  BY <1>1, <1>2, AppendIsConcat, ConcatAssociative

\* Taking the head off the second of two sequences and appending it to the first.
LEMMA MoveHead ==
  ASSUME NEW S, NEW s \in Seq(S), NEW t \in Seq(S), t # << >>
  PROVE  Append(s, Head(t)) \o Tail(t) = s \o t
<1>1. Head(t) \in S /\ Tail(t) \in Seq(S)
  BY HeadTailProperties
<1>2. <<Head(t)>> \in Seq(S)
  BY <1>1
<1>3. t = <<Head(t)>> \o Tail(t)
  BY SubSeqRecursiveFirst, HeadTailProperties, ConcatProperties, LenProperties
<1>4. Append(s, Head(t)) = s \o <<Head(t)>>
  BY <1>1, AppendIsConcat
<1>5. (s \o <<Head(t)>>) \o Tail(t) = s \o (<<Head(t)>> \o Tail(t))
  BY <1>1, <1>2, ConcatAssociative
<1> QED  BY <1>3, <1>4, <1>5

LEMMA HeadTailConcat ==
  ASSUME NEW S, NEW s \in Seq(S), NEW t \in Seq(S), s # << >>
  PROVE  /\ s \o t # << >>
         /\ Head(s \o t) = Head(s)
         /\ Tail(s \o t) = Tail(s) \o t
<1>1. /\ Len(s) \in Nat \ {0} /\ Len(t) \in Nat
      /\ s \o t \in Seq(S) /\ Len(s \o t) = Len(s) + Len(t)
      /\ Tail(s) \in Seq(S) /\ Len(Tail(s)) = Len(s) - 1
  BY ConcatProperties, LenProperties, EmptySeq, HeadTailProperties
<1>2. s \o t # << >>
  BY <1>1, EmptySeq
<1>3. Head(s \o t) = Head(s)
  BY <1>1, <1>2, ConcatProperties
<1>4. /\ Tail(s \o t) \in Seq(S) /\ Len(Tail(s \o t)) = Len(s) + Len(t) - 1
      /\ \A i \in 1 .. Len(s) + Len(t) - 1 : Tail(s \o t)[i] = (s \o t)[i + 1]
  BY <1>1, <1>2, HeadTailProperties
<1>5. /\ Tail(s) \o t \in Seq(S) /\ Len(Tail(s) \o t) = Len(s) + Len(t) - 1
      /\ \A i \in 1 .. Len(s) + Len(t) - 1 :
           (Tail(s) \o t)[i] = IF i <= Len(s) - 1 THEN Tail(s)[i] ELSE t[i - (Len(s) - 1)]
  BY <1>1, ConcatProperties
<1>6. ASSUME NEW i \in 1 .. Len(s) + Len(t) - 1
      PROVE  Tail(s \o t)[i] = (Tail(s) \o t)[i]
  <2>1. (s \o t)[i + 1] = IF i + 1 <= Len(s) THEN s[i + 1] ELSE t[i + 1 - Len(s)]
    BY <1>1, ConcatProperties
  <2>2. i <= Len(s) - 1 => Tail(s)[i] = s[i + 1]
    BY <1>1, HeadTailProperties
  <2>3. i + 1 - Len(s) = i - (Len(s) - 1)
    BY <1>1
  <2> QED  BY <1>1, <1>4, <1>5, <2>1, <2>2, <2>3
<1>7. Tail(s \o t) = Tail(s) \o t
  BY <1>1, <1>4, <1>5, <1>6, SeqEqual
<1> QED  BY <1>2, <1>3, <1>7

\* A fresh element keeps a sequence free of repetitions.
LEMMA AppendFresh ==
  ASSUME NEW S, NEW s \in Seq(S), NEW e \in S, ~ InSeq(e, s),
         \A i, j \in DOMAIN s : s[i] = s[j] => i = j
  PROVE  \A i, j \in DOMAIN Append(s, e) : Append(s, e)[i] = Append(s, e)[j] => i = j
<1>1. /\ DOMAIN s = 1 .. Len(s) /\ Len(s) \in Nat
      /\ DOMAIN Append(s, e) = 1 .. Len(s) + 1
  BY AppendProperties, LenProperties
<1>2. /\ \A i \in 1 .. Len(s) : Append(s, e)[i] = s[i]
      /\ Append(s, e)[Len(s) + 1] = e
  BY AppendProperties
<1>3. \A i \in 1 .. Len(s) + 1 : i \in 1 .. Len(s) \/ i = Len(s) + 1
  BY <1>1
<1>4. \A i \in 1 .. Len(s) : s[i] # e
  BY <1>1 DEF InSeq
<1> QED  BY <1>1, <1>2, <1>3, <1>4

--------------------------------------------------------------------------------
(* Types. *)

LEMMA InitType == Init => TypeOK
<1> SUFFICES ASSUME Init PROVE TypeOK
  OBVIOUS
<1>1. << >> \in Seq(Clients)
  BY EmptySeq
<1>2. /\ pc \in [Clients -> Places] /\ answer \in [Clients -> Answers]
      /\ recorded \in [Clients -> Nat]
  BY DEF Init, Places, Answers
<1>3. stop \in BOOLEAN /\ wakePending \in BOOLEAN /\ installed \in BOOLEAN
  BY DEF Init
<1> QED  BY <1>1, <1>2, <1>3 DEF Init, TypeOK

Slots == {c \in Clients : pc[c] \in Serving}

LEMMA SlotsFinite == IsFiniteSet(Slots) /\ Cardinality(Slots) \in Nat
BY ClientsAssumption, FS_Subset, FS_CardinalityType DEF Slots

LEMMA SomeSlotTaken ==
  ASSUME SlotsCounted, NEW c \in Clients, pc[c] \in Serving
  PROVE  active # 0
<1>1. Slots # {}
  BY DEF Slots
<1> QED  BY <1>1, SlotsFinite, FS_EmptySet DEF SlotsCounted, Slots

LEMMA StepType ==
  ASSUME TypeOK, BatchPhase, SlotsCounted, [Next]_vars
  PROVE  TypeOK'
<1> USE DEF TypeOK, Places, Serving, Answers, Refusals
<1>1. ASSUME NEW c \in Clients, Connect(c) PROVE TypeOK'
  BY <1>1 DEF Connect, serverVars, wakeVars, hostVars
<1>2. ASSUME NEW c \in Clients, AcceptClient(c) PROVE TypeOK'
  BY <1>2 DEF AcceptClient, wakeVars, hostVars
<1>3. ASSUME NEW c \in Clients, SpawnFails(c) PROVE TypeOK'
  BY <1>3 DEF SpawnFails, serverVars, wakeVars, hostVars
<1>4. ASSUME NEW c \in Clients, AcceptOverLimit(c) PROVE TypeOK'
  BY <1>4 DEF AcceptOverLimit, wakeVars, hostVars
<1>5. ASSUME NEW c \in Clients, DrainBusy(c) PROVE TypeOK'
  BY <1>5 DEF DrainBusy, wakeVars, hostVars
<1>6. ASSUME AcceptLoopExits PROVE TypeOK'
  BY <1>6 DEF AcceptLoopExits, wakeVars, hostVars
<1>7. ASSUME NEW c \in Clients, ReadRequest(c) PROVE TypeOK'
  BY <1>7 DEF ReadRequest, serverVars, wakeVars, hostVars
<1>8. ASSUME NEW c \in Clients, RejectFrame(c) PROVE TypeOK'
  BY <1>8 DEF RejectFrame, serverVars, wakeVars, hostVars
<1>9. ASSUME NEW c \in Clients, Enqueue(c) PROVE TypeOK'
  BY <1>9, AppendProperties DEF Enqueue, serverVars, hostVars
<1>10. ASSUME NEW c \in Clients, RefuseQueueFull(c) PROVE TypeOK'
  BY <1>10 DEF RefuseQueueFull, serverVars, wakeVars, hostVars
<1>11. ASSUME NEW c \in Clients, SwapWakePending(c) PROVE TypeOK'
  BY <1>11 DEF SwapWakePending, serverVars, hostVars
<1>12. ASSUME NEW c \in Clients, Invoke(c) PROVE TypeOK'
  BY <1>12 DEF Invoke, serverVars, hostVars
<1>13. ASSUME NEW c \in Clients, Receive(c) PROVE TypeOK'
  BY <1>13 DEF Receive, serverVars, wakeVars, hostVars
<1>14. ASSUME NEW c \in Clients, TimeOut(c) PROVE TypeOK'
  BY <1>14 DEF TimeOut, serverVars, wakeVars, hostVars
<1>15. ASSUME RunWake PROVE TypeOK'
  <2>1. wakes' \in Nat
    BY <1>15 DEF RunWake
  <2>2. /\ wakePending' \in BOOLEAN
        /\ host' \in {"idle", "woken", "dispatching", "replying", "joining", "stopped"}
    BY <1>15, Zenon DEF RunWake
  <2> QED  BY <1>15, <2>1, <2>2 DEF RunWake, clientVars, serverVars
<1>16. ASSUME DrainQueue PROVE TypeOK'
  BY <1>16 DEF DrainQueue, clientVars, serverVars
<1>17. ASSUME DispatchCall PROVE TypeOK'
  <2>1. Head(batch) \in Clients
    BY <1>17, HeadTailProperties DEF DispatchCall
  <2> QED  BY <1>17, <2>1, AppendProperties DEF DispatchCall, serverVars, wakeVars
<1>18. ASSUME SendReply PROVE TypeOK'
  <2>1. Head(batch) \in Clients /\ Tail(batch) \in Seq(Clients)
    BY <1>18, HeadTailProperties DEF SendReply, BatchPhase
  <2> QED  BY <1>18, <2>1 DEF SendReply, clientVars, serverVars, wakeVars
<1>19. ASSUME EndBatch PROVE TypeOK'
  BY <1>19 DEF EndBatch, clientVars, serverVars, wakeVars
<1>20. ASSUME Shutdown PROVE TypeOK'
  BY <1>20 DEF Shutdown, clientVars, wakeVars
<1>21. ASSUME JoinAcceptThread PROVE TypeOK'
  BY <1>21 DEF JoinAcceptThread, clientVars, serverVars, wakeVars
<1>22. ASSUME UNCHANGED vars PROVE TypeOK'
  BY <1>22 DEF vars, clientVars, serverVars, wakeVars, hostVars
<1>23. ASSUME NEW c \in Clients, Finish(c) PROVE TypeOK'
  <2>1. active # 0
    BY <1>23, SomeSlotTaken DEF Finish
  <2> QED  BY <1>23, <2>1 DEF Finish, wakeVars, hostVars
<1> QED
  BY <1>1, <1>2, <1>3, <1>4, <1>5, <1>6, <1>7, <1>8, <1>9, <1>10, <1>11, <1>12, <1>13,
     <1>14, <1>15, <1>16, <1>17, <1>18, <1>19, <1>20, <1>21, <1>22, <1>23
  DEF Next, AcceptThread, ClientThread, MainLoop, Environment, AcceptStops, AcceptError

--------------------------------------------------------------------------------
(* The wake-up. *)

\* Steps that touch neither the queue, the flag, the closures nor the host.
LEMMA NoWakeStep ==
  ASSUME TypeOK, WakeInv, UNCHANGED <<queue, wakePending, wakes, host, installed>>,
         NEW K \in SUBSET Clients,
         K = {c \in Clients : pc[c] \in {"pushed", "invoking"}},
         \A c \in K : pc'[c] = pc[c],
         \A c \in Clients \ K : pc'[c] # "invoking"
  PROVE  WakeInv'
BY Zenon DEF WakeInv, WakeFlag, OneWake, NoLostWake

LEMMA StepWake ==
  ASSUME TypeOK, TypeOK', WakeInv, [Next]_vars
  PROVE  WakeInv'
<1> DEFINE K == {c \in Clients : pc[c] \in {"pushed", "invoking"}}
           Quiet == /\ UNCHANGED <<queue, wakePending, wakes, host, installed>>
                    /\ \A c \in K : pc'[c] = pc[c]
                    /\ \A c \in Clients \ K : pc'[c] # "invoking"
<1>1. Quiet => WakeInv'
  BY NoWakeStep
<1>2. ASSUME NEW c \in Clients,
             \/ Connect(c) \/ AcceptClient(c) \/ SpawnFails(c) \/ AcceptOverLimit(c)
             \/ DrainBusy(c) \/ ReadRequest(c) \/ RejectFrame(c) \/ RefuseQueueFull(c)
             \/ Receive(c) \/ TimeOut(c) \/ Finish(c)
      PROVE  Quiet
  BY <1>2 DEF TypeOK, Connect, AcceptClient, SpawnFails, AcceptOverLimit, DrainBusy,
              ReadRequest, RejectFrame, RefuseQueueFull, Receive, TimeOut, Finish,
              wakeVars, hostVars
<1>3. ASSUME AcceptLoopExits PROVE Quiet
  BY <1>3 DEF TypeOK, AcceptLoopExits, wakeVars, hostVars
<1>4. ASSUME NEW c \in Clients, Enqueue(c) PROVE WakeInv'
  <2>1. /\ pc'[c] = "pushed" /\ pc[c] = "decoded"
        /\ \A d \in Clients : d # c => pc'[d] = pc[d]
        /\ UNCHANGED <<wakePending, wakes, installed>>
    BY <1>4 DEF Enqueue, TypeOK, hostVars
  <2> QED  BY <2>1, Zenon DEF WakeInv, WakeFlag, OneWake, NoLostWake
<1>5. ASSUME NEW c \in Clients, SwapWakePending(c) PROVE WakeInv'
  <2>1. /\ pc[c] = "pushed"
        /\ \A d \in Clients : d # c => pc'[d] = pc[d]
        /\ UNCHANGED <<queue, wakes, installed, host>>
        /\ wakePending'
    BY <1>5 DEF SwapWakePending, TypeOK, hostVars
  <2>2. CASE wakePending
    <3>1. pc'[c] = "waiting"
      BY <1>5, <2>2 DEF SwapWakePending, TypeOK
    <3> QED  BY <2>1, <2>2, <3>1, Zenon DEF WakeInv, WakeFlag, OneWake, NoLostWake
  <2>3. CASE ~ wakePending
    <3>1. pc'[c] = "invoking" /\ wakes = 0
      BY <1>5, <2>3 DEF SwapWakePending, TypeOK, WakeInv, WakeFlag
    <3> QED  BY <2>1, <2>3, <3>1, Zenon DEF WakeInv, WakeFlag, OneWake, NoLostWake
  <2> QED  BY <2>2, <2>3
<1>6. ASSUME NEW c \in Clients, Invoke(c) PROVE WakeInv'
  <2>1. /\ pc[c] = "invoking" /\ pc'[c] = "waiting"
        /\ \A d \in Clients : d # c => pc'[d] = pc[d]
        /\ UNCHANGED <<queue, wakePending, installed, host>>
        /\ wakes = 0 /\ wakes' = 1
        /\ \A d \in Clients : pc[d] = "invoking" => d = c
    BY <1>6 DEF Invoke, TypeOK, hostVars, WakeInv, OneWake
  <2>2. \A d \in Clients : pc'[d] # "invoking"
    BY <2>1
  <2>3. wakes' > 0 /\ wakes' <= 1
    BY <2>1
  <2>4. wakePending'
    BY <2>1, Zenon DEF WakeInv, WakeFlag
  <2> QED  BY <2>2, <2>3, <2>4, Zenon DEF WakeInv, WakeFlag, OneWake, NoLostWake
<1>7. ASSUME RunWake PROVE WakeInv'
  <2>1. wakes' = 0 /\ wakes > 0 /\ ~ (wakes = 0)
    BY <1>7 DEF RunWake, TypeOK, WakeInv, OneWake
  <2>2. \A c \in Clients : pc'[c] # "invoking"
    BY <1>7, <2>1 DEF RunWake, clientVars, WakeInv, OneWake
  <2>3. wakes' <= 1
    BY <2>1
  <2>4. /\ installed' <=> installed
        /\ installed => ~ wakePending' /\ host' = "woken"
    BY <1>7, Zenon DEF RunWake
  <2> QED  BY <2>1, <2>2, <2>3, <2>4, Zenon DEF WakeInv, WakeFlag, OneWake, NoLostWake
<1>8. ASSUME DrainQueue PROVE WakeInv'
  BY <1>8, Zenon DEF DrainQueue, clientVars, WakeInv, WakeFlag, OneWake, NoLostWake
<1>9. ASSUME DispatchCall \/ SendReply \/ EndBatch \/ JoinAcceptThread PROVE WakeInv'
  <2>1. UNCHANGED <<pc, queue, wakePending, wakes, installed>> /\ host # "woken"
    BY <1>9 DEF DispatchCall, SendReply, EndBatch, JoinAcceptThread, clientVars, wakeVars
  <2> QED  BY <2>1, Zenon DEF WakeInv, WakeFlag, OneWake, NoLostWake
<1>10. ASSUME Shutdown PROVE WakeInv'
  BY <1>10, Zenon DEF Shutdown, clientVars, wakeVars, WakeInv, WakeFlag, OneWake, NoLostWake
<1>11. ASSUME UNCHANGED vars PROVE WakeInv'
  BY <1>11, Zenon DEF vars, clientVars, wakeVars, hostVars, WakeInv, WakeFlag, OneWake,
                      NoLostWake
<1> QED
  BY <1>1, <1>2, <1>3, <1>4, <1>5, <1>6, <1>7, <1>8, <1>9, <1>10, <1>11
  DEF Next, AcceptThread, ClientThread, MainLoop, Environment, AcceptStops, AcceptError

--------------------------------------------------------------------------------
(* The client slots. *)

LEMMA StepSlots ==
  ASSUME TypeOK, TypeOK', SlotsCounted, [Next]_vars
  PROVE  SlotsCounted'
<1> USE BoundsAssumption
<1>1. active = Cardinality(Slots) /\ active <= MaxClients /\ active \in Nat
  BY DEF SlotsCounted, Slots, TypeOK
<1>2. Slots' = Slots /\ active' = active => SlotsCounted'
  BY <1>1 DEF SlotsCounted, Slots
<1>3. ASSUME NEW c \in Clients,
             \/ Connect(c) \/ SpawnFails(c) \/ AcceptOverLimit(c) \/ DrainBusy(c)
             \/ ReadRequest(c) \/ RejectFrame(c) \/ Enqueue(c) \/ RefuseQueueFull(c)
             \/ SwapWakePending(c) \/ Invoke(c) \/ Receive(c) \/ TimeOut(c)
      PROVE  Slots' = Slots /\ active' = active
  <2>1. /\ active' = active
        /\ \A d \in Clients : d # c => pc'[d] = pc[d]
        /\ pc'[c] \in Serving <=> pc[c] \in Serving
    BY <1>3 DEF TypeOK, Serving, Connect, SpawnFails, AcceptOverLimit, DrainBusy,
                ReadRequest, RejectFrame, Enqueue, RefuseQueueFull, SwapWakePending,
                Invoke, Receive, TimeOut, serverVars
  <2> QED  BY <2>1 DEF Slots
<1>4. ASSUME AcceptLoopExits PROVE Slots' = Slots /\ active' = active
  <2>1. \A d \in Clients : pc'[d] \in Serving <=> pc[d] \in Serving
    BY <1>4 DEF AcceptLoopExits, Serving
  <2> QED  BY <1>4, <2>1 DEF AcceptLoopExits, Slots
<1>5. ASSUME NEW c \in Clients, AcceptClient(c) PROVE SlotsCounted'
  <2>1. Slots' = Slots \union {c} /\ c \notin Slots
    BY <1>5 DEF AcceptClient, TypeOK, Slots, Serving
  <2>2. Cardinality(Slots') = Cardinality(Slots) + 1
    BY <2>1, SlotsFinite, FS_AddElement
  <2>3. active' = active + 1 /\ active < MaxClients
    BY <1>5 DEF AcceptClient
  <2> QED  BY <1>1, <2>2, <2>3 DEF SlotsCounted, Slots
<1>6. ASSUME NEW c \in Clients, Finish(c) PROVE SlotsCounted'
  <2>1. Slots' = Slots \ {c} /\ c \in Slots
    BY <1>6 DEF Finish, TypeOK, Slots, Serving
  <2>2. Cardinality(Slots') = Cardinality(Slots) - 1
    BY <2>1, SlotsFinite, FS_RemoveElement
  <2>3. active' = active - 1
    BY <1>6 DEF Finish
  <2> QED  BY <1>1, <2>2, <2>3 DEF SlotsCounted, Slots
<1>7. ASSUME \/ RunWake \/ DrainQueue \/ DispatchCall \/ SendReply \/ EndBatch
             \/ Shutdown \/ JoinAcceptThread \/ UNCHANGED vars
      PROVE  Slots' = Slots /\ active' = active
  <2>1. pc' = pc /\ active' = active
    BY <1>7 DEF RunWake, DrainQueue, DispatchCall, SendReply, EndBatch, Shutdown,
                JoinAcceptThread, vars, clientVars, serverVars
  <2> QED  BY <2>1 DEF Slots
<1> QED
  BY <1>2, <1>3, <1>4, <1>5, <1>6, <1>7
  DEF Next, AcceptThread, ClientThread, MainLoop, Environment, AcceptStops, AcceptError

--------------------------------------------------------------------------------
(* The calls. *)

LEMMA PendingType ==
  ASSUME TypeOK, BatchPhase
  PROVE  Pending \in Seq(Clients) /\ Calls \in Seq(Clients)
<1>1. (IF host = "replying" THEN Tail(batch) ELSE batch) \in Seq(Clients)
  BY HeadTailProperties DEF TypeOK, BatchPhase
<1>2. Pending \in Seq(Clients)
  BY <1>1, ConcatProperties DEF Pending, TypeOK
<1> QED  BY <1>2, ConcatProperties DEF Calls, TypeOK

LEMMA StepBatch ==
  ASSUME TypeOK, BatchPhase, [Next]_vars
  PROVE  BatchPhase'
<1>1. ASSUME NEW c \in Clients,
             \/ Connect(c) \/ AcceptClient(c) \/ SpawnFails(c) \/ AcceptOverLimit(c)
             \/ DrainBusy(c) \/ ClientThread(c)
      PROVE  UNCHANGED <<host, batch>>
  BY <1>1 DEF Connect, AcceptClient, SpawnFails, AcceptOverLimit, DrainBusy, ClientThread,
              ReadRequest, RejectFrame, Enqueue, RefuseQueueFull, SwapWakePending, Invoke,
              Receive, TimeOut, Finish, hostVars
<1>2. ASSUME AcceptLoopExits \/ UNCHANGED vars PROVE UNCHANGED <<host, batch>>
  BY <1>2 DEF AcceptLoopExits, vars, hostVars
<1>3. ASSUME RunWake PROVE BatchPhase'
  <2>1. host = "idle" /\ host' \in {"idle", "woken"} /\ batch' = batch
    BY <1>3, Zenon DEF RunWake
  <2> QED  BY <2>1 DEF BatchPhase
<1>4. ASSUME DrainQueue \/ DispatchCall \/ SendReply \/ EndBatch \/ Shutdown \/ JoinAcceptThread
      PROVE  BatchPhase'
  BY <1>4 DEF BatchPhase, DrainQueue, DispatchCall, SendReply, EndBatch, Shutdown,
              JoinAcceptThread
<1>5. UNCHANGED <<host, batch>> => BatchPhase'
  BY DEF BatchPhase
<1> QED
  BY <1>1, <1>2, <1>3, <1>4, <1>5
  DEF Next, AcceptThread, MainLoop, Environment, AcceptStops, AcceptError

\* The only steps that change the accepted calls: a client queues its own, and the
\* main loop carries out the oldest.
CallsQuiet == UNCHANGED <<Pending, carriedOut>>

LEMMA EnqueueCalls ==
  ASSUME TypeOK, BatchPhase, NEW c \in Clients, Enqueue(c)
  PROVE  /\ Pending' = Append(Pending, c)
         /\ carriedOut' = carriedOut
         /\ Calls' = Append(Calls, c)
<1> DEFINE B == IF host = "replying" THEN Tail(batch) ELSE batch
<1>1. B \in Seq(Clients) /\ B' = B /\ queue \in Seq(Clients)
  BY HeadTailProperties DEF TypeOK, BatchPhase, Enqueue, hostVars
<1>2. Pending = B \o queue /\ Pending' = B \o Append(queue, c)
  BY <1>1 DEF Pending, Enqueue
<1>3. Pending' = Append(Pending, c)
  <2> HIDE DEF B
  <2> QED  BY <1>1, <1>2, ConcatAppend
<1>4. carriedOut' = carriedOut /\ carriedOut \in Seq(Clients)
  BY DEF Enqueue, hostVars, TypeOK
<1>5. Calls' = carriedOut \o Append(Pending, c)
  BY <1>3, <1>4 DEF Calls
<1> QED  BY <1>3, <1>4, <1>5, PendingType, ConcatAppend DEF Calls

LEMMA DispatchCalls ==
  ASSUME TypeOK, BatchPhase, DispatchCall
  PROVE  /\ Pending # << >> /\ Head(Pending) = Head(batch)
         /\ Pending' = Tail(Pending)
         /\ carriedOut' = Append(carriedOut, Head(Pending))
         /\ Calls' = Calls
<1>1. /\ host = "dispatching" /\ host' = "replying"
      /\ batch # << >> /\ batch' = batch /\ queue' = queue
      /\ batch \in Seq(Clients) /\ queue \in Seq(Clients) /\ carriedOut \in Seq(Clients)
      /\ carriedOut' = Append(carriedOut, Head(batch))
  BY DEF DispatchCall, TypeOK, wakeVars
<1>2. Pending = batch \o queue /\ Pending' = Tail(batch) \o queue
  BY <1>1 DEF Pending
<1>3. Pending # << >> /\ Head(Pending) = Head(batch) /\ Pending' = Tail(Pending)
  BY <1>1, <1>2, HeadTailConcat
<1>4. Calls' = Calls
  BY <1>1, <1>3, PendingType, MoveHead DEF Calls
<1> QED  BY <1>1, <1>3, <1>4

LEMMA OtherCalls ==
  ASSUME TypeOK, BatchPhase, [Next]_vars, ~ DispatchCall,
         \A c \in Clients : ~ Enqueue(c)
  PROVE  CallsQuiet
<1>1. ASSUME NEW c \in Clients,
             \/ Connect(c) \/ AcceptClient(c) \/ SpawnFails(c) \/ AcceptOverLimit(c)
             \/ DrainBusy(c) \/ ClientThread(c)
      PROVE  UNCHANGED <<queue, host, batch, carriedOut>>
  BY <1>1 DEF Connect, AcceptClient, SpawnFails, AcceptOverLimit, DrainBusy, ClientThread,
              ReadRequest, RejectFrame, RefuseQueueFull, SwapWakePending, Invoke,
              Receive, TimeOut, Finish, hostVars, wakeVars
<1>2. ASSUME AcceptLoopExits \/ UNCHANGED vars PROVE UNCHANGED <<queue, host, batch, carriedOut>>
  BY <1>2 DEF AcceptLoopExits, vars, hostVars, wakeVars
<1>3. ASSUME RunWake \/ EndBatch \/ Shutdown \/ JoinAcceptThread
      PROVE  /\ UNCHANGED <<queue, batch, carriedOut>>
             /\ host # "replying" /\ host' # "replying"
  <2>1. CASE RunWake
    BY <2>1, Zenon DEF RunWake
  <2>2. CASE EndBatch \/ Shutdown \/ JoinAcceptThread
    BY <2>2 DEF EndBatch, Shutdown, JoinAcceptThread, wakeVars
  <2> QED  BY <1>3, <2>1, <2>2
<1>4. ASSUME DrainQueue PROVE CallsQuiet
  <2>1. /\ host = "woken" /\ host' = "dispatching" /\ batch = << >>
        /\ batch' = queue /\ queue' = << >> /\ queue \in Seq(Clients)
        /\ carriedOut' = carriedOut
    BY <1>4 DEF DrainQueue, BatchPhase, TypeOK
  <2>2. Pending = << >> \o queue /\ Pending' = queue \o << >>
    BY <2>1 DEF Pending
  <2> QED  BY <2>1, <2>2, ConcatEmptySeq DEF CallsQuiet
<1>5. ASSUME SendReply PROVE CallsQuiet
  BY <1>5 DEF SendReply, Pending, CallsQuiet, wakeVars
<1>6. UNCHANGED <<queue, host, batch, carriedOut>> => CallsQuiet
  BY DEF Pending, CallsQuiet
<1>7. UNCHANGED <<queue, batch, carriedOut>> /\ host # "replying" /\ host' # "replying"
        => CallsQuiet
  BY DEF Pending, CallsQuiet
<1> QED
  BY <1>1, <1>2, <1>3, <1>4, <1>5, <1>6, <1>7
  DEF Next, AcceptThread, MainLoop, Environment, AcceptStops, AcceptError

LEMMA CalledOut ==
  ASSUME TypeOK, BatchPhase, NEW c \in Clients
  PROVE  InSeq(c, Calls) <=> InSeq(c, carriedOut) \/ InSeq(c, Pending)
BY PendingType, InSeqConcat DEF Calls, TypeOK

\* Steps of the clients' threads and of the accept thread that leave the calls alone.
LEMMA StepStages ==
  ASSUME TypeOK, TypeOK', CallInv, [Next]_vars
  PROVE  CallStage' /\ AnswerStage' /\ AnswersMatch'
<1> DEFINE Stages == CallStage /\ AnswerStage /\ AnswersMatch
<1>1. CallsQuiet => Calls' = Calls /\ carriedOut' = carriedOut
  BY DEF CallsQuiet, Calls
<1>2. ASSUME NEW c \in Clients, CallsQuiet,
             \/ Connect(c) \/ AcceptClient(c) \/ SpawnFails(c) \/ AcceptOverLimit(c)
             \/ DrainBusy(c) \/ ReadRequest(c) \/ RejectFrame(c) \/ RefuseQueueFull(c)
             \/ SwapWakePending(c) \/ Invoke(c) \/ TimeOut(c) \/ Finish(c)
      PROVE  Stages'
  <2>1. /\ \A d \in Clients : d # c => pc'[d] = pc[d] /\ answer'[d] = answer[d]
        /\ pc'[c] \in {"pushed", "invoking", "waiting"}
             => pc[c] \in {"pushed", "invoking", "waiting"}
        /\ pc[c] \in {"pushed", "invoking", "waiting", "answered", "done"}
             => pc'[c] \in {"pushed", "invoking", "waiting", "answered", "done"}
        /\ pc'[c] \notin {"answered", "done"}
             => pc[c] \notin {"answered", "done"} /\ answer'[c] = answer[c]
        /\ answer'[c] \in Refusals
             => \/ answer'[c] = answer[c]
                \/ pc[c] \notin {"pushed", "invoking", "waiting", "answered", "done"}
        /\ answer'[c] = "reply" => answer'[c] = answer[c]
    BY <1>2 DEF TypeOK, Refusals, Connect, AcceptClient, SpawnFails, AcceptOverLimit,
                DrainBusy, ReadRequest, RejectFrame, RefuseQueueFull, SwapWakePending,
                Invoke, TimeOut, Finish
  <2>2. CallStage'
    BY <1>1, <1>2, <2>1, Zenon DEF CallInv, CallStage
  <2>3. AnswerStage'
    BY <2>1, Zenon DEF CallInv, AnswerStage
  <2>4. AnswersMatch'
    BY <1>1, <1>2, <2>1, Zenon DEF CallInv, CallStage, AnswersMatch
  <2> QED  BY <2>2, <2>3, <2>4
<1>3. ASSUME AcceptLoopExits, CallsQuiet PROVE Stages'
  <2>1. \A d \in Clients :
          \/ pc'[d] = pc[d] /\ answer'[d] = answer[d]
          \/ pc[d] = "backlog" /\ pc'[d] = "done" /\ answer'[d] = "dropped"
    BY <1>3 DEF AcceptLoopExits
  <2> QED  BY <1>1, <1>3, <2>1 DEF CallInv, CallStage, AnswerStage, AnswersMatch
<1>4. ASSUME NEW c \in Clients, Receive(c), CallsQuiet PROVE Stages'
  <2>1. /\ \A d \in Clients : d # c => pc'[d] = pc[d] /\ answer'[d] = answer[d]
        /\ pc[c] = "waiting" /\ pc'[c] = "answered" /\ answer'[c] = "reply"
        /\ InSeq(c, carriedOut)
    BY <1>4 DEF Receive, TypeOK, CallInv, RepliesBacked
  <2> QED  BY <1>1, <1>4, <2>1 DEF CallInv, CallStage, AnswerStage, AnswersMatch, Refusals
<1>5. ASSUME CallsQuiet,
             \/ RunWake \/ DrainQueue \/ SendReply \/ EndBatch \/ Shutdown
             \/ JoinAcceptThread \/ UNCHANGED vars
      PROVE  Stages'
  <2>1. pc' = pc /\ answer' = answer
    BY <1>5 DEF RunWake, DrainQueue, SendReply, EndBatch, Shutdown, JoinAcceptThread, vars,
                clientVars
  <2> QED  BY <1>1, <1>5, <2>1 DEF CallInv, CallStage, AnswerStage, AnswersMatch
<1>6. ASSUME NEW c \in Clients, Enqueue(c) PROVE Stages'
  <2>1. /\ Calls' = Append(Calls, c) /\ Calls \in Seq(Clients) /\ carriedOut' = carriedOut
    BY <1>6, EnqueueCalls, PendingType DEF CallInv
  <2>2. \A d \in Clients : InSeq(d, Calls') <=> InSeq(d, Calls) \/ d = c
    BY <2>1, InSeqAppend
  <2>3. /\ pc[c] = "decoded" /\ pc'[c] = "pushed" /\ answer' = answer
        /\ \A d \in Clients : d # c => pc'[d] = pc[d]
    BY <1>6 DEF Enqueue, TypeOK
  <2>4. answer[c] = "none"
    BY <2>3 DEF CallInv, AnswerStage
  <2>5. CallStage' /\ AnswerStage'
    BY <2>2, <2>3 DEF CallInv, CallStage, AnswerStage
  <2>6. AnswersMatch'
    BY <2>1, <2>2, <2>3, <2>4 DEF CallInv, AnswersMatch, Refusals
  <2> QED  BY <2>5, <2>6
<1>7. ASSUME DispatchCall PROVE Stages'
  <2>1. /\ Calls' = Calls /\ carriedOut' = Append(carriedOut, Head(Pending))
        /\ Head(Pending) \in Clients /\ carriedOut \in Seq(Clients)
    BY <1>7, DispatchCalls, PendingType, HeadTailProperties DEF CallInv, TypeOK
  <2>2. \A d \in Clients : InSeq(d, carriedOut) => InSeq(d, carriedOut')
    BY <2>1, InSeqAppend
  <2>3. pc' = pc /\ answer' = answer
    BY <1>7 DEF DispatchCall
  <2> QED  BY <2>1, <2>2, <2>3 DEF CallInv, CallStage, AnswerStage, AnswersMatch
<1> QED
  BY <1>2, <1>3, <1>4, <1>5, <1>6, <1>7, OtherCalls
  DEF CallInv, Next, AcceptThread, ClientThread, MainLoop, Environment, AcceptStops, AcceptError

LEMMA StepOnce ==
  ASSUME TypeOK, TypeOK', CallInv, [Next]_vars
  PROVE  AtMostOnce' /\ RepliesBacked'
<1>1. ASSUME NEW c \in Clients, Enqueue(c) PROVE AtMostOnce' /\ RepliesBacked'
  <2>1. /\ Calls' = Append(Calls, c) /\ Calls \in Seq(Clients) /\ carriedOut' = carriedOut
        /\ UNCHANGED <<host, batch, replied>>
    BY <1>1, EnqueueCalls, PendingType DEF CallInv, Enqueue, hostVars
  <2>2. ~ InSeq(c, Calls)
    BY <1>1 DEF CallInv, CallStage, Enqueue
  <2>3. AtMostOnce'
    BY <2>1, <2>2, AppendFresh DEF CallInv, AtMostOnce
  <2> QED  BY <2>1, <2>3 DEF CallInv, RepliesBacked
<1>2. ASSUME DispatchCall PROVE AtMostOnce' /\ RepliesBacked'
  <2>1. /\ Calls' = Calls /\ carriedOut' = Append(carriedOut, Head(Pending))
        /\ Head(Pending) = Head(batch)
        /\ Head(Pending) \in Clients /\ carriedOut \in Seq(Clients)
    BY <1>2, DispatchCalls, PendingType, HeadTailProperties DEF CallInv, TypeOK
  <2>2. \A d \in Clients : InSeq(d, carriedOut') <=> InSeq(d, carriedOut) \/ d = Head(batch)
    BY <2>1, InSeqAppend
  <2>3. UNCHANGED <<replied, batch>> /\ replied \subseteq Clients
    BY <1>2 DEF DispatchCall, TypeOK
  <2>4. AtMostOnce'
    BY <2>1 DEF CallInv, AtMostOnce
  <2>5. RepliesBacked'
    BY <2>1, <2>2, <2>3 DEF CallInv, RepliesBacked
  <2> QED  BY <2>4, <2>5
<1>3. ASSUME CallsQuiet PROVE AtMostOnce' /\ RepliesBacked'
  <2>1. Calls' = Calls /\ carriedOut' = carriedOut
    BY <1>3 DEF CallsQuiet, Calls
  <2>2. AtMostOnce'
    BY <2>1 DEF CallInv, AtMostOnce
  <2>3. \/ replied' = replied /\ (host' # "replying" \/ UNCHANGED <<host, batch>>)
        \/ DispatchCall
        \/ SendReply
    <3>1. ASSUME NEW c \in Clients,
                 \/ Connect(c) \/ AcceptClient(c) \/ SpawnFails(c) \/ AcceptOverLimit(c)
                 \/ DrainBusy(c) \/ ClientThread(c)
          PROVE  UNCHANGED <<host, batch, replied>>
      BY <3>1 DEF Connect, AcceptClient, SpawnFails, AcceptOverLimit, DrainBusy,
                  ClientThread, ReadRequest, RejectFrame, Enqueue, RefuseQueueFull,
                  SwapWakePending, Invoke, Receive, TimeOut, Finish, hostVars
    <3>2. ASSUME AcceptLoopExits \/ UNCHANGED vars PROVE UNCHANGED <<host, batch, replied>>
      BY <3>2 DEF AcceptLoopExits, vars, hostVars
    <3>3. ASSUME RunWake \/ DrainQueue \/ EndBatch \/ Shutdown \/ JoinAcceptThread
          PROVE  replied' = replied /\ host' # "replying"
      <4>1. CASE RunWake
        BY <4>1, Zenon DEF RunWake
      <4>2. CASE DrainQueue \/ EndBatch \/ Shutdown \/ JoinAcceptThread
        BY <4>2 DEF DrainQueue, EndBatch, Shutdown, JoinAcceptThread
      <4> QED  BY <3>3, <4>1, <4>2
    <3> QED
      BY <3>1, <3>2, <3>3
      DEF Next, AcceptThread, MainLoop, Environment, AcceptStops, AcceptError
  <2>4. CASE SendReply
    BY <2>1, <2>2, <2>4 DEF CallInv, RepliesBacked, SendReply
  <2>5. CASE replied' = replied /\ (host' # "replying" \/ UNCHANGED <<host, batch>>)
    BY <2>1, <2>2, <2>5 DEF CallInv, RepliesBacked
  <2> QED  BY <1>2, <2>2, <2>3, <2>4, <2>5
<1> QED  BY <1>1, <1>2, <1>3, OtherCalls DEF CallInv

LEMMA HeadIsFresh ==
  ASSUME TypeOK, BatchPhase, AtMostOnce, Pending # << >>
  PROVE  ~ InSeq(Head(Pending), carriedOut)
<1>1. /\ carriedOut \in Seq(Clients) /\ Pending \in Seq(Clients)
      /\ Len(carriedOut) \in Nat /\ Len(Pending) \in Nat \ {0}
      /\ DOMAIN carriedOut = 1 .. Len(carriedOut)
  BY PendingType, LenProperties, EmptySeq DEF TypeOK
<1>2. /\ DOMAIN Calls = 1 .. Len(carriedOut) + Len(Pending)
      /\ Calls[Len(carriedOut) + 1] = Pending[1]
      /\ \A i \in 1 .. Len(carriedOut) : Calls[i] = carriedOut[i]
  BY <1>1, ConcatProperties, LenProperties DEF Calls
<1>3. Head(Pending) = Pending[1]
  BY <1>1
<1>4. ASSUME NEW i \in 1 .. Len(carriedOut), carriedOut[i] = Pending[1] PROVE FALSE
  <2>1. /\ i \in DOMAIN Calls /\ Len(carriedOut) + 1 \in DOMAIN Calls
        /\ Calls[i] = Calls[Len(carriedOut) + 1]
    BY <1>1, <1>2, <1>4
  <2>2. i = Len(carriedOut) + 1
    BY <2>1 DEF AtMostOnce
  <2> QED  BY <1>1, <2>2
<1> QED  BY <1>1, <1>3, <1>4 DEF InSeq

\* Whether the history holds a refusal or a timeout of c.
Refused(c) == pc[c] = "draining" \/ answer[c] \in {"limit", "rejected", "busy", "timeout"}

LEMMA StepRecord ==
  ASSUME TypeOK, TypeOK', CallInv, RecordCount, [Next]_vars
  PROVE  RecordCount'
<1> DEFINE Out(c) == InSeq(c, carriedOut)
<1>1. \A c \in Clients :
        recorded[c] = (IF Refused(c) THEN 1 ELSE 0) + (IF Out(c) THEN 1 ELSE 0)
  BY DEF RecordCount, Refused
<1>2. ASSUME carriedOut' = carriedOut,
             \A c \in Clients :
               \/ recorded'[c] = recorded[c] /\ (Refused(c)' <=> Refused(c))
               \/ recorded'[c] = recorded[c] + 1 /\ Refused(c)' /\ ~ Refused(c)
      PROVE  RecordCount'
  <2>1. ASSUME NEW c \in Clients
        PROVE  recorded'[c] = (IF Refused(c)' THEN 1 ELSE 0) + (IF Out(c) THEN 1 ELSE 0)
    BY <1>1, <1>2 DEF TypeOK
  <2> QED  BY <1>2, <2>1 DEF RecordCount, Refused
<1>3. ASSUME NEW c \in Clients,
             \/ Connect(c) \/ AcceptClient(c) \/ SpawnFails(c) \/ DrainBusy(c)
             \/ ReadRequest(c) \/ Enqueue(c) \/ SwapWakePending(c) \/ Invoke(c)
             \/ Receive(c) \/ Finish(c)
      PROVE  RecordCount'
  <2>1. /\ carriedOut' = carriedOut /\ recorded' = recorded
        /\ \A d \in Clients : d # c => pc'[d] = pc[d] /\ answer'[d] = answer[d]
    BY <1>3 DEF TypeOK, Connect, AcceptClient, SpawnFails, DrainBusy, ReadRequest, Enqueue,
                SwapWakePending, Invoke, Receive, Finish, hostVars
  <2>2. pc[c] \notin {"answered", "done"} => answer[c] = "none"
    BY DEF CallInv, AnswerStage
  <2>3. Refused(c)' <=> Refused(c)
    BY <1>3, <2>2 DEF TypeOK, Refused, Connect, AcceptClient, SpawnFails, DrainBusy,
                ReadRequest, Enqueue, SwapWakePending, Invoke, Receive, Finish
  <2> QED  BY <1>2, <2>1, <2>3 DEF Refused
<1>4. ASSUME NEW c \in Clients,
             AcceptOverLimit(c) \/ RejectFrame(c) \/ RefuseQueueFull(c) \/ TimeOut(c)
      PROVE  RecordCount'
  <2>1. /\ carriedOut' = carriedOut /\ recorded'[c] = recorded[c] + 1
        /\ \A d \in Clients : d # c => /\ pc'[d] = pc[d] /\ answer'[d] = answer[d]
                                       /\ recorded'[d] = recorded[d]
    BY <1>4 DEF TypeOK, AcceptOverLimit, RejectFrame, RefuseQueueFull, TimeOut, hostVars
  <2>2. pc[c] \notin {"answered", "done", "draining"} /\ answer[c] = "none"
    BY <1>4 DEF CallInv, AnswerStage, AcceptOverLimit, RejectFrame, RefuseQueueFull, TimeOut
  <2>3. Refused(c)' /\ ~ Refused(c)
    BY <1>4, <2>2 DEF TypeOK, Refused, AcceptOverLimit, RejectFrame, RefuseQueueFull, TimeOut
  <2> QED  BY <1>2, <2>1, <2>3 DEF Refused
<1>5. ASSUME AcceptLoopExits PROVE RecordCount'
  <2>1. /\ carriedOut' = carriedOut /\ recorded' = recorded
        /\ \A d \in Clients :
             \/ pc'[d] = pc[d] /\ answer'[d] = answer[d]
             \/ pc[d] = "backlog" /\ pc'[d] = "done" /\ answer'[d] = "dropped"
    BY <1>5 DEF AcceptLoopExits, hostVars
  <2>2. \A d \in Clients : Refused(d)' <=> Refused(d)
    BY <2>1 DEF Refused, CallInv, AnswerStage
  <2> QED  BY <1>2, <2>1, <2>2
<1>6. ASSUME \/ RunWake \/ DrainQueue \/ SendReply \/ EndBatch \/ Shutdown
             \/ JoinAcceptThread \/ UNCHANGED vars
      PROVE  RecordCount'
  <2>1. UNCHANGED <<pc, answer, recorded, carriedOut>>
    BY <1>6 DEF RunWake, DrainQueue, SendReply, EndBatch, Shutdown, JoinAcceptThread, vars,
                clientVars, hostVars
  <2> QED  BY <2>1 DEF RecordCount
<1>7. ASSUME DispatchCall PROVE RecordCount'
  <2> DEFINE h == Head(Pending)
  <2>1. /\ Pending # << >> /\ h = Head(batch) /\ h \in Clients
        /\ carriedOut' = Append(carriedOut, h) /\ carriedOut \in Seq(Clients)
    BY <1>7, DispatchCalls, PendingType, HeadTailProperties DEF CallInv, TypeOK
  <2>2. ~ Out(h)
    BY <2>1, HeadIsFresh DEF CallInv
  <2>3. \A d \in Clients : InSeq(d, carriedOut') <=> Out(d) \/ d = h
    BY <2>1, InSeqAppend
  <2>4. /\ recorded'[h] = recorded[h] + 1 /\ UNCHANGED <<pc, answer>>
        /\ \A d \in Clients : d # h => recorded'[d] = recorded[d]
    BY <1>7, <2>1 DEF DispatchCall, TypeOK
  <2> HIDE DEF h, Out
  <2>5. ASSUME NEW d \in Clients
        PROVE  recorded'[d] =
                 (IF Refused(d) THEN 1 ELSE 0) + (IF InSeq(d, carriedOut') THEN 1 ELSE 0)
    <3>1. CASE d = h
      BY <1>1, <2>1, <2>2, <2>3, <2>4, <3>1
    <3>2. CASE d # h /\ Out(d)
      BY <1>1, <2>3, <2>4, <3>2
    <3>3. CASE d # h /\ ~ Out(d)
      BY <1>1, <2>3, <2>4, <3>3
    <3> QED  BY <3>1, <3>2, <3>3
  <2> QED  BY <2>4, <2>5 DEF RecordCount, Refused
<1> QED
  BY <1>3, <1>4, <1>5, <1>6, <1>7
  DEF Next, AcceptThread, ClientThread, MainLoop, Environment, AcceptStops, AcceptError

--------------------------------------------------------------------------------
(* The inductive invariant. *)

LEMMA InitInv == Init => IInv
<1> SUFFICES ASSUME Init PROVE IInv
  OBVIOUS
<1>1. TypeOK
  BY InitType
<1>2. WakeInv
  BY DEF Init, WakeInv, WakeFlag, OneWake, NoLostWake
<1>3. SlotsCounted
  <2>1. Slots = {}
    BY DEF Init, Slots, Serving
  <2>2. active = 0 /\ Cardinality(Slots) = 0
    BY <2>1, FS_EmptySet DEF Init
  <2> QED  BY <2>2, BoundsAssumption DEF SlotsCounted, Slots
<1>4. Calls = << >> /\ carriedOut = << >>
  BY ConcatEmptySeq, EmptySeq DEF Init, Calls, Pending
<1>5. \A x : ~ InSeq(x, << >>)
  BY DEF InSeq
<1>6. CallInv
  BY <1>4, <1>5 DEF Init, CallInv, BatchPhase, CallStage, AnswerStage, AtMostOnce,
                   AnswersMatch, RepliesBacked, Refusals
<1>7. RecordCount
  BY <1>4, <1>5 DEF Init, RecordCount
<1> QED  BY <1>1, <1>2, <1>3, <1>6, <1>7 DEF IInv

LEMMA StepInv ==
  ASSUME IInv, [Next]_vars
  PROVE  IInv'
<1>1. TypeOK'
  BY StepType DEF IInv, CallInv
<1>2. CallInv'
  BY <1>1, StepBatch, StepStages, StepOnce DEF IInv, CallInv
<1>3. WakeInv' /\ SlotsCounted' /\ RecordCount'
  BY <1>1, StepWake, StepSlots, StepRecord DEF IInv
<1> QED  BY <1>1, <1>2, <1>3 DEF IInv

LEMMA SpecInv == Spec => []IInv
<1>1. IInv /\ [Next]_vars => IInv'
  BY StepInv
<1> QED  BY InitInv, <1>1, PTL DEF Spec

LEMMA InvAudited == IInv => Audited
<1> SUFFICES ASSUME IInv, NEW c \in Clients
             PROVE  /\ answer[c] \notin {"none", "dropped"} => recorded[c] >= 1
                    /\ answer[c] # "timeout" => recorded[c] <= 1
                    /\ recorded[c] <= 2
  BY DEF Audited
<1>1. recorded[c] = (IF Refused(c) THEN 1 ELSE 0) + (IF InSeq(c, carriedOut) THEN 1 ELSE 0)
  BY DEF IInv, RecordCount, Refused
<1>2. InSeq(c, carriedOut) => InSeq(c, Calls)
  BY CalledOut DEF IInv, CallInv
<1>3. answer[c] \notin {"none", "dropped"} => Refused(c) \/ InSeq(c, carriedOut)
  BY DEF IInv, TypeOK, Answers, Refusals, CallInv, AnswersMatch, Refused
<1>4. answer[c] # "timeout" => ~ (Refused(c) /\ InSeq(c, carriedOut))
  BY <1>2 DEF IInv, CallInv, CallStage, AnswersMatch, Refused, Refusals
<1> QED  BY <1>1, <1>3, <1>4

--------------------------------------------------------------------------------
(* What holds in every reachable state. *)

\* The variables keep their types; active_clients in particular is never decremented
\* below zero (fetch_sub on an AtomicUsize would wrap around).
THEOREM TypeCorrect == Spec => []TypeOK
BY SpecInv, PTL DEF IInv

\* install_control_server: clearing wake_pending before draining the queue, and setting
\* it after pushing, loses no wake-up, for any number of client threads.
THEOREM WakeIsNeverLost == Spec => []NoLostWake
BY SpecInv, PTL DEF IInv, WakeInv

\* install_control_server: at most one wake-up closure is on the main context.
THEOREM AtMostOneWake == Spec => []OneWake
BY SpecInv, PTL DEF IInv, WakeInv

\* accept_loop and serve_client: active_clients equals the number of client threads
\* holding a slot, and CONTROL_MAX_CLIENTS is never exceeded.
THEOREM SlotsAreCounted == Spec => []SlotsCounted
BY SpecInv, PTL DEF IInv

\* The handler and the dispatch closure: no call is queued or carried out twice.
THEOREM CalledAtMostOnce == Spec => []AtMostOnce
BY SpecInv, PTL DEF IInv, CallInv

\* serve_client and the handler: a refused call has no effect, and a result is only
\* reported for a call that was carried out.
THEOREM AnswersAreTrue == Spec => []AnswersMatch
BY SpecInv, PTL DEF IInv, CallInv

\* The history has one event for every answered connection, and a second one only for
\* a call that timed out and was carried out afterwards.
THEOREM EveryAnswerAudited == Spec => []Audited
BY SpecInv, InvAudited, PTL

--------------------------------------------------------------------------------
(* The threads implement CallService. *)

LEMMA StepService ==
  ASSUME IInv, [Next]_vars
  PROVE  [Service!Next]_Service!svars
<1> USE DEF Service!svars
<1>1. \A c \in Clients : Service!Accepted(c) <=> InSeq(c, Calls)
  <2>1. \A c \in Clients : InSeq(c, Calls) <=> InSeq(c, carriedOut) \/ InSeq(c, Pending)
    BY CalledOut DEF IInv, CallInv
  <2> QED  BY <2>1 DEF Service!Accepted, Service!InSeq, InSeq
<1>2. \A c \in Clients :
        pc[c] \notin {"pushed", "invoking", "waiting", "answered", "done"}
          => answer[c] = "none" /\ ~ Service!Accepted(c)
  BY <1>1 DEF IInv, CallInv, CallStage, AnswerStage
<1>3. ASSUME NEW c \in Clients, Enqueue(c) PROVE Service!Next
  <2>1. Pending' = Append(Pending, c) /\ carriedOut' = carriedOut
    BY <1>3, EnqueueCalls DEF IInv, CallInv
  <2>2. Service!Accept(c)
    BY <1>2, <1>3, <2>1 DEF Service!Accept, Enqueue
  <2> QED  BY <2>2 DEF Service!Next
<1>4. ASSUME DispatchCall PROVE Service!Next
  <2>1. /\ Pending # << >> /\ Pending' = Tail(Pending)
        /\ carriedOut' = Append(carriedOut, Head(Pending))
    BY <1>4, DispatchCalls DEF IInv, CallInv
  <2>2. Service!CarryOut
    BY <1>4, <2>1 DEF Service!CarryOut, DispatchCall
  <2> QED  BY <2>2 DEF Service!Next
<1>5. ASSUME NEW c \in Clients, CallsQuiet,
             SpawnFails(c) \/ DrainBusy(c) \/ RejectFrame(c) \/ RefuseQueueFull(c)
      PROVE  Service!Next
  <2>1. \E why \in Refusals : answer' = [answer EXCEPT ![c] = why]
    BY <1>5 DEF Refusals, SpawnFails, DrainBusy, RejectFrame, RefuseQueueFull
  <2>2. pc[c] \notin {"pushed", "invoking", "waiting", "answered", "done"}
    BY <1>5 DEF SpawnFails, DrainBusy, RejectFrame, RefuseQueueFull
  <2>3. Service!Refuse(c)
    BY <1>2, <1>5, <2>1, <2>2 DEF Service!Refuse, Service!Refusals, Refusals, CallsQuiet
  <2> QED  BY <2>3 DEF Service!Next
<1>6. ASSUME NEW c \in Clients, CallsQuiet, Receive(c) PROVE Service!Next
  <2>1. answer[c] = "none" /\ InSeq(c, carriedOut)
    BY <1>6 DEF IInv, CallInv, AnswerStage, RepliesBacked, Receive
  <2>2. Service!AnswerResult(c)
    BY <1>6, <2>1 DEF Service!AnswerResult, Service!InSeq, InSeq, Receive, CallsQuiet
  <2> QED  BY <2>2 DEF Service!Next
<1>7. ASSUME NEW c \in Clients, CallsQuiet, TimeOut(c) PROVE Service!Next
  <2>1. answer[c] = "none" /\ Service!Accepted(c)
    BY <1>1, <1>7 DEF IInv, CallInv, AnswerStage, CallStage, TimeOut
  <2>2. Service!AnswerTimeout(c)
    BY <1>7, <2>1 DEF Service!AnswerTimeout, TimeOut, CallsQuiet
  <2> QED  BY <2>2 DEF Service!Next
<1>8. ASSUME AcceptLoopExits, CallsQuiet PROVE Service!Next
  <2> DEFINE S == {c \in Clients : pc[c] = "backlog"}
  <2>1. S \subseteq {c \in Clients : answer[c] = "none" /\ ~ Service!Accepted(c)}
    BY <1>2
  <2>2. answer' = [c \in Clients |-> IF c \in S THEN "dropped" ELSE answer[c]]
    BY <1>8 DEF AcceptLoopExits
  <2>3. Service!TurnAway
    BY <1>8, <2>1, <2>2 DEF Service!TurnAway, CallsQuiet
  <2> QED  BY <2>3 DEF Service!Next
<1>9. ASSUME CallsQuiet,
             \/ \E c \in Clients : \/ Connect(c) \/ AcceptClient(c) \/ AcceptOverLimit(c)
                                   \/ ReadRequest(c) \/ SwapWakePending(c) \/ Invoke(c)
                                   \/ Finish(c)
             \/ RunWake \/ DrainQueue \/ SendReply \/ EndBatch \/ Shutdown
             \/ JoinAcceptThread \/ UNCHANGED vars
      PROVE  UNCHANGED Service!svars
  <2>1. answer' = answer
    BY <1>9 DEF Connect, AcceptClient, AcceptOverLimit, ReadRequest, SwapWakePending,
                Invoke, Finish, RunWake, DrainQueue, SendReply, EndBatch, Shutdown,
                JoinAcceptThread, vars, clientVars
  <2> QED  BY <1>9, <2>1 DEF CallsQuiet
<1>10. \/ DispatchCall \/ (\E c \in Clients : Enqueue(c)) \/ CallsQuiet
  BY OtherCalls DEF IInv, CallInv
<1> QED
  BY <1>3, <1>4, <1>5, <1>6, <1>7, <1>8, <1>9, <1>10
  DEF Next, AcceptThread, ClientThread, MainLoop, Environment, AcceptStops, AcceptError

\* Every interleaving of the accept thread, the client threads and the main loop is a
\* behaviour of CallService: calls are carried out one at a time, each once, in the
\* order they were accepted, and what callers hear is true.
THEOREM ImplementsService == Spec => ServiceSpec
<1>1. Init => Service!Init
  <2>1. Init => Pending = << >>
    BY ConcatEmptySeq, EmptySeq DEF Init, Pending
  <2> QED  BY <2>1 DEF Init, Service!Init
<1>2. IInv /\ [Next]_vars => [Service!Next]_Service!svars
  BY StepService
<1> QED  BY <1>1, <1>2, SpecInv, PTL DEF Spec, ServiceSpec, Service!Spec

--------------------------------------------------------------------------------
(* The event history, for every set of recording threads, every size of    *)
(* the ring and every limit of the poller.                                 *)
(*                                                                         *)
(* NoEventLost is not inductive by itself: that a pushed event leaves the  *)
(* claims needs that no two threads hold the same cursor, which is part of *)
(* RingInv.  NoneListedTwice follows from PollInv: whatever the poller has *)
(* been given is not after its position, whatever list() gives is.         *)

RingInv ==
  /\ NoEventLost
  /\ \A t, u \in Threads : claimed[t] = claimed[u] /\ claimed[t] # 0 => t = u

PollInv ==
  /\ seen \subseteq 1 .. after
  /\ request = "listed" => \A e \in listed : e > after

HistoryInv == HistoryTypeOK /\ RingInv /\ PollInv

--------------------------------------------------------------------------------
\* What a push leaves in a ring that has room, and in one that is full: the new event at
\* its end and all but the oldest of the others.
LEMMA PushedWithRoom ==
  ASSUME NEW S, NEW s \in Seq(S), NEW e \in S, NEW n \in Nat, Len(s) < n
  PROVE  /\ Newest(Append(s, e), n) = Append(s, e)
         /\ Append(s, e) \in Seq(S)
         /\ Len(Append(s, e)) = Len(s) + 1
         /\ \A i \in 1 .. Len(s) : Append(s, e)[i] = s[i]
         /\ Append(s, e)[Len(s) + 1] = e
<1> DEFINE a == Append(s, e)
<1>1. a \in Seq(S) /\ Len(a) = Len(s) + 1 /\ Len(s) \in Nat
      /\ (\A i \in 1 .. Len(s) : a[i] = s[i]) /\ a[Len(s) + 1] = e
  BY AppendProperties, LenProperties
<1> HIDE DEF a
<1>2. ~ (Len(a) > n)
  BY <1>1
<1>3. SubSeq(a, 1, Len(a)) = a
  BY <1>1, SubSeqFull
<1>4. Newest(a, n) = a
  BY <1>2, <1>3 DEF Newest
<1>5. QED
  BY <1>1, <1>4 DEF a

LEMMA PushedWhenFull ==
  ASSUME NEW S, NEW s \in Seq(S), NEW e \in S, NEW n \in Nat \ {0}, Len(s) = n
  PROVE  /\ Newest(Append(s, e), n) \in Seq(S)
         /\ Len(Newest(Append(s, e), n)) = n
         /\ \A i \in 1 .. n : i # n => Newest(Append(s, e), n)[i] = s[i + 1]
         /\ Newest(Append(s, e), n)[n] = e
<1> DEFINE a == Append(s, e)
           pushed == Newest(a, n)
<1>1. a \in Seq(S) /\ Len(a) = n + 1
      /\ (\A i \in 1 .. n : a[i] = s[i]) /\ a[n + 1] = e
  BY AppendProperties
<1> HIDE DEF a
<1>2. pushed = SubSeq(a, 2, n + 1)
  <2>1. (IF Len(a) > n THEN Len(a) - n + 1 ELSE 1) = 2
    BY <1>1
  <2>2. QED
    BY <1>1, <2>1 DEF Newest
<1>3. \A i \in 2 .. n + 1 : a[i] \in S
  BY <1>1, ElementOfSeq
<1> HIDE DEF pushed
<1>4. /\ pushed \in Seq(S)
      /\ Len(pushed) = IF 2 <= n + 1 THEN n + 1 - 2 + 1 ELSE 0
      /\ \A i \in 1 .. n + 1 - 2 + 1 : pushed[i] = a[2 + i - 1]
  <2>1. 2 \in Int /\ n + 1 \in Int
    OBVIOUS
  <2>2. QED
    BY <1>2, <1>3, <2>1, SubSeqProperties
<1>5. Len(pushed) = n /\ \A i \in 1 .. n : pushed[i] = a[i + 1]
  <2>1. Len(pushed) = n
    BY <1>4
  <2>2. ASSUME NEW i \in 1 .. n PROVE pushed[i] = a[i + 1]
    <3>1. i \in 1 .. n + 1 - 2 + 1 /\ 2 + i - 1 = i + 1
      OBVIOUS
    <3>2. QED
      BY <1>4, <3>1
  <2>3. QED
    BY <2>1, <2>2
<1>6. \A i \in 1 .. n : i # n => i + 1 \in 1 .. n
  OBVIOUS
<1>7. (\A i \in 1 .. n : i # n => pushed[i] = s[i + 1]) /\ pushed[n] = e
  BY <1>1, <1>5, <1>6
<1>8. QED
  BY <1>4, <1>5, <1>7 DEF a, pushed

\* list() gives events of the ring that are after the given cursor.
LEMMA ListedAreLater ==
  ASSUME NEW cursor, NEW limit
  PROVE  \A e \in List(cursor, limit) : e > cursor /\ \E i \in DOMAIN events : e = events[i]
BY DEF List

--------------------------------------------------------------------------------
(* The steps. *)

LEMMA HistoryInitially == HistoryInit => HistoryInv
<1> SUFFICES ASSUME HistoryInit PROVE HistoryInv
  OBVIOUS
<1>1. HistoryTypeOK
  BY SizesAssumption DEF HistoryInit, HistoryTypeOK
<1>2. Cursors = {} /\ Claims = {}
  BY DEF HistoryInit, Cursors, Claims, Range
<1>3. RingInv
  BY <1>2 DEF HistoryInit, RingInv, NoEventLost
<1>4. QED
  BY <1>1, <1>3 DEF HistoryInit, PollInv, HistoryInv

LEMMA ClaimKeeps ==
  ASSUME HistoryInv, NEW t \in Threads, ClaimCursor(t)
  PROVE  HistoryInv'
<1> DEFINE c == nextCursor + 1
<1>1. /\ nextCursor \in Nat /\ MaxEvents \in Nat /\ nextCursor' = c /\ c \in 0 .. MaxEvents
      /\ 0 .. nextCursor \subseteq 0 .. c /\ 1 .. nextCursor \subseteq 1 .. c
      /\ 1 .. c = (1 .. nextCursor) \union {c}
  BY SizesAssumption DEF HistoryInv, HistoryTypeOK, ClaimCursor
<1>2. HistoryTypeOK'
  <2>1. claimed' \in [Threads -> 0 .. c]
    BY <1>1 DEF HistoryInv, HistoryTypeOK, ClaimCursor
  <2>2. events' \in Seq(1 .. c) /\ Len(events') <= MaxHistory
    BY <1>1, SeqMonotonic DEF HistoryInv, HistoryTypeOK, ClaimCursor
  <2>3. QED
    BY <1>1, <2>1, <2>2 DEF HistoryInv, HistoryTypeOK, ClaimCursor
<1>3. Claims' = Claims \union {c}
  <2>1. \A u \in Threads : claimed'[u] = IF u = t THEN c ELSE claimed[u]
    BY DEF HistoryInv, HistoryTypeOK, ClaimCursor
  <2>2. c # 0
    BY <1>1
  <2>3. claimed[t] = 0
    BY DEF ClaimCursor
  <2>4. QED
    BY <2>1, <2>2, <2>3 DEF Claims
<1>4. Cursors' = Cursors /\ Cursors \subseteq 1 .. nextCursor
  BY DEF Cursors, Range, ClaimCursor, HistoryInv, HistoryTypeOK
<1>5. c \notin 1 .. nextCursor /\ c \notin 0 .. nextCursor
  BY <1>1
<1>6. RingInv'
  <2>1. (Cursors \intersect Claims = {})'
    BY <1>3, <1>4, <1>5 DEF HistoryInv, RingInv, NoEventLost
  <2>2. (Len(events) < MaxHistory => Cursors \union Claims = 1 .. nextCursor)'
    BY <1>1, <1>3, <1>4 DEF HistoryInv, RingInv, NoEventLost, ClaimCursor
  <2>3. \A u, v \in Threads : claimed'[u] = claimed'[v] /\ claimed'[u] # 0 => u = v
    BY <1>5 DEF HistoryInv, RingInv, HistoryTypeOK, ClaimCursor
  <2>4. QED
    BY <2>1, <2>2, <2>3 DEF HistoryInv, RingInv, NoEventLost, ClaimCursor
<1>7. PollInv'
  BY DEF HistoryInv, PollInv, ClaimCursor
<1>8. QED
  BY <1>2, <1>6, <1>7 DEF HistoryInv

LEMMA PushKeeps ==
  ASSUME HistoryInv, NEW t \in Threads, PushEvent(t)
  PROVE  HistoryInv'
<1> DEFINE c == claimed[t]
           S == 1 .. nextCursor
           n == MaxHistory
<1>1. c \in S /\ c # 0 /\ n \in Nat \ {0} /\ n \in Nat /\ nextCursor' = nextCursor
  BY SizesAssumption DEF HistoryInv, HistoryTypeOK, PushEvent
<1>2. events \in Seq(S) /\ Len(events) <= n /\ Len(events) \in Nat
  BY DEF HistoryInv, HistoryTypeOK
<1>3. events' = Newest(Append(events, c), n)
  BY DEF PushEvent
<1>4. DOMAIN events = 1 .. Len(events)
  BY <1>2
<1>5. c \in Claims /\ c \notin Cursors /\ \A i \in 1 .. Len(events) : events[i] # c
  BY ZenonT(40), <1>1, <1>4 DEF Claims, Cursors, Range, HistoryInv, RingInv, NoEventLost
<1>6. \A u \in Threads : claimed'[u] = IF u = t THEN 0 ELSE claimed[u]
  BY DEF HistoryInv, HistoryTypeOK, PushEvent
<1>7. Claims' = Claims \ {c}
  BY <1>1, <1>6 DEF Claims, HistoryInv, RingInv
<1>8. \A i, j \in 1 .. Len(events) : events[i] = events[j] => i = j
  BY <1>4 DEF HistoryInv, RingInv, NoEventLost
<1> HIDE DEF c, S, n
\* What the ring is afterwards: in the shape the invariant needs, for both cases.
<1>9. /\ events' \in Seq(S) /\ Len(events') <= n
      /\ \A i, j \in DOMAIN events' : events'[i] = events'[j] => i = j
      /\ Cursors' \subseteq Cursors \union {c}
      /\ Len(events') < n => Cursors \union {c} \subseteq Cursors' /\ Len(events) < n
  <2>1. CASE Len(events) < n
    <3>1. /\ events' \in Seq(S) /\ Len(events') = Len(events) + 1
          /\ \A i \in 1 .. Len(events) : events'[i] = events[i]
          /\ events'[Len(events) + 1] = c
      <4>1. /\ Newest(Append(events, c), n) = Append(events, c)
            /\ Append(events, c) \in Seq(S)
            /\ Len(Append(events, c)) = Len(events) + 1
            /\ \A i \in 1 .. Len(events) : Append(events, c)[i] = events[i]
            /\ Append(events, c)[Len(events) + 1] = c
        BY <1>1, <1>2, <2>1, PushedWithRoom, Zenon
      <4>2. QED
        BY <1>3, <4>1, Zenon
    <3>2. DOMAIN events' = (1 .. Len(events)) \union {Len(events) + 1}
      BY <1>2, <3>1
    <3>3. Cursors' = Cursors \union {c}
      BY <1>4, <3>1, <3>2 DEF Cursors, Range
    <3>4. \A i, j \in DOMAIN events' : events'[i] = events'[j] => i = j
      BY <1>5, <1>8, <3>1, <3>2
    <3>5. Len(events') <= n
      BY <1>1, <1>2, <2>1, <3>1
    <3>6. QED
      BY <2>1, <3>1, <3>3, <3>4, <3>5
  <2>2. CASE Len(events) = n
    <3>1. /\ events' \in Seq(S) /\ Len(events') = n
          /\ \A i \in 1 .. n : events'[i] = IF i = n THEN c ELSE events[i + 1]
      <4>1. /\ Newest(Append(events, c), n) \in Seq(S)
            /\ Len(Newest(Append(events, c), n)) = n
            /\ \A i \in 1 .. n : i # n => Newest(Append(events, c), n)[i] = events[i + 1]
            /\ Newest(Append(events, c), n)[n] = c
        BY <1>1, <1>2, <2>2, PushedWhenFull
      <4>2. QED
        BY <1>3, <4>1
    <3>2. DOMAIN events' = 1 .. n
      BY <3>1
    <3>3. \A i \in 1 .. n : i # n => i + 1 \in 1 .. Len(events)
      BY <1>1, <2>2
    <3>4. Cursors' \subseteq Cursors \union {c}
      BY <1>4, <3>1, <3>2, <3>3 DEF Cursors, Range
    <3>5. ASSUME NEW i \in 1 .. n, NEW j \in 1 .. n, events'[i] = events'[j] PROVE i = j
      BY <1>1, <1>5, <1>8, <3>1, <3>3, <3>5
    <3>6. QED
      BY <1>1, <3>1, <3>2, <3>4, <3>5
  <2>3. QED
    BY <1>1, <1>2, <2>1, <2>2
<1>10. (Cursors \intersect Claims = {})'
  BY <1>7, <1>9 DEF HistoryInv, RingInv, NoEventLost
<1>11. ASSUME Len(events') < n PROVE Cursors' \union Claims' = S
  <2>1. Cursors \union Claims = S
    BY <1>9, <1>11 DEF HistoryInv, RingInv, NoEventLost, n, S
  <2>2. QED
    BY <1>5, <1>7, <1>9, <1>11, <2>1
<1>12. RingInv'
  <2>1. \A u, v \in Threads : claimed'[u] = claimed'[v] /\ claimed'[u] # 0 => u = v
    BY <1>6 DEF HistoryInv, RingInv
  <2>2. QED
    BY <1>1, <1>9, <1>10, <1>11, <2>1 DEF RingInv, NoEventLost, n, S
<1>13. HistoryTypeOK'
  BY <1>1, <1>9 DEF HistoryInv, HistoryTypeOK, PushEvent, n, S
<1>14. PollInv'
  BY DEF HistoryInv, PollInv, PushEvent
<1>15. QED
  BY <1>12, <1>13, <1>14 DEF HistoryInv

LEMMA ListKeeps ==
  ASSUME HistoryInv, ListEvents \/ ReadCursor
  PROVE  HistoryInv'
<1>1. nextCursor \in Nat
  BY SizesAssumption DEF HistoryInv, HistoryTypeOK
<1>2. Cursors \subseteq 1 .. nextCursor
  BY DEF Cursors, Range, HistoryInv, HistoryTypeOK
<1>3. CASE ListEvents
  <2>1. \A e \in listed' : e > after /\ e \in Cursors
    BY <1>3, ListedAreLater DEF ListEvents, Cursors, Range
  <2>2. HistoryTypeOK' /\ PollInv'
    BY <1>2, <1>3, <2>1 DEF HistoryInv, HistoryTypeOK, PollInv, ListEvents
  <2>3. RingInv'
    BY <1>3 DEF HistoryInv, RingInv, NoEventLost, Cursors, Claims, ListEvents
  <2>4. QED
    BY <2>2, <2>3 DEF HistoryInv
<1>4. CASE ReadCursor
  <2>1. after' = nextCursor /\ seen' = seen \union listed /\ nextCursor' = nextCursor
        /\ request' = "answering"
    BY <1>4 DEF ReadCursor
  <2>2. seen' \subseteq 1 .. nextCursor /\ after' \in 0 .. nextCursor
    BY <1>1, <2>1 DEF HistoryInv, HistoryTypeOK
  <2>3. HistoryTypeOK' /\ PollInv'
    BY <1>4, <2>1, <2>2 DEF HistoryInv, HistoryTypeOK, PollInv, ReadCursor
  <2>4. RingInv'
    BY <1>4 DEF HistoryInv, RingInv, NoEventLost, Cursors, Claims, ReadCursor
  <2>5. QED
    BY <2>3, <2>4 DEF HistoryInv
<1>5. QED
  BY <1>3, <1>4

LEMMA HistoryInductive == HistorySpec => []HistoryInv
<1>1. HistoryInv /\ [HistoryNext]_historyVars => HistoryInv'
  <2> SUFFICES ASSUME HistoryInv, [HistoryNext]_historyVars PROVE HistoryInv'
    OBVIOUS
  <2>1. CASE UNCHANGED historyVars
    BY <2>1 DEF historyVars, HistoryInv, HistoryTypeOK, RingInv, NoEventLost, Cursors, Claims, PollInv
  <2>2. QED
    BY <2>1, ClaimKeeps, PushKeeps, ListKeeps DEF HistoryNext
<1>2. QED
  BY <1>1, HistoryInitially, PTL DEF HistorySpec

--------------------------------------------------------------------------------
(* The theorems. *)

\* Cursors, claims and the poller's position stay in range, and the ring within its size.
THEOREM HistoryTypeCorrect == HistorySpec => []HistoryTypeOK
  BY HistoryInductive, PTL DEF HistoryInv

\* However the threads that record are interleaved, an event whose cursor was handed out
\* is in the ring or on its way there, once, until the ring is full.
THEOREM EventsAreKept == HistorySpec => []NoEventLost
  BY HistoryInductive, PTL DEF HistoryInv, RingInv

\* A poller that resumes from the cursor of its last answer is never given an event
\* twice, though the cursor is read after the list was made.
THEOREM PollersSeeOnce == HistorySpec => []NoneListedTwice
<1>1. HistoryInv => NoneListedTwice
  <2> SUFFICES ASSUME HistoryInv PROVE NoneListedTwice
    OBVIOUS
  <2>1. /\ after \in Nat
        /\ \A e \in seen : e \in Nat /\ e <= after
        /\ \A e \in listed : e \in Nat
    BY DEF HistoryInv, HistoryTypeOK, PollInv
  <2>2. request = "listed" => listed \intersect seen = {}
    BY <2>1 DEF HistoryInv, PollInv
  <2>3. List(after, Limit) \intersect seen = {}
    BY <2>1, ListedAreLater
  <2>4. QED
    BY <2>2, <2>3 DEF NoneListedTwice
<1>2. QED
  BY <1>1, HistoryInductive, PTL

================================================================================
