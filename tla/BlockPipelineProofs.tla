------------------------ MODULE BlockPipelineProofs ------------------------
(***************************************************************************)
(* Proofs about the block pipeline, for every set of blocks, every parent  *)
(* relation and every set of submissions: its two processors use the       *)
(* dependency manager by its specification, Exit never overtakes a block,  *)
(* a valid block submitted after its parents is never refused, and no      *)
(* status goes back.                                                       *)
(*                                                                         *)
(* First the channels: each processor drives its manager by the manager's  *)
(* next-state relation, and a step of the pipeline keeps the invariant of  *)
(* the channels and the one of the valid blocks that are submitted parents *)
(* first, given what is known of the two managers.  What                   *)
(* BlockTaskDepsProofs proves of the manager is then used for both         *)
(* instances.                                                              *)
(***************************************************************************)
EXTENDS BlockPipeline, Integers, TLAPS

-----------------------------------------------------------------------------
(* Facts about sequences. *)
LEMMA EmptySeq ==
    ASSUME NEW S
    PROVE  /\ <<>> \in Seq(S) /\ Len(<<>>) = 0
           /\ \A s \in Seq(S) : s # <<>> => Len(s) \in Nat \ {0}
  OBVIOUS

LEMMA LenProperties ==
    ASSUME NEW S, NEW s \in Seq(S)
    PROVE  Len(s) \in Nat /\ s \in [1 .. Len(s) -> S] /\ DOMAIN s = 1 .. Len(s)
  OBVIOUS

LEMMA ElementOfSeq ==
    ASSUME NEW S, NEW s \in Seq(S), NEW i \in 1 .. Len(s)
    PROVE  s[i] \in S
  OBVIOUS

LEMMA HeadTailProperties ==
    ASSUME NEW S, NEW s \in Seq(S), s # <<>>
    PROVE  /\ Head(s) \in S /\ Tail(s) \in Seq(S) /\ Len(Tail(s)) = Len(s) - 1
           /\ \A i \in 1 .. Len(Tail(s)) : Tail(s)[i] = s[i + 1]
  OBVIOUS

-----------------------------------------------------------------------------
(* The messages in a channel. *)
In(s) == {s[i] : i \in 1 .. Len(s)}

(* Nothing follows Exit in a channel. *)
ExitLast(s) == \A i \in 1 .. Len(s) : s[i] = Exit => i = Len(s)

Message == Task \cup {Exit}
Result == Statuses \cup Errors \cup {None}
Running == Result \cup {"validated"}
VirtWorkers == {"receiving", "resolving", "answering", "exiting", "exited"}

Types ==
    /\ blockChan \in Seq(Message) /\ bodyChan \in Seq(Message) /\ virtChan \in Seq(Message)
    /\ virtBatch \in Seq(Message) /\ submitted \in Seq(Message)
    /\ hdrRes \in [Block -> Running] /\ bodyRes \in [Block -> Running]
    /\ status \in [Block -> Statuses \cup {None}]
    /\ answer \in [Task -> [block : Result, virtual : Result]]
    /\ virtWorker \in VirtWorkers /\ pruningExit \in BOOLEAN

(* The number of submissions the header processor has received. *)
Received == Len(submitted) - Len(blockChan)

(* The channel of the header processor holds the last submissions; the     *)
(* earlier ones are registered, and all those before Exit are when the     *)
(* worker no longer receives.                                              *)
SubmittedInv ==
    /\ \A i, j \in 1 .. Len(submitted) : submitted[i] = submitted[j] => i = j
    /\ Len(blockChan) <= Len(submitted)
    /\ \A i \in 1 .. Len(blockChan) : blockChan[i] = submitted[Received + i]
    /\ \A i \in 1 .. Received : submitted[i] \in hdrRegistered \cup {Exit}
    /\ hdrWorker # "receiving" =>
          \E k \in 1 .. Len(submitted) :
             submitted[k] = Exit /\ \A i \in 1 .. k - 1 : submitted[i] \in hdrRegistered

(* Exit leaves the header processor last, and nothing comes after it. *)
HdrToBody ==
    /\ ExitLast(bodyChan)
    /\ Exit \in In(bodyChan) => hdrWorker = "exited"
    /\ bodyWorker # "receiving" => hdrWorker = "exited" /\ bodyChan = <<>>

(* The same for the body processor and the batches of the virtual worker. *)
BodyToVirt ==
    /\ ExitLast(virtChan) /\ ExitLast(virtBatch)
    /\ Exit \in In(virtChan) => bodyWorker = "exited"
    /\ Exit \in In(virtBatch) => bodyWorker = "exited" /\ virtChan = <<>>
    /\ virtWorker = "receiving" => virtBatch = <<>>
    /\ virtWorker \in {"exiting", "exited"} => bodyWorker = "exited" /\ virtChan = <<>> /\ virtBatch = <<>>
    /\ pruningExit => virtWorker = "exited"

(* A task that has left a processor was answered or is further on. *)
FlowInv ==
    /\ \A t \in hdrEnded :
          \/ answer[t].block # None /\ answer[t].virtual # None
          \/ t \in In(bodyChan) \cup bodyRegistered
    /\ \A t \in bodyEnded :
          /\ answer[t].block # None
          /\ answer[t].virtual # None \/ t \in In(virtChan) \cup In(virtBatch)
    /\ In(virtChan) \cup In(virtBatch) \subseteq bodyEnded \cup {Exit}

(* What passed the header processor has a status. *)
StatusInv ==
    /\ \A b \in Block : hdrRes[b] \notin Errors \cup {None, "validated"} => status[b] # None
    /\ \A t \in (In(bodyChan) \ {Exit}) \cup bodyRegistered : status[BlockOf[t]] # None

(* What the pipeline relies on in a manager. *)
ManagerFacts(pending, taken, worker, registered, ended) ==
    /\ ended \subseteq registered /\ registered \subseteq Task
    /\ worker \in {"receiving", "waiting", "idle", "exited"}
    /\ worker \in {"idle", "exited"} => registered = ended /\ \A b \in Block : ~taken[b]
    /\ \A b \in Block : taken[b] =>
          /\ Head(pending[b]) \in registered
          /\ BlockOf[Head(pending[b])] = b

HdrFacts == ManagerFacts(hdrPending, hdrTaken, hdrWorker, hdrRegistered, hdrEnded)
BodyFacts == ManagerFacts(bodyPending, bodyTaken, bodyWorker, bodyRegistered, bodyEnded)

ChannelsInv ==
    /\ Types
    /\ SubmittedInv
    /\ HdrToBody
    /\ BodyToVirt
    /\ FlowInv
    /\ StatusInv
-----------------------------------------------------------------------------
(* Channels. *)

LEMMA EmptyIn == In(<<>>) = {} /\ ExitLast(<<>>)
  BY EmptySeq DEF In, ExitLast

LEMMA AppendIn ==
    ASSUME NEW s \in Seq(Message), NEW m \in Message
    PROVE  /\ Append(s, m) \in Seq(Message)
           /\ Append(s, m) # <<>>
           /\ In(Append(s, m)) = In(s) \cup {m}
           /\ Exit \notin In(s) => ExitLast(Append(s, m))
  <1>1. /\ Append(s, m) \in Seq(Message) /\ Append(s, m) # <<>>
        /\ Len(s) \in Nat /\ Len(Append(s, m)) = Len(s) + 1
        /\ \A i \in 1 .. Len(s) : Append(s, m)[i] = s[i]
        /\ Append(s, m)[Len(s) + 1] = m
    OBVIOUS
  <1>2. In(Append(s, m)) = In(s) \cup {m}
    BY <1>1 DEF In
  <1>3. ASSUME Exit \notin In(s) PROVE ExitLast(Append(s, m))
    BY <1>1, <1>3 DEF In, ExitLast
  <1>. QED BY <1>1, <1>2, <1>3

LEMMA TailIn ==
    ASSUME NEW s \in Seq(Message), s # <<>>
    PROVE  /\ Tail(s) \in Seq(Message)
           /\ Head(s) \in Message
           /\ In(s) = {Head(s)} \cup In(Tail(s))
           /\ ExitLast(s) => ExitLast(Tail(s))
           /\ ExitLast(s) /\ Head(s) = Exit => Tail(s) = <<>>
  <1>1. /\ Tail(s) \in Seq(Message)
        /\ Len(s) \in Nat \ {0} /\ Len(Tail(s)) = Len(s) - 1
        /\ \A i \in 1 .. Len(Tail(s)) : Tail(s)[i] = s[i + 1]
        /\ s[1] \in Message /\ Head(s) = s[1]
    BY EmptySeq, LenProperties, ElementOfSeq, HeadTailProperties
  <1>2. In(s) = {Head(s)} \cup In(Tail(s))
    <2>1. \A i \in 1 .. Len(s) : i = 1 \/ (i - 1 \in 1 .. Len(Tail(s)) /\ s[i] = Tail(s)[i - 1])
      BY <1>1
    <2>2. \A i \in 1 .. Len(Tail(s)) : i + 1 \in 1 .. Len(s)
      BY <1>1
    <2>3. In(s) \subseteq {Head(s)} \cup In(Tail(s))
      BY <1>1, <2>1 DEF In
    <2>4. {Head(s)} \cup In(Tail(s)) \subseteq In(s)
      BY <1>1, <2>2 DEF In
    <2>. QED BY <2>3, <2>4
  <1>3. ASSUME ExitLast(s) PROVE ExitLast(Tail(s))
    <2>. SUFFICES ASSUME NEW i \in 1 .. Len(Tail(s)), Tail(s)[i] = Exit PROVE i = Len(Tail(s))
      BY Zenon DEF ExitLast
    <2>1. i + 1 \in 1 .. Len(s) /\ s[i + 1] = Exit
      BY <1>1
    <2>2. i + 1 = Len(s)
      BY <1>3, <2>1 DEF ExitLast
    <2>3. i \in Int
      OBVIOUS
    <2>4. Len(s) - 1 = i
      BY <2>2, <2>3
    <2>. QED BY Zenon, <1>1, <2>4
  <1>4. ASSUME ExitLast(s), Head(s) = Exit PROVE Tail(s) = <<>>
    <2>1. 1 \in 1 .. Len(s) /\ s[1] = Exit
      BY <1>1, <1>4
    <2>2. Len(s) = 1
      BY Zenon, <1>4, <2>1 DEF ExitLast
    <2>3. Len(Tail(s)) = 0
      BY <1>1, <2>2
    <2>4. \A q \in Seq(Message) : Len(q) = 0 => q = <<>>
      BY Zenon, EmptySeq
    <2>. QED BY Zenon, <1>1, <2>3, <2>4
  <1>. QED BY <1>1, <1>2, <1>3, <1>4

(* Places in a channel. *)
OnePlaceMore(s, m, t) ==
    /\ \A i \in 1 .. Len(s) : i \in 1 .. Len(t) /\ t[i] = s[i]
    /\ \A j \in 1 .. Len(t) : j \in 1 .. Len(s) \/ (t[j] = m /\ \A i \in 1 .. Len(s) : i < j)

LEMMA AppendAt ==
    ASSUME NEW s \in Seq(Message), NEW m \in Message, NEW t, t = Append(s, m)
    PROVE  OnePlaceMore(s, m, t)
  <1>1. /\ Len(s) \in Nat /\ Len(t) = Len(s) + 1
        /\ \A i \in 1 .. Len(s) : t[i] = s[i]
        /\ t[Len(s) + 1] = m
    OBVIOUS
  <1>. QED BY <1>1 DEF OnePlaceMore

LEMMA TailAt ==
    ASSUME NEW s \in Seq(Message), s # <<>>
    PROVE  /\ 1 \in 1 .. Len(s) /\ s[1] = Head(s) /\ \A i \in 1 .. Len(s) : ~(i < 1)
           /\ \A j \in 1 .. Len(Tail(s)) : j + 1 \in 1 .. Len(s) /\ s[j + 1] = Tail(s)[j]
           /\ \A i \in 1 .. Len(s), j \in 1 .. Len(Tail(s)) : i < j + 1 /\ i # 1 =>
                 i - 1 \in 1 .. Len(Tail(s)) /\ i - 1 < j /\ Tail(s)[i - 1] = s[i]
  <1>1. /\ Len(s) \in Nat \ {0} /\ Len(Tail(s)) = Len(s) - 1
        /\ \A i \in 1 .. Len(Tail(s)) : Tail(s)[i] = s[i + 1]
        /\ Head(s) = s[1]
    BY EmptySeq, LenProperties, HeadTailProperties
  <1>2. \A j \in 1 .. Len(Tail(s)) : j + 1 \in 1 .. Len(s)
    BY <1>1
  <1>3. \A i \in 1 .. Len(s), j \in 1 .. Len(Tail(s)) : i < j + 1 /\ i # 1 =>
           i - 1 \in 1 .. Len(Tail(s)) /\ i - 1 < j /\ (i - 1) + 1 = i
    BY <1>1
  <1>4. 1 \in 1 .. Len(s) /\ \A i \in 1 .. Len(s) : ~(i < 1)
    BY <1>1
  <1>. QED BY <1>1, <1>2, <1>3, <1>4

LEMMA FirstStays ==
    ASSUME NEW s \in Seq(Task), s # <<>>, NEW t \in Task
    PROVE  Head(Append(s, t)) = Head(s)
  OBVIOUS

-----------------------------------------------------------------------------
(* Each processor drives its manager by the manager's next-state relation. *)

LEMMA HdrNext == Types /\ [Next]_vars => [Hdr!Next]_(Hdr!vars)
  <1>. SUFFICES ASSUME Types, [Next]_vars PROVE [Hdr!Next]_(Hdr!vars)
    OBVIOUS
  <1>1. CASE HdrReceive
    <2>1. CASE Head(blockChan) = Exit
      BY <1>1, <2>1 DEF HdrReceive, Hdr!Next
    <2>2. CASE Head(blockChan) # Exit
      <3>1. Head(blockChan) \in Task
        BY <1>1, <2>2, TailIn DEF HdrReceive, Types, Message
      <3>. QED BY <1>1, <2>2, <3>1 DEF HdrReceive, Hdr!Next
    <2>. QED BY <2>1, <2>2
  <1>2. CASE HdrPassExit
    BY <1>2 DEF HdrPassExit, Hdr!Next
  <1>3. ASSUME NEW b \in Block, HdrTryBegin(b) \/ HdrEnd(b) PROVE Hdr!Next
    BY <1>3 DEF HdrTryBegin, HdrEnd, Hdr!Next, Hdr!TryBegin
  <1>4. CASE hdrVars' = hdrVars
    BY <1>4 DEF hdrVars, Hdr!vars
  <1>5. CASE UNCHANGED vars
    BY <1>4, <1>5 DEF vars
  <1>6. CASE SignalExit \/ \E t \in Task : Submit(t)
    BY Zenon, <1>4, <1>6 DEF SignalExit, Submit
  <1>7. CASE \E b \in Block : ProcessHeader(b) \/ CommitHeader(b) \/ ProcessBody(b) \/ CommitBody(b)
    BY <1>4, <1>7 DEF ProcessHeader, CommitHeader, ProcessBody, CommitBody
  <1>8. CASE BodyReceive \/ BodyPassExit \/ \E b \in Block : BodyTryBegin(b) \/ BodyEnd(b)
    BY <1>4, <1>8, Zenon DEF BodyReceive, BodyPassExit, BodyTryBegin, BodyEnd
  <1>9. CASE VirtReceive \/ ResolveVirtual \/ VirtAnswer \/ VirtPassExit \/ Shutdown
    BY <1>4, <1>5, <1>9 DEF VirtReceive, ResolveVirtual, VirtAnswer, VirtPassExit, Shutdown
  <1>. QED BY <1>1, <1>2, <1>3, <1>5, <1>6, <1>7, <1>8, <1>9 DEF Next

LEMMA BodyNext == Types /\ [Next]_vars => [Body!Next]_(Body!vars)
  <1>. SUFFICES ASSUME Types, [Next]_vars PROVE [Body!Next]_(Body!vars)
    OBVIOUS
  <1>1. CASE BodyReceive
    <2>1. CASE Head(bodyChan) = Exit
      BY <1>1, <2>1 DEF BodyReceive, Body!Next
    <2>2. CASE Head(bodyChan) # Exit
      <3>1. Head(bodyChan) \in Task
        BY <1>1, <2>2, TailIn DEF BodyReceive, Types, Message
      <3>. QED BY <1>1, <2>2, <3>1 DEF BodyReceive, Body!Next
    <2>. QED BY <2>1, <2>2
  <1>2. CASE BodyPassExit
    BY <1>2 DEF BodyPassExit, Body!Next
  <1>3. ASSUME NEW b \in Block, BodyTryBegin(b) \/ BodyEnd(b) PROVE Body!Next
    BY <1>3 DEF BodyTryBegin, BodyEnd, Body!Next, Body!TryBegin
  <1>4. CASE bodyVars' = bodyVars
    BY <1>4 DEF bodyVars, Body!vars
  <1>5. CASE UNCHANGED vars
    BY <1>4, <1>5 DEF vars
  <1>6. CASE SignalExit \/ \E t \in Task : Submit(t)
    BY Zenon, <1>4, <1>6 DEF SignalExit, Submit
  <1>7. CASE \E b \in Block : ProcessHeader(b) \/ CommitHeader(b) \/ ProcessBody(b) \/ CommitBody(b)
    BY <1>4, <1>7 DEF ProcessHeader, CommitHeader, ProcessBody, CommitBody
  <1>8. CASE HdrReceive \/ HdrPassExit \/ \E b \in Block : HdrTryBegin(b) \/ HdrEnd(b)
    BY <1>4, <1>8, Zenon DEF HdrReceive, HdrPassExit, HdrTryBegin, HdrEnd
  <1>9. CASE VirtReceive \/ ResolveVirtual \/ VirtAnswer \/ VirtPassExit \/ Shutdown
    BY <1>4, <1>5, <1>9 DEF VirtReceive, ResolveVirtual, VirtAnswer, VirtPassExit, Shutdown
  <1>. QED BY <1>1, <1>2, <1>3, <1>5, <1>6, <1>7, <1>8, <1>9 DEF Next

-----------------------------------------------------------------------------
(* Each action keeps the invariant of the channels. *)

(* A submission, or Exit, enters the pipeline. *)
LEMMA EnterInv ==
    ASSUME ChannelsInv, NEW m \in Message,
           \A i \in 1 .. Len(submitted) : submitted[i] # m,
           blockChan' = Append(blockChan, m),
           submitted' = Append(submitted, m),
           UNCHANGED <<hdrVars, bodyVars, virtVars, storeVars, bodyChan, virtChan, hdrRes, bodyRes, answer>>
    PROVE  ChannelsInv'
  <1>1. /\ blockChan \in Seq(Message) /\ submitted \in Seq(Message)
        /\ Len(blockChan) \in Nat /\ Len(submitted) \in Nat
    BY LenProperties DEF ChannelsInv, Types
  <1>2. /\ blockChan' \in Seq(Message) /\ submitted' \in Seq(Message)
        /\ Len(blockChan') = Len(blockChan) + 1 /\ Len(submitted') = Len(submitted) + 1
        /\ \A i \in 1 .. Len(blockChan) : blockChan'[i] = blockChan[i]
        /\ \A i \in 1 .. Len(submitted) : submitted'[i] = submitted[i]
        /\ blockChan'[Len(blockChan) + 1] = m /\ submitted'[Len(submitted) + 1] = m
    BY <1>1
  <1>3. Types' /\ HdrToBody' /\ BodyToVirt' /\ FlowInv' /\ StatusInv'
    <2>1. Types'
      BY Zenon, <1>2 DEF ChannelsInv, Types, virtVars, storeVars
    <2>2. HdrToBody' /\ BodyToVirt'
      BY Zenon DEF ChannelsInv, HdrToBody, BodyToVirt, In, ExitLast, hdrVars, bodyVars, virtVars
    <2>3. FlowInv' /\ StatusInv'
      BY DEF ChannelsInv, FlowInv, StatusInv, In, hdrVars, bodyVars, virtVars, storeVars
    <2>. QED BY Zenon, <2>1, <2>2, <2>3
  <1>4. SubmittedInv'
    <2>. USE DEF ChannelsInv, SubmittedInv, Received
    <2>1. \A i, j \in 1 .. Len(submitted') : submitted'[i] = submitted'[j] => i = j
      BY <1>1, <1>2
    <2>2. Received' = Received /\ Received \in Nat
      BY <1>1, <1>2
    <2>3. \A i \in 1 .. Len(blockChan') : blockChan'[i] = submitted'[Received + i]
      <3>. TAKE i \in 1 .. Len(blockChan')
      <3>1. CASE i \in 1 .. Len(blockChan)
        BY <1>1, <1>2, <3>1
      <3>2. CASE i = Len(blockChan) + 1
        BY <1>1, <1>2, <3>2
      <3>3. i \in 1 .. Len(blockChan) \/ i = Len(blockChan) + 1
        BY <1>1, <1>2
      <3>. QED BY Zenon, <3>1, <3>2, <3>3
    <2>4. \A i \in 1 .. Received : submitted'[i] \in hdrRegistered \cup {Exit}
      BY <1>1, <1>2
    <2>5. hdrWorker # "receiving" =>
             \E k \in 1 .. Len(submitted') :
                submitted'[k] = Exit /\ \A i \in 1 .. k - 1 : submitted'[i] \in hdrRegistered
      <3>. HAVE hdrWorker # "receiving"
      <3>1. PICK k \in 1 .. Len(submitted) :
                submitted[k] = Exit /\ \A i \in 1 .. k - 1 : submitted[i] \in hdrRegistered
        BY Zenon
      <3>. WITNESS k \in 1 .. Len(submitted')
      <3>. QED BY <1>1, <1>2, <3>1
    <2>6. hdrRegistered' = hdrRegistered /\ hdrWorker' = hdrWorker
      BY Zenon DEF hdrVars
    <2>7. Len(blockChan') <= Len(submitted')
      BY <1>1, <1>2
    <2>. QED BY <2>1, <2>2, <2>3, <2>4, <2>5, <2>6, <2>7, Zenon
  <1>. QED BY <1>3, <1>4 DEF ChannelsInv

LEMMA HdrReceiveInv == ASSUME ChannelsInv, HdrReceive PROVE ChannelsInv'
  <1>1. /\ blockChan \in Seq(Message) /\ submitted \in Seq(Message) /\ blockChan # <<>>
        /\ Len(blockChan) \in Nat /\ Len(submitted) \in Nat
    BY LenProperties DEF ChannelsInv, Types, HdrReceive
  <1>2. /\ blockChan' \in Seq(Message)
        /\ Len(blockChan) # 0 /\ Len(blockChan') = Len(blockChan) - 1
        /\ \A i \in 1 .. Len(blockChan') : blockChan'[i] = blockChan[i + 1]
        /\ Head(blockChan) = blockChan[1]
    BY <1>1, EmptySeq, HeadTailProperties DEF HdrReceive
  <1>3. /\ Received \in Nat /\ Received' = Received + 1
        /\ Received + 1 \in 1 .. Len(submitted) /\ submitted[Received + 1] = Head(blockChan)
    BY <1>1, <1>2 DEF ChannelsInv, SubmittedInv, Received, HdrReceive
  <1>4. /\ hdrEnded' = hdrEnded /\ hdrWorker = "receiving"
        /\ UNCHANGED <<bodyVars, virtVars, storeVars, bodyChan, virtChan, hdrRes, bodyRes, answer, submitted>>
    BY Zenon DEF HdrReceive, Hdr!WaitForIdle, Hdr!Register
  <1>5. Types' /\ FlowInv' /\ StatusInv'
    BY <1>2, <1>4 DEF ChannelsInv, Types, FlowInv, StatusInv, In, bodyVars, virtVars, storeVars
  <1>6. HdrToBody' /\ BodyToVirt'
    BY <1>4 DEF ChannelsInv, HdrToBody, BodyToVirt, In, ExitLast, bodyVars, virtVars
  <1>7. SubmittedInv'
    <2>1. \A i \in 1 .. Len(blockChan') : blockChan'[i] = submitted[Received' + i]
      <3>. TAKE i \in 1 .. Len(blockChan')
      <3>1. i + 1 \in 1 .. Len(blockChan) /\ blockChan[i + 1] = submitted[Received + (i + 1)]
        BY <1>1, <1>2 DEF ChannelsInv, SubmittedInv
      <3>2. Received + (i + 1) = Received' + i
        BY <1>3
      <3>. QED BY Zenon, <1>2, <3>1, <3>2
    <2>2. /\ \A i, j \in 1 .. Len(submitted) : submitted[i] = submitted[j] => i = j
          /\ Len(blockChan') <= Len(submitted)
      BY <1>1, <1>2 DEF ChannelsInv, SubmittedInv
    <2>3. CASE Head(blockChan) = Exit
      <3>1. hdrRegistered' = hdrRegistered
        BY Zenon, <2>3 DEF HdrReceive, Hdr!WaitForIdle
      <3>2. \A i \in 1 .. Received : submitted[i] \in hdrRegistered
        BY <1>1, <1>3, <2>2, <2>3 DEF ChannelsInv, SubmittedInv
      <3>3. \A i \in 1 .. Received' : submitted[i] \in hdrRegistered \cup {Exit}
        BY <1>3, <2>3, <3>2
      <3>4. \E k \in 1 .. Len(submitted) :
               submitted[k] = Exit /\ \A i \in 1 .. k - 1 : submitted[i] \in hdrRegistered
        <4>1. Received + 1 - 1 = Received
          BY <1>3
        <4>2. /\ Received + 1 \in 1 .. Len(submitted) /\ submitted[Received + 1] = Exit
              /\ \A i \in 1 .. (Received + 1) - 1 : submitted[i] \in hdrRegistered
          BY <1>3, <2>3, <3>2, <4>1
        <4>. QED BY <4>2, Zenon
      <3>. QED BY <1>4, <2>1, <2>2, <3>1, <3>3, <3>4 DEF SubmittedInv
    <2>4. CASE Head(blockChan) # Exit
      <3>1. hdrRegistered' = hdrRegistered \cup {Head(blockChan)} /\ hdrWorker' = "receiving"
        BY Zenon, <1>4, <2>4 DEF HdrReceive, Hdr!Register
      <3>2. \A i \in 1 .. Received : submitted[i] \in hdrRegistered \cup {Exit}
        BY Zenon DEF ChannelsInv, SubmittedInv
      <3>3. \A i \in 1 .. Received' : submitted[i] \in hdrRegistered' \cup {Exit}
        BY <1>3, <3>1, <3>2
      <3>. QED BY Zenon, <1>4, <2>1, <2>2, <3>1, <3>3 DEF SubmittedInv
    <2>. QED BY Zenon, <2>3, <2>4
  <1>. QED BY <1>5, <1>6, <1>7 DEF ChannelsInv

(* A step that only reorders the work inside a manager. *)
LEMMA InsideInv ==
    ASSUME ChannelsInv,
           UNCHANGED <<hdrWorker, hdrRegistered, hdrEnded, bodyWorker, bodyRegistered, bodyEnded>>,
           UNCHANGED <<virtVars, status, blockChan, bodyChan, virtChan, hdrRes, bodyRes, answer, submitted>>
    PROVE  ChannelsInv'
  <1>1. Types' /\ SubmittedInv'
    BY Zenon DEF ChannelsInv, Types, SubmittedInv, Received, virtVars
  <1>2. HdrToBody' /\ BodyToVirt'
    BY Zenon DEF ChannelsInv, HdrToBody, BodyToVirt, In, ExitLast, virtVars
  <1>3. FlowInv' /\ StatusInv'
    BY DEF ChannelsInv, FlowInv, StatusInv, In, virtVars
  <1>. QED BY <1>1, <1>2, <1>3 DEF ChannelsInv

(* A step that only settles results and statuses, none of them to None. *)
LEMMA SettleInv ==
    ASSUME ChannelsInv, StatusInv', Types',
           UNCHANGED <<hdrVars, bodyVars, virtBatch, pruningExit, blockChan, bodyChan, virtChan, answer, submitted>>,
           virtWorker' # virtWorker => virtWorker = "resolving" /\ virtWorker' = "answering"
    PROVE  ChannelsInv'
  <1>1. SubmittedInv' /\ HdrToBody'
    BY Zenon DEF ChannelsInv, SubmittedInv, Received, HdrToBody, In, ExitLast, hdrVars, bodyVars
  <1>2. BodyToVirt'
    BY Zenon DEF ChannelsInv, BodyToVirt, In, ExitLast, bodyVars
  <1>3. FlowInv'
    BY DEF ChannelsInv, FlowInv, In, hdrVars, bodyVars
  <1>. QED BY Zenon, <1>1, <1>2, <1>3 DEF ChannelsInv

(* What ValidateHeader and ValidateBody may return. *)
LEMMA Validated ==
    /\ \A t : ValidateHeader(t) \in {"ok", "HeaderError", "InvalidParent", "MissingParents"}
    /\ \A t : ValidateBody(t) \in {"ok", "BadMerkleRoot", "BodyError", "MissingParents"}
  <1>1. \A t : ValidateHeader(t) \in {"ok", "HeaderError", "InvalidParent", "MissingParents"}
    BY DEF ValidateHeader
  <1>2. \A t : ValidateBody(t) \in {"ok", "BadMerkleRoot", "BodyError", "MissingParents"}
    BY DEF ValidateBody
  <1>. QED BY <1>1, <1>2

(* What is on its way to the body processor, or there, carries a block. *)
LEMMA Carried ==
    ASSUME ChannelsInv, BodyFacts
    PROVE  \A t \in (In(bodyChan) \ {Exit}) \cup bodyRegistered : t \in Task /\ BlockOf[t] \in Block
  <1>1. \A i \in 1 .. Len(bodyChan) : bodyChan[i] \in Message
    BY ElementOfSeq DEF ChannelsInv, Types
  <1>2. bodyRegistered \subseteq Task
    BY Zenon DEF BodyFacts, ManagerFacts
  <1>. QED BY <1>1, <1>2, BlockOfType DEF In, Message

(* A step of the header processor that settles a status or a result. *)
LEMMA HeaderStepInv ==
    ASSUME ChannelsInv, BodyFacts, NEW b \in Block,
           UNCHANGED <<hdrVars, bodyVars, virtVars, tips, blockChan, bodyChan, virtChan, bodyRes, answer, submitted>>,
           status' \in [Block -> Statuses \cup {None}], hdrRes' \in [Block -> Running],
           \A c \in Block : status[c] # None => status'[c] # None,
           hdrRes'[b] \notin Errors \cup {None, "validated"} => status'[b] # None,
           \A c \in Block : c # b => hdrRes'[c] = hdrRes[c]
    PROVE  ChannelsInv'
  <1>1. Types'
    BY DEF ChannelsInv, Types, virtVars
  <1>2. StatusInv'
    <2>1. \A c \in Block : hdrRes'[c] \notin Errors \cup {None, "validated"} => status'[c] # None
      BY Zenon DEF ChannelsInv, StatusInv
    <2>2. \A t \in (In(bodyChan) \ {Exit}) \cup bodyRegistered : BlockOf[t] \in Block
      BY Carried
    <2>3. \A t \in (In(bodyChan) \ {Exit}) \cup bodyRegistered : status'[BlockOf[t]] # None
      BY <2>2, Zenon DEF ChannelsInv, StatusInv
    <2>4. bodyChan' = bodyChan /\ bodyRegistered' = bodyRegistered
      BY DEF bodyVars
    <2>5. In(bodyChan)' = In(bodyChan)
      BY <2>4, Zenon DEF In
    <2>. QED BY <2>1, <2>3, <2>4, <2>5, Zenon DEF StatusInv
  <1>. QED BY <1>1, <1>2, SettleInv DEF virtVars

LEMMA ProcessHeaderInv ==
    ASSUME ChannelsInv, BodyFacts, NEW b \in Block, ProcessHeader(b)
    PROVE  ChannelsInv'
  <1>. DEFINE v == ValidateHeader(Head(hdrPending[b]))
  <1>1. v \in {"ok", "HeaderError", "InvalidParent", "MissingParents"}
    BY Validated
  <1>. HIDE DEF v
  <1>2. /\ hdrTaken[b] /\ hdrRes[b] = None
        /\ UNCHANGED <<hdrVars, bodyVars, virtVars, tips, blockChan, bodyChan, virtChan, bodyRes, answer, submitted>>
        /\ \/ /\ status[b] # None
              /\ hdrRes' = [hdrRes EXCEPT ![b] = IF status[b] = "Invalid" THEN "KnownInvalid" ELSE status[b]]
              /\ UNCHANGED status
           \/ /\ status[b] = None /\ v = "ok"
              /\ hdrRes' = [hdrRes EXCEPT ![b] = "validated"]
              /\ UNCHANGED status
           \/ /\ status[b] = None /\ v # "ok"
              /\ hdrRes' = [hdrRes EXCEPT ![b] = v]
              /\ status' = status \/ status' = [status EXCEPT ![b] = "Invalid"]
    BY Zenon DEF ProcessHeader, v
  <1>3. status \in [Block -> Statuses \cup {None}] /\ hdrRes \in [Block -> Running]
    BY Zenon DEF ChannelsInv, Types
  <1>4. /\ status' \in [Block -> Statuses \cup {None}] /\ hdrRes' \in [Block -> Running]
        /\ \A c \in Block : status[c] # None => status'[c] # None
        /\ hdrRes'[b] \notin Errors \cup {None, "validated"} => status'[b] # None
        /\ \A c \in Block : c # b => hdrRes'[c] = hdrRes[c]
    BY Zenon, <1>1, <1>2, <1>3 DEF Statuses, Errors, Result, Running, None
  <1>. QED BY Zenon, <1>2, <1>4, HeaderStepInv

LEMMA CommitHeaderInv ==
    ASSUME ChannelsInv, BodyFacts, NEW b \in Block, CommitHeader(b)
    PROVE  ChannelsInv'
  <1>1. /\ UNCHANGED <<hdrVars, bodyVars, virtVars, tips, blockChan, bodyChan, virtChan, bodyRes, answer, submitted>>
        /\ hdrRes' = [hdrRes EXCEPT ![b] = "HeaderOnly"] /\ status' = [status EXCEPT ![b] = "HeaderOnly"]
    BY Zenon DEF CommitHeader
  <1>2. status \in [Block -> Statuses \cup {None}] /\ hdrRes \in [Block -> Running]
    BY Zenon DEF ChannelsInv, Types
  <1>3. /\ status' \in [Block -> Statuses \cup {None}] /\ hdrRes' \in [Block -> Running]
        /\ \A c \in Block : status[c] # None => status'[c] # None
        /\ status'[b] # None
        /\ \A c \in Block : c # b => hdrRes'[c] = hdrRes[c]
    BY Zenon, <1>1, <1>2 DEF Statuses, Result, Running, None
  <1>. QED BY Zenon, <1>1, <1>3, HeaderStepInv

LEMMA HdrEndInv ==
    ASSUME ChannelsInv, HdrFacts, BodyFacts, NEW b \in Block, HdrEnd(b)
    PROVE  ChannelsInv'
  <1>. DEFINE t == Head(hdrPending[b])
  <1>1. /\ t \in Task /\ t # Exit /\ BlockOf[t] = b
        /\ hdrWorker \notin {"idle", "exited"}
    BY Zenon, ExitIsNoTask DEF HdrFacts, ManagerFacts, HdrEnd
  <1>2. /\ hdrRes[b] \notin {None, "validated"}
        /\ hdrEnded' = hdrEnded \cup {t} /\ hdrRegistered' = hdrRegistered
        /\ hdrWorker' \in {hdrWorker, "idle"} /\ (hdrWorker' # hdrWorker => hdrWorker = "waiting")
        /\ hdrRes' = [hdrRes EXCEPT ![b] = None]
        /\ UNCHANGED <<bodyVars, virtVars, storeVars, blockChan, virtChan, bodyRes, submitted>>
        /\ \/ /\ answer' = [answer EXCEPT ![t] = [block |-> hdrRes[b], virtual |-> hdrRes[b]]]
              /\ UNCHANGED bodyChan
           \/ /\ hdrRes[b] \notin Errors
              /\ bodyChan' = Append(bodyChan, t)
              /\ UNCHANGED answer
    BY Zenon DEF HdrEnd, Hdr!End
  <1>. HIDE DEF t
  <1>3. /\ hdrRes \in [Block -> Running] /\ bodyChan \in Seq(Message)
        /\ answer \in [Task -> [block : Result, virtual : Result]]
    BY DEF ChannelsInv, Types
  <1>4. /\ answer' \in [Task -> [block : Result, virtual : Result]]
        /\ \A u \in Task : /\ answer[u].block # None => answer'[u].block # None
                           /\ answer[u].virtual # None => answer'[u].virtual # None
        /\ bodyChan' = bodyChan => answer'[t].block # None /\ answer'[t].virtual # None
    <2>0. hdrRes[b] \in Result /\ hdrRes[b] # None
      BY Zenon, <1>2, <1>3 DEF Running
    <2>1. CASE answer' = [answer EXCEPT ![t] = [block |-> hdrRes[b], virtual |-> hdrRes[b]]]
      BY <1>1, <1>3, <2>0, <2>1
    <2>2. CASE bodyChan' = Append(bodyChan, t) /\ UNCHANGED answer
      BY <1>1, <1>3, <2>2
    <2>. QED BY Zenon, <1>2, <2>1, <2>2
  <1>5. Exit \notin In(bodyChan) /\ bodyWorker = "receiving"
    BY <1>1 DEF ChannelsInv, HdrToBody
  <1>6. /\ bodyChan' \in Seq(Message) /\ ExitLast(bodyChan')
        /\ \/ bodyChan' = bodyChan
           \/ hdrRes[b] \notin Errors /\ In(bodyChan') = In(bodyChan) \cup {t}
    BY <1>1, <1>2, <1>3, <1>5, AppendIn, Zenon DEF ChannelsInv, HdrToBody, Message
  <1>7. Types'
    BY Zenon, <1>2, <1>3, <1>4, <1>6 DEF ChannelsInv, Types, Result, Running, virtVars, storeVars
  <1>8. SubmittedInv'
    BY Zenon, <1>2 DEF ChannelsInv, SubmittedInv, Received
  <1>9. HdrToBody' /\ BodyToVirt'
    <2>1. Exit \notin In(bodyChan')
      BY <1>1, <1>5, <1>6
    <2>. QED BY Zenon, <1>2, <1>5, <1>6, <2>1 DEF ChannelsInv, HdrToBody, BodyToVirt, In, ExitLast, bodyVars, virtVars
  <1>10. FlowInv'
    <2>1. ASSUME NEW u \in hdrEnded'
          PROVE  \/ answer'[u].block # None /\ answer'[u].virtual # None
                 \/ u \in In(bodyChan') \cup bodyRegistered'
      BY <1>1, <1>2, <1>4, <1>6, Zenon DEF ChannelsInv, FlowInv, HdrFacts, ManagerFacts, bodyVars
    <2>2. ASSUME NEW u \in bodyEnded'
          PROVE  /\ answer'[u].block # None
                 /\ answer'[u].virtual # None \/ u \in In(virtChan') \cup In(virtBatch')
      BY <1>2, <1>4, Zenon DEF ChannelsInv, FlowInv, BodyFacts, ManagerFacts, bodyVars, virtVars
    <2>3. In(virtChan') \cup In(virtBatch') \subseteq bodyEnded' \cup {Exit}
      BY Zenon, <1>2 DEF ChannelsInv, FlowInv, bodyVars, virtVars
    <2>. QED BY <2>1, <2>2, <2>3, Zenon DEF FlowInv, In
  <1>11. StatusInv'
    <2>1. \A c \in Block : hdrRes'[c] \notin Errors \cup {None, "validated"} => status'[c] # None
      BY <1>2, <1>3, Zenon DEF ChannelsInv, StatusInv, storeVars
    <2>2. hdrRes[b] \notin Errors => status[BlockOf[t]] # None
      BY <1>1, <1>2, Zenon DEF ChannelsInv, StatusInv
    <2>3. \A u \in (In(bodyChan') \ {Exit}) \cup bodyRegistered' : status'[BlockOf[u]] # None
      BY <1>2, <1>6, <2>2, Zenon DEF ChannelsInv, StatusInv, bodyVars, storeVars
    <2>. QED BY <2>1, <2>3 DEF StatusInv, In
  <1>. QED BY Zenon, <1>7, <1>8, <1>9, <1>10, <1>11 DEF ChannelsInv

LEMMA HdrPassExitInv == ASSUME ChannelsInv, HdrPassExit PROVE ChannelsInv'
  <1>1. /\ hdrWorker = "idle" /\ hdrWorker' = "exited"
        /\ UNCHANGED <<hdrRegistered, hdrEnded>>
        /\ bodyChan' = Append(bodyChan, Exit)
        /\ UNCHANGED <<bodyVars, virtVars, storeVars, blockChan, virtChan, hdrRes, bodyRes, answer, submitted>>
    BY DEF HdrPassExit, Hdr!PassExit
  <1>2. Exit \notin In(bodyChan) /\ bodyWorker = "receiving"
    BY <1>1 DEF ChannelsInv, HdrToBody
  <1>3. /\ bodyChan' \in Seq(Message) /\ ExitLast(bodyChan')
        /\ In(bodyChan') = In(bodyChan) \cup {Exit}
    BY <1>1, <1>2, AppendIn, Zenon DEF ChannelsInv, Types, Message
  <1>4. Types' /\ SubmittedInv'
    BY <1>1, <1>3, Zenon DEF ChannelsInv, Types, SubmittedInv, Received, virtVars, storeVars
  <1>5. HdrToBody' /\ BodyToVirt'
    BY Zenon, <1>1, <1>2, <1>3 DEF ChannelsInv, HdrToBody, BodyToVirt, In, ExitLast, bodyVars, virtVars
  <1>6. In(bodyChan)' = In(bodyChan) \cup {Exit} /\ In(virtChan)' = In(virtChan) /\ In(virtBatch)' = In(virtBatch)
    BY Zenon, <1>1, <1>3 DEF In, virtVars
  <1>7. FlowInv' /\ StatusInv'
    BY <1>1, <1>6, Zenon DEF ChannelsInv, FlowInv, StatusInv, bodyVars, virtVars, storeVars
  <1>. QED BY <1>4, <1>5, <1>7 DEF ChannelsInv

LEMMA BodyReceiveInv ==
    ASSUME ChannelsInv, HdrFacts, BodyFacts, BodyReceive
    PROVE  ChannelsInv'
  <1>. DEFINE m == Head(bodyChan)
  <1>1. /\ bodyChan' \in Seq(Message) /\ m \in Message
        /\ In(bodyChan) = {m} \cup In(bodyChan')
        /\ ExitLast(bodyChan')
        /\ m = Exit => bodyChan' = <<>>
    BY Zenon, TailIn DEF ChannelsInv, Types, HdrToBody, BodyReceive
  <1>2. /\ bodyWorker = "receiving" /\ bodyEnded' = bodyEnded
        /\ \/ m = Exit /\ bodyRegistered' = bodyRegistered /\ bodyWorker' \in {"waiting", "idle"}
           \/ m # Exit /\ bodyRegistered' = bodyRegistered \cup {m} /\ bodyWorker' = "receiving"
        /\ UNCHANGED <<hdrVars, virtVars, storeVars, blockChan, virtChan, hdrRes, bodyRes, answer, submitted>>
    BY DEF BodyReceive, Body!WaitForIdle, Body!Register
  <1>. HIDE DEF m
  <1>3. Types' /\ SubmittedInv'
    BY <1>1, <1>2, Zenon DEF ChannelsInv, Types, SubmittedInv, Received, hdrVars, virtVars, storeVars
  <1>4. HdrToBody'
    <2>1. Exit \in In(bodyChan') \/ m = Exit => hdrWorker' = "exited"
      BY Zenon, <1>1, <1>2 DEF ChannelsInv, HdrToBody, hdrVars
    <2>. QED BY <1>1, <1>2, <2>1, Zenon DEF HdrToBody, In, ExitLast
  <1>5. In(virtChan)' = In(virtChan) /\ In(virtBatch)' = In(virtBatch) /\ In(bodyChan)' = In(bodyChan')
    BY Zenon, <1>2 DEF In, virtVars
  <1>6. BodyToVirt'
    BY <1>2, <1>5 DEF ChannelsInv, BodyToVirt, ExitLast, virtVars
  <1>7. FlowInv'
    <2>1. ASSUME NEW u \in hdrEnded
          PROVE  \/ answer[u].block # None /\ answer[u].virtual # None
                 \/ u \in In(bodyChan') \cup bodyRegistered'
      <3>1. u # Exit
        BY Zenon, ExitIsNoTask DEF HdrFacts, ManagerFacts
      <3>. QED BY <1>1, <1>2, <3>1 DEF ChannelsInv, FlowInv
    <2>. QED BY <1>2, <1>5, <2>1, Zenon DEF ChannelsInv, FlowInv, hdrVars
  <1>8. StatusInv'
    <2>1. \A t \in (In(bodyChan') \ {Exit}) \cup bodyRegistered' : status[BlockOf[t]] # None
      BY <1>1, <1>2, Zenon DEF ChannelsInv, StatusInv
    <2>. QED BY <1>2, <1>5, <2>1 DEF ChannelsInv, StatusInv, storeVars
  <1>. QED BY Zenon, <1>3, <1>4, <1>6, <1>7, <1>8 DEF ChannelsInv

LEMMA ProcessBodyInv ==
    ASSUME ChannelsInv, BodyFacts, NEW b \in Block, ProcessBody(b) \/ CommitBody(b)
    PROVE  ChannelsInv'
  <1>. DEFINE v == ValidateBody(Head(bodyPending[b]))
  <1>1. v \in {"ok", "BadMerkleRoot", "BodyError", "MissingParents"}
    BY Validated
  <1>. HIDE DEF v
  <1>2. /\ UNCHANGED <<hdrVars, bodyVars, virtVars, blockChan, bodyChan, virtChan, hdrRes, answer, submitted>>
        /\ \/ /\ bodyRes' = [bodyRes EXCEPT ![b] = IF status[b] = "Invalid" THEN "KnownInvalid" ELSE status[b]]
              /\ UNCHANGED status
           \/ /\ bodyRes' = [bodyRes EXCEPT ![b] = "validated"]
              /\ UNCHANGED status
           \/ /\ bodyRes' = [bodyRes EXCEPT ![b] = "PendingVerification"]
              /\ status' = [status EXCEPT ![b] = "PendingVerification"]
           \/ /\ v # "ok"
              /\ bodyRes' = [bodyRes EXCEPT ![b] = v]
              /\ status' = status \/ status' = [status EXCEPT ![b] = "Invalid"]
    BY Zenon DEF ProcessBody, CommitBody, v, storeVars
  <1>3. status \in [Block -> Statuses \cup {None}] /\ bodyRes \in [Block -> Running]
    BY Zenon DEF ChannelsInv, Types
  <1>4. /\ status' \in [Block -> Statuses \cup {None}] /\ bodyRes' \in [Block -> Running]
        /\ \A c \in Block : status[c] # None => status'[c] # None
    BY Zenon, <1>1, <1>2, <1>3 DEF Statuses, Errors, Result, Running, None
  <1>5. Types'
    BY <1>2, <1>4 DEF ChannelsInv, Types, virtVars
  <1>6. StatusInv'
    <2>1. \A t \in (In(bodyChan) \ {Exit}) \cup bodyRegistered : status'[BlockOf[t]] # None
      BY <1>4, Carried, Zenon DEF ChannelsInv, StatusInv
    <2>2. In(bodyChan)' = In(bodyChan) /\ bodyRegistered' = bodyRegistered /\ hdrRes' = hdrRes
      BY <1>2, Zenon DEF In, bodyVars
    <2>3. \A c \in Block : hdrRes[c] \notin Errors \cup {None, "validated"} => status[c] # None
      BY Zenon DEF ChannelsInv, StatusInv
    <2>. QED BY <1>4, <2>1, <2>2, <2>3, Zenon DEF StatusInv
  <1>. QED BY <1>2, <1>5, <1>6, SettleInv DEF virtVars

LEMMA BodyEndInv ==
    ASSUME ChannelsInv, HdrFacts, BodyFacts, NEW b \in Block, BodyEnd(b)
    PROVE  ChannelsInv'
  <1>. DEFINE t == Head(bodyPending[b])
  <1>1. t \in Task /\ t # Exit /\ bodyWorker \notin {"idle", "exited"}
    BY Zenon, ExitIsNoTask DEF BodyFacts, ManagerFacts, BodyEnd
  <1>2. /\ bodyRes[b] \notin {None, "validated"}
        /\ bodyEnded' = bodyEnded \cup {t} /\ bodyRegistered' = bodyRegistered
        /\ bodyWorker' \in {bodyWorker, "idle"} /\ (bodyWorker' # bodyWorker => bodyWorker = "waiting")
        /\ bodyRes' = [bodyRes EXCEPT ![b] = None]
        /\ UNCHANGED <<hdrVars, virtVars, storeVars, blockChan, bodyChan, hdrRes, submitted>>
        /\ \/ /\ answer' = [answer EXCEPT ![t] = [block |-> bodyRes[b], virtual |-> bodyRes[b]]]
              /\ UNCHANGED virtChan
           \/ /\ answer' = [answer EXCEPT ![t].block = bodyRes[b]]
              /\ virtChan' = Append(virtChan, t)
    BY DEF BodyEnd, Body!End
  <1>. HIDE DEF t
  <1>3. /\ bodyRes \in [Block -> Running] /\ virtChan \in Seq(Message)
        /\ answer \in [Task -> [block : Result, virtual : Result]]
    BY Zenon DEF ChannelsInv, Types
  <1>4. /\ answer' \in [Task -> [block : Result, virtual : Result]]
        /\ \A u \in Task : /\ answer[u].block # None => answer'[u].block # None
                           /\ answer[u].virtual # None => answer'[u].virtual # None
        /\ answer'[t].block # None
        /\ virtChan' = virtChan => answer'[t].virtual # None
    <2>0. bodyRes[b] \in Result /\ bodyRes[b] # None
      BY Zenon, <1>2, <1>3 DEF Running
    <2>1. CASE answer' = [answer EXCEPT ![t] = [block |-> bodyRes[b], virtual |-> bodyRes[b]]]
      BY <1>1, <1>3, <2>0, <2>1
    <2>2. CASE answer' = [answer EXCEPT ![t].block = bodyRes[b]] /\ virtChan' = Append(virtChan, t)
      <3>1. virtChan' # virtChan
        BY <1>3, <2>2
      <3>. QED BY <1>1, <1>3, <2>0, <2>2, <3>1
    <2>. QED BY <1>2, <2>1, <2>2
  <1>5. /\ Exit \notin In(virtChan) /\ Exit \notin In(virtBatch)
        /\ virtWorker \notin {"exiting", "exited"} /\ ~pruningExit
    BY <1>1 DEF ChannelsInv, BodyToVirt
  <1>6. /\ virtChan' \in Seq(Message) /\ ExitLast(virtChan') /\ Exit \notin In(virtChan')
        /\ In(virtChan) \subseteq In(virtChan') /\ In(virtChan') \subseteq In(virtChan) \cup {t}
        /\ virtChan' = virtChan \/ t \in In(virtChan')
    <2>1. CASE virtChan' = virtChan
      BY Zenon, <1>3, <1>5, <2>1 DEF ChannelsInv, BodyToVirt
    <2>2. CASE virtChan' = Append(virtChan, t)
      BY <1>1, <1>3, <1>5, <2>2, AppendIn DEF Message
    <2>. QED BY <1>2, <2>1, <2>2
  <1>7. Types' /\ SubmittedInv'
    <2>1. Types'
      BY <1>2, <1>3, <1>4, <1>6 DEF ChannelsInv, Types, Result, Running, virtVars, storeVars
    <2>2. SubmittedInv'
      BY <1>2 DEF ChannelsInv, SubmittedInv, Received, hdrVars
    <2>. QED BY Zenon, <2>1, <2>2
  <1>8. In(virtBatch)' = In(virtBatch) /\ In(virtChan)' = In(virtChan') /\ In(bodyChan)' = In(bodyChan)
    BY Zenon, <1>2 DEF In, virtVars
  <1>9. HdrToBody' /\ BodyToVirt'
    BY Zenon, <1>2, <1>5, <1>6, <1>8 DEF ChannelsInv, HdrToBody, BodyToVirt, ExitLast, hdrVars, virtVars
  <1>10. FlowInv'
    <2>1. \A u \in hdrEnded : \/ answer'[u].block # None /\ answer'[u].virtual # None
                              \/ u \in In(bodyChan) \cup bodyRegistered
      BY Zenon, <1>4 DEF ChannelsInv, FlowInv, HdrFacts, ManagerFacts
    <2>2. \A u \in bodyEnded \cup {t} :
             /\ answer'[u].block # None
             /\ answer'[u].virtual # None \/ u \in In(virtChan') \cup In(virtBatch)
      BY <1>4, <1>6, Zenon DEF ChannelsInv, FlowInv, BodyFacts, ManagerFacts
    <2>3. In(virtChan') \cup In(virtBatch) \subseteq bodyEnded \cup {t} \cup {Exit}
      BY <1>6, Zenon DEF ChannelsInv, FlowInv
    <2>. QED BY <1>2, <1>8, <2>1, <2>2, <2>3 DEF FlowInv, hdrVars
  <1>11. StatusInv'
    BY Zenon, <1>2, <1>8 DEF ChannelsInv, StatusInv, storeVars
  <1>. QED BY Zenon, <1>7, <1>9, <1>10, <1>11 DEF ChannelsInv

LEMMA BodyPassExitInv == ASSUME ChannelsInv, BodyPassExit PROVE ChannelsInv'
  <1>1. /\ bodyWorker = "idle" /\ bodyWorker' = "exited"
        /\ UNCHANGED <<bodyRegistered, bodyEnded>>
        /\ virtChan' = Append(virtChan, Exit)
        /\ UNCHANGED <<hdrVars, virtVars, storeVars, blockChan, bodyChan, hdrRes, bodyRes, answer, submitted>>
    BY DEF BodyPassExit, Body!PassExit
  <1>2. /\ Exit \notin In(virtChan) /\ Exit \notin In(virtBatch)
        /\ virtWorker \notin {"exiting", "exited"} /\ ~pruningExit
    BY <1>1 DEF ChannelsInv, BodyToVirt
  <1>3. /\ virtChan' \in Seq(Message) /\ ExitLast(virtChan')
        /\ In(virtChan') = In(virtChan) \cup {Exit}
    BY Zenon, <1>1, <1>2, AppendIn DEF ChannelsInv, Types, Message
  <1>4. Types' /\ SubmittedInv'
    BY <1>1, <1>3, Zenon DEF ChannelsInv, Types, SubmittedInv, Received, hdrVars, virtVars, storeVars
  <1>5. In(virtChan)' = In(virtChan) \cup {Exit} /\ In(bodyChan)' = In(bodyChan) /\ In(virtBatch)' = In(virtBatch)
    BY Zenon, <1>1, <1>3 DEF In, virtVars
  <1>6. HdrToBody' /\ BodyToVirt'
    BY Zenon, <1>1, <1>2, <1>3, <1>5 DEF ChannelsInv, HdrToBody, BodyToVirt, ExitLast, hdrVars, virtVars
  <1>7. FlowInv' /\ StatusInv'
    BY <1>1, <1>5, Zenon DEF ChannelsInv, FlowInv, StatusInv, hdrVars, virtVars, storeVars
  <1>. QED BY <1>4, <1>6, <1>7 DEF ChannelsInv

LEMMA VirtReceiveInv == ASSUME ChannelsInv, BodyFacts, VirtReceive PROVE ChannelsInv'
  <1>1. /\ virtWorker = "receiving" /\ virtBatch = <<>> /\ virtChan # <<>>
        /\ UNCHANGED <<hdrVars, bodyVars, pruningExit, storeVars, blockChan, bodyChan, hdrRes, bodyRes, answer, submitted>>
    BY Zenon DEF VirtReceive, ChannelsInv, BodyToVirt
  <1>2. /\ virtChan' \in Seq(Message) /\ virtBatch' \in Seq(Message)
        /\ ExitLast(virtChan') /\ ExitLast(virtBatch')
        /\ \/ /\ virtChan' = <<>> /\ virtBatch' = virtChan /\ virtWorker' = "resolving"
           \/ /\ virtChan' = <<>> /\ virtBatch' = <<>> /\ virtWorker' = "exiting"
              /\ In(virtChan) = {Exit}
    <2>1. CASE Head(virtChan) = Exit
      BY <1>1, <2>1, TailIn, EmptyIn, Zenon DEF VirtReceive, ChannelsInv, Types, BodyToVirt
    <2>2. CASE Head(virtChan) # Exit
      BY <1>1, <2>2, EmptyIn DEF VirtReceive, ChannelsInv, Types, BodyToVirt
    <2>. QED BY <2>1, <2>2
  <1>3. Types' /\ SubmittedInv' /\ HdrToBody'
    <2>1. Types'
      BY <1>1, <1>2 DEF ChannelsInv, Types, VirtWorkers, storeVars
    <2>2. SubmittedInv' /\ HdrToBody'
      BY Zenon, <1>1 DEF ChannelsInv, SubmittedInv, Received, HdrToBody, In, ExitLast, hdrVars, bodyVars
    <2>. QED BY Zenon, <2>1, <2>2
  <1>4. /\ In(virtChan)' = {} /\ In(virtBatch)' \in {{}, In(virtChan)}
        /\ In(virtBatch)' = {} => In(virtChan) \subseteq {Exit}
        /\ In(bodyChan)' = In(bodyChan)
    <2>1. In(virtChan)' = In(virtChan') /\ In(virtBatch)' = In(virtBatch') /\ In(bodyChan)' = In(bodyChan)
      BY Zenon, <1>1 DEF In
    <2>. QED BY <1>2, <2>1, EmptyIn
  <1>5. BodyToVirt'
    <2>1. virtWorker' = "exiting" \/ Exit \in In(virtBatch)' => bodyWorker = "exited"
      BY <1>2, <1>4 DEF ChannelsInv, BodyToVirt
    <2>. QED BY <1>1, <1>2, <1>4, <2>1, Zenon DEF ChannelsInv, BodyToVirt, ExitLast, bodyVars
  <1>6. FlowInv'
    <2>1. In(virtBatch) = {}
      BY <1>1, EmptyIn
    <2>2. \A u \in bodyEnded : u \in In(virtChan) => u \in In(virtBatch)' \/ u = Exit
      BY Zenon, <1>4
    <2>3. Exit \notin bodyEnded
      BY ExitIsNoTask DEF BodyFacts, ManagerFacts
    <2>. QED BY <1>1, <1>4, <2>1, <2>2, <2>3, Zenon DEF ChannelsInv, FlowInv, hdrVars, bodyVars
  <1>7. StatusInv'
    BY <1>1, <1>4, Zenon DEF ChannelsInv, StatusInv, bodyVars, storeVars
  <1>. QED BY Zenon, <1>3, <1>5, <1>6, <1>7 DEF ChannelsInv

LEMMA ResolveVirtualInv == ASSUME ChannelsInv, BodyFacts, ResolveVirtual PROVE ChannelsInv'
  <1>1. /\ virtWorker = "resolving" /\ virtWorker' = "answering"
        /\ UNCHANGED <<hdrVars, bodyVars, virtBatch, pruningExit, tips, blockChan, bodyChan, virtChan,
                       hdrRes, bodyRes, answer, submitted>>
    BY Zenon DEF ResolveVirtual
  <1>2. PICK verdict \in [{b \in Block : status[b] = "PendingVerification"} ->
                             {"PendingVerification", "StateValid", "Disqualified"}] :
            status' = [b \in Block |-> IF b \in DOMAIN verdict THEN verdict[b] ELSE status[b]]
    BY DEF ResolveVirtual
  <1>3. /\ status' \in [Block -> Statuses \cup {None}]
        /\ \A b \in Block : status[b] # None => status'[b] # None
    BY <1>2, Zenon DEF ChannelsInv, Types, Statuses, None
  <1>4. Types'
    BY <1>1, <1>3 DEF ChannelsInv, Types, VirtWorkers
  <1>5. StatusInv'
    <2>1. \A t \in (In(bodyChan) \ {Exit}) \cup bodyRegistered : status'[BlockOf[t]] # None
      BY <1>3, Carried, Zenon DEF ChannelsInv, StatusInv
    <2>2. In(bodyChan)' = In(bodyChan) /\ bodyRegistered' = bodyRegistered /\ hdrRes' = hdrRes
      BY <1>1, Zenon DEF In, bodyVars
    <2>3. \A c \in Block : hdrRes[c] \notin Errors \cup {None, "validated"} => status[c] # None
      BY Zenon DEF ChannelsInv, StatusInv
    <2>. QED BY <1>3, <2>1, <2>2, <2>3, Zenon DEF StatusInv
  <1>. QED BY Zenon, <1>1, <1>4, <1>5, SettleInv

LEMMA VirtAnswerInv ==
    ASSUME ChannelsInv, HdrFacts, BodyFacts, VirtAnswer
    PROVE  ChannelsInv'
  <1>. DEFINE upToExit == {i \in 1 .. Len(virtBatch) : \A j \in 1 .. i : virtBatch[j] # Exit}
              answered == {virtBatch[i] : i \in {j \in upToExit : status[BlockOf[virtBatch[j]]] # None}}
  <1>1. /\ virtWorker = "answering" /\ virtBatch' = <<>>
        /\ answer' = [t \in Task |-> IF t \in answered
                                      THEN [answer[t] EXCEPT !.virtual = status[BlockOf[t]]]
                                      ELSE answer[t]]
        /\ virtWorker' = IF upToExit = 1 .. Len(virtBatch) THEN "receiving" ELSE "exiting"
        /\ UNCHANGED <<hdrVars, bodyVars, pruningExit, storeVars, blockChan, bodyChan, virtChan, hdrRes, bodyRes, submitted>>
    BY Zenon DEF VirtAnswer
  <1>2. virtBatch \in Seq(Message) /\ Len(virtBatch) \in Nat /\ ExitLast(virtBatch)
    BY LenProperties DEF ChannelsInv, Types, BodyToVirt
  <1>3. ASSUME NEW t \in Task, t \in In(virtBatch) PROVE t \in answered
    <2>1. PICK i \in 1 .. Len(virtBatch) : virtBatch[i] = t
      BY <1>3, Zenon DEF In
    <2>2. t # Exit
      BY ExitIsNoTask
    <2>3. \A j \in 1 .. i : virtBatch[j] # Exit
      BY <1>2, <2>1, <2>2 DEF ExitLast
    <2>4. status[BlockOf[t]] # None
      BY <1>3, <2>2, Zenon DEF ChannelsInv, FlowInv, StatusInv, BodyFacts, ManagerFacts
    <2>. QED BY <2>1, <2>3, <2>4, Zenon
  <1>4. \A t \in Task : t \in answered => status[BlockOf[t]] \in Statuses
    BY BlockOfType, Zenon DEF ChannelsInv, Types
  <1>5. virtWorker' = "exiting" => Exit \in In(virtBatch)
    <2>. SUFFICES ASSUME Exit \notin In(virtBatch) PROVE virtWorker' = "receiving"
      BY Zenon, <1>1
    <2>1. upToExit = 1 .. Len(virtBatch)
      BY <1>2 DEF In
    <2>. QED BY <1>1, <1>2, <2>1, Zenon
  <1>6. virtWorker' \in {"receiving", "exiting"}
    BY <1>1
  <1>7. /\ answer' \in [Task -> [block : Result, virtual : Result]]
        /\ \A t \in Task : /\ answer'[t].block = answer[t].block
                           /\ answer[t].virtual # None => answer'[t].virtual # None
                           /\ t \in In(virtBatch) => answer'[t].virtual # None
    <2>. HIDE DEF answered
    <2>1. answer \in [Task -> [block : Result, virtual : Result]]
      BY DEF ChannelsInv, Types
    <2>2. \A s \in Statuses : s # None /\ s \in Result
      BY DEF Statuses, Result, None
    <2>. QED BY <1>1, <1>3, <1>4, <2>1, <2>2
  <1>. HIDE DEF upToExit, answered
  <1>8. Types' /\ SubmittedInv' /\ HdrToBody'
    <2>1. Types'
      BY Zenon, <1>1, <1>6, <1>7, EmptySeq DEF ChannelsInv, Types, VirtWorkers, storeVars
    <2>2. SubmittedInv' /\ HdrToBody'
      BY <1>1 DEF ChannelsInv, SubmittedInv, Received, HdrToBody, In, ExitLast, hdrVars, bodyVars
    <2>. QED BY <2>1, <2>2
  <1>9. In(virtBatch)' = {} /\ ExitLast(virtBatch)' /\ In(virtChan)' = In(virtChan) /\ In(bodyChan)' = In(bodyChan)
    BY <1>1, EmptyIn DEF In, ExitLast
  <1>10. BodyToVirt'
    BY <1>1, <1>5, <1>6, <1>9 DEF ChannelsInv, BodyToVirt, ExitLast, bodyVars
  <1>11. FlowInv'
    <2>1. \A u \in hdrEnded : \/ answer'[u].block # None /\ answer'[u].virtual # None
                              \/ u \in In(bodyChan) \cup bodyRegistered
      BY <1>7, Zenon DEF ChannelsInv, FlowInv, HdrFacts, ManagerFacts
    <2>2. \A u \in bodyEnded : /\ answer'[u].block # None
                               /\ answer'[u].virtual # None \/ u \in In(virtChan)
      BY <1>7, Zenon DEF ChannelsInv, FlowInv, BodyFacts, ManagerFacts
    <2>. QED BY <1>1, <1>9, <2>1, <2>2, Zenon DEF ChannelsInv, FlowInv, hdrVars, bodyVars
  <1>12. StatusInv'
    BY <1>1, <1>9 DEF ChannelsInv, StatusInv, bodyVars, storeVars
  <1>. QED BY <1>8, <1>10, <1>11, <1>12 DEF ChannelsInv

LEMMA VirtPassExitInv == ASSUME ChannelsInv, VirtPassExit PROVE ChannelsInv'
  <1>1. /\ virtWorker = "exiting" /\ virtWorker' = "exited" /\ pruningExit' = TRUE
        /\ UNCHANGED <<hdrVars, bodyVars, virtBatch, storeVars, blockChan, bodyChan, virtChan, hdrRes, bodyRes, answer, submitted>>
    BY DEF VirtPassExit
  <1>2. Types' /\ SubmittedInv' /\ HdrToBody'
    <2>1. Types'
      BY <1>1, Zenon DEF ChannelsInv, Types, VirtWorkers, storeVars
    <2>2. SubmittedInv'
      BY <1>1, Zenon DEF ChannelsInv, SubmittedInv, Received, hdrVars
    <2>3. HdrToBody'
      BY <1>1, Zenon DEF ChannelsInv, HdrToBody, In, ExitLast, hdrVars, bodyVars
    <2>. QED BY <2>1, <2>2, <2>3
  <1>3. BodyToVirt'
    BY <1>1 DEF ChannelsInv, BodyToVirt, In, ExitLast, bodyVars
  <1>4. FlowInv' /\ StatusInv'
    <2>1. In(bodyChan)' = In(bodyChan) /\ In(virtChan)' = In(virtChan) /\ In(virtBatch)' = In(virtBatch)
      BY <1>1, Zenon DEF In
    <2>2. UNCHANGED <<hdrEnded, bodyRegistered, bodyEnded, status, hdrRes, answer>>
      BY <1>1, Zenon DEF hdrVars, bodyVars, storeVars
    <2>. QED BY <2>1, <2>2, Zenon DEF ChannelsInv, FlowInv, StatusInv
  <1>. QED BY <1>2, <1>3, <1>4 DEF ChannelsInv

-----------------------------------------------------------------------------
LEMMA InitChannels == ASSUME Init PROVE ChannelsInv
  <1>1. /\ blockChan = <<>> /\ bodyChan = <<>> /\ virtChan = <<>> /\ virtBatch = <<>> /\ submitted = <<>>
        /\ hdrRegistered = {} /\ hdrEnded = {} /\ hdrWorker = "receiving"
        /\ bodyRegistered = {} /\ bodyEnded = {} /\ bodyWorker = "receiving"
        /\ virtWorker = "receiving" /\ ~pruningExit /\ pruningExit \in BOOLEAN
        /\ hdrRes = [b \in Block |-> None] /\ bodyRes = [b \in Block |-> None] /\ status = [b \in Block |-> None]
        /\ answer = [t \in Task |-> [block |-> None, virtual |-> None]]
    BY Zenon DEF Init, Hdr!Init, Body!Init
  <1>2. <<>> \in Seq(Message) /\ Len(<<>>) = 0
    BY Zenon, EmptySeq
  <1>3. Types
    BY Zenon, <1>1, <1>2 DEF Types, Result, Running, VirtWorkers
  <1>4. SubmittedInv
    BY <1>1, <1>2 DEF SubmittedInv, Received
  <1>5. HdrToBody /\ BodyToVirt /\ FlowInv /\ StatusInv
    BY Zenon, <1>1, EmptyIn DEF HdrToBody, BodyToVirt, FlowInv, StatusInv
  <1>. QED BY <1>3, <1>4, <1>5 DEF ChannelsInv

(* The invariant of the channels is inductive relative to the managers'. *)
LEMMA NextChannels ==
    ASSUME ChannelsInv, HdrFacts, BodyFacts, [Next]_vars
    PROVE  ChannelsInv'
  <1>1. ASSUME NEW t \in Task, Submit(t) PROVE ChannelsInv'
    BY Zenon, <1>1, EnterInv DEF Submit, Message
  <1>2. CASE SignalExit
    BY <1>2, EnterInv DEF SignalExit, Message
  <1>3. CASE HdrReceive
    BY <1>3, HdrReceiveInv
  <1>4. CASE HdrPassExit
    BY <1>4, HdrPassExitInv
  <1>5. ASSUME NEW b \in Block, HdrTryBegin(b) PROVE ChannelsInv'
    BY <1>5, InsideInv, Zenon DEF HdrTryBegin, Hdr!TryBegin, Hdr!Postpone, Hdr!Begin, bodyVars, storeVars
  <1>6. ASSUME NEW b \in Block, ProcessHeader(b) \/ CommitHeader(b) PROVE ChannelsInv'
    BY <1>6, ProcessHeaderInv, CommitHeaderInv
  <1>7. ASSUME NEW b \in Block, HdrEnd(b) PROVE ChannelsInv'
    BY <1>7, HdrEndInv
  <1>8. CASE BodyReceive
    BY <1>8, BodyReceiveInv
  <1>9. CASE BodyPassExit
    BY <1>9, BodyPassExitInv
  <1>10. ASSUME NEW b \in Block, BodyTryBegin(b) PROVE ChannelsInv'
    BY <1>10, InsideInv, Zenon DEF BodyTryBegin, Body!TryBegin, Body!Postpone, Body!Begin, hdrVars, storeVars
  <1>11. ASSUME NEW b \in Block, ProcessBody(b) \/ CommitBody(b) PROVE ChannelsInv'
    BY <1>11, ProcessBodyInv
  <1>12. ASSUME NEW b \in Block, BodyEnd(b) PROVE ChannelsInv'
    BY <1>12, BodyEndInv
  <1>13. CASE VirtReceive
    BY <1>13, VirtReceiveInv
  <1>14. CASE ResolveVirtual
    BY <1>14, ResolveVirtualInv
  <1>15. CASE VirtAnswer
    BY Zenon, <1>15, VirtAnswerInv
  <1>16. CASE VirtPassExit
    BY <1>16, VirtPassExitInv
  <1>17. CASE UNCHANGED vars
    BY <1>17, InsideInv DEF vars, hdrVars, bodyVars, storeVars
  <1>. QED BY <1>1, <1>2, <1>3, <1>4, <1>5, <1>6, <1>7, <1>8, <1>9, <1>10, <1>11, <1>12,
              <1>13, <1>14, <1>15, <1>16, <1>17 DEF Next, Shutdown

(* At the end of the pipeline nothing is left in it. *)
LEMMA ExitFacts == ASSUME ChannelsInv, HdrFacts, BodyFacts PROVE AnsweredBeforeExit
  <1>. SUFFICES ASSUME pruningExit, NEW t \in Task, Precedes(t, Exit)
                PROVE  answer[t].block # None /\ answer[t].virtual # None
    BY Zenon DEF AnsweredBeforeExit
  <1>1. /\ virtChan = <<>> /\ virtBatch = <<>> /\ bodyWorker = "exited"
        /\ bodyChan = <<>> /\ hdrWorker = "exited"
    BY Zenon DEF ChannelsInv, HdrToBody, BodyToVirt
  <1>2. t \in hdrRegistered
    <2>1. PICK i, j \in 1 .. Len(submitted) : i < j /\ submitted[i] = t /\ submitted[j] = Exit
      BY Zenon DEF Precedes
    <2>2. PICK k \in 1 .. Len(submitted) :
              submitted[k] = Exit /\ \A n \in 1 .. k - 1 : submitted[n] \in hdrRegistered
      BY <1>1, Zenon DEF ChannelsInv, SubmittedInv
    <2>3. j = k
      BY Zenon, <2>1, <2>2 DEF ChannelsInv, SubmittedInv
    <2>4. i \in 1 .. k - 1
      BY <2>1, <2>3
    <2>. QED BY <2>1, <2>2, <2>4
  <1>3. t \in hdrEnded
    BY Zenon, <1>1, <1>2 DEF HdrFacts, ManagerFacts
  <1>4. t \in bodyRegistered => t \in bodyEnded
    BY <1>1 DEF BodyFacts, ManagerFacts
  <1>. QED BY <1>1, <1>3, <1>4, EmptyIn, Zenon DEF ChannelsInv, FlowInv

-----------------------------------------------------------------------------
(* What was read before a validation still holds at the commit: only the    *)
(* header processor gives a block its first status, and only the body       *)
(* processor takes it from header-only, one task of a block at a time.      *)
ValidatedInv ==
    \A b \in Block : /\ hdrRes[b] = "validated" => status[b] = None
                     /\ bodyRes[b] = "validated" => status[b] = "HeaderOnly"

Monotone == \A b \in Block : /\ HasBlockBody(status[b]) => HasBlockBody(status'[b])
                             /\ status[b] = "Invalid" => status'[b] = "Invalid"

(* A step of one block's header or body. *)
LEMMA OneBlockValidated ==
    ASSUME ValidatedInv, NEW b \in Block,
           \A c \in Block : c # b => hdrRes'[c] = hdrRes[c] /\ bodyRes'[c] = bodyRes[c] /\ status'[c] = status[c],
           hdrRes'[b] = "validated" => status'[b] = None,
           bodyRes'[b] = "validated" => status'[b] = "HeaderOnly",
           HasBlockBody(status[b]) \/ status[b] = "Invalid" => status'[b] = status[b]
    PROVE  ValidatedInv' /\ Monotone
  <1>1. ValidatedInv'
    BY Zenon DEF ValidatedInv
  <1>2. Monotone
    BY Zenon DEF Monotone
  <1>. QED BY <1>1, <1>2

LEMMA NextValidated ==
    ASSUME ChannelsInv, BodyFacts, ValidatedInv, [Next]_vars
    PROVE  ValidatedInv' /\ Monotone
  <1>0. /\ status \in [Block -> Statuses \cup {None}]
        /\ hdrRes \in [Block -> Running] /\ bodyRes \in [Block -> Running]
    BY DEF ChannelsInv, Types
  <1>1. CASE UNCHANGED <<hdrRes, bodyRes, status>>
    BY Zenon, <1>1 DEF ValidatedInv, Monotone
  <1>2. ASSUME NEW b \in Block, ProcessHeader(b) PROVE ValidatedInv' /\ Monotone
    <2>. DEFINE v == ValidateHeader(Head(hdrPending[b]))
    <2>1. v # "validated"
      BY Validated
    <2>. HIDE DEF v
    <2>2. /\ bodyRes' = bodyRes
          /\ \/ /\ status[b] # None /\ status' = status
                /\ hdrRes' = [hdrRes EXCEPT ![b] = IF status[b] = "Invalid" THEN "KnownInvalid" ELSE status[b]]
             \/ /\ status[b] = None /\ status' = status /\ hdrRes' = [hdrRes EXCEPT ![b] = "validated"]
             \/ /\ status[b] = None /\ hdrRes' = [hdrRes EXCEPT ![b] = v]
                /\ status' = status \/ status' = [status EXCEPT ![b] = "Invalid"]
      BY Zenon, <1>2 DEF ProcessHeader, v
    <2>3. \A c \in Block : c # b => hdrRes'[c] = hdrRes[c] /\ status'[c] = status[c]
      BY <1>0, <2>2
    <2>4. hdrRes'[b] = "validated" => status'[b] = None
      BY <1>0, <2>1, <2>2 DEF Statuses
    <2>5. status'[b] # status[b] => status[b] = None
      BY <1>0, <2>2
    <2>6. bodyRes'[b] = "validated" => status'[b] = "HeaderOnly"
      BY Zenon, <2>2, <2>5 DEF ValidatedInv, None
    <2>7. HasBlockBody(status[b]) \/ status[b] = "Invalid" => status'[b] = status[b]
      BY Zenon, <2>5 DEF HasBlockBody, None
    <2>. QED BY Zenon, <2>2, <2>3, <2>4, <2>6, <2>7, OneBlockValidated
  <1>3. ASSUME NEW b \in Block, CommitHeader(b) PROVE ValidatedInv' /\ Monotone
    <2>1. /\ bodyRes' = bodyRes /\ status[b] = None
          /\ hdrRes' = [hdrRes EXCEPT ![b] = "HeaderOnly"] /\ status' = [status EXCEPT ![b] = "HeaderOnly"]
      BY Zenon, <1>3 DEF CommitHeader, ValidatedInv
    <2>2. /\ hdrRes'[b] = "HeaderOnly" /\ status'[b] = "HeaderOnly"
          /\ \A c \in Block : c # b => hdrRes'[c] = hdrRes[c] /\ status'[c] = status[c]
      BY <1>0, <2>1
    <2>3. ~HasBlockBody(status[b]) /\ status[b] # "Invalid"
      BY <2>1 DEF HasBlockBody, None
    <2>. QED BY Zenon, <2>1, <2>2, <2>3, OneBlockValidated
  <1>4. ASSUME NEW b \in Block, ProcessBody(b) PROVE ValidatedInv' /\ Monotone
    <2>. DEFINE v == ValidateBody(Head(bodyPending[b]))
    <2>1. v # "validated"
      BY Validated
    <2>. HIDE DEF v
    <2>2. status[b] # None
      <3>1. Head(bodyPending[b]) \in bodyRegistered /\ BlockOf[Head(bodyPending[b])] = b
        BY Zenon, <1>4 DEF ProcessBody, BodyFacts, ManagerFacts
      <3>. QED BY Zenon, <3>1 DEF ChannelsInv, StatusInv
    <2>3. /\ hdrRes' = hdrRes
          /\ \/ /\ status[b] # "HeaderOnly" /\ status' = status
                /\ bodyRes' = [bodyRes EXCEPT ![b] = IF status[b] = "Invalid" THEN "KnownInvalid" ELSE status[b]]
             \/ /\ status[b] = "HeaderOnly" /\ status' = status /\ bodyRes' = [bodyRes EXCEPT ![b] = "validated"]
             \/ /\ status[b] = "HeaderOnly" /\ bodyRes' = [bodyRes EXCEPT ![b] = v]
                /\ status' = status \/ status' = [status EXCEPT ![b] = "Invalid"]
      BY Zenon, <1>4 DEF ProcessBody, v, storeVars
    <2>4. \A c \in Block : c # b => bodyRes'[c] = bodyRes[c] /\ status'[c] = status[c]
      BY <1>0, <2>3
    <2>5. bodyRes'[b] = "validated" => status'[b] = "HeaderOnly"
      BY <1>0, <2>1, <2>3 DEF Statuses, None
    <2>6. status'[b] # status[b] => status[b] = "HeaderOnly"
      BY <1>0, <2>3
    <2>7. hdrRes'[b] # "validated"
      BY Zenon, <2>2, <2>3 DEF ValidatedInv
    <2>8. HasBlockBody(status[b]) \/ status[b] = "Invalid" => status'[b] = status[b]
      BY Zenon, <2>6 DEF HasBlockBody
    <2>. QED BY Zenon, <2>3, <2>4, <2>5, <2>7, <2>8, OneBlockValidated
  <1>5. ASSUME NEW b \in Block, CommitBody(b) PROVE ValidatedInv' /\ Monotone
    <2>1. /\ hdrRes' = hdrRes /\ status[b] = "HeaderOnly"
          /\ bodyRes' = [bodyRes EXCEPT ![b] = "PendingVerification"]
          /\ status' = [status EXCEPT ![b] = "PendingVerification"]
      BY Zenon, <1>5 DEF CommitBody, ValidatedInv
    <2>2. /\ bodyRes'[b] = "PendingVerification" /\ status'[b] = "PendingVerification"
          /\ \A c \in Block : c # b => bodyRes'[c] = bodyRes[c] /\ status'[c] = status[c]
      BY <1>0, <2>1
    <2>3. hdrRes'[b] # "validated"
      BY Zenon, <2>1 DEF ValidatedInv, None
    <2>4. ~HasBlockBody(status[b]) /\ status[b] # "Invalid"
      BY <2>1 DEF HasBlockBody
    <2>. QED BY Zenon, <2>1, <2>2, <2>3, <2>4, OneBlockValidated
  <1>6. ASSUME NEW b \in Block, HdrEnd(b) \/ BodyEnd(b) PROVE ValidatedInv' /\ Monotone
    <2>1. /\ status' = status
          /\ hdrRes' \in {hdrRes, [hdrRes EXCEPT ![b] = None]} /\ bodyRes' \in {bodyRes, [bodyRes EXCEPT ![b] = None]}
      BY Zenon, <1>6 DEF HdrEnd, BodyEnd, storeVars
    <2>2. \A c \in Block : /\ hdrRes'[c] = "validated" => hdrRes[c] = "validated"
                           /\ bodyRes'[c] = "validated" => bodyRes[c] = "validated"
      BY <1>0, <2>1 DEF None
    <2>. QED BY Zenon, <2>1, <2>2 DEF ValidatedInv, Monotone
  <1>7. CASE ResolveVirtual
    <2>1. hdrRes' = hdrRes /\ bodyRes' = bodyRes
      BY Zenon, <1>7 DEF ResolveVirtual
    <2>2. \A c \in Block : status'[c] = status[c] \/ (status[c] = "PendingVerification" /\ HasBlockBody(status'[c]))
      BY Zenon, <1>7 DEF ResolveVirtual, HasBlockBody
    <2>. QED BY Zenon, <2>1, <2>2 DEF ValidatedInv, Monotone, HasBlockBody, None
  <1>8. CASE SignalExit \/ HdrReceive \/ HdrPassExit \/ BodyReceive \/ BodyPassExit \/ \E t \in Task : Submit(t)
    BY Zenon, <1>1, <1>8 DEF SignalExit, HdrReceive, HdrPassExit, BodyReceive, BodyPassExit, Submit, storeVars
  <1>9. ASSUME NEW b \in Block, HdrTryBegin(b) \/ BodyTryBegin(b) PROVE ValidatedInv' /\ Monotone
    BY Zenon, <1>1, <1>9 DEF HdrTryBegin, BodyTryBegin, storeVars
  <1>10. CASE VirtReceive \/ VirtAnswer \/ VirtPassExit \/ Shutdown \/ UNCHANGED vars
    BY Zenon, <1>1, <1>10 DEF VirtReceive, VirtAnswer, VirtPassExit, Shutdown, vars, storeVars
  <1>. QED BY Zenon, <1>2, <1>3, <1>4, <1>5, <1>6, <1>7, <1>8, <1>9, <1>10 DEF Next

-----------------------------------------------------------------------------
(* Acceptance: what becomes of the soundly submitted tasks. *)

(* Tasks are registered in submission order; what is in the body processor *)
(* or was answered has been registered before.                             *)
OrderInv ==
    /\ \A t \in hdrRegistered : WasSubmitted(t)
    /\ \A t \in hdrRegistered : \A u \in Task : Precedes(u, t) => u \in hdrBefore[t]
    /\ In(bodyChan) \cup bodyRegistered \subseteq hdrRegistered \cup {Exit}
    /\ \A t \in Task \ hdrRegistered : answer[t].block = None /\ answer[t].virtual = None

(* Only a block that breaks a rule of its own is marked invalid. *)
MarkedInv ==
    \A b \in Block : status[b] = "Invalid" => HeaderRule[b] = "postPow" \/ BodyRule[b] # "ok"

(* The header of a soundly submitted task is never refused ... *)
HdrRun ==
    \A b \in Block :
        /\ ~hdrTaken[b] => hdrRes[b] = None
        /\ hdrTaken[b] /\ Head(hdrPending[b]) \in SoundlySubmitted => hdrRes[b] \notin Errors

HdrDone == \A t \in hdrEnded \cap SoundlySubmitted : t \in In(bodyChan) \cup bodyRegistered

(* ... and comes to the body processor after its parents ... *)
ComesAfter(t, u) ==
    /\ t \in bodyRegistered => u \in bodyBefore[t]
    /\ \A j \in 1 .. Len(bodyChan) : bodyChan[j] = t =>
          u \in bodyRegistered \/ \E i \in 1 .. Len(bodyChan) : i < j /\ bodyChan[i] = u

BodyOrder ==
    \A t, u \in SoundlySubmitted :
        Precedes(u, t) /\ BlockOf[u] \in DirectParents[BlockOf[t]] => ComesAfter(t, u)

(* ... which does not refuse it either. *)
BodyRun ==
    \A b \in Block :
        /\ ~bodyTaken[b] => bodyRes[b] = None
        /\ bodyTaken[b] /\ Head(bodyPending[b]) \in SoundlySubmitted /\ bodyRes[b] \notin {None, "validated"} =>
              HasBlockBody(bodyRes[b]) /\ HasBlockBody(status[b])

BodyDone == \A t \in bodyEnded \cap SoundlySubmitted : HasBlockBody(status[BlockOf[t]])

AcceptInv ==
    /\ OrderInv /\ MarkedInv /\ HdrRun /\ HdrDone /\ BodyOrder /\ BodyRun /\ BodyDone
    /\ TopologicalSubmissionAccepted

(* What acceptance relies on in a manager. *)
RunFacts(pending, taken, before, ended) ==
    \A b \in Block : taken[b] =>
        /\ pending[b] # <<>>
        /\ \A u \in before[Head(pending[b])] : BlockOf[u] \in DirectParents[b] => u \in ended

HdrRunFacts == Hdr!TypeOK /\ RunFacts(hdrPending, hdrTaken, hdrBefore, hdrEnded)
BodyRunFacts == Body!TypeOK /\ RunFacts(bodyPending, bodyTaken, bodyBefore, bodyEnded)

LEMMA SoundTask ==
    ASSUME NEW t \in SoundlySubmitted
    PROVE  /\ t \in Task /\ IsSound(t) /\ WasSubmitted(t)
           /\ \A p \in DirectParents[BlockOf[t]] :
                 \E u \in SoundlySubmitted : BlockOf[u] = p /\ Precedes(u, t)
  BY Zenon DEF SoundlySubmitted

(* Only the new submission joins them; the order of the others stays. *)
LEMMA AppendOrder ==
    ASSUME Types, NEW m \in Message, \A i \in 1 .. Len(submitted) : submitted[i] # m,
           submitted' = Append(submitted, m)
    PROVE  /\ \A t : WasSubmitted(t) => WasSubmitted(t)' /\ t # m
           /\ \A t : WasSubmitted(t)' => WasSubmitted(t) \/ t = m
           /\ \A t, u : Precedes(u, t)' /\ t # m => Precedes(u, t)
           /\ \A t, u : Precedes(u, t) => Precedes(u, t)' /\ u # m
  <1>1. /\ Len(submitted) \in Nat /\ Len(submitted') = Len(submitted) + 1
        /\ \A i \in 1 .. Len(submitted) : submitted'[i] = submitted[i]
        /\ submitted'[Len(submitted) + 1] = m
    BY DEF Types
  <1>2. \A i \in 1 .. Len(submitted') : i \in 1 .. Len(submitted) \/ submitted'[i] = m
    BY <1>1
  <1>3. \A i \in 1 .. Len(submitted) : i \in 1 .. Len(submitted')
    BY <1>1
  <1>4. /\ \A t : WasSubmitted(t) => WasSubmitted(t)' /\ t # m
        /\ \A t : WasSubmitted(t)' => WasSubmitted(t) \/ t = m
    BY Zenon, <1>1, <1>2, <1>3 DEF WasSubmitted
  <1>5. ASSUME NEW t, NEW u, Precedes(u, t)', t # m PROVE Precedes(u, t)
    <2>1. PICK i, j \in 1 .. Len(submitted') : i < j /\ submitted'[i] = u /\ submitted'[j] = t
      BY Zenon, <1>5 DEF Precedes
    <2>2. j \in 1 .. Len(submitted)
      BY Zenon, <1>2, <1>5, <2>1
    <2>3. i \in 1 .. Len(submitted)
      BY <1>1, <2>1, <2>2
    <2>. QED BY Zenon, <1>1, <2>1, <2>2, <2>3 DEF Precedes
  <1>6. ASSUME NEW t, NEW u, Precedes(u, t) PROVE Precedes(u, t)' /\ u # m
    BY Zenon, <1>1, <1>3, <1>6 DEF Precedes
  <1>. QED BY Zenon, <1>4, <1>5, <1>6

LEMMA AppendSound ==
    ASSUME Types, NEW m \in Message, \A i \in 1 .. Len(submitted) : submitted[i] # m,
           submitted' = Append(submitted, m), NEW t \in SoundlySubmitted', t # m
    PROVE  t \in SoundlySubmitted
  <1>. DEFINE Grounded(S) == \A x \in S :
              /\ WasSubmitted(x) /\ ~Precedes(Exit, x) /\ IsSound(x)
              /\ \A p \in DirectParents[BlockOf[x]] : \E u \in S : BlockOf[u] = p /\ Precedes(u, x)
  <1>1. PICK S \in SUBSET Task :
              /\ t \in S
              /\ \A x \in S :
                    /\ WasSubmitted(x)' /\ ~Precedes(Exit, x)' /\ IsSound(x)
                    /\ \A p \in DirectParents[BlockOf[x]] : \E u \in S : BlockOf[u] = p /\ Precedes(u, x)'
    BY Zenon DEF SoundlySubmitted, IsSound
  <1>2. Grounded(S \ {m})
    <2>. SUFFICES ASSUME NEW x \in S \ {m}
                  PROVE  /\ WasSubmitted(x) /\ ~Precedes(Exit, x) /\ IsSound(x)
                         /\ \A p \in DirectParents[BlockOf[x]] :
                               \E u \in S \ {m} : BlockOf[u] = p /\ Precedes(u, x)
      OBVIOUS
    <2>1. WasSubmitted(x) /\ ~Precedes(Exit, x) /\ IsSound(x)
      BY Zenon, <1>1, AppendOrder
    <2>2. ASSUME NEW p \in DirectParents[BlockOf[x]]
          PROVE  \E u \in S \ {m} : BlockOf[u] = p /\ Precedes(u, x)
      <3>1. PICK u \in S : BlockOf[u] = p /\ Precedes(u, x)'
        BY Zenon, <1>1
      <3>2. Precedes(u, x) /\ u # m
        BY Zenon, <3>1, AppendOrder
      <3>. QED BY Zenon, <3>1, <3>2
    <2>. QED BY Zenon, <2>1, <2>2
  <1>3. S \ {m} \in SUBSET Task /\ t \in S \ {m}
    BY Zenon, <1>1
  <1>. QED BY <1>2, <1>3, Zenon DEF SoundlySubmitted

LEMMA SameOrder ==
    ASSUME submitted' = submitted
    PROVE  /\ SoundlySubmitted' = SoundlySubmitted
           /\ \A t : WasSubmitted(t)' <=> WasSubmitted(t)
           /\ \A t, u : Precedes(u, t)' <=> Precedes(u, t)
  <1>1. /\ \A t : WasSubmitted(t)' <=> WasSubmitted(t)
        /\ \A t, u : Precedes(u, t)' <=> Precedes(u, t)
    BY Zenon DEF WasSubmitted, Precedes
  <1>2. SoundlySubmitted' = SoundlySubmitted
    BY <1>1 DEF SoundlySubmitted, IsSound
  <1>. QED BY Zenon, <1>1, <1>2

(* What each part of the invariant looks at. *)
LEMMA Frames ==
    ASSUME AcceptInv, submitted' = submitted
    PROVE  /\ UNCHANGED <<hdrRegistered, hdrBefore, bodyChan, bodyRegistered, answer>> => OrderInv'
           /\ UNCHANGED status => MarkedInv'
           /\ UNCHANGED <<hdrTaken, hdrPending, hdrRes>> => HdrRun'
           /\ UNCHANGED <<hdrEnded, bodyChan, bodyRegistered>> => HdrDone'
           /\ UNCHANGED <<bodyRegistered, bodyBefore, bodyChan>> => BodyOrder'
           /\ UNCHANGED <<bodyTaken, bodyPending, bodyRes, status>> => BodyRun'
           /\ UNCHANGED <<bodyEnded, status>> => BodyDone'
           /\ UNCHANGED answer => TopologicalSubmissionAccepted'
  <1>1. /\ SoundlySubmitted' = SoundlySubmitted
        /\ \A t : WasSubmitted(t)' <=> WasSubmitted(t)
        /\ \A t, u : Precedes(u, t)' <=> Precedes(u, t)
    BY SameOrder
  <1>2. UNCHANGED <<hdrRegistered, hdrBefore, bodyChan, bodyRegistered, answer>> => OrderInv'
    BY Zenon, <1>1 DEF AcceptInv, OrderInv, In
  <1>3. UNCHANGED status => MarkedInv'
    BY DEF AcceptInv, MarkedInv
  <1>4. UNCHANGED <<hdrTaken, hdrPending, hdrRes>> => HdrRun'
    BY Zenon, <1>1 DEF AcceptInv, HdrRun
  <1>5. UNCHANGED <<hdrEnded, bodyChan, bodyRegistered>> => HdrDone'
    BY <1>1 DEF AcceptInv, HdrDone, In
  <1>6. UNCHANGED <<bodyRegistered, bodyBefore, bodyChan>> => BodyOrder'
    <2>1. UNCHANGED <<bodyRegistered, bodyBefore, bodyChan>> => \A t, u : ComesAfter(t, u) => ComesAfter(t, u)'
      BY DEF ComesAfter
    <2>. QED BY Zenon, <1>1, <2>1 DEF AcceptInv, BodyOrder
  <1>7. UNCHANGED <<bodyTaken, bodyPending, bodyRes, status>> => BodyRun'
    BY Zenon, <1>1 DEF AcceptInv, BodyRun, HasBlockBody
  <1>8. UNCHANGED <<bodyEnded, status>> => BodyDone'
    BY Zenon, <1>1 DEF AcceptInv, BodyDone, HasBlockBody
  <1>9. UNCHANGED answer => TopologicalSubmissionAccepted'
    BY Zenon, <1>1 DEF AcceptInv, TopologicalSubmissionAccepted, HasBlockBody
  <1>. QED BY <1>2, <1>3, <1>4, <1>5, <1>6, <1>7, <1>8, <1>9

(* A step that changes nothing the invariant looks at. *)
LEMMA FrameAccept ==
    ASSUME AcceptInv,
           UNCHANGED <<hdrPending, hdrTaken, hdrRegistered, hdrBefore, hdrEnded, hdrRes,
                       bodyPending, bodyTaken, bodyRegistered, bodyBefore, bodyEnded, bodyRes,
                       bodyChan, status, answer, submitted>>
    PROVE  AcceptInv'
  BY Frames DEF AcceptInv

(* A new submission has been nowhere yet. *)
LEMMA EnterAccept ==
    ASSUME Types, AcceptInv, HdrFacts, BodyFacts, NEW m \in Message,
           \A i \in 1 .. Len(submitted) : submitted[i] # m,
           submitted' = Append(submitted, m),
           UNCHANGED <<hdrVars, bodyVars, storeVars, bodyChan, hdrRes, bodyRes, answer>>
    PROVE  AcceptInv'
  <1>1. UNCHANGED <<hdrPending, hdrTaken, hdrRegistered, hdrBefore, hdrEnded, hdrRes,
                    bodyPending, bodyTaken, bodyRegistered, bodyBefore, bodyEnded, bodyRes,
                    bodyChan, status, answer>>
    BY Zenon DEF hdrVars, bodyVars, storeVars
  <1>2. /\ \A t : WasSubmitted(t) => WasSubmitted(t)' /\ t # m
        /\ \A t, u : Precedes(u, t)' /\ t # m => Precedes(u, t) /\ u # m
    BY Zenon, AppendOrder
  <1>3. \A t \in SoundlySubmitted' : t # m => t \in SoundlySubmitted
    BY AppendSound
  <1>4. \A t \in SoundlySubmitted' : t \in Task /\ t # Exit
    BY Zenon, ExitIsNoTask DEF SoundlySubmitted
  <1>5. \A t \in hdrRegistered : t # m
    BY Zenon, <1>2 DEF AcceptInv, OrderInv
  <1>6. \A t \in SoundlySubmitted' : t \in hdrRegistered => t \in SoundlySubmitted
    BY <1>3, <1>5
  <1>7. /\ In(bodyChan) \cup bodyRegistered \subseteq hdrRegistered \cup {Exit}
        /\ hdrEnded \subseteq hdrRegistered /\ bodyEnded \subseteq bodyRegistered
    BY Zenon DEF AcceptInv, OrderInv, HdrFacts, BodyFacts, ManagerFacts
  <1>8. OrderInv' /\ MarkedInv'
    BY Zenon, <1>1, <1>2, <1>5 DEF AcceptInv, OrderInv, MarkedInv, In
  <1>9. HdrRun' /\ HdrDone'
    <2>1. HdrRun'
      BY Zenon, <1>1, <1>6 DEF AcceptInv, HdrRun, HdrFacts, ManagerFacts
    <2>2. HdrDone'
      BY Zenon, <1>1, <1>6, <1>7 DEF AcceptInv, HdrDone, In
    <2>. QED BY Zenon, <2>1, <2>2
  <1>10. BodyOrder'
    <2>. SUFFICES ASSUME NEW t \in SoundlySubmitted', NEW u \in SoundlySubmitted', Precedes(u, t)',
                         BlockOf[u] \in DirectParents[BlockOf[t]]
                  PROVE  ComesAfter(t, u)'
      BY Zenon DEF BodyOrder
    <2>1. CASE t \in bodyRegistered \cup In(bodyChan)
      <3>1. t \in hdrRegistered
        BY Zenon, <1>4, <1>7, <2>1
      <3>2. t \in SoundlySubmitted /\ Precedes(u, t) /\ u \in SoundlySubmitted
        BY Zenon, <1>2, <1>3, <1>5, <3>1
      <3>3. ComesAfter(t, u)
        BY Zenon, <3>2 DEF AcceptInv, BodyOrder
      <3>. QED BY Zenon, <1>1, <3>3 DEF ComesAfter
    <2>2. CASE t \notin bodyRegistered \cup In(bodyChan)
      BY Zenon, <1>1, <2>2 DEF ComesAfter, In
    <2>. QED BY Zenon, <2>1, <2>2
  <1>11. BodyRun' /\ BodyDone'
    <2>1. \A t \in bodyRegistered : t \in SoundlySubmitted' => t \in SoundlySubmitted
      BY <1>4, <1>6, <1>7
    <2>. QED BY Zenon, <1>1, <1>7, <2>1 DEF AcceptInv, BodyRun, BodyDone, HasBlockBody, BodyFacts, ManagerFacts
  <1>12. TopologicalSubmissionAccepted'
    <2>1. \A t \in SoundlySubmitted' : t = m => answer[t].block = None /\ answer[t].virtual = None
      BY Zenon, <1>4, <1>5 DEF AcceptInv, OrderInv
    <2>. QED BY Zenon, <1>1, <1>3, <2>1 DEF AcceptInv, TopologicalSubmissionAccepted, HasBlockBody
  <1>. QED BY Zenon, <1>8, <1>9, <1>10, <1>11, <1>12 DEF AcceptInv

(* The worker of the header processor registers in submission order. *)
LEMMA HdrReceiveAccept ==
    ASSUME ChannelsInv, AcceptInv, HdrRunFacts, HdrReceive
    PROVE  AcceptInv'
  <1>. DEFINE t == Head(blockChan)
  <1>1. UNCHANGED <<hdrTaken, hdrEnded, hdrRes, bodyPending, bodyTaken, bodyRegistered, bodyBefore, bodyEnded, bodyRes,
                    bodyChan, status, answer, submitted>>
    BY Zenon DEF HdrReceive, Hdr!WaitForIdle, Hdr!Register, bodyVars, storeVars
  <1>2. CASE t = Exit
    <2>1. UNCHANGED <<hdrPending, hdrRegistered, hdrBefore>>
      BY Zenon, <1>2 DEF HdrReceive, Hdr!WaitForIdle
    <2>. QED BY Zenon, <1>1, <2>1, FrameAccept
  <1>3. CASE t # Exit
    <2>1. /\ hdrPending' = [hdrPending EXCEPT ![BlockOf[t]] = Append(@, t)]
          /\ hdrRegistered' = hdrRegistered \cup {t} /\ t \notin hdrRegistered
          /\ hdrBefore' = [hdrBefore EXCEPT ![t] = hdrRegistered]
      BY Zenon, <1>3 DEF HdrReceive, Hdr!Register
    <2>2. t \in Task
      BY Zenon, <1>3, TailIn DEF HdrReceive, ChannelsInv, Types, Message
    <2>3. /\ Received \in Nat /\ Received + 1 \in 1 .. Len(submitted) /\ submitted[Received + 1] = t
          /\ \A i \in 1 .. Received : submitted[i] \in hdrRegistered \cup {Exit}
      <3>1. /\ blockChan \in Seq(Message) /\ submitted \in Seq(Message) /\ blockChan # <<>>
            /\ Len(blockChan) \in Nat /\ Len(submitted) \in Nat
        BY Zenon, LenProperties DEF ChannelsInv, Types, HdrReceive
      <3>2. Len(blockChan) # 0 /\ t = blockChan[1]
        BY <3>1, EmptySeq, HeadTailProperties
      <3>. HIDE DEF t
      <3>. QED BY <3>1, <3>2 DEF ChannelsInv, SubmittedInv, Received
    <2>. HIDE DEF t
    <2>4. /\ SoundlySubmitted' = SoundlySubmitted
          /\ \A x : WasSubmitted(x)' <=> WasSubmitted(x)
          /\ \A x, u : Precedes(u, x)' <=> Precedes(u, x)
      BY Zenon, <1>1, SameOrder
    <2>5. ASSUME NEW u \in Task, Precedes(u, t) PROVE u \in hdrRegistered
      <3>1. PICK i, j \in 1 .. Len(submitted) : i < j /\ submitted[i] = u /\ submitted[j] = t
        BY <2>5 DEF Precedes
      <3>2. j = Received + 1
        BY Zenon, <2>3, <3>1 DEF ChannelsInv, SubmittedInv
      <3>3. i \in 1 .. Received
        BY <2>3, <3>1, <3>2
      <3>. QED BY <2>3, <3>1, <3>3, ExitIsNoTask
    <2>6. OrderInv'
      <3>1. WasSubmitted(t)
        BY Zenon, <2>3 DEF WasSubmitted
      <3>2. hdrBefore'[t] = hdrRegistered /\ \A x \in hdrRegistered : hdrBefore'[x] = hdrBefore[x]
        BY <2>1, <2>2 DEF HdrRunFacts, Hdr!TypeOK
      <3>3. \A x \in hdrRegistered' : \A u \in Task : Precedes(u, x) => u \in hdrBefore'[x]
        BY Zenon, <2>1, <2>5, <3>2 DEF AcceptInv, OrderInv
      <3>. QED BY Zenon, <1>1, <2>1, <2>4, <3>1, <3>3 DEF AcceptInv, OrderInv, In
    <2>7. HdrRun'
      <3>1. \A b \in Block : hdrTaken[b] => Head(hdrPending'[b]) = Head(hdrPending[b])
        <4>. SUFFICES ASSUME NEW b \in Block, hdrTaken[b] PROVE Head(hdrPending'[b]) = Head(hdrPending[b])
          OBVIOUS
        <4>1. hdrPending[b] \in Seq(Task) /\ hdrPending[b] # <<>> /\ DOMAIN hdrPending = Block
          BY Zenon DEF HdrRunFacts, RunFacts, Hdr!TypeOK
        <4>2. Head(Append(hdrPending[b], t)) = Head(hdrPending[b])
          BY Zenon, <2>2, <4>1, FirstStays
        <4>. QED BY <2>1, <4>1, <4>2
      <3>. QED BY Zenon, <1>1, <2>4, <3>1 DEF AcceptInv, HdrRun
    <2>8. MarkedInv' /\ HdrDone' /\ BodyOrder' /\ BodyRun' /\ BodyDone' /\ TopologicalSubmissionAccepted'
      BY Zenon, <1>1, Frames
    <2>. QED BY <2>6, <2>7, <2>8 DEF AcceptInv
  <1>. QED BY <1>2, <1>3

(* A block that begins has no result yet. *)
LEMMA HdrTryBeginAccept ==
    ASSUME AcceptInv, HdrRunFacts, NEW b \in Block, HdrTryBegin(b)
    PROVE  AcceptInv'
  <1>1. UNCHANGED <<hdrPending, hdrRegistered, hdrBefore, hdrEnded, hdrRes,
                    bodyPending, bodyTaken, bodyRegistered, bodyBefore, bodyEnded, bodyRes,
                    bodyChan, status, answer, submitted>>
    BY Zenon DEF HdrTryBegin, Hdr!TryBegin, Hdr!Postpone, Hdr!Begin, bodyVars, storeVars
  <1>2. hdrTaken' = hdrTaken \/ hdrTaken' = [hdrTaken EXCEPT ![b] = TRUE]
    BY Zenon DEF HdrTryBegin, Hdr!TryBegin, Hdr!Postpone, Hdr!Begin
  <1>3. SoundlySubmitted' = SoundlySubmitted
    BY <1>1, SameOrder
  <1>4. \A c \in Block : hdrTaken[c] => hdrTaken'[c]
    BY Zenon, <1>2 DEF HdrRunFacts, Hdr!TypeOK
  <1>5. None \notin Errors
    BY DEF None, Errors
  <1>6. HdrRun'
    BY Zenon, <1>1, <1>3, <1>4, <1>5 DEF AcceptInv, HdrRun
  <1>. QED BY Zenon, <1>1, <1>6, Frames DEF AcceptInv

LEMMA BodyTryBeginAccept ==
    ASSUME AcceptInv, BodyRunFacts, NEW b \in Block, BodyTryBegin(b)
    PROVE  AcceptInv'
  <1>1. UNCHANGED <<hdrPending, hdrTaken, hdrRegistered, hdrBefore, hdrEnded, hdrRes,
                    bodyPending, bodyRegistered, bodyBefore, bodyEnded, bodyRes,
                    bodyChan, status, answer, submitted>>
    BY Zenon DEF BodyTryBegin, Body!TryBegin, Body!Postpone, Body!Begin, hdrVars, storeVars
  <1>2. bodyTaken' = bodyTaken \/ bodyTaken' = [bodyTaken EXCEPT ![b] = TRUE]
    BY DEF BodyTryBegin, Body!TryBegin, Body!Postpone, Body!Begin
  <1>3. SoundlySubmitted' = SoundlySubmitted
    BY <1>1, SameOrder
  <1>4. \A c \in Block : bodyTaken[c] => bodyTaken'[c]
    BY Zenon, <1>2 DEF BodyRunFacts, Body!TypeOK
  <1>5. BodyRun'
    BY Zenon, <1>1, <1>3, <1>4 DEF AcceptInv, BodyRun, HasBlockBody
  <1>. QED BY Zenon, <1>1, <1>5, Frames DEF AcceptInv

(* The parents of a soundly submitted task are registered before it, so     *)
(* they have ended when it runs, and none of them was refused.              *)
LEMMA SoundHeader ==
    ASSUME ChannelsInv, AcceptInv, HdrFacts, HdrRunFacts, NEW b \in Block, hdrTaken[b],
           Head(hdrPending[b]) \in SoundlySubmitted
    PROVE  ValidateHeader(Head(hdrPending[b])) = "ok"
  <1>. DEFINE t == Head(hdrPending[b])
  <1>1. /\ t \in Task /\ IsSound(t) /\ t \in hdrRegistered /\ BlockOf[t] = b
        /\ \A p \in DirectParents[BlockOf[t]] : \E u \in SoundlySubmitted : BlockOf[u] = p /\ Precedes(u, t)
    BY Zenon, SoundTask DEF HdrFacts, ManagerFacts
  <1>2. \A u \in hdrBefore[t] : BlockOf[u] \in DirectParents[b] => u \in hdrEnded
    BY DEF HdrRunFacts, RunFacts
  <1>. HIDE DEF t
  <1>3. ASSUME NEW p \in DirectParents[b] PROVE status[p] # "Invalid" /\ status[p] # None
    <2>1. PICK u \in SoundlySubmitted : BlockOf[u] = p /\ Precedes(u, t)
      BY Zenon, <1>1, <1>3
    <2>2. u \in Task /\ IsSound(u) /\ p \in Block /\ u # Exit
      BY Zenon, <1>3, <2>1, SoundTask, DirectParentsType, ExitIsNoTask
    <2>3. u \in hdrEnded
      BY Zenon, <1>1, <1>2, <1>3, <2>1, <2>2 DEF AcceptInv, OrderInv
    <2>4. status[p] # None
      BY Zenon, <2>1, <2>2, <2>3 DEF AcceptInv, HdrDone, ChannelsInv, StatusInv
    <2>5. status[p] # "Invalid"
      BY Zenon, <2>1, <2>2 DEF AcceptInv, MarkedInv, IsSound
    <2>. QED BY Zenon, <2>4, <2>5
  <1>4. HeaderRule[b] # "isolation" /\ (t \in Trusted \/ HeaderRule[b] = "ok")
    BY <1>1 DEF IsSound
  <1>5. ValidateHeader(t) = "ok"
    BY Zenon, <1>1, <1>3, <1>4 DEF ValidateHeader
  <1>. QED BY <1>5 DEF t

(* What a step of the statuses keeps: a block with a body keeps one. *)
LEMMA StatusAccept ==
    ASSUME AcceptInv, MarkedInv',
           \A c \in Block : HasBlockBody(status[c]) => HasBlockBody(status'[c]),
           DOMAIN BlockOf = Task, \A t \in Task : BlockOf[t] \in Block,
           UNCHANGED <<hdrPending, hdrTaken, hdrRegistered, hdrBefore, hdrEnded,
                       bodyPending, bodyTaken, bodyRegistered, bodyBefore, bodyEnded,
                       bodyChan, answer, submitted>>
    PROVE  /\ OrderInv' /\ HdrDone' /\ BodyOrder' /\ BodyDone' /\ TopologicalSubmissionAccepted'
           /\ hdrRes' = hdrRes => HdrRun'
           /\ bodyRes' = bodyRes => BodyRun'
  <1>1. SoundlySubmitted' = SoundlySubmitted
    BY Zenon, SameOrder
  <1>2. OrderInv' /\ HdrDone' /\ BodyOrder' /\ TopologicalSubmissionAccepted' /\ (hdrRes' = hdrRes => HdrRun')
    BY Zenon, Frames
  <1>3. BodyDone'
    BY Zenon, <1>1, SoundTask DEF AcceptInv, BodyDone
  <1>4. bodyRes' = bodyRes => BodyRun'
    BY Zenon, <1>1 DEF AcceptInv, BodyRun, HasBlockBody
  <1>. QED BY Zenon, <1>2, <1>3, <1>4

LEMMA ProcessHeaderAccept ==
    ASSUME ChannelsInv, AcceptInv, HdrFacts, HdrRunFacts, NEW b \in Block, ProcessHeader(b)
    PROVE  AcceptInv'
  <1>. DEFINE t == Head(hdrPending[b])
              v == ValidateHeader(t)
  <1>1. /\ hdrTaken[b] /\ hdrRes[b] = None
        /\ UNCHANGED <<hdrPending, hdrTaken, hdrRegistered, hdrBefore, hdrEnded,
                       bodyPending, bodyTaken, bodyRegistered, bodyBefore, bodyEnded, bodyRes,
                       bodyChan, answer, submitted>>
    BY Zenon DEF ProcessHeader, hdrVars, bodyVars
  <1>2. t \in SoundlySubmitted => v = "ok" /\ IsSound(t) /\ BlockOf[t] = b
    BY Zenon, <1>1, SoundHeader, SoundTask DEF HdrFacts, ManagerFacts
  <1>3. \/ /\ status[b] # None /\ status' = status
           /\ hdrRes' = [hdrRes EXCEPT ![b] = IF status[b] = "Invalid" THEN "KnownInvalid" ELSE status[b]]
        \/ /\ status[b] = None /\ v = "ok"
           /\ hdrRes' = [hdrRes EXCEPT ![b] = "validated"]
           /\ status' = status
        \/ /\ status[b] = None /\ v # "ok"
           /\ hdrRes' = [hdrRes EXCEPT ![b] = v]
           /\ status' = status \/ (HeaderRule[b] = "postPow" /\ status' = [status EXCEPT ![b] = "Invalid"])
    BY Zenon DEF ProcessHeader
  <1>. HIDE DEF v
  <1>4. SoundlySubmitted' = SoundlySubmitted
    BY Zenon, <1>1, SameOrder
  <1>5. status \in [Block -> Statuses \cup {None}] /\ hdrRes \in [Block -> Running]
    BY DEF ChannelsInv, Types
  <1>6. MarkedInv'
    BY Zenon, <1>3, <1>5 DEF AcceptInv, MarkedInv
  <1>7. \A c \in Block : HasBlockBody(status[c]) => HasBlockBody(status'[c])
    BY Zenon, <1>3, <1>5 DEF HasBlockBody, None
  <1>8. t \in SoundlySubmitted => hdrRes'[b] \notin Errors
    <2>. SUFFICES ASSUME t \in SoundlySubmitted PROVE hdrRes'[b] \notin Errors
      OBVIOUS
    <2>1. v = "ok" /\ status[b] # "Invalid"
      BY Zenon, <1>2 DEF AcceptInv, MarkedInv, IsSound
    <2>2. hdrRes'[b] \in Statuses \cup {"validated"}
      BY <1>3, <1>5, <2>1 DEF Statuses
    <2>. QED BY Zenon, <2>2 DEF Statuses, Errors
  <1>9. HdrRun'
    <2>1. \A c \in Block : c # b => hdrRes'[c] = hdrRes[c]
      BY <1>3, <1>5
    <2>. QED BY Zenon, <1>1, <1>4, <1>8, <2>1 DEF AcceptInv, HdrRun
  <1>. QED BY Zenon, <1>1, <1>6, <1>7, <1>9, StatusAccept, BlockOfType DEF AcceptInv

LEMMA CommitHeaderAccept ==
    ASSUME ChannelsInv, AcceptInv, ValidatedInv, NEW b \in Block, CommitHeader(b)
    PROVE  AcceptInv'
  <1>1. /\ hdrTaken[b] /\ status[b] = None
        /\ UNCHANGED <<hdrPending, hdrTaken, hdrRegistered, hdrBefore, hdrEnded,
                       bodyPending, bodyTaken, bodyRegistered, bodyBefore, bodyEnded, bodyRes,
                       bodyChan, answer, submitted>>
        /\ hdrRes' = [hdrRes EXCEPT ![b] = "HeaderOnly"] /\ status' = [status EXCEPT ![b] = "HeaderOnly"]
    BY Zenon DEF CommitHeader, ValidatedInv, hdrVars, bodyVars
  <1>2. status \in [Block -> Statuses \cup {None}] /\ hdrRes \in [Block -> Running]
    BY DEF ChannelsInv, Types
  <1>3. MarkedInv' /\ \A c \in Block : HasBlockBody(status[c]) => HasBlockBody(status'[c])
    BY Zenon, <1>1, <1>2 DEF AcceptInv, MarkedInv, HasBlockBody, None
  <1>4. HdrRun'
    <2>1. SoundlySubmitted' = SoundlySubmitted
      BY Zenon, <1>1, SameOrder
    <2>2. hdrRes'[b] \notin Errors /\ \A c \in Block : c # b => hdrRes'[c] = hdrRes[c]
      BY Zenon, <1>1, <1>2 DEF Errors
    <2>. QED BY Zenon, <1>1, <2>1, <2>2 DEF AcceptInv, HdrRun
  <1>. QED BY Zenon, <1>1, <1>3, <1>4, StatusAccept, BlockOfType DEF AcceptInv

(* What is sent to the body processor comes after what it depends on. *)
LEMMA SendAccept ==
    ASSUME AcceptInv, Types, NEW m \in Message, bodyChan' = Append(bodyChan, m),
           m \in SoundlySubmitted => \A u \in SoundlySubmitted :
              Precedes(u, m) /\ BlockOf[u] \in DirectParents[BlockOf[m]] => u \in In(bodyChan) \cup bodyRegistered,
           UNCHANGED <<bodyRegistered, bodyBefore, submitted>>
    PROVE  BodyOrder' /\ In(bodyChan') = In(bodyChan) \cup {m}
  <1>1. /\ SoundlySubmitted' = SoundlySubmitted
        /\ \A t, u : Precedes(u, t)' <=> Precedes(u, t)
    BY Zenon, SameOrder
  <1>2. bodyChan \in Seq(Message)
    BY Zenon DEF Types
  <1>3. /\ \A i \in 1 .. Len(bodyChan) : i \in 1 .. Len(bodyChan') /\ bodyChan'[i] = bodyChan[i]
        /\ \A j \in 1 .. Len(bodyChan') :
              j \in 1 .. Len(bodyChan) \/ (bodyChan'[j] = m /\ \A i \in 1 .. Len(bodyChan) : i < j)
    <2>1. OnePlaceMore(bodyChan, m, bodyChan')
      BY Zenon, <1>2, AppendAt
    <2>. QED BY Zenon, <2>1 DEF OnePlaceMore
  <1>4. BodyOrder'
    <2>. SUFFICES ASSUME NEW t \in SoundlySubmitted, NEW u \in SoundlySubmitted, Precedes(u, t),
                         BlockOf[u] \in DirectParents[BlockOf[t]]
                  PROVE  ComesAfter(t, u)'
      BY Zenon, <1>1 DEF BodyOrder
    <2>1. ComesAfter(t, u)
      BY Zenon DEF AcceptInv, BodyOrder
    <2>2. ASSUME NEW j \in 1 .. Len(bodyChan'), bodyChan'[j] = t, u \notin bodyRegistered
          PROVE  \E i \in 1 .. Len(bodyChan') : i < j /\ bodyChan'[i] = u
      <3>1. CASE j \in 1 .. Len(bodyChan)
        <4>1. bodyChan[j] = t
          BY Zenon, <1>3, <2>2, <3>1
        <4>2. PICK i \in 1 .. Len(bodyChan) : i < j /\ bodyChan[i] = u
          BY Zenon, <2>1, <2>2, <3>1, <4>1 DEF ComesAfter
        <4>. QED BY Zenon, <1>3, <4>2
      <3>2. CASE j \notin 1 .. Len(bodyChan)
        <4>1. t = m /\ \A i \in 1 .. Len(bodyChan) : i < j
          BY Zenon, <1>3, <2>2, <3>2
        <4>2. PICK i \in 1 .. Len(bodyChan) : bodyChan[i] = u
          BY Zenon, <2>2, <4>1 DEF In
        <4>. QED BY Zenon, <1>3, <4>1, <4>2
      <3>. QED BY Zenon, <3>1, <3>2
    <2>. QED BY Zenon, <2>1, <2>2 DEF ComesAfter
  <1>5. In(bodyChan') = In(bodyChan) \cup {m}
    BY Zenon, AppendIn DEF Types
  <1>. QED BY Zenon, <1>4, <1>5

LEMMA HdrPassExitAccept ==
    ASSUME ChannelsInv, AcceptInv, HdrPassExit
    PROVE  AcceptInv'
  <1>1. /\ UNCHANGED <<hdrPending, hdrTaken, hdrRegistered, hdrBefore, hdrEnded, hdrRes,
                       bodyPending, bodyTaken, bodyRegistered, bodyBefore, bodyEnded, bodyRes,
                       status, answer, submitted>>
        /\ bodyChan' = Append(bodyChan, Exit)
    BY Zenon DEF HdrPassExit, Hdr!PassExit, bodyVars, storeVars
  <1>2. /\ SoundlySubmitted' = SoundlySubmitted
        /\ \A t : WasSubmitted(t)' <=> WasSubmitted(t)
        /\ \A t, u : Precedes(u, t)' <=> Precedes(u, t)
    BY Zenon, <1>1, SameOrder
  <1>3. Exit \in Message /\ Exit \notin SoundlySubmitted
    BY ExitIsNoTask, SoundTask DEF Message
  <1>4. BodyOrder' /\ In(bodyChan') = In(bodyChan) \cup {Exit}
    BY Zenon, <1>1, <1>3, SendAccept DEF ChannelsInv
  <1>5. OrderInv' /\ HdrDone'
    <2>1. In(bodyChan)' = In(bodyChan')
      BY Zenon DEF In
    <2>. QED BY Zenon, <1>1, <1>2, <1>4, <2>1 DEF AcceptInv, OrderInv, HdrDone
  <1>. QED BY Zenon, <1>1, <1>4, <1>5, Frames DEF AcceptInv

(* The header processor sends a soundly submitted task on. *)
LEMMA HdrEndAccept ==
    ASSUME ChannelsInv, AcceptInv, HdrFacts, HdrRunFacts, NEW b \in Block, HdrEnd(b)
    PROVE  AcceptInv'
  <1>. DEFINE t == Head(hdrPending[b])
  <1>1. /\ t \in hdrRegistered /\ t \in Task /\ BlockOf[t] = b /\ t \in Message
        /\ \A u \in hdrBefore[t] : BlockOf[u] \in DirectParents[b] => u \in hdrEnded
    BY Zenon DEF HdrEnd, HdrFacts, ManagerFacts, HdrRunFacts, RunFacts, Message
  <1>2. /\ hdrTaken' = [hdrTaken EXCEPT ![b] = FALSE]
        /\ hdrPending' = [hdrPending EXCEPT ![b] = Tail(@)]
        /\ hdrEnded' = hdrEnded \cup {t}
        /\ hdrRes' = [hdrRes EXCEPT ![b] = None]
        /\ UNCHANGED <<hdrRegistered, hdrBefore, bodyPending, bodyTaken, bodyRegistered, bodyBefore, bodyEnded, bodyRes,
                       status, submitted>>
    BY Zenon DEF HdrEnd, Hdr!End, bodyVars, storeVars
  <1>3. \/ /\ hdrRes[b] \in Errors \/ BodyOf[t] = "none"
           /\ \A x \in Task : x # t => answer'[x] = answer[x]
           /\ bodyChan' = bodyChan
        \/ /\ ~(hdrRes[b] \in Errors \/ BodyOf[t] = "none")
           /\ bodyChan' = Append(bodyChan, t) /\ answer' = answer
    BY Zenon DEF HdrEnd, ChannelsInv, Types
  <1>4. t \in SoundlySubmitted => ~(hdrRes[b] \in Errors \/ BodyOf[t] = "none")
    BY Zenon, SoundTask DEF HdrEnd, AcceptInv, HdrRun, IsSound
  <1>5. /\ SoundlySubmitted' = SoundlySubmitted
        /\ \A x : WasSubmitted(x)' <=> WasSubmitted(x)
        /\ \A x, u : Precedes(u, x)' <=> Precedes(u, x)
    BY <1>2, SameOrder
  <1>. HIDE DEF t
  <1>6. /\ BodyOrder'
        /\ In(bodyChan') = In(bodyChan) \/ In(bodyChan') = In(bodyChan) \cup {t}
        /\ t \in SoundlySubmitted => t \in In(bodyChan')
    <2>1. CASE bodyChan' = bodyChan /\ t \notin SoundlySubmitted
      <3>1. BodyOrder'
        BY Zenon, <1>2, <2>1, Frames
      <3>. QED BY <2>1, <3>1
    <2>2. CASE bodyChan' = Append(bodyChan, t)
      <3>1. \A u \in SoundlySubmitted : Precedes(u, t) /\ BlockOf[u] \in DirectParents[b] =>
               u \in In(bodyChan) \cup bodyRegistered
        BY Zenon, <1>1, SoundTask DEF AcceptInv, OrderInv, HdrDone
      <3>2. BodyOrder' /\ In(bodyChan') = In(bodyChan) \cup {t}
        BY Zenon, <1>1, <1>2, <2>2, <3>1, SendAccept DEF ChannelsInv
      <3>. QED BY <3>2
    <2>. QED BY Zenon, <1>3, <1>4, <2>1, <2>2
  <1>7. In(bodyChan)' = In(bodyChan')
    BY Zenon DEF In
  <1>8. \A x \in Task : answer'[x] = answer[x] \/ (x = t /\ t \notin SoundlySubmitted)
    BY Zenon, <1>3, <1>4
  <1>9. OrderInv'
    BY Zenon, <1>1, <1>2, <1>5, <1>6, <1>7, <1>8 DEF AcceptInv, OrderInv
  <1>10. HdrDone'
    BY Zenon, <1>2, <1>5, <1>6, <1>7 DEF AcceptInv, HdrDone
  <1>11. HdrRun'
    <2>1. /\ ~hdrTaken'[b] /\ hdrRes'[b] = None
          /\ \A c \in Block : c # b => hdrTaken'[c] = hdrTaken[c] /\ hdrPending'[c] = hdrPending[c] /\ hdrRes'[c] = hdrRes[c]
      BY Zenon, <1>2 DEF HdrRunFacts, Hdr!TypeOK, ChannelsInv, Types
    <2>. QED BY Zenon, <1>5, <2>1 DEF AcceptInv, HdrRun
  <1>12. MarkedInv' /\ BodyRun' /\ BodyDone'
    BY Zenon, <1>2, Frames
  <1>13. TopologicalSubmissionAccepted'
    BY Zenon, <1>5, <1>8, SoundTask DEF AcceptInv, TopologicalSubmissionAccepted, HasBlockBody
  <1>. QED BY <1>6, <1>9, <1>10, <1>11, <1>12, <1>13 DEF AcceptInv

(* The worker of the body processor registers in the order of its channel. *)
LEMMA BodyReceiveAccept ==
    ASSUME ChannelsInv, AcceptInv, BodyRunFacts, BodyReceive
    PROVE  AcceptInv'
  <1>. DEFINE m == Head(bodyChan)
  <1>1. /\ bodyChan # <<>> /\ bodyChan' = Tail(bodyChan)
        /\ UNCHANGED <<hdrPending, hdrTaken, hdrRegistered, hdrBefore, hdrEnded, hdrRes,
                       bodyTaken, bodyEnded, bodyRes, status, answer, submitted>>
    BY Zenon DEF BodyReceive, Body!WaitForIdle, Body!Register, hdrVars, storeVars
  <1>2. /\ m \in Message /\ In(bodyChan) = {m} \cup In(bodyChan')
        /\ 1 \in 1 .. Len(bodyChan) /\ bodyChan[1] = m /\ \A i \in 1 .. Len(bodyChan) : ~(i < 1)
        /\ \A j \in 1 .. Len(bodyChan') : j + 1 \in 1 .. Len(bodyChan) /\ bodyChan[j + 1] = bodyChan'[j]
        /\ \A i \in 1 .. Len(bodyChan), j \in 1 .. Len(bodyChan') : i < j + 1 /\ i # 1 =>
              i - 1 \in 1 .. Len(bodyChan') /\ i - 1 < j /\ bodyChan'[i - 1] = bodyChan[i]
    <2>1. bodyChan \in Seq(Message)
      BY Zenon DEF ChannelsInv, Types
    <2>. QED BY Zenon, <1>1, <2>1, TailIn, TailAt
  <1>3. /\ m = Exit => UNCHANGED <<bodyPending, bodyRegistered, bodyBefore>>
        /\ m # Exit => /\ bodyPending' = [bodyPending EXCEPT ![BlockOf[m]] = Append(@, m)]
                       /\ bodyRegistered' = bodyRegistered \cup {m} /\ m \notin bodyRegistered
                       /\ bodyBefore' = [bodyBefore EXCEPT ![m] = bodyRegistered]
    BY Zenon DEF BodyReceive, Body!WaitForIdle, Body!Register
  <1>. HIDE DEF m
  <1>4. /\ SoundlySubmitted' = SoundlySubmitted
        /\ \A x : WasSubmitted(x)' <=> WasSubmitted(x)
        /\ \A x, u : Precedes(u, x)' <=> Precedes(u, x)
    BY Zenon, <1>1, SameOrder
  <1>5. In(bodyChan)' = In(bodyChan')
    BY DEF In
  <1>6. \A x \in Task : x \in In(bodyChan) \cup bodyRegistered <=> x \in In(bodyChan') \cup bodyRegistered'
    BY Zenon, <1>2, <1>3, ExitIsNoTask
  <1>7. OrderInv'
    <2>1. In(bodyChan') \cup bodyRegistered' \subseteq hdrRegistered \cup {Exit}
      BY Zenon, <1>2, <1>3 DEF AcceptInv, OrderInv
    <2>. QED BY Zenon, <1>1, <1>4, <1>5, <2>1 DEF AcceptInv, OrderInv
  <1>8. HdrDone'
    BY Zenon, <1>1, <1>4, <1>5, <1>6, SoundTask DEF AcceptInv, HdrDone
  <1>9. BodyOrder'
    <2>. SUFFICES ASSUME NEW t \in SoundlySubmitted, NEW u \in SoundlySubmitted, Precedes(u, t),
                         BlockOf[u] \in DirectParents[BlockOf[t]]
                  PROVE  ComesAfter(t, u)'
      BY Zenon, <1>4 DEF BodyOrder
    <2>1. t \in Task /\ u \in Task /\ t # Exit /\ u # Exit
      BY Zenon, SoundTask, ExitIsNoTask
    <2>2. ComesAfter(t, u)
      BY Zenon DEF AcceptInv, BodyOrder
    <2>3. bodyRegistered' = bodyRegistered \/ bodyRegistered' = bodyRegistered \cup {m}
      BY Zenon, <1>3
    <2>4. t \in bodyRegistered' => u \in bodyBefore'[t]
      <3>1. CASE t = m
        <4>1. u \in bodyRegistered
          BY Zenon, <1>2, <2>2, <3>1 DEF ComesAfter
        <4>. QED BY Zenon, <1>3, <2>1, <3>1, <4>1 DEF BodyRunFacts, Body!TypeOK
      <3>2. CASE t # m
        <4>1. bodyBefore'[t] = bodyBefore[t]
          BY Zenon, <1>3, <2>1, <3>2 DEF BodyRunFacts, Body!TypeOK
        <4>2. t \in bodyRegistered' => t \in bodyRegistered
          BY Zenon, <2>3, <3>2
        <4>. QED BY Zenon, <2>2, <4>1, <4>2 DEF ComesAfter
      <3>. QED BY Zenon, <3>1, <3>2
    <2>5. ASSUME NEW j \in 1 .. Len(bodyChan'), bodyChan'[j] = t, u \notin bodyRegistered'
          PROVE  \E i \in 1 .. Len(bodyChan') : i < j /\ bodyChan'[i] = u
      <3>1. j + 1 \in 1 .. Len(bodyChan) /\ bodyChan[j + 1] = t
        BY Zenon, <1>2, <2>5
      <3>2. u \notin bodyRegistered /\ u # m
        BY Zenon, <1>3, <2>1, <2>5
      <3>3. PICK i \in 1 .. Len(bodyChan) : i < j + 1 /\ bodyChan[i] = u
        BY Zenon, <2>2, <3>1, <3>2 DEF ComesAfter
      <3>4. i # 1
        BY Zenon, <1>2, <3>2, <3>3
      <3>5. i - 1 \in 1 .. Len(bodyChan') /\ i - 1 < j /\ bodyChan'[i - 1] = u
        BY Zenon, <1>2, <3>3, <3>4
      <3>. QED BY Zenon, <3>5
    <2>. QED BY Zenon, <2>4, <2>5 DEF ComesAfter
  <1>10. BodyRun'
    <2>1. \A b \in Block : bodyTaken[b] => Head(bodyPending'[b]) = Head(bodyPending[b])
      <3>. SUFFICES ASSUME NEW b \in Block, bodyTaken[b] PROVE Head(bodyPending'[b]) = Head(bodyPending[b])
        OBVIOUS
      <3>1. bodyPending[b] \in Seq(Task) /\ bodyPending[b] # <<>> /\ DOMAIN bodyPending = Block
        BY DEF BodyRunFacts, RunFacts, Body!TypeOK
      <3>2. m # Exit => Head(Append(bodyPending[b], m)) = Head(bodyPending[b])
        <4>1. m # Exit => m \in Task
          BY <1>2 DEF Message
        <4>. QED BY Zenon, <3>1, <4>1, FirstStays
      <3>. QED BY Zenon, <1>3, <3>1, <3>2
    <2>. QED BY Zenon, <1>1, <1>4, <2>1 DEF AcceptInv, BodyRun, HasBlockBody
  <1>11. MarkedInv' /\ HdrRun' /\ BodyDone' /\ TopologicalSubmissionAccepted'
    BY Zenon, <1>1, Frames
  <1>. QED BY <1>7, <1>8, <1>9, <1>10, <1>11 DEF AcceptInv

LEMMA SoundBody ==
    ASSUME ChannelsInv, AcceptInv, BodyFacts, BodyRunFacts, NEW b \in Block, bodyTaken[b],
           Head(bodyPending[b]) \in SoundlySubmitted
    PROVE  /\ ValidateBody(Head(bodyPending[b])) = "ok"
           /\ status[b] # "Invalid" /\ status[b] # None
  <1>. DEFINE t == Head(bodyPending[b])
  <1>1. /\ t \in Task /\ IsSound(t) /\ t \in bodyRegistered /\ BlockOf[t] = b
        /\ \A p \in DirectParents[BlockOf[t]] : \E u \in SoundlySubmitted : BlockOf[u] = p /\ Precedes(u, t)
    BY Zenon, SoundTask DEF BodyFacts, ManagerFacts
  <1>2. \A u \in bodyBefore[t] : BlockOf[u] \in DirectParents[b] => u \in bodyEnded
    BY DEF BodyRunFacts, RunFacts
  <1>. HIDE DEF t
  <1>3. ASSUME NEW p \in DirectParents[b] PROVE HasBlockBody(status[p])
    <2>1. PICK u \in SoundlySubmitted : BlockOf[u] = p /\ Precedes(u, t)
      BY <1>1, <1>3
    <2>2. u \in bodyBefore[t]
      BY Zenon, <1>1, <1>3, <2>1 DEF AcceptInv, BodyOrder, ComesAfter, t
    <2>. QED BY Zenon, <1>2, <1>3, <2>1, <2>2 DEF AcceptInv, BodyDone
  <1>4. BodyRule[b] = "ok" /\ HeaderRule[b] # "postPow" /\ BodyOf[t] = "match"
    BY Zenon, <1>1 DEF IsSound
  <1>5. ValidateBody(t) = "ok"
    BY <1>1, <1>3, <1>4 DEF ValidateBody
  <1>6. status[b] # "Invalid" /\ status[b] # None
    BY Zenon, <1>1, <1>4 DEF AcceptInv, MarkedInv, ChannelsInv, StatusInv
  <1>. QED BY Zenon, <1>5, <1>6 DEF t

LEMMA ProcessBodyAccept ==
    ASSUME ChannelsInv, AcceptInv, BodyFacts, BodyRunFacts, NEW b \in Block, ProcessBody(b)
    PROVE  AcceptInv'
  <1>. DEFINE t == Head(bodyPending[b])
              v == ValidateBody(t)
  <1>1. /\ bodyTaken[b] /\ bodyRes[b] = None /\ BlockOf[t] = b
        /\ UNCHANGED <<hdrPending, hdrTaken, hdrRegistered, hdrBefore, hdrEnded, hdrRes,
                       bodyPending, bodyTaken, bodyRegistered, bodyBefore, bodyEnded,
                       bodyChan, answer, submitted>>
    BY Zenon DEF ProcessBody, hdrVars, bodyVars, BodyFacts, ManagerFacts
  <1>2. t \in SoundlySubmitted => v = "ok" /\ status[b] # "Invalid" /\ status[b] # None
    BY Zenon, <1>1, SoundBody
  <1>3. \/ /\ status[b] # "HeaderOnly" /\ status' = status
           /\ bodyRes' = [bodyRes EXCEPT ![b] = IF status[b] = "Invalid" THEN "KnownInvalid" ELSE status[b]]
        \/ /\ status[b] = "HeaderOnly" /\ v = "ok"
           /\ bodyRes' = [bodyRes EXCEPT ![b] = "validated"]
           /\ status' = status
        \/ /\ status[b] = "HeaderOnly" /\ v # "ok"
           /\ bodyRes' = [bodyRes EXCEPT ![b] = v]
           /\ \/ status' = status
              \/ v \notin {"BadMerkleRoot", "MissingParents"} /\ status' = [status EXCEPT ![b] = "Invalid"]
    BY Zenon DEF ProcessBody, storeVars
  <1>4. v \in {"ok", "BadMerkleRoot", "MissingParents"} \/ BodyRule[b] # "ok"
    BY <1>1 DEF ValidateBody
  <1>. HIDE DEF v
  <1>5. SoundlySubmitted' = SoundlySubmitted
    BY Zenon, <1>1, SameOrder
  <1>6. status \in [Block -> Statuses \cup {None}] /\ bodyRes \in [Block -> Running]
    BY DEF ChannelsInv, Types
  <1>7. MarkedInv'
    BY Zenon, <1>3, <1>4, <1>6 DEF AcceptInv, MarkedInv
  <1>8. \A c \in Block : HasBlockBody(status[c]) => HasBlockBody(status'[c])
    BY <1>3, <1>6 DEF HasBlockBody
  <1>9. t \in SoundlySubmitted =>
           bodyRes'[b] = "validated" \/ (HasBlockBody(bodyRes'[b]) /\ HasBlockBody(status'[b]))
    BY Zenon, <1>2, <1>3, <1>6 DEF Statuses, HasBlockBody
  <1>10. BodyRun'
    <2>1. \A c \in Block : c # b => bodyRes'[c] = bodyRes[c]
      BY <1>3, <1>6
    <2>. HIDE DEF t
    <2>2. \A c \in Block : c # b => /\ ~bodyTaken'[c] => bodyRes'[c] = None
                                    /\ bodyTaken'[c] /\ Head(bodyPending'[c]) \in SoundlySubmitted /\ bodyRes'[c] \notin {None, "validated"} =>
                                          HasBlockBody(bodyRes'[c]) /\ HasBlockBody(status'[c])
      BY Zenon, <1>1, <1>8, <2>1 DEF AcceptInv, BodyRun
    <2>. QED BY Zenon, <1>1, <1>5, <1>9, <2>2 DEF BodyRun, t
  <1>. QED BY Zenon, <1>1, <1>7, <1>8, <1>10, StatusAccept, BlockOfType DEF AcceptInv

LEMMA CommitBodyAccept ==
    ASSUME ChannelsInv, AcceptInv, NEW b \in Block, CommitBody(b)
    PROVE  AcceptInv'
  <1>1. /\ bodyTaken[b]
        /\ UNCHANGED <<hdrPending, hdrTaken, hdrRegistered, hdrBefore, hdrEnded, hdrRes,
                       bodyPending, bodyTaken, bodyRegistered, bodyBefore, bodyEnded,
                       bodyChan, answer, submitted>>
        /\ bodyRes' = [bodyRes EXCEPT ![b] = "PendingVerification"]
        /\ status' = [status EXCEPT ![b] = "PendingVerification"]
    BY Zenon DEF CommitBody, hdrVars, bodyVars
  <1>2. status \in [Block -> Statuses \cup {None}] /\ bodyRes \in [Block -> Running]
    BY DEF ChannelsInv, Types
  <1>3. /\ bodyRes'[b] = "PendingVerification" /\ status'[b] = "PendingVerification"
        /\ \A c \in Block : c # b => bodyRes'[c] = bodyRes[c] /\ status'[c] = status[c]
    BY <1>1, <1>2
  <1>4. MarkedInv'
    BY Zenon, <1>3 DEF AcceptInv, MarkedInv
  <1>5. \A c \in Block : HasBlockBody(status[c]) => HasBlockBody(status'[c])
    BY Zenon, <1>3 DEF HasBlockBody
  <1>6. BodyRun'
    <2>1. SoundlySubmitted' = SoundlySubmitted
      BY Zenon, <1>1, SameOrder
    <2>2. HasBlockBody(bodyRes'[b]) /\ HasBlockBody(status'[b])
      BY <1>3 DEF HasBlockBody
    <2>. QED BY Zenon, <1>1, <1>3, <2>1, <2>2 DEF AcceptInv, BodyRun
  <1>. QED BY Zenon, <1>1, <1>4, <1>5, <1>6, StatusAccept, BlockOfType DEF AcceptInv

LEMMA BodyEndAccept ==
    ASSUME ChannelsInv, AcceptInv, BodyFacts, BodyRunFacts, NEW b \in Block, BodyEnd(b)
    PROVE  AcceptInv'
  <1>. DEFINE t == Head(bodyPending[b])
  <1>1. /\ t \in bodyRegistered /\ t \in Task /\ BlockOf[t] = b /\ bodyTaken[b] /\ bodyRes[b] \notin {None, "validated"}
        /\ t \in hdrRegistered
    BY Zenon, ExitIsNoTask DEF BodyEnd, BodyFacts, ManagerFacts, AcceptInv, OrderInv
  <1>2. /\ bodyTaken' = [bodyTaken EXCEPT ![b] = FALSE]
        /\ bodyPending' = [bodyPending EXCEPT ![b] = Tail(@)]
        /\ bodyEnded' = bodyEnded \cup {t}
        /\ bodyRes' = [bodyRes EXCEPT ![b] = None]
        /\ UNCHANGED <<hdrPending, hdrTaken, hdrRegistered, hdrBefore, hdrEnded, hdrRes,
                       bodyRegistered, bodyBefore, bodyChan, status, submitted>>
    BY Zenon DEF BodyEnd, Body!End, hdrVars, storeVars
  <1>3. /\ \A x \in Task : x # t => answer'[x] = answer[x]
        /\ answer'[t].block = bodyRes[b]
        /\ answer'[t].virtual = bodyRes[b] \/ answer'[t].virtual = answer[t].virtual
    <2>1. answer' = [answer EXCEPT ![t] = [block |-> bodyRes[b], virtual |-> bodyRes[b]]]
          \/ answer' = [answer EXCEPT ![t].block = bodyRes[b]]
      BY Zenon DEF BodyEnd
    <2>2. answer \in [Task -> [block : Result, virtual : Result]]
      BY Zenon DEF ChannelsInv, Types
    <2>. HIDE DEF t
    <2>. QED BY <1>1, <2>1, <2>2
  <1>4. t \in SoundlySubmitted => HasBlockBody(bodyRes[b]) /\ HasBlockBody(status[b])
    BY Zenon, <1>1 DEF AcceptInv, BodyRun
  <1>. HIDE DEF t
  <1>5. /\ SoundlySubmitted' = SoundlySubmitted
        /\ \A x : WasSubmitted(x)' <=> WasSubmitted(x)
        /\ \A x, u : Precedes(u, x)' <=> Precedes(u, x)
    BY <1>2, SameOrder
  <1>6. OrderInv'
    <2>1. \A x \in Task \ hdrRegistered : answer'[x].block = None /\ answer'[x].virtual = None
      BY Zenon, <1>1, <1>3 DEF AcceptInv, OrderInv
    <2>2. In(bodyChan)' = In(bodyChan)
      BY Zenon, <1>2 DEF In
    <2>. QED BY Zenon, <1>2, <1>5, <2>1, <2>2 DEF AcceptInv, OrderInv
  <1>7. MarkedInv' /\ HdrRun' /\ HdrDone' /\ BodyOrder'
    BY Zenon, <1>2, Frames
  <1>8. BodyRun'
    <2>1. /\ ~bodyTaken'[b] /\ bodyRes'[b] = None
          /\ \A c \in Block : c # b => bodyTaken'[c] = bodyTaken[c] /\ bodyPending'[c] = bodyPending[c] /\ bodyRes'[c] = bodyRes[c]
      BY Zenon, <1>2 DEF BodyRunFacts, Body!TypeOK, ChannelsInv, Types
    <2>2. \A c \in Block : c # b =>
             /\ ~bodyTaken'[c] => bodyRes'[c] = None
             /\ bodyTaken'[c] /\ Head(bodyPending'[c]) \in SoundlySubmitted /\ bodyRes'[c] \notin {None, "validated"} =>
                   HasBlockBody(bodyRes'[c]) /\ HasBlockBody(status[c])
      BY Zenon, <2>1 DEF AcceptInv, BodyRun
    <2>. QED BY Zenon, <1>2, <1>5, <2>1, <2>2 DEF BodyRun, HasBlockBody
  <1>9. BodyDone'
    BY Zenon, <1>1, <1>2, <1>4, <1>5 DEF AcceptInv, BodyDone
  <1>10. TopologicalSubmissionAccepted'
    BY Zenon, <1>3, <1>4, <1>5, SoundTask DEF AcceptInv, TopologicalSubmissionAccepted
  <1>. QED BY Zenon, <1>6, <1>7, <1>8, <1>9, <1>10 DEF AcceptInv

LEMMA ResolveVirtualAccept ==
    ASSUME AcceptInv, ResolveVirtual
    PROVE  AcceptInv'
  <1>1. UNCHANGED <<hdrPending, hdrTaken, hdrRegistered, hdrBefore, hdrEnded, hdrRes,
                    bodyPending, bodyTaken, bodyRegistered, bodyBefore, bodyEnded, bodyRes,
                    bodyChan, answer, submitted>>
    BY Zenon DEF ResolveVirtual, hdrVars, bodyVars
  <1>2. \A c \in Block : status'[c] = status[c] \/ (HasBlockBody(status[c]) /\ HasBlockBody(status'[c]))
    BY Zenon DEF ResolveVirtual, HasBlockBody
  <1>3. MarkedInv'
    BY Zenon, <1>2 DEF AcceptInv, MarkedInv, HasBlockBody
  <1>. QED BY Zenon, <1>1, <1>2, <1>3, StatusAccept, BlockOfType DEF AcceptInv

(* The virtual worker answers what has left the body processor. *)
LEMMA VirtAnswerAccept ==
    ASSUME ChannelsInv, AcceptInv, BodyFacts, VirtAnswer
    PROVE  AcceptInv'
  <1>1. UNCHANGED <<hdrPending, hdrTaken, hdrRegistered, hdrBefore, hdrEnded, hdrRes,
                    bodyPending, bodyTaken, bodyRegistered, bodyBefore, bodyEnded, bodyRes,
                    bodyChan, status, submitted>>
    BY Zenon DEF VirtAnswer, hdrVars, bodyVars, storeVars
  <1>2. \A x \in Task :
           \/ answer'[x] = answer[x]
           \/ x \in In(virtBatch) /\ answer'[x] = [answer[x] EXCEPT !.virtual = status[BlockOf[x]]]
    BY DEF VirtAnswer, In
  <1>3. \A x \in Task :
           \/ answer'[x] = answer[x]
           \/ /\ x \in bodyEnded
              /\ answer'[x].block = answer[x].block /\ answer'[x].virtual = status[BlockOf[x]]
    <2>1. \A x \in Task : x \in In(virtBatch) => x \in bodyEnded
      BY Zenon, ExitIsNoTask DEF ChannelsInv, FlowInv
    <2>2. \A x \in Task : answer[x] \in [block : Result, virtual : Result]
      BY DEF ChannelsInv, Types
    <2>. QED BY Zenon, <1>2, <2>1, <2>2
  <1>4. \A x \in bodyEnded : x \in hdrRegistered \cup {Exit}
    BY Zenon DEF BodyFacts, ManagerFacts, AcceptInv, OrderInv
  <1>5. /\ SoundlySubmitted' = SoundlySubmitted
        /\ \A x : WasSubmitted(x)' <=> WasSubmitted(x)
        /\ \A x, u : Precedes(u, x)' <=> Precedes(u, x)
    BY <1>1, SameOrder
  <1>6. OrderInv'
    <2>1. \A x \in Task \ hdrRegistered : answer'[x].block = None /\ answer'[x].virtual = None
      BY Zenon, <1>3, <1>4, ExitIsNoTask DEF AcceptInv, OrderInv
    <2>2. In(bodyChan)' = In(bodyChan)
      BY Zenon, <1>1 DEF In
    <2>. QED BY Zenon, <1>1, <1>5, <2>1, <2>2 DEF AcceptInv, OrderInv
  <1>7. MarkedInv' /\ HdrRun' /\ HdrDone' /\ BodyOrder' /\ BodyRun' /\ BodyDone'
    BY <1>1, Frames
  <1>8. TopologicalSubmissionAccepted'
    BY Zenon, <1>3, <1>5, SoundTask DEF AcceptInv, TopologicalSubmissionAccepted, BodyDone
  <1>. QED BY Zenon, <1>6, <1>7, <1>8 DEF AcceptInv

LEMMA InitAccept == ASSUME Init PROVE AcceptInv
  <1>1. /\ hdrRegistered = {} /\ hdrEnded = {} /\ bodyRegistered = {} /\ bodyEnded = {}
        /\ \A b \in Block : ~hdrTaken[b] /\ ~bodyTaken[b] /\ hdrRes[b] = None /\ bodyRes[b] = None /\ status[b] = None
        /\ bodyChan = <<>> /\ submitted = <<>>
        /\ \A t \in Task : answer[t].block = None /\ answer[t].virtual = None
    BY Zenon DEF Init, Hdr!Init, Body!Init
  <1>2. In(bodyChan) = {} /\ Len(bodyChan) = 0 /\ Len(submitted) = 0
    BY Zenon, <1>1, EmptyIn
  <1>3. SoundlySubmitted = {}
    <2>1. \A t : ~WasSubmitted(t)
      BY <1>2 DEF WasSubmitted
    <2>. QED BY Zenon, <2>1, SoundTask
  <1>4. OrderInv /\ MarkedInv
    BY Zenon, <1>1, <1>2 DEF OrderInv, MarkedInv, None
  <1>5. HdrRun /\ HdrDone /\ BodyOrder /\ BodyRun /\ BodyDone /\ TopologicalSubmissionAccepted
    BY Zenon, <1>1, <1>3 DEF HdrRun, HdrDone, BodyOrder, BodyRun, BodyDone, TopologicalSubmissionAccepted
  <1>. QED BY <1>4, <1>5 DEF AcceptInv

LEMMA NextAccept ==
    ASSUME ChannelsInv, AcceptInv, ValidatedInv, HdrFacts, BodyFacts, HdrRunFacts, BodyRunFacts, [Next]_vars
    PROVE  AcceptInv'
  <1>1. ASSUME NEW t \in Task, Submit(t) PROVE AcceptInv'
    <2>1. t \in Message /\ Types
      BY Zenon DEF Message, ChannelsInv
    <2>. QED BY <1>1, <2>1, EnterAccept DEF Submit
  <1>2. CASE SignalExit
    <2>1. Exit \in Message /\ Types
      BY Zenon DEF Message, ChannelsInv
    <2>. QED BY Zenon, <1>2, <2>1, EnterAccept DEF SignalExit
  <1>3. CASE HdrReceive \/ HdrPassExit \/ BodyReceive
    BY Zenon, <1>3, HdrReceiveAccept, HdrPassExitAccept, BodyReceiveAccept
  <1>4. ASSUME NEW b \in Block, HdrTryBegin(b) \/ ProcessHeader(b) \/ CommitHeader(b) \/ HdrEnd(b)
        PROVE  AcceptInv'
    BY Zenon, <1>4, HdrTryBeginAccept, ProcessHeaderAccept, CommitHeaderAccept, HdrEndAccept
  <1>5. ASSUME NEW b \in Block, BodyTryBegin(b) \/ ProcessBody(b) \/ CommitBody(b) \/ BodyEnd(b)
        PROVE  AcceptInv'
    BY <1>5, BodyTryBeginAccept, ProcessBodyAccept, CommitBodyAccept, BodyEndAccept
  <1>6. CASE ResolveVirtual \/ VirtAnswer
    BY <1>6, ResolveVirtualAccept, VirtAnswerAccept
  <1>7. CASE BodyPassExit
    BY Zenon, <1>7, FrameAccept DEF BodyPassExit, Body!PassExit, hdrVars, storeVars
  <1>8. CASE VirtReceive \/ VirtPassExit
    BY Zenon, <1>8, FrameAccept DEF VirtReceive, VirtPassExit, hdrVars, bodyVars, storeVars
  <1>9. CASE Shutdown \/ UNCHANGED vars
    BY Zenon, <1>9, FrameAccept DEF Shutdown, vars, hdrVars, bodyVars, storeVars
  <1>. QED BY <1>1, <1>2, <1>3, <1>4, <1>5, <1>6, <1>7, <1>8, <1>9 DEF Next

-----------------------------------------------------------------------------
(* The two managers. *)

HdrP == INSTANCE BlockTaskDepsProofs WITH
    pending <- hdrPending, taken <- hdrTaken, dependents <- hdrDependents, queued <- hdrQueued,
    worker <- hdrWorker, registered <- hdrRegistered, before <- hdrBefore, ended <- hdrEnded

BodyP == INSTANCE BlockTaskDepsProofs WITH
    pending <- bodyPending, taken <- bodyTaken, dependents <- bodyDependents, queued <- bodyQueued,
    worker <- bodyWorker, registered <- bodyRegistered, before <- bodyBefore, ended <- bodyEnded

PipelineInv == HdrP!IInv /\ BodyP!IInv /\ ChannelsInv /\ ValidatedInv /\ AcceptInv

-----------------------------------------------------------------------------
(* What the invariant of the manager gives for each instance. *)

LEMMA HdrManager == HdrP!IInv => HdrFacts
  <1>. SUFFICES ASSUME HdrP!IInv PROVE HdrFacts
    OBVIOUS
  <1>1. HdrP!IdleIsFinal
    BY BlockOfType, DirectParentsType, HdrP!IdleFacts
  <1>2. \A b \in Block : hdrTaken[b] =>
           /\ Head(hdrPending[b]) \in hdrRegistered
           /\ BlockOf[Head(hdrPending[b])] = b
    BY BlockOfType, DirectParentsType, HdrP!FrontTask
  <1>3. HdrP!TypeOK /\ HdrP!HistoryInv
    BY DEF HdrP!IInv
  <1>. QED BY <1>1, <1>2, <1>3 DEF HdrFacts, ManagerFacts, HdrP!IdleIsFinal, HdrP!TypeOK, HdrP!HistoryInv

LEMMA BodyManager == BodyP!IInv => BodyFacts
  <1>. SUFFICES ASSUME BodyP!IInv PROVE BodyFacts
    OBVIOUS
  <1>1. BodyP!IdleIsFinal
    BY BlockOfType, DirectParentsType, BodyP!IdleFacts
  <1>2. \A b \in Block : bodyTaken[b] =>
           /\ Head(bodyPending[b]) \in bodyRegistered
           /\ BlockOf[Head(bodyPending[b])] = b
    BY BlockOfType, DirectParentsType, BodyP!FrontTask
  <1>3. BodyP!TypeOK /\ BodyP!HistoryInv
    BY DEF BodyP!IInv
  <1>. QED BY Zenon, <1>1, <1>2, <1>3 DEF BodyFacts, ManagerFacts, BodyP!IdleIsFinal, BodyP!TypeOK, BodyP!HistoryInv

LEMMA HdrReady == HdrP!IInv => HdrRunFacts
  <1>. SUFFICES ASSUME HdrP!IInv PROVE HdrRunFacts
    OBVIOUS
  <1>1. HdrP!TypeOK /\ \A b \in Block : hdrTaken[b] =>
           /\ hdrPending[b] # <<>>
           /\ \A u \in hdrBefore[Head(hdrPending[b])] : BlockOf[u] \in DirectParents[b] => u \in hdrEnded
    BY BlockOfType, DirectParentsType, HdrP!FrontReady
  <1>. QED BY Zenon, <1>1 DEF HdrRunFacts, RunFacts, Hdr!TypeOK, HdrP!TypeOK

LEMMA BodyReady == BodyP!IInv => BodyRunFacts
  <1>. SUFFICES ASSUME BodyP!IInv PROVE BodyRunFacts
    OBVIOUS
  <1>1. BodyP!TypeOK /\ \A b \in Block : bodyTaken[b] =>
           /\ bodyPending[b] # <<>>
           /\ \A u \in bodyBefore[Head(bodyPending[b])] : BlockOf[u] \in DirectParents[b] => u \in bodyEnded
    BY BlockOfType, DirectParentsType, BodyP!FrontReady
  <1>. QED BY <1>1 DEF BodyRunFacts, RunFacts, Body!TypeOK, BodyP!TypeOK

LEMMA HdrStep == HdrP!IInv /\ [Hdr!Next]_(Hdr!vars) => HdrP!IInv'
  <1>1. [Hdr!Next]_(Hdr!vars) => [HdrP!Next]_(HdrP!vars)
    BY Zenon DEF Hdr!Next, Hdr!vars, Hdr!Register, Hdr!Postpone, Hdr!Begin, Hdr!End, Hdr!WaitForIdle, Hdr!PassExit,
           Hdr!Exited, Hdr!IsPending, Hdr!Idle, Hdr!NextTasks,
           HdrP!Next, HdrP!vars, HdrP!Register, HdrP!Postpone, HdrP!Begin, HdrP!End, HdrP!WaitForIdle,
           HdrP!PassExit, HdrP!Exited, HdrP!IsPending, HdrP!Idle, HdrP!NextTasks
  <1>. QED BY <1>1, BlockOfType, DirectParentsType, HdrP!NextIInv

LEMMA BodyStep == BodyP!IInv /\ [Body!Next]_(Body!vars) => BodyP!IInv'
  <1>1. [Body!Next]_(Body!vars) => [BodyP!Next]_(BodyP!vars)
    BY Zenon DEF Body!Next, Body!vars, Body!Register, Body!Postpone, Body!Begin, Body!End, Body!WaitForIdle, Body!PassExit,
           Body!Exited, Body!IsPending, Body!Idle, Body!NextTasks,
           BodyP!Next, BodyP!vars, BodyP!Register, BodyP!Postpone, BodyP!Begin, BodyP!End, BodyP!WaitForIdle,
           BodyP!PassExit, BodyP!Exited, BodyP!IsPending, BodyP!Idle, BodyP!NextTasks
  <1>. QED BY <1>1, BlockOfType, DirectParentsType, BodyP!NextIInv

LEMMA InitPipeline == Init => PipelineInv
  <1>. SUFFICES ASSUME Init PROVE PipelineInv
    OBVIOUS
  <1>1. HdrP!Init /\ BodyP!Init
    BY Zenon DEF Init, Hdr!Init, Body!Init, HdrP!Init, BodyP!Init
  <1>2. HdrP!IInv /\ BodyP!IInv
    BY <1>1, BlockOfType, DirectParentsType, HdrP!InitIInv, BodyP!InitIInv
  <1>3. ValidatedInv
    BY DEF Init, ValidatedInv, None
  <1>. QED BY <1>2, <1>3, InitChannels, InitAccept DEF PipelineInv

LEMMA NextPipeline == PipelineInv /\ [Next]_vars => PipelineInv'
  <1>. SUFFICES ASSUME PipelineInv, [Next]_vars PROVE PipelineInv'
    OBVIOUS
  <1>1. Types /\ ChannelsInv /\ HdrFacts /\ BodyFacts
    BY HdrManager, BodyManager DEF PipelineInv, ChannelsInv
  <1>2. HdrP!IInv' /\ BodyP!IInv'
    BY <1>1, HdrNext, HdrStep, BodyNext, BodyStep DEF PipelineInv
  <1>3. ChannelsInv'
    BY <1>1, NextChannels
  <1>4. AcceptInv'
    BY <1>1, HdrReady, BodyReady, NextAccept DEF PipelineInv
  <1>5. ValidatedInv'
    BY <1>1, NextValidated DEF PipelineInv
  <1>. QED BY <1>2, <1>3, <1>4, <1>5 DEF PipelineInv

LEMMA PipelineInductive == Spec => []PipelineInv
  BY InitPipeline, NextPipeline, PTL DEF Spec

-----------------------------------------------------------------------------
(* The header processor and the body processor implement the dependency     *)
(* manager: whatever is submitted, and however the processors interleave,   *)
(* each of them registers, begins and ends tasks as the manager's           *)
(* specification says, so its theorems hold for both.                       *)
THEOREM ManagerImplemented == Spec => ProcessorsImplementManager
  <1>1. Init => Hdr!Init /\ Body!Init
    BY Zenon DEF Init
  <1>2. PipelineInv /\ [Next]_vars => [Hdr!Next]_(Hdr!vars) /\ [Body!Next]_(Body!vars)
    BY HdrNext, BodyNext DEF PipelineInv, ChannelsInv
  <1>. QED BY <1>1, <1>2, PipelineInductive, PTL DEF Spec, ProcessorsImplementManager, Hdr!Spec, Body!Spec

(* When the pruning processor is told to exit, every task submitted before  *)
(* the exit signal has been answered to both of its callers.                *)
THEOREM ExitOvertakesNothing == Spec => []AnsweredBeforeExit
  <1>1. PipelineInv => AnsweredBeforeExit
    BY HdrManager, BodyManager, ExitFacts DEF PipelineInv
  <1>. QED BY <1>1, PipelineInductive, PTL

(* Concurrency never costs a valid block its acceptance: when blocks are    *)
(* submitted parents first, none of them is answered with an error, however *)
(* the processors interleave and whatever else is submitted in between.     *)
THEOREM ValidBlocksAccepted == Spec => []TopologicalSubmissionAccepted
  <1>1. PipelineInv => TopologicalSubmissionAccepted
    BY Zenon DEF PipelineInv, AcceptInv
  <1>. QED BY <1>1, PipelineInductive, PTL

(* A status never goes back: whatever the stages do between the read of a   *)
(* status and the commit, no commit takes a body or a mark of invalidity    *)
(* from a block.                                                            *)
THEOREM StatusesOnlyRise == Spec => StatusNeverGoesBack
  <1>1. PipelineInv /\ [Next]_vars => [Monotone]_vars
    BY BodyManager, NextValidated DEF PipelineInv
  <1>. QED BY <1>1, PipelineInductive, PTL DEF Spec, StatusNeverGoesBack, Monotone
=============================================================================
