------------------------ MODULE BlockTaskDepsProofs ------------------------
(***************************************************************************)
(* Proofs about the dependency manager, for every set of blocks, every     *)
(* parent relation and every set of submissions.                           *)
(***************************************************************************)
EXTENDS BlockTaskDeps, SequenceTheorems, TLAPS

(* The queue of a group holds the registered, not yet ended tasks of its   *)
(* hash, in registration order.                                            *)
QueueInv ==
    \A b \in Block : \A i \in 1 .. Len(pending[b]) :
        /\ pending[b][i] \in registered
        /\ pending[b][i] \notin ended
        /\ BlockOf[pending[b][i]] = b
        /\ \A j \in 1 .. Len(pending[b]) :
              /\ i # j => pending[b][i] # pending[b][j]
              /\ i <= j => pending[b][j] \notin before[pending[b][i]]

(* A registered task that has not ended is in the queue of its hash. *)
UnendedQueued ==
    \A t \in registered : t \notin ended =>
        \E i \in 1 .. Len(pending[BlockOf[t]]) : pending[BlockOf[t]][i] = t

HistoryInv ==
    /\ ended \subseteq registered
    /\ \A t \in Task : before[t] \subseteq registered

(* Every pending hash has exactly one token: a spawned job, the thread     *)
(* that runs it, or its place among the dependents of one pending parent.  *)
TokenInv ==
    \A b \in Block :
        /\ queued[b] \in {0, 1}
        /\ queued[b] = 1 => IsPending(b) /\ ~taken[b]
        /\ taken[b] => IsPending(b)
        /\ IsPending(b) => \/ queued[b] = 1
                           \/ taken[b]
                           \/ \E p \in Block : b \in dependents[p]
        /\ \A p \in Block : b \in dependents[p] =>
              /\ IsPending(b) /\ IsPending(p)
              /\ ~taken[b] /\ queued[b] = 0
              /\ p \in DirectParents[b]
              /\ \A q \in Block : b \in dependents[q] => q = p

(* The parents' tasks registered before a task being processed have ended. *)
RunInv ==
    \A b \in Block : taken[b] =>
        \A u \in before[pending[b][1]] : BlockOf[u] \in DirectParents[b] => u \in ended

WorkerInv == worker \in {"idle", "exited"} => Idle

IInv ==
    /\ TypeOK
    /\ QueueInv
    /\ UnendedQueued
    /\ HistoryInv
    /\ TokenInv
    /\ RunInv
    /\ WorkerInv
    /\ ParentsEndFirst

-----------------------------------------------------------------------------
(* What registering does to a queue. *)
LEMMA AppendFacts ==
    ASSUME NEW S, NEW s \in Seq(S), NEW e \in S
    PROVE  /\ Append(s, e) \in Seq(S)
           /\ Len(Append(s, e)) = Len(s) + 1
           /\ Append(s, e) # <<>>
           /\ \A i \in 1 .. Len(s) : Append(s, e)[i] = s[i]
           /\ Append(s, e)[Len(s) + 1] = e
  OBVIOUS

LEMMA NonEmptyFacts ==
    ASSUME NEW S, NEW s \in Seq(S)
    PROVE  /\ Len(s) \in Nat
           /\ (s # <<>>) <=> (Len(s) >= 1)
           /\ \A i \in 1 .. Len(s) : s[i] \in S
  BY EmptySeq, LenProperties, ElementOfSeq

(* What ending does to a queue. *)
LEMMA TailFacts ==
    ASSUME NEW S, NEW s \in Seq(S), s # <<>>
    PROVE  /\ Tail(s) \in Seq(S)
           /\ Len(s) \in Nat \ {0}
           /\ Len(Tail(s)) = Len(s) - 1
           /\ \A i \in 1 .. Len(Tail(s)) : Tail(s)[i] = s[i + 1]
           /\ s[1] \in S
           /\ Head(s) = s[1]
           /\ (Tail(s) = <<>>) <=> (Len(s) = 1)
  <1>1. /\ Tail(s) \in Seq(S)
        /\ Len(Tail(s)) = Len(s) - 1
        /\ \A i \in 1 .. Len(Tail(s)) : Tail(s)[i] = s[i + 1]
    BY HeadTailProperties
  <1>2. Len(s) \in Nat \ {0} /\ s[1] \in S
    BY NonEmptyFacts
  <1>3. (Tail(s) = <<>>) <=> (Len(s) = 1)
    BY <1>1, <1>2, NonEmptyFacts
  <1>4. Head(s) = s[1]
    OBVIOUS
  <1>. QED BY <1>1, <1>2, <1>3, <1>4

LEMMA InitIInv == Init => IInv
  <1>. SUFFICES ASSUME Init PROVE IInv
    OBVIOUS
  <1>1. \A b \in Block : pending[b] = <<>> /\ Len(pending[b]) = 0 /\ pending[b] \in Seq(Task)
    BY EmptySeq DEF Init
  <1>2. TypeOK
    BY <1>1 DEF Init, TypeOK
  <1>3. QueueInv /\ UnendedQueued /\ HistoryInv
    BY <1>1 DEF Init, QueueInv, UnendedQueued, HistoryInv
  <1>4. TokenInv /\ RunInv /\ WorkerInv /\ ParentsEndFirst
    BY <1>1 DEF Init, TokenInv, RunInv, WorkerInv, ParentsEndFirst, IsPending, Idle
  <1>. QED BY <1>2, <1>3, <1>4 DEF IInv

LEMMA RegisterIInv == ASSUME IInv, NEW t \in Task, Register(t) PROVE IInv'
  <1>. DEFINE b == BlockOf[t]
  <1>. USE DEF IInv
  <1>1. /\ b \in Block
        /\ pending' = [pending EXCEPT ![b] = Append(@, t)]
        /\ worker = "receiving"
        /\ t \notin registered
        /\ queued' = IF IsPending(b) THEN queued ELSE [queued EXCEPT ![b] = @ + 1]
        /\ registered' = registered \cup {t}
        /\ before' = [before EXCEPT ![t] = registered]
        /\ UNCHANGED <<taken, dependents, worker, ended>>
    BY BlockOfType DEF Register
  <1>2. /\ pending[b] \in Seq(Task)
        /\ pending'[b] = Append(pending[b], t)
        /\ \A c \in Block : c # b => pending'[c] = pending[c]
        /\ \A c \in Block : pending[c] \in Seq(Task) /\ Len(pending[c]) \in Nat
    BY <1>1, NonEmptyFacts DEF TypeOK
  <1>3. /\ Append(pending[b], t) \in Seq(Task)
        /\ Len(pending'[b]) = Len(pending[b]) + 1
        /\ pending'[b] # <<>>
        /\ \A i \in 1 .. Len(pending[b]) : pending'[b][i] = pending[b][i]
        /\ pending'[b][Len(pending[b]) + 1] = t
    BY <1>2, AppendFacts
  <1>4. TypeOK'
    BY <1>1, <1>2, <1>3 DEF TypeOK
  <1>5. \A c \in Block : IsPending(c)' <=> (IsPending(c) \/ c = b)
    BY <1>1, <1>2, <1>3 DEF IsPending
  <1>6. QueueInv'
    <2>1. \A u \in Task : u # t => before'[u] = before[u]
      BY <1>1 DEF TypeOK
    <2>2. \A u \in registered : u \in Task /\ u # t
      BY <1>1 DEF TypeOK
    <2>3. \A c \in Block : \A i \in 1 .. Len(pending[c]) :
             /\ pending[c][i] \in Task
             /\ pending[c][i] # t
             /\ t \notin before[pending[c][i]]
             /\ before'[pending[c][i]] = before[pending[c][i]]
      BY <1>1, <2>1, <2>2 DEF QueueInv, HistoryInv
    <2>4. t \notin ended /\ ended' = ended /\ t \notin before'[t]
      BY <1>1 DEF HistoryInv, TypeOK
    <2>5. ASSUME NEW c \in Block, c # b PROVE QueueInv!(c)'
      BY <1>1, <1>2, <2>3, <2>4, <2>5 DEF QueueInv
    <2>6. QueueInv!(b)'
      BY <1>1, <1>2, <1>3, <2>3, <2>4 DEF QueueInv
    <2>. QED BY <2>5, <2>6, Zenon DEF QueueInv
  <1>7. UnendedQueued'
    <2>. SUFFICES ASSUME NEW u \in registered', u \notin ended'
                  PROVE  \E i \in 1 .. Len(pending'[BlockOf[u]]) : pending'[BlockOf[u]][i] = u
      BY DEF UnendedQueued
    <2>1. CASE u = t
      <3>1. Len(pending[b]) + 1 \in 1 .. Len(pending'[b]) /\ pending'[b][Len(pending[b]) + 1] = t
        BY <1>1, <1>2, <1>3
      <3>. QED BY <2>1, <3>1
    <2>2. CASE u # t
      <3>1. PICK i \in 1 .. Len(pending[BlockOf[u]]) : pending[BlockOf[u]][i] = u
        BY <1>1, <2>2 DEF UnendedQueued
      <3>2. BlockOf[u] \in Block
        BY <1>1, <2>2, BlockOfType, Zenon DEF TypeOK
      <3>3. CASE BlockOf[u] # b
        BY <1>2, <3>1, <3>2, <3>3
      <3>4. CASE BlockOf[u] = b
        <4>1. i \in 1 .. Len(pending'[b]) /\ pending'[b][i] = u
          BY <1>1, <1>2, <1>3, <3>1, <3>4
        <4>. QED BY <3>4, <4>1
      <3>. QED BY <3>3, <3>4
    <2>. QED BY <2>1, <2>2
  <1>8. HistoryInv'
    BY <1>1 DEF HistoryInv, TypeOK
  <1>9. TokenInv'
    <2>1. \A c \in Block : IF c = b /\ ~IsPending(b)
                           THEN queued[c] = 0 /\ queued'[c] = 1 /\ ~taken[c] /\ \A p \in Block : c \notin dependents[p]
                           ELSE queued'[c] = queued[c]
      BY <1>1 DEF TokenInv, TypeOK
    <2>. QED BY <1>1, <1>5, <2>1 DEF TokenInv, TypeOK
  <1>10. RunInv'
    <2>1. ASSUME NEW c \in Block, taken[c]
          PROVE  pending'[c][1] = pending[c][1] /\ before'[pending[c][1]] = before[pending[c][1]]
      <3>1. Len(pending[c]) >= 1
        BY <1>2, <2>1, NonEmptyFacts DEF TokenInv, IsPending
      <3>2. pending[c][1] \in registered
        BY <1>2, <3>1 DEF QueueInv
      <3>. QED BY <1>1, <1>2, <1>3, <3>1, <3>2 DEF TypeOK
    <2>. QED BY <1>1, <2>1 DEF RunInv
  <1>11. WorkerInv'
    BY <1>1 DEF WorkerInv
  <1>12. ParentsEndFirst'
    BY <1>1 DEF ParentsEndFirst, HistoryInv, TypeOK
  <1>. QED BY <1>4, <1>6, <1>7, <1>8, <1>9, <1>10, <1>11, <1>12

(* Only the token of the hash moves; the parent it is left with is pending. *)
LEMMA PostponeIInv == ASSUME IInv, NEW b \in Block, Postpone(b) PROVE IInv'
  <1>. USE DEF IInv
  <1>1. PICK p \in DirectParents[b] : IsPending(p) /\ dependents' = [dependents EXCEPT ![p] = @ \cup {b}]
    BY Zenon DEF Postpone
  <1>2. /\ p \in Block
        /\ queued[b] > 0
        /\ queued' = [queued EXCEPT ![b] = @ - 1]
        /\ UNCHANGED <<pending, taken, worker, registered, before, ended>>
    BY DirectParentsType DEF Postpone
  <1>3. queued[b] = 1 /\ queued'[b] = 0 /\ \A c \in Block : c # b => queued'[c] = queued[c]
    BY <1>2 DEF TokenInv, TypeOK
  <1>4. TypeOK'
    BY <1>1, <1>2, <1>3 DEF TypeOK
  <1>5. TokenInv'
    <2>1. \A c, q \in Block : c \in dependents'[q] <=> (c \in dependents[q] \/ (c = b /\ q = p))
      BY <1>1, <1>2 DEF TypeOK
    <2>2. IsPending(b) /\ ~taken[b] /\ \A q \in Block : b \notin dependents[q]
      BY <1>3 DEF TokenInv
    <2>3. \A c \in Block : IsPending(c)' <=> IsPending(c)
      BY <1>2 DEF IsPending
    <2>. QED BY <1>1, <1>2, <1>3, <2>1, <2>2, <2>3 DEF TokenInv
  <1>6. QueueInv' /\ UnendedQueued' /\ HistoryInv' /\ RunInv' /\ WorkerInv' /\ ParentsEndFirst'
    BY <1>2 DEF QueueInv, UnendedQueued, HistoryInv, RunInv, WorkerInv, ParentsEndFirst, Idle, IsPending
  <1>. QED BY <1>4, <1>5, <1>6

(* A task begins when no parent is pending: the parents' earlier tasks,     *)
(* which would still be queued otherwise, have ended.                       *)
LEMMA BeginIInv == ASSUME IInv, NEW b \in Block, Begin(b) PROVE IInv'
  <1>. USE DEF IInv
  <1>1. /\ queued[b] > 0
        /\ \A p \in DirectParents[b] : ~IsPending(p)
        /\ queued' = [queued EXCEPT ![b] = @ - 1]
        /\ taken' = [taken EXCEPT ![b] = TRUE]
        /\ UNCHANGED <<pending, dependents, worker, registered, before, ended>>
    BY DEF Begin
  <1>2. queued[b] = 1 /\ queued'[b] = 0 /\ \A c \in Block : c # b => queued'[c] = queued[c]
    BY <1>1 DEF TokenInv, TypeOK
  <1>3. taken'[b] /\ \A c \in Block : c # b => taken'[c] = taken[c]
    BY <1>1 DEF TypeOK
  <1>4. TypeOK'
    BY <1>1, <1>2 DEF TypeOK
  <1>5. TokenInv'
    <2>1. \A c \in Block : IsPending(c)' <=> IsPending(c)
      BY <1>1 DEF IsPending
    <2>. QED BY <1>1, <1>2, <1>3, <2>1 DEF TokenInv
  <1>6. RunInv'
    <2>1. Len(pending[b]) >= 1 /\ pending[b][1] \in Task
      BY <1>2, NonEmptyFacts DEF TokenInv, IsPending, TypeOK
    <2>2. ASSUME NEW u \in before[pending[b][1]], BlockOf[u] \in DirectParents[b], u \notin ended
          PROVE  FALSE
      <3>1. u \in registered /\ u \in Task
        BY <2>1, <2>2 DEF HistoryInv, TypeOK
      <3>2. PICK i \in 1 .. Len(pending[BlockOf[u]]) : pending[BlockOf[u]][i] = u
        BY <2>2, <3>1 DEF UnendedQueued
      <3>3. BlockOf[u] \in Block /\ pending[BlockOf[u]] \in Seq(Task)
        BY <3>1, BlockOfType DEF TypeOK
      <3>4. IsPending(BlockOf[u])
        BY <3>2, <3>3, NonEmptyFacts DEF IsPending
      <3>. QED BY <1>1, <2>2, <3>4
    <2>. QED BY <1>1, <1>3, <2>2 DEF RunInv
  <1>7. QueueInv' /\ UnendedQueued' /\ HistoryInv' /\ WorkerInv' /\ ParentsEndFirst'
    BY <1>1 DEF QueueInv, UnendedQueued, HistoryInv, WorkerInv, ParentsEndFirst, Idle, IsPending
  <1>. QED BY <1>4, <1>5, <1>6, <1>7

(* end moves the token of the hash to its next task, or hands its           *)
(* dependents theirs; the popped task is the earliest of its hash.          *)
LEMMA EndIInv == ASSUME IInv, NEW b \in Block, End(b) PROVE IInv'
  <1>. DEFINE h == pending[b][1]
  <1>. USE DEF IInv
  <1>1. /\ taken[b]
        /\ pending' = [pending EXCEPT ![b] = Tail(@)]
        /\ taken' = [taken EXCEPT ![b] = FALSE]
        /\ dependents' = IF Tail(pending[b]) = <<>> THEN [dependents EXCEPT ![b] = {}] ELSE dependents
        /\ queued' = [c \in Block |-> IF c \in NextTasks(b) THEN queued[c] + 1 ELSE queued[c]]
        /\ ended' = ended \cup {Head(pending[b])}
        /\ worker' = IF worker = "waiting" /\ \A c \in Block : pending'[c] = <<>>
                     THEN "idle" ELSE worker
        /\ UNCHANGED <<registered, before>>
    BY DEF End
  <1>2. /\ IsPending(b) /\ pending[b] # <<>>
        /\ pending[b] \in Seq(Task)
        /\ pending'[b] = Tail(pending[b])
        /\ \A c \in Block : c # b => pending'[c] = pending[c]
        /\ \A c \in Block : Len(pending[c]) \in Nat
    BY <1>1, NonEmptyFacts DEF TokenInv, TypeOK, IsPending
  <1>3. /\ Tail(pending[b]) \in Seq(Task)
        /\ Len(pending[b]) \in Nat \ {0}
        /\ Len(pending'[b]) = Len(pending[b]) - 1
        /\ \A i \in 1 .. Len(pending'[b]) : pending'[b][i] = pending[b][i + 1]
        /\ h \in Task
        /\ Head(pending[b]) = h
        /\ (Tail(pending[b]) = <<>>) <=> (Len(pending[b]) = 1)
    BY <1>2, TailFacts
  <1>4. h \in registered /\ h \notin ended /\ BlockOf[h] = b /\ ended' = ended \cup {h}
    <2>1. 1 \in 1 .. Len(pending[b])
      BY <1>3
    <2>. QED BY <1>1, <1>3, <2>1 DEF QueueInv
  <1>5. TypeOK'
    BY <1>1, <1>2, <1>3 DEF TypeOK, NextTasks
  <1>6. QueueInv'
    <2>1. \A c \in Block : c # b => \A i \in 1 .. Len(pending[c]) : pending[c][i] # h
      BY <1>4 DEF QueueInv
    <2>2. \A i \in 1 .. Len(pending[b]) : i # 1 => pending[b][i] # h
      BY <1>3 DEF QueueInv
    <2>3. ASSUME NEW c \in Block, c # b PROVE QueueInv!(c)'
      BY <1>1, <1>2, <1>4, <2>1, <2>3 DEF QueueInv
    <2>4. QueueInv!(b)'
      <3>. SUFFICES ASSUME NEW i \in 1 .. Len(pending'[b])
                    PROVE  /\ pending'[b][i] \in registered
                           /\ pending'[b][i] \notin ended'
                           /\ BlockOf[pending'[b][i]] = b
                           /\ \A j \in 1 .. Len(pending'[b]) :
                                 /\ i # j => pending'[b][i] # pending'[b][j]
                                 /\ i <= j => pending'[b][j] \notin before[pending'[b][i]]
        BY <1>1, Zenon
      <3>1. i + 1 \in 1 .. Len(pending[b]) /\ i + 1 # 1 /\ pending'[b][i] = pending[b][i + 1]
        BY <1>3
      <3>2. ASSUME NEW j \in 1 .. Len(pending'[b])
            PROVE  /\ i # j => pending'[b][i] # pending'[b][j]
                   /\ i <= j => pending'[b][j] \notin before[pending'[b][i]]
        <4>1. j + 1 \in 1 .. Len(pending[b]) /\ pending'[b][j] = pending[b][j + 1]
          BY <1>3
        <4>2. (i # j => i + 1 # j + 1) /\ (i <= j => i + 1 <= j + 1)
          OBVIOUS
        <4>. QED BY <3>1, <4>1, <4>2 DEF QueueInv
      <3>. QED BY <1>4, <2>2, <3>1, <3>2 DEF QueueInv
    <2>. QED BY <2>3, <2>4 DEF QueueInv
  <1>7. UnendedQueued'
    <2>. SUFFICES ASSUME NEW u \in registered, u \notin ended, u # h
                  PROVE  \E i \in 1 .. Len(pending'[BlockOf[u]]) : pending'[BlockOf[u]][i] = u
      BY <1>1, <1>4, Zenon DEF UnendedQueued
    <2>1. PICK i \in 1 .. Len(pending[BlockOf[u]]) : pending[BlockOf[u]][i] = u
      BY DEF UnendedQueued
    <2>2. BlockOf[u] \in Block
      BY BlockOfType DEF TypeOK
    <2>3. CASE BlockOf[u] # b
      BY <1>2, <2>1, <2>2, <2>3
    <2>4. CASE BlockOf[u] = b
      <3>1. i # 1
        BY <2>1, <2>4
      <3>2. i - 1 \in 1 .. Len(pending'[b]) /\ pending'[b][i - 1] = u
        BY <1>3, <2>1, <2>4, <3>1
      <3>. QED BY <2>4, <3>2
    <2>. QED BY <2>3, <2>4
  <1>8. HistoryInv'
    BY <1>1, <1>4 DEF HistoryInv
  <1>9. TokenInv'
    <2>1. \A c \in Block : c # b => (IsPending(c)' <=> IsPending(c))
      BY <1>2 DEF IsPending
    <2>2. IsPending(b)' <=> Tail(pending[b]) # <<>>
      BY <1>2 DEF IsPending
    <2>3. ~taken'[b] /\ \A c \in Block : c # b => taken'[c] = taken[c]
      BY <1>1 DEF TypeOK
    <2>4. queued[b] = 0 /\ \A q \in Block : b \notin dependents[q]
      BY <1>1 DEF TokenInv
    <2>5. CASE Tail(pending[b]) = <<>>
      <3>1. dependents'[b] = {} /\ \A q \in Block : q # b => dependents'[q] = dependents[q]
        BY <1>1, <2>5 DEF TypeOK
      <3>2. \A c \in Block : queued'[c] = IF c \in dependents[b] THEN queued[c] + 1 ELSE queued[c]
        BY <1>1, <2>5 DEF NextTasks
      <3>3. \A c \in dependents[b] : /\ c \in Block /\ c # b /\ IsPending(c) /\ ~taken[c] /\ queued[c] = 0
                                     /\ \A q \in Block : c \in dependents[q] => q = b
        BY <2>4 DEF TokenInv, TypeOK
      <3>. QED BY <2>1, <2>2, <2>3, <2>4, <2>5, <3>1, <3>2, <3>3 DEF TokenInv
    <2>6. CASE Tail(pending[b]) # <<>>
      <3>1. dependents' = dependents
        BY <1>1, <2>6
      <3>2. queued'[b] = 1 /\ \A c \in Block : c # b => queued'[c] = queued[c]
        BY <1>1, <2>4, <2>6 DEF NextTasks
      <3>. QED BY <1>2, <2>1, <2>2, <2>3, <2>4, <2>6, <3>1, <3>2 DEF TokenInv
    <2>. QED BY <2>5, <2>6
  <1>10. RunInv'
    BY <1>1, <1>2, <1>4 DEF RunInv, TypeOK
  <1>11. WorkerInv'
    <2>1. CASE worker' = worker
      <3>1. worker \in {"idle", "exited"} => FALSE
        BY <1>2 DEF WorkerInv, Idle
      <3>. QED BY <2>1, <3>1 DEF WorkerInv
    <2>2. CASE worker' # worker
      BY <1>1, <2>2 DEF WorkerInv, Idle, IsPending
    <2>. QED BY <2>1, <2>2
  <1>12. ParentsEndFirst'
    <2>1. ASSUME NEW u \in before[h], BlockOf[u] = b, u \notin ended PROVE FALSE
      <3>1. u \in registered
        BY <1>3 DEF HistoryInv
      <3>2. PICK i \in 1 .. Len(pending[b]) : pending[b][i] = u
        BY <2>1, <3>1 DEF UnendedQueued
      <3>3. 1 \in 1 .. Len(pending[b]) /\ 1 <= i
        BY <1>3, <3>2
      <3>. QED BY <2>1, <3>2, <3>3 DEF QueueInv
    <2>2. ASSUME NEW u \in before[h], BlockOf[u] \in DirectParents[b] \cup {b} PROVE u \in ended'
      BY <1>1, <1>4, <2>1, <2>2 DEF RunInv
    <2>3. ASSUME NEW t \in ended, NEW u \in before[t],
                 BlockOf[u] \in DirectParents[BlockOf[t]] \cup {BlockOf[t]}
          PROVE  u \in ended'
      BY <1>4, <2>3 DEF ParentsEndFirst
    <2>. QED BY <1>1, <1>4, <2>2, <2>3 DEF ParentsEndFirst
  <1>. QED BY <1>5, <1>6, <1>7, <1>8, <1>9, <1>10, <1>11, <1>12

LEMMA NextIInv == IInv /\ [Next]_vars => IInv'
  <1>. SUFFICES ASSUME IInv, [Next]_vars PROVE IInv'
    OBVIOUS
  <1>1. CASE \E t \in Task : Register(t)
    BY <1>1, RegisterIInv
  <1>2. CASE \E b \in Block : Postpone(b)
    BY <1>2, PostponeIInv
  <1>3. CASE \E b \in Block : Begin(b)
    BY <1>3, BeginIInv
  <1>4. CASE \E b \in Block : End(b)
    BY <1>4, EndIInv
  <1>5. CASE WaitForIdle \/ PassExit
    <2>1. UNCHANGED <<pending, taken, dependents, queued, registered, before, ended>>
      BY <1>5 DEF WaitForIdle, PassExit
    <2>2. TypeOK'
      BY <1>5, <2>1 DEF WaitForIdle, PassExit, IInv, TypeOK
    <2>3. WorkerInv'
      BY <1>5, <2>1 DEF WaitForIdle, PassExit, IInv, WorkerInv, Idle, IsPending
    <2>4. QueueInv' /\ UnendedQueued' /\ HistoryInv'
      BY <2>1 DEF IInv, QueueInv, UnendedQueued, HistoryInv
    <2>5. TokenInv' /\ RunInv' /\ ParentsEndFirst'
      BY <2>1 DEF IInv, TokenInv, RunInv, ParentsEndFirst, IsPending
    <2>. QED BY <2>2, <2>3, <2>4, <2>5 DEF IInv
  <1>6. CASE UNCHANGED vars
    BY <1>6 DEF vars, IInv, TypeOK, QueueInv, UnendedQueued, HistoryInv,
                TokenInv, RunInv, WorkerInv, ParentsEndFirst, IsPending, Idle
  <1>. QED BY <1>1, <1>2, <1>3, <1>4, <1>5, <1>6 DEF Next, Exited

LEMMA Inductive == Spec => []IInv
  BY InitIInv, NextIInv, PTL DEF Spec

-----------------------------------------------------------------------------
(* The manager's variables keep their types, whatever is submitted. *)
THEOREM TypeCorrect == Spec => []TypeOK
  <1>1. IInv => TypeOK
    BY DEF IInv
  <1>. QED BY <1>1, Inductive, PTL

(* None of the panics of try_begin and end can be reached. *)
THEOREM PanicFree == Spec => []NoPanic
  <1>1. IInv => NoPanic
    <2>. SUFFICES ASSUME IInv, NEW b \in Block PROVE NoPanic!(b)
      BY DEF NoPanic
    <2>1. queued[b] \in {0, 1} /\ (queued[b] = 1 => IsPending(b) /\ ~taken[b])
      BY DEF IInv, TokenInv
    <2>2. queued[b] > 0 => queued[b] = 1
      BY <2>1
    <2>3. taken[b] => IsPending(b)
      BY DEF IInv, TokenInv
    <2>. QED BY <2>1, <2>2, <2>3
  <1>. QED BY <1>1, Inductive, PTL

(* No registered group is ever forgotten by the manager and its pool. *)
THEOREM GroupsAreKept == Spec => []NoLostGroup
  <1>1. IInv => NoLostGroup
    BY DEF IInv, TokenInv, NoLostGroup
  <1>. QED BY <1>1, Inductive, PTL

(* Blocks reach the next stage after the earlier submissions of their       *)
(* parents and of themselves.                                               *)
THEOREM TopologicalOrder == Spec => []ParentsEndFirst
  <1>1. IInv => ParentsEndFirst
    BY DEF IInv
  <1>. QED BY <1>1, Inductive, PTL

(* Past wait_for_idle nothing is left behind. *)
LEMMA IdleFacts == IInv => IdleIsFinal
  <1>. SUFFICES ASSUME IInv, worker \in {"idle", "exited"} PROVE IdleIsFinal
    BY DEF IdleIsFinal
  <1>1. Idle
    BY DEF IInv, WorkerInv
  <1>2. \A b \in Block : Len(pending[b]) = 0
    BY <1>1, EmptySeq DEF Idle, IsPending
  <1>3. ASSUME NEW t \in registered, t \notin ended PROVE FALSE
    <2>1. BlockOf[t] \in Block
      BY BlockOfType DEF IInv, TypeOK
    <2>2. \E i \in 1 .. Len(pending[BlockOf[t]]) : TRUE
      BY <1>3 DEF IInv, UnendedQueued
    <2>. QED BY <1>2, <2>1, <2>2
  <1>4. registered = ended
    BY <1>3 DEF IInv, HistoryInv
  <1>5. \A b \in Block : queued[b] = 0 /\ ~taken[b]
    BY <1>1 DEF IInv, TokenInv, Idle
  <1>. QED BY <1>4, <1>5 DEF IdleIsFinal

(* A thread that runs a hash works on the front task of its group, which   *)
(* carries that hash, was registered and has not ended.                    *)
LEMMA FrontTask ==
    IInv => \A b \in Block : taken[b] =>
        /\ Head(pending[b]) \in registered
        /\ Head(pending[b]) \notin ended
        /\ Head(pending[b]) \in Task
        /\ BlockOf[Head(pending[b])] = b
  <1>. SUFFICES ASSUME IInv, NEW b \in Block, taken[b]
                PROVE  /\ Head(pending[b]) \in registered
                       /\ Head(pending[b]) \notin ended
                       /\ Head(pending[b]) \in Task
                       /\ BlockOf[Head(pending[b])] = b
    OBVIOUS
  <1>1. pending[b] \in Seq(Task) /\ pending[b] # <<>>
    BY DEF IInv, TypeOK, TokenInv, IsPending
  <1>2. Head(pending[b]) = pending[b][1] /\ 1 \in 1 .. Len(pending[b]) /\ pending[b][1] \in Task
    BY <1>1, TailFacts
  <1>. QED BY <1>2 DEF IInv, QueueInv

(* The group of a running hash has a front task, whose parents' tasks that  *)
(* were registered before it have ended.                                    *)
LEMMA FrontReady ==
    IInv => TypeOK /\ \A b \in Block : taken[b] =>
        /\ pending[b] # <<>>
        /\ \A u \in before[Head(pending[b])] : BlockOf[u] \in DirectParents[b] => u \in ended
  <1>. SUFFICES ASSUME IInv, NEW b \in Block, taken[b]
                PROVE  /\ pending[b] # <<>>
                       /\ \A u \in before[Head(pending[b])] : BlockOf[u] \in DirectParents[b] => u \in ended
    BY DEF IInv
  <1>1. pending[b] \in Seq(Task) /\ pending[b] # <<>>
    BY DEF IInv, TypeOK, TokenInv, IsPending
  <1>2. Head(pending[b]) = pending[b][1]
    BY <1>1, TailFacts
  <1>. QED BY <1>1, <1>2 DEF IInv, RunInv

(* Exit is the last message the next stage receives. *)
THEOREM ExitIsLast == Spec => []IdleIsFinal
  BY IdleFacts, Inductive, PTL
=============================================================================
