---------------------------- MODULE ChannelProofs ----------------------------
(***************************************************************************)
(* Proofs about the ring buffer in the hands of any client, by itself      *)
(* (RingBufferUse) and inside Channel, and about Channel, for every set of *)
(* threads, size of the ring and number of calls.                          *)
(***************************************************************************)
EXTENDS Channel, FiniteSetTheorems, SequenceTheorems, TLAPS

CONSTANT MaxCalls   \* the bound of RingBufferUse

\* The ring buffer by itself, with the variables it has in common with Channel.
Use == INSTANCE RingBufferUse

\* The lines of push() and pop() that rely on a position they have loaded.
Inside == {"push_head", "push_cas", "push_write", "pop_head", "pop_read", "pop_cas"}

\* The first lines of push() and pop(), and the lines of their callers.
Doors == {"push_tail", "pop_tail"}
Callers ==
    {"idle", "none", "gone", "send_check", "full", "send_wait", "pushed", "send_cas", "send_wake",
     "recv_check", "try_check", "popped", "recv_wake", "announce", "recv_wait"}

Labels == Inside \cup Doors \cup Callers

Values == (Threads \X Nat) \cup {NoValue}

RingTypeOK ==
    /\ buffer \in [0..(N - 1) -> Values]
    /\ head \in Nat
    /\ tail \in Nat
    /\ dropped \in BOOLEAN
    /\ pc \in [Threads -> Labels]
    /\ current_head \in [Threads -> Nat]
    /\ current_tail \in [Threads -> Nat]
    /\ value \in [Threads -> Values]
    /\ pushed \in Seq(Values)
    /\ ended \in Seq(Values)
    /\ early \in SUBSET Threads
    /\ torn \in BOOLEAN

\* `head` and `tail` count the values that came and went, the ring is never overfull, and the
\* positions that threads have loaded are where their tests have put them.
Positions ==
    /\ Len(pushed) = head
    /\ ~dropped => Len(ended) = tail
    /\ tail <= head /\ head <= tail + N
    /\ \A t \in Threads :
         /\ pc[t] \in Inside \ {"push_write"} => current_tail[t] <= tail
         /\ pc[t] = "push_cas" => current_head[t] < current_tail[t] + N
         /\ pc[t] = "push_write" => current_head[t] < head
         /\ pc[t] \in {"pop_read", "pop_cas"} => current_tail[t] < head

\* Every claimed position has one writer at most.
OneWriter ==
    \A t, u \in Threads :
        (pc[t] = "push_write" /\ pc[u] = "push_write" /\ current_head[t] = current_head[u]) => t = u

\* A copy that counts as whole was made after its slot had been written.
WholeCopy ==
    \A t \in Threads : (pc[t] = "pop_cas" /\ t \notin early) => Writing(current_tail[t]) = {}

\* A writer has not been overtaken and still holds what it pushed.
WritersKeep ==
    \A t \in Threads : pc[t] = "push_write" =>
        tail <= current_head[t] /\ value[t] = pushed[current_head[t] + 1]

\* The slots from `tail` to `head` hold what was pushed, unless their writer is on its way.
SlotsKeep == \A p \in tail..(head - 1) : Writing(p) = {} => buffer[Slot(p)] = pushed[p + 1]

\* A thread about to return a whole copy returns the value that is next.
CopiesKeep ==
    \A t \in Threads :
        (pc[t] = "pop_cas" /\ t \notin early /\ current_tail[t] = tail) => value[t] = pushed[tail + 1]

\* What has left the ring left in the order of the positions.
OutInOrder ==
    /\ ~dropped => \A i \in 1..tail : ended[i] = pushed[i]
    /\ dropped => ended = pushed

\* All this holds until a torn copy is returned.
Contents == ~torn => WritersKeep /\ SlotsKeep /\ CopiesKeep /\ OutInOrder

\* Nobody is in a call when the buffer is dropped, or comes later.
Abandoned == dropped => \A t \in Threads : pc[t] \in Callers

RingInv == RingTypeOK /\ Positions /\ OneWriter /\ WholeCopy /\ Contents /\ Abandoned

----------------------------------------------------------------------------
(* The ring buffer in the hands of any client.                             *)

\* A thread inside push(), try_push(), pop() or try_pop(), which may go on anywhere.
RingStep(t) ==
    \/ PushTail(t) \/ PushCasOk(t)
    \/ PopTail(t) \/ PopHead(t) \/ PopRead(t) \/ PopCasFail(t)
    \/ \E to \in Doors \cup Callers :
         \/ PushHead(t, to) \/ PushCasFail(t, to) \/ PushWrite(t, to)
         \/ PopEmpty(t, to) \/ PopCasOk(t, to) \/ TryPopCasFail(t, to)

\* A thread outside: it may prepare a value and call, unless the buffer has been dropped.
ClientStep(t) ==
    /\ pc[t] \in Callers
    /\ \E to \in IF dropped THEN Callers ELSE Doors \cup Callers : pc' = [pc EXCEPT ![t] = to]
    /\ \E v \in Values : value' = [value EXCEPT ![t] = v]
    /\ UNCHANGED <<shared, current_head, current_tail, history>>

\* The buffer is dropped when nobody is in a call.
ClientDrop ==
    /\ \A t \in Threads : pc[t] \in Callers
    /\ DropRing

ClientInit == RingInit /\ pc \in [Threads -> Callers]

ClientNext == (\E t \in Threads : RingStep(t) \/ ClientStep(t)) \/ ClientDrop

clientVars == <<ringVars, pc>>

\* The most general client of the ring buffer.
AnyClient == ClientInit /\ [][ClientNext]_clientVars

----------------------------------------------------------------------------
\* Division with remainder, as the provers need it for the slots.
LEMMA Quotient ==
    ASSUME NEW M \in Nat \ {0}, NEW x \in Nat
    PROVE  /\ x % M \in 0..(M - 1)
           /\ x \div M \in Nat
           /\ x = M * (x \div M) + (x % M)
    BY SMT

\* Multiples of M are at least M apart.
LEMMA Multiples ==
    ASSUME NEW M \in Nat \ {0}, NEW a \in Nat, NEW b \in Nat, a < b
    PROVE  M * a + M <= M * b
<1>1. PICK d \in Nat : b = a + 1 + d
    BY b - a - 1 \in Nat
<1>2. M * b = M * a + M + M * d
    BY <1>1, Z3
<1>3. M * d >= 0 /\ M * d \in Nat /\ M * a \in Nat
    BY Z3
<1>. QED
    BY <1>2, <1>3

\* The ring has a slot.
LEMMA RingSize == N \in Nat \ {0}
    BY RingBufferAssumption

\* A position has a slot of the ring.
LEMMA SlotInRing == \A p \in Nat : Slot(p) \in 0..(N - 1)
    BY Quotient, RingSize DEF Slot

\* Two positions less than N apart have different slots.
LEMMA SlotsDiffer ==
    ASSUME NEW p \in Nat, NEW q \in Nat, p < q, q < p + N
    PROVE  Slot(p) # Slot(q)
<1> DEFINE a == p \div N
           b == q \div N
           r == p % N
<1>1. N \in Nat \ {0}
    BY RingSize
<1>2. SUFFICES ASSUME q % N = r PROVE FALSE
    BY DEF Slot
<1>3. /\ a \in Nat /\ b \in Nat /\ r \in 0..(N - 1)
      /\ p = N * a + r /\ q = N * b + r
    BY <1>1, <1>2, Quotient
<1> HIDE DEF a, b, r
<1>4. N * a \in Nat /\ N * b \in Nat
    BY <1>1, <1>3, Z3
<1>5. N * b < N * a + N /\ N * a < N * b
    BY <1>1, <1>3, <1>4
<1>6. CASE a < b
    BY <1>1, <1>3, <1>4, <1>5, <1>6, Multiples
<1>7. CASE b < a
    <2>1. N * b + N <= N * a
        BY <1>1, <1>3, <1>7, Multiples
    <2>. QED
        BY <1>1, <1>4, <1>5, <2>1
<1>8. CASE a = b
    BY <1>4, <1>5, <1>8
<1>. QED
    BY <1>3, <1>6, <1>7, <1>8

\* A sequence of values, as a function.
LEMMA ValueSequence ==
    ASSUME NEW n \in Nat, NEW f \in [1..n -> Values]
    PROVE  f \in Seq(Values) /\ Len(f) = n
    BY SeqDef

----------------------------------------------------------------------------
\* Types are preserved by every step of the ring and its client.
LEMMA RingTypeInduction == RingTypeOK /\ Positions /\ [ClientNext]_clientVars => RingTypeOK'
<1> SUFFICES ASSUME RingTypeOK, Positions, [ClientNext]_clientVars PROVE RingTypeOK'
    OBVIOUS
<1> USE RingSize
    DEF RingTypeOK, Labels, Inside, Doors, Callers, Goto, shared, locals, history, ringVars
<1>1. CASE UNCHANGED clientVars
    BY <1>1 DEF clientVars
<1>2. ASSUME NEW t \in Threads, RingStep(t) PROVE RingTypeOK'
    <2>1. CASE PushTail(t)
        BY <2>1 DEF PushTail
    <2>2. CASE PushCasOk(t)
        <3>1. pushed' \in Seq(Values)
            BY <2>2, AppendProperties DEF PushCasOk
        <3>. QED
            BY <2>2, <3>1 DEF PushCasOk
    <2>3. CASE PopTail(t) \/ PopHead(t)
        BY <2>3 DEF PopTail, PopHead
    <2>4. CASE PopRead(t)
        <3>1. buffer[Slot(current_tail[t])] \in Values
            BY SlotInRing
        <3>. QED
            BY <2>4, <3>1 DEF PopRead
    <2>5. NoValue \in Values
        BY DEF Values
    <2>6. CASE PopCasFail(t)
        BY <2>5, <2>6 DEF PopCasFail, ForgetCopy
    <2>7. ASSUME NEW to \in Doors \cup Callers,
                 PushHead(t, to) \/ PushCasFail(t, to) \/ PopEmpty(t, to)
          PROVE  RingTypeOK'
        <3>1. CASE PushHead(t, to)
            BY <3>1 DEF PushHead
        <3>2. CASE PushCasFail(t, to)
            BY <3>2 DEF PushCasFail
        <3>3. CASE PopEmpty(t, to)
            BY <3>3 DEF PopEmpty
        <3>. QED
            BY <2>7, <3>1, <3>2, <3>3
    <2>8. ASSUME NEW to \in Doors \cup Callers, PushWrite(t, to) PROVE RingTypeOK'
        BY <2>5, <2>8, SlotInRing DEF PushWrite
    <2>9. ASSUME NEW to \in Doors \cup Callers, PopCasOk(t, to) PROVE RingTypeOK'
        <3>1. ended' \in Seq(Values)
            BY <2>9, AppendProperties DEF PopCasOk
        <3>. QED
            BY <2>5, <2>9, <3>1 DEF PopCasOk, ForgetCopy
    <2>10. ASSUME NEW to \in Doors \cup Callers, TryPopCasFail(t, to) PROVE RingTypeOK'
        BY <2>5, <2>10 DEF TryPopCasFail, ForgetCopy
    <2>. QED
        BY <1>2, <2>1, <2>2, <2>3, <2>4, <2>6, <2>7, <2>8, <2>9, <2>10 DEF RingStep
<1>3. ASSUME NEW t \in Threads, ClientStep(t) PROVE RingTypeOK'
    BY <1>3 DEF ClientStep
<1>4. CASE ClientDrop
    <2> DEFINE rest == [i \in 1..(head - tail) |-> buffer[Slot(tail + i - 1)]]
    <2>1. head - tail \in Nat /\ rest \in [1..(head - tail) -> Values]
        <3>1. head - tail \in Nat
            BY DEF Positions
        <3>2. ASSUME NEW i \in 1..(head - tail) PROVE buffer[Slot(tail + i - 1)] \in Values
            <4>1. tail + i - 1 \in Nat
                BY <3>1
            <4>. QED
                BY <4>1, SlotInRing
        <3>. QED
            BY <3>1, <3>2
    <2>2. rest \in Seq(Values)
        <3> HIDE DEF rest
        <3>. QED
            BY <2>1, ValueSequence
    <2>3. ended' \in Seq(Values)
        BY <1>4, <2>2, ConcatProperties DEF ClientDrop, DropRing
    <2>. QED
        BY <1>4, <2>3 DEF ClientDrop, DropRing
<1>. QED
    BY <1>1, <1>2, <1>3, <1>4 DEF ClientNext

\* What a thread has loaded stays true of `head` and `tail`, which only grow.
LEMMA PositionsInduction == RingTypeOK /\ Positions /\ [ClientNext]_clientVars => Positions'
<1> SUFFICES ASSUME RingTypeOK, Positions, [ClientNext]_clientVars PROVE Positions'
    OBVIOUS
<1> USE RingSize DEF Positions, Inside, Doors, Callers, Goto, shared, locals, history, ringVars
<1>1. CASE UNCHANGED clientVars
    BY <1>1 DEF clientVars
<1>2. ASSUME NEW t \in Threads, RingStep(t) PROVE Positions'
    <2>1. CASE PushTail(t) \/ PopTail(t) \/ PopHead(t) \/ PopRead(t)
        BY <2>1 DEF PushTail, PopTail, PopHead, PopRead, RingTypeOK
    <2>2. CASE PushCasOk(t)
        <3>1. Len(pushed') = Len(pushed) + 1
            BY <2>2, AppendProperties DEF PushCasOk, RingTypeOK
        <3>. QED
            BY <2>2, <3>1 DEF PushCasOk, RingTypeOK
    <2>3. CASE PopCasFail(t)
        BY <2>3 DEF PopCasFail, RingTypeOK
    <2>4. ASSUME NEW to \in Doors \cup Callers, PushHead(t, to) PROVE Positions'
        BY <2>4 DEF PushHead, RingTypeOK
    <2>5. ASSUME NEW to \in Doors \cup Callers,
                 \/ PushCasFail(t, to) \/ PushWrite(t, to)
                 \/ PopEmpty(t, to) \/ TryPopCasFail(t, to)
          PROVE  Positions'
        BY <2>5 DEF PushCasFail, PushWrite, PopEmpty, TryPopCasFail, RingTypeOK
    <2>6. ASSUME NEW to \in Doors \cup Callers, PopCasOk(t, to) PROVE Positions'
        <3>1. Len(ended') = Len(ended) + 1
            BY <2>6, AppendProperties DEF PopCasOk, RingTypeOK
        <3>. QED
            BY <2>6, <3>1 DEF PopCasOk, RingTypeOK
    <2>. QED
        BY <1>2, <2>1, <2>2, <2>3, <2>4, <2>5, <2>6 DEF RingStep
<1>3. ASSUME NEW t \in Threads, ClientStep(t) PROVE Positions'
    BY <1>3 DEF ClientStep, RingTypeOK
<1>4. CASE ClientDrop
    BY <1>4 DEF ClientDrop, DropRing
<1>. QED
    BY <1>1, <1>2, <1>3, <1>4 DEF ClientNext

\* A position is claimed at `head`, where nobody has claimed one before.
LEMMA OneWriterInduction ==
    RingTypeOK /\ Positions /\ OneWriter /\ [ClientNext]_clientVars => OneWriter'
<1> SUFFICES ASSUME RingTypeOK, Positions, OneWriter, [ClientNext]_clientVars PROVE OneWriter'
    OBVIOUS
<1> USE DEF OneWriter, RingTypeOK, Inside, Doors, Callers, Goto, shared, locals, history, ringVars
<1>1. ASSUME \A t \in Threads : pc'[t] = "push_write" =>
                 pc[t] = "push_write" /\ current_head'[t] = current_head[t]
      PROVE  OneWriter'
    BY <1>1
<1>2. CASE UNCHANGED clientVars
    BY <1>2 DEF clientVars
<1>3. ASSUME NEW t \in Threads, RingStep(t) PROVE OneWriter'
    <2>1. CASE PushCasOk(t)
        <3>1. \A u \in Threads : pc[u] = "push_write" => current_head[u] < head
            BY DEF Positions
        <3>. QED
            BY <2>1, <3>1 DEF PushCasOk
    <2>2. CASE PushTail(t) \/ PopTail(t) \/ PopHead(t) \/ PopRead(t) \/ PopCasFail(t)
        BY <1>1, <2>2 DEF PushTail, PopTail, PopHead, PopRead, PopCasFail
    <2>3. ASSUME NEW to \in Doors \cup Callers,
                 PushHead(t, to) \/ PushCasFail(t, to) \/ PushWrite(t, to)
          PROVE  OneWriter'
        BY <1>1, <2>3 DEF PushHead, PushCasFail, PushWrite
    <2>4. ASSUME NEW to \in Doors \cup Callers,
                 PopEmpty(t, to) \/ PopCasOk(t, to) \/ TryPopCasFail(t, to)
          PROVE  OneWriter'
        BY <1>1, <2>4 DEF PopEmpty, PopCasOk, TryPopCasFail
    <2>. QED
        BY <1>3, <2>1, <2>2, <2>3, <2>4 DEF RingStep
<1>4. ASSUME NEW t \in Threads, ClientStep(t) PROVE OneWriter'
    BY <1>1, <1>4 DEF ClientStep
<1>5. CASE ClientDrop
    BY <1>5 DEF ClientDrop, DropRing
<1>. QED
    BY <1>2, <1>3, <1>4, <1>5 DEF ClientNext

\* Nobody calls once the buffer has been dropped.
LEMMA AbandonedInduction == RingTypeOK /\ Abandoned /\ [ClientNext]_clientVars => Abandoned'
<1> SUFFICES ASSUME RingTypeOK, Abandoned, [ClientNext]_clientVars PROVE Abandoned'
    OBVIOUS
<1> USE DEF Abandoned, RingTypeOK, shared, locals, history, ringVars
<1>1. CASE UNCHANGED clientVars
    BY <1>1 DEF clientVars
<1>2. ASSUME NEW t \in Threads, RingStep(t) PROVE Abandoned'
    <2>1. pc[t] \notin Callers
        BY <1>2
        DEF RingStep, PushTail, PushHead, PushCasOk, PushCasFail, PushWrite, PopTail, PopEmpty,
            PopHead, PopRead, PopCasOk, PopCasFail, TryPopCasFail, Goto, Callers
    <2>2. dropped' = dropped
        BY <1>2
        DEF RingStep, PushTail, PushHead, PushCasOk, PushCasFail, PushWrite, PopTail, PopEmpty,
            PopHead, PopRead, PopCasOk, PopCasFail, TryPopCasFail
    <2>. QED
        BY <2>1, <2>2
<1>3. ASSUME NEW t \in Threads, ClientStep(t) PROVE Abandoned'
    BY <1>3 DEF ClientStep
<1>4. CASE ClientDrop
    BY <1>4 DEF ClientDrop, DropRing
<1>. QED
    BY <1>1, <1>2, <1>3, <1>4 DEF ClientNext

\* A slot that was written when it was copied stays written.
LEMMA WholeCopyInduction ==
    RingTypeOK /\ Positions /\ WholeCopy /\ [ClientNext]_clientVars => WholeCopy'
<1> SUFFICES ASSUME RingTypeOK, Positions, WholeCopy, [ClientNext]_clientVars PROVE WholeCopy'
    OBVIOUS
<1> USE DEF WholeCopy, Writing, RingTypeOK, Inside, Doors, Callers, Goto,
            shared, locals, history, ringVars
<1>1. ASSUME \A t \in Threads : pc'[t] = "pop_cas" =>
                 pc[t] = "pop_cas" /\ current_tail'[t] = current_tail[t],
             \A t \in Threads : pc'[t] = "push_write" =>
                 pc[t] = "push_write" /\ current_head'[t] = current_head[t],
             \A t \in early : t \in early' \/ pc'[t] # "pop_cas"
      PROVE  WholeCopy'
    BY <1>1
<1>2. CASE UNCHANGED clientVars
    BY <1>2 DEF clientVars
<1>3. ASSUME NEW t \in Threads, RingStep(t) PROVE WholeCopy'
    <2>1. CASE PushCasOk(t)
        <3>1. ASSUME NEW u \in Threads, pc'[u] = "pop_cas", u \notin early'
              PROVE  Writing(current_tail[u])' = {}
            <4>1. u # t /\ pc[u] = "pop_cas" /\ u \notin early /\ current_tail[u] < head
                BY <2>1, <3>1 DEF PushCasOk, Positions
            <4>. QED
                BY <2>1, <4>1 DEF PushCasOk
        <3>. QED
            BY <2>1, <3>1 DEF PushCasOk
    <2>2. CASE PopRead(t)
        BY <2>2 DEF PopRead
    <2>3. CASE PushTail(t) \/ PopTail(t) \/ PopHead(t)
        BY <1>1, <2>3 DEF PushTail, PopTail, PopHead
    <2>4. CASE PopCasFail(t)
        BY <1>1, <2>4 DEF PopCasFail, ForgetCopy
    <2>5. ASSUME NEW to \in Doors \cup Callers,
                 PushHead(t, to) \/ PushCasFail(t, to) \/ PushWrite(t, to) \/ PopEmpty(t, to)
          PROVE  WholeCopy'
        BY <1>1, <2>5 DEF PushHead, PushCasFail, PushWrite, PopEmpty
    <2>6. ASSUME NEW to \in Doors \cup Callers, PopCasOk(t, to) \/ TryPopCasFail(t, to)
          PROVE  WholeCopy'
        BY <1>1, <2>6 DEF PopCasOk, TryPopCasFail, ForgetCopy
    <2>. QED
        BY <1>3, <2>1, <2>2, <2>3, <2>4, <2>5, <2>6 DEF RingStep
<1>4. ASSUME NEW t \in Threads, ClientStep(t) PROVE WholeCopy'
    BY <1>1, <1>4 DEF ClientStep
<1>5. CASE ClientDrop
    BY <1>5 DEF ClientDrop, DropRing
<1>. QED
    BY <1>2, <1>3, <1>4, <1>5 DEF ClientNext

\* The values stay where they are, and leave in order, until a torn copy is returned.
LEMMA ContentsInduction == RingInv /\ [ClientNext]_clientVars => Contents'
<1> SUFFICES ASSUME RingInv, [ClientNext]_clientVars, ~torn'
             PROVE  WritersKeep' /\ SlotsKeep' /\ CopiesKeep' /\ OutInOrder'
    BY DEF Contents
<1> USE RingSize DEF RingInv, RingTypeOK
<1>1. ASSUME ~torn,
             UNCHANGED <<buffer, head, tail, dropped, pushed, ended>>,
             \A t \in Threads : (pc[t] = "push_write") = (pc'[t] = "push_write"),
             \A t \in Threads : pc[t] = "push_write" =>
                 current_head'[t] = current_head[t] /\ value'[t] = value[t],
             \A t \in Threads : pc'[t] = "pop_cas" =>
                 /\ pc[t] = "pop_cas"
                 /\ current_tail'[t] = current_tail[t] /\ value'[t] = value[t]
                 /\ t \in early => t \in early'
      PROVE  WritersKeep' /\ SlotsKeep' /\ CopiesKeep' /\ OutInOrder'
    <2>1. WritersKeep'
        BY <1>1 DEF Contents, WritersKeep
    <2>2. SlotsKeep'
        <3>1. \A p : Writing(p)' = Writing(p)
            BY <1>1 DEF Writing
        <3>. QED
            BY <1>1, <3>1 DEF Contents, SlotsKeep, Slot
    <2>3. CopiesKeep'
        BY <1>1 DEF Contents, CopiesKeep
    <2>4. OutInOrder'
        BY <1>1 DEF Contents, OutInOrder
    <2>. QED
        BY <2>1, <2>2, <2>3, <2>4
<1>2. CASE UNCHANGED clientVars
    BY <1>1, <1>2 DEF clientVars, ringVars, shared, locals, history
<1>3. ASSUME NEW t \in Threads, PushCasOk(t)
      PROVE  WritersKeep' /\ SlotsKeep' /\ CopiesKeep' /\ OutInOrder'
    <2>1. /\ ~torn /\ ~dropped
          /\ pc[t] = "push_cas" /\ pc' = [pc EXCEPT ![t] = "push_write"]
          /\ current_head[t] = head /\ head' = head + 1
          /\ pushed' = Append(pushed, value[t])
          /\ UNCHANGED <<buffer, tail, dropped, current_head, current_tail, value, ended, early>>
        BY <1>3 DEF PushCasOk, Goto, Abandoned, Callers, locals
    <2>2. /\ \A i \in 1..head : pushed'[i] = pushed[i]
          /\ pushed'[head + 1] = value[t]
        BY <2>1, AppendProperties DEF Positions
    <2>3. WritersKeep'
        BY <2>1, <2>2 DEF Contents, WritersKeep, Positions
    <2>4. SlotsKeep'
        <3>1. ASSUME NEW p \in tail..head, Writing(p)' = {}
              PROVE  p \in tail..(head - 1) /\ Writing(p) = {}
            BY <2>1, <3>1 DEF Writing
        <3>2. ASSUME NEW p \in tail..head, Writing(p)' = {}
              PROVE  buffer'[Slot(p)] = pushed'[p + 1]
            <4>1. p \in tail..(head - 1) /\ Writing(p) = {} /\ p + 1 \in 1..head
                <5>1. p \in tail..(head - 1) /\ Writing(p) = {}
                    BY <3>1, <3>2
                <5>. QED
                    BY <5>1
            <4>2. buffer[Slot(p)] = pushed[p + 1]
                BY <2>1, <4>1 DEF Contents, SlotsKeep
            <4>. QED
                BY <2>1, <2>2, <4>1, <4>2
        <3>3. tail'..(head' - 1) = tail..head
            BY <2>1
        <3>. QED
            BY <3>2, <3>3 DEF SlotsKeep, Slot
    <2>5. CopiesKeep'
        BY <2>1, <2>2 DEF Contents, CopiesKeep, Positions
    <2>6. OutInOrder'
        BY <2>1, <2>2 DEF Contents, OutInOrder, Positions
    <2>. QED
        BY <2>3, <2>4, <2>5, <2>6
<1>4. ASSUME NEW t \in Threads, NEW to \in Doors \cup Callers, PushWrite(t, to)
      PROVE  WritersKeep' /\ SlotsKeep' /\ CopiesKeep' /\ OutInOrder'
    <2>1. /\ ~torn
          /\ pc[t] = "push_write" /\ pc' = [pc EXCEPT ![t] = to]
          /\ to # "push_write" /\ to # "pop_cas"
          /\ buffer' = [buffer EXCEPT ![Slot(current_head[t])] = value[t]]
          /\ value' = [value EXCEPT ![t] = NoValue]
          /\ current_head' = [current_head EXCEPT ![t] = 0]
          /\ current_tail' = [current_tail EXCEPT ![t] = 0]
          /\ UNCHANGED <<head, tail, dropped, pushed, ended, early>>
        BY <1>4 DEF PushWrite, Goto, Doors, Callers, history
    <2>2. WritersKeep'
        BY <2>1 DEF Contents, WritersKeep
    <2>3. SlotsKeep'
        <3>1. /\ current_head[t] \in tail..(head - 1)
              /\ value[t] = pushed[current_head[t] + 1]
              /\ Slot(current_head[t]) \in 0..(N - 1)
            BY <2>1, SlotInRing DEF Contents, WritersKeep, Positions
        <3>2. ASSUME NEW p \in tail..(head - 1), Writing(p)' = {}
              PROVE  buffer'[Slot(p)] = pushed[p + 1]
            <4>1. CASE p = current_head[t]
                BY <2>1, <3>1, <4>1
            <4>2. CASE p # current_head[t]
                <5>1. Writing(p) = {}
                    BY <2>1, <3>2, <4>2 DEF Writing
                <5>2. Slot(p) # Slot(current_head[t])
                    BY <3>1, <4>2, SlotsDiffer DEF Positions
                <5>3. buffer[Slot(p)] = pushed[p + 1]
                    BY <2>1, <5>1 DEF Contents, SlotsKeep
                <5>4. p \in Nat
                    OBVIOUS
                <5>5. Slot(p) \in 0..(N - 1)
                    BY <5>4, SlotInRing
                <5>. QED
                    BY <2>1, <5>2, <5>3, <5>5
            <4>. QED
                BY <4>1, <4>2
        <3>. QED
            BY <2>1, <3>2 DEF SlotsKeep, Slot
    <2>4. CopiesKeep'
        BY <2>1 DEF Contents, CopiesKeep
    <2>5. OutInOrder'
        BY <2>1 DEF Contents, OutInOrder
    <2>. QED
        BY <2>2, <2>3, <2>4, <2>5
<1>5. ASSUME NEW t \in Threads, PopRead(t)
      PROVE  WritersKeep' /\ SlotsKeep' /\ CopiesKeep' /\ OutInOrder'
    <2>1. /\ ~torn
          /\ pc[t] = "pop_read" /\ pc' = [pc EXCEPT ![t] = "pop_cas"]
          /\ value' = [value EXCEPT ![t] = buffer[Slot(current_tail[t])]]
          /\ early' = IF Writing(current_tail[t]) # {} THEN early \cup {t} ELSE early
          /\ UNCHANGED <<buffer, head, tail, dropped, current_head, current_tail, pushed, ended>>
        BY <1>5 DEF PopRead, Goto, shared
    <2>2. WritersKeep'
        BY <2>1 DEF Contents, WritersKeep
    <2>3. SlotsKeep'
        <3>1. \A p : Writing(p)' = Writing(p)
            BY <2>1 DEF Writing
        <3>. QED
            BY <2>1, <3>1 DEF Contents, SlotsKeep, Slot
    <2>4. CopiesKeep'
        <3>1. ASSUME t \notin early', current_tail[t] = tail
              PROVE  buffer[Slot(current_tail[t])] = pushed[tail + 1]
            <4>1. Writing(tail) = {} /\ tail \in tail..(head - 1)
                BY <2>1, <3>1 DEF Positions
            <4>. QED
                BY <2>1, <3>1, <4>1 DEF Contents, SlotsKeep
        <3>2. \A u \in Threads \ {t} : u \in early => u \in early'
            BY <2>1
        <3>. QED
            BY <2>1, <3>1, <3>2 DEF Contents, CopiesKeep
    <2>5. OutInOrder'
        BY <2>1 DEF Contents, OutInOrder
    <2>. QED
        BY <2>2, <2>3, <2>4, <2>5
<1>6. ASSUME NEW t \in Threads, NEW to \in Doors \cup Callers, PopCasOk(t, to)
      PROVE  WritersKeep' /\ SlotsKeep' /\ CopiesKeep' /\ OutInOrder'
    <2>1. /\ ~torn /\ ~dropped /\ t \notin early
          /\ pc[t] = "pop_cas" /\ pc' = [pc EXCEPT ![t] = to]
          /\ to # "push_write" /\ to # "pop_cas"
          /\ tail = current_tail[t] /\ tail' = tail + 1
          /\ ended' = Append(ended, value[t])
          /\ value' = [value EXCEPT ![t] = NoValue]
          /\ current_tail' = [current_tail EXCEPT ![t] = 0]
          /\ UNCHANGED <<buffer, head, dropped, current_head, pushed>>
        BY <1>6 DEF PopCasOk, ForgetCopy, Goto, Abandoned, Doors, Callers
    <2>2. tail < head /\ Writing(tail) = {} /\ value[t] = pushed[tail + 1]
        BY <2>1 DEF Positions, WholeCopy, Contents, CopiesKeep
    <2>3. \A p : Writing(p)' = Writing(p)
        BY <2>1 DEF Writing
    <2>4. WritersKeep'
        <3>1. \A u \in Threads : pc[u] = "push_write" => current_head[u] # tail
            BY <2>2 DEF Writing
        <3>. QED
            BY <2>1, <3>1 DEF Contents, WritersKeep
    <2>5. SlotsKeep'
        <3>1. \A p \in (tail + 1)..(head - 1) : p \in tail..(head - 1)
            OBVIOUS
        <3>2. \A p \in (tail + 1)..(head - 1) : Writing(p) = {} => buffer[Slot(p)] = pushed[p + 1]
            BY <2>1, <3>1 DEF Contents, SlotsKeep
        <3>. QED
            BY <2>1, <2>3, <3>2 DEF SlotsKeep, Slot
    <2>6. CopiesKeep'
        <3>1. \A u \in Threads : pc'[u] = "pop_cas" => current_tail'[u] <= tail
            BY <2>1 DEF Positions, Inside
        <3>. QED
            BY <2>1, <3>1 DEF CopiesKeep
    <2>7. OutInOrder'
        <3>1. /\ \A i \in 1..tail : ended'[i] = ended[i]
              /\ ended'[tail + 1] = value[t]
            BY <2>1, AppendProperties DEF Positions
        <3>2. \A i \in 1..tail : ended[i] = pushed[i]
            BY <2>1 DEF Contents, OutInOrder
        <3>3. \A i \in 1..(tail + 1) : i \in 1..tail \/ i = tail + 1
            OBVIOUS
        <3>4. \A i \in 1..(tail + 1) : ended'[i] = pushed[i]
            BY <2>2, <3>1, <3>2, <3>3
        <3>. QED
            BY <2>1, <3>4 DEF OutInOrder
    <2>. QED
        BY <2>4, <2>5, <2>6, <2>7
<1>7. CASE ClientDrop
    <2> DEFINE rest == [i \in 1..(head - tail) |-> buffer[Slot(tail + i - 1)]]
    <2>1. /\ ~torn /\ ~dropped /\ dropped'
          /\ ended' = ended \o rest
          /\ UNCHANGED <<buffer, head, tail, current_head, current_tail, value, pc, pushed, early>>
          /\ \A t \in Threads : pc[t] \in Callers
        BY <1>7 DEF ClientDrop, DropRing, locals
    <2>2. \A t \in Threads : pc[t] # "push_write" /\ pc[t] # "pop_cas"
        BY <2>1 DEF Callers
    <2>3. \A p : Writing(p) = {} /\ Writing(p)' = {}
        BY <2>1, <2>2 DEF Writing
    <2>4. head - tail \in Nat
        BY DEF Positions
    <2>5. \A i \in 1..(head - tail) : rest[i] = pushed[tail + i]
        <3>1. ASSUME NEW i \in 1..(head - tail) PROVE rest[i] = pushed[tail + i]
            <4>1. tail + i - 1 \in tail..(head - 1) /\ (tail + i - 1) + 1 = tail + i
                BY <2>4
            <4>2. buffer[Slot(tail + i - 1)] = pushed[(tail + i - 1) + 1]
                BY <2>1, <2>3, <4>1 DEF Contents, SlotsKeep
            <4>. QED
                BY <4>1, <4>2
        <3>. QED
            BY <3>1
    <2>6. rest \in Seq(Values) /\ Len(rest) = head - tail
        <3>1. rest \in [1..(head - tail) -> Values]
            <4>1. \A i \in 1..(head - tail) : Slot(tail + i - 1) \in 0..(N - 1)
                BY <2>4, SlotInRing
            <4>. QED
                BY <4>1
        <3> HIDE DEF rest
        <3>. QED
            BY <2>4, <3>1, ValueSequence
    <2> HIDE DEF rest
    <2>7. ended' = pushed
        <3>1. /\ ended' \in Seq(Values)
              /\ Len(ended') = head
              /\ \A i \in 1..head : ended'[i] = IF i <= tail THEN ended[i] ELSE rest[i - tail]
            BY <2>1, <2>4, <2>6, ConcatProperties DEF Positions
        <3>2. ASSUME NEW i \in 1..head PROVE ended'[i] = pushed[i]
            <4>1. CASE i <= tail
                <5>1. i \in 1..tail
                    BY <4>1
                <5>. QED
                    BY <2>1, <3>1, <4>1, <5>1 DEF Contents, OutInOrder
            <4>2. CASE i > tail
                <5>1. i - tail \in 1..(head - tail) /\ tail + (i - tail) = i
                    BY <2>4, <4>2
                <5>2. rest[i - tail] = pushed[i]
                    BY <2>5, <5>1
                <5>. QED
                    BY <3>1, <4>2, <5>2
            <4>. QED
                BY <4>1, <4>2
        <3>. QED
            BY <3>1, <3>2, SeqEqual DEF Positions
    <2>8. WritersKeep' /\ CopiesKeep' /\ OutInOrder'
        BY <2>1, <2>2, <2>7 DEF WritersKeep, CopiesKeep, OutInOrder
    <2>9. SlotsKeep'
        BY <2>1, <2>3 DEF Contents, SlotsKeep, Slot
    <2>. QED
        BY <2>8, <2>9
<1>8. ASSUME NEW t \in Threads, RingStep(t)
      PROVE  WritersKeep' /\ SlotsKeep' /\ CopiesKeep' /\ OutInOrder'
    <2> USE <1>1 DEF Goto, Doors, Callers, shared, locals, history, ringVars
    <2>1. CASE PushTail(t) \/ PopTail(t) \/ PopHead(t)
        BY <2>1 DEF PushTail, PopTail, PopHead
    <2>2. CASE PopCasFail(t)
        BY <2>2 DEF PopCasFail, ForgetCopy
    <2>3. ASSUME NEW to \in Doors \cup Callers, PushHead(t, to)
          PROVE  WritersKeep' /\ SlotsKeep' /\ CopiesKeep' /\ OutInOrder'
        BY <2>3 DEF PushHead
    <2>4. ASSUME NEW to \in Doors \cup Callers, PushCasFail(t, to) \/ PopEmpty(t, to)
          PROVE  WritersKeep' /\ SlotsKeep' /\ CopiesKeep' /\ OutInOrder'
        BY <2>4 DEF PushCasFail, PopEmpty
    <2>5. ASSUME NEW to \in Doors \cup Callers, TryPopCasFail(t, to)
          PROVE  WritersKeep' /\ SlotsKeep' /\ CopiesKeep' /\ OutInOrder'
        BY <2>5 DEF TryPopCasFail, ForgetCopy
    <2>. QED
        BY <1>3, <1>4, <1>5, <1>6, <1>8, <2>1, <2>2, <2>3, <2>4, <2>5 DEF RingStep
<1>9. ASSUME NEW t \in Threads, ClientStep(t)
      PROVE  WritersKeep' /\ SlotsKeep' /\ CopiesKeep' /\ OutInOrder'
    BY <1>1, <1>9 DEF ClientStep, Doors, Callers, shared, history
<1>. QED
    BY <1>2, <1>7, <1>8, <1>9 DEF ClientNext

\* The parts of the invariant carry each other over every step of the ring and its client.
LEMMA RingInduction == RingInv /\ [ClientNext]_clientVars => RingInv'
    BY RingTypeInduction, PositionsInduction, OneWriterInduction, WholeCopyInduction,
       ContentsInduction, AbandonedInduction
    DEF RingInv

\* A new ring is empty and nobody is inside.
LEMMA RingStart == ClientInit => RingInv
<1> SUFFICES ASSUME ClientInit PROVE RingInv
    OBVIOUS
<1> USE RingSize DEF ClientInit, RingInit, Callers
<1>1. RingTypeOK
    BY EmptySeq DEF RingTypeOK, Values, Labels
<1>2. Positions
    BY EmptySeq DEF Positions, Inside
<1>3. OneWriter /\ WholeCopy /\ Abandoned
    BY DEF OneWriter, WholeCopy, Abandoned
<1>4. Contents
    BY DEF Contents, WritersKeep, SlotsKeep, CopiesKeep, OutInOrder
<1>. QED
    BY <1>1, <1>2, <1>3, <1>4 DEF RingInv

\* The invariant says what the ring promises.
LEMMA RingPromises == RingInv => WithinCapacity /\ QueueUntilTorn
<1> SUFFICES ASSUME RingInv PROVE WithinCapacity /\ QueueUntilTorn
    OBVIOUS
<1> USE DEF RingInv, RingTypeOK
<1>1. WithinCapacity
    <2>1. \A t \in Threads : pc[t] = "push_head" => current_tail[t] <= head
        BY DEF Positions, Inside
    <2>. QED
        BY <2>1 DEF WithinCapacity, Positions, OneWriter
<1>2. ASSUME ~torn PROVE IsPrefix(ended, pushed)
    <2>1. CASE dropped
        BY <1>2, <2>1 DEF Contents, OutInOrder, IsPrefix
    <2>2. CASE ~dropped
        <3>1. /\ Len(ended) = tail /\ tail <= Len(pushed)
              /\ \A i \in 1..tail : ended[i] = pushed[i]
            BY <1>2, <2>2 DEF Positions, Contents, OutInOrder
        <3>2. \A i \in 1..tail : ended[i] \in Values /\ pushed[i] \in Values
            BY <3>1, ElementOfSeq
        <3>3. /\ SubSeq(ended, 1, tail) \in Seq(Values) /\ SubSeq(pushed, 1, tail) \in Seq(Values)
              /\ Len(SubSeq(ended, 1, tail)) = tail /\ Len(SubSeq(pushed, 1, tail)) = tail
              /\ \A i \in 1..tail : SubSeq(ended, 1, tail)[i] = ended[i]
              /\ \A i \in 1..tail : SubSeq(pushed, 1, tail)[i] = pushed[i]
            BY <3>2, SubSeqProperties
        <3>4. SubSeq(ended, 1, tail) = SubSeq(pushed, 1, tail)
            BY <3>1, <3>3, SeqEqual
        <3>. QED
            BY <3>1, <3>4 DEF IsPrefix
    <2>. QED
        BY <2>1, <2>2
<1>3. ASSUME ~torn, dropped PROVE ended = pushed
    BY <1>3 DEF Contents, OutInOrder
<1>. QED
    BY <1>1, <1>2, <1>3 DEF QueueUntilTorn

\* Whoever the clients are and whatever they call, no position is claimed twice, the ring never
\* holds more than N values, and it is a queue until a torn copy is returned.
THEOREM RingSafe == AnyClient => [](WithinCapacity /\ QueueUntilTorn)
<1>1. AnyClient => []RingInv
    BY RingStart, RingInduction, PTL DEF AnyClient
<1>. QED
    BY <1>1, RingPromises, PTL

----------------------------------------------------------------------------
(* The ring buffer by itself, as RingBufferUse calls it.                   *)

\* The invariant of the ring, and the numbers that tell the values apart.
UseInv == RingInv /\ calls \in [Threads -> Nat]

\* The two modules mean the same by the steps of the ring.
LEMMA UseSteps ==
    ASSUME NEW t, NEW to
    PROVE  /\ Use!PushTail(t) <=> PushTail(t)
           /\ Use!PushHead(t, to) <=> PushHead(t, to)
           /\ Use!PushCasOk(t) <=> PushCasOk(t)
           /\ Use!PushCasFail(t, to) <=> PushCasFail(t, to)
           /\ Use!PushWrite(t, to) <=> PushWrite(t, to)
           /\ Use!PopTail(t) <=> PopTail(t)
           /\ Use!PopEmpty(t, to) <=> PopEmpty(t, to)
           /\ Use!PopHead(t) <=> PopHead(t)
           /\ Use!PopRead(t) <=> PopRead(t)
           /\ Use!PopCasOk(t, to) <=> PopCasOk(t, to)
           /\ Use!PopCasFail(t) <=> PopCasFail(t)
           /\ Use!TryPopCasFail(t, to) <=> TryPopCasFail(t, to)
<1> USE DEF Use!Goto, Goto, Use!shared, shared, Use!locals, locals, Use!history, history,
            Use!ringVars, ringVars, Use!ForgetCopy, ForgetCopy, Use!Slot, Slot, Use!Writing, Writing
<1>1. Use!PushTail(t) <=> PushTail(t)
    BY DEF Use!PushTail, PushTail
<1>2. Use!PushHead(t, to) <=> PushHead(t, to)
    BY DEF Use!PushHead, PushHead
<1>3. Use!PushCasOk(t) <=> PushCasOk(t)
    BY DEF Use!PushCasOk, PushCasOk
<1>4. Use!PushCasFail(t, to) <=> PushCasFail(t, to)
    BY DEF Use!PushCasFail, PushCasFail
<1>5. Use!PushWrite(t, to) <=> PushWrite(t, to)
    BY DEF Use!PushWrite, PushWrite
<1>6. Use!PopTail(t) <=> PopTail(t)
    BY DEF Use!PopTail, PopTail
<1>7. Use!PopEmpty(t, to) <=> PopEmpty(t, to)
    BY DEF Use!PopEmpty, PopEmpty
<1>8. Use!PopHead(t) <=> PopHead(t)
    BY DEF Use!PopHead, PopHead
<1>9. Use!PopRead(t) <=> PopRead(t)
    BY DEF Use!PopRead, PopRead
<1>10. Use!PopCasOk(t, to) <=> PopCasOk(t, to)
    BY DEF Use!PopCasOk, PopCasOk
<1>11. Use!PopCasFail(t) <=> PopCasFail(t)
    BY DEF Use!PopCasFail, PopCasFail
<1>12. Use!TryPopCasFail(t, to) <=> TryPopCasFail(t, to)
    BY DEF Use!TryPopCasFail, TryPopCasFail
<1>. QED
    BY <1>1, <1>2, <1>3, <1>4, <1>5, <1>6, <1>7, <1>8, <1>9, <1>10, <1>11, <1>12

\* Every step of RingBufferUse is a step of the ring or of its client.
LEMMA UseStep == UseInv /\ [Use!Next]_Use!vars => [ClientNext]_clientVars /\ calls' \in [Threads -> Nat]
<1> SUFFICES ASSUME UseInv, [Use!Next]_Use!vars
             PROVE  [ClientNext]_clientVars /\ calls' \in [Threads -> Nat]
    OBVIOUS
<1> USE DEF UseInv
<1>1. /\ "idle" \in Callers /\ "idle" \in Doors \cup Callers
      /\ "push_tail" \in Doors \cup Callers /\ "pop_tail" \in Doors \cup Callers
    BY DEF Doors, Callers
<1>2. CASE UNCHANGED Use!vars
    BY <1>2 DEF Use!vars, Use!ringVars, Use!shared, Use!locals, Use!history,
                clientVars, ringVars, shared, locals, history
<1>3. ASSUME NEW t \in Threads, Use!CallPush(t)
      PROVE  ClientNext /\ calls' \in [Threads -> Nat]
    <2>1. <<t, calls[t]>> \in Values
        BY DEF Values
    <2>2. ClientStep(t)
        BY <1>1, <1>3, <2>1
        DEF Use!CallPush, Use!Call, Use!Goto, Use!Message, Use!shared, Use!history,
            ClientStep, shared, history
    <2>. QED
        BY <1>3, <2>2 DEF ClientNext, Use!CallPush, Use!Call
<1>4. ASSUME NEW t \in Threads, Use!CallPop(t)
      PROVE  ClientNext /\ calls' \in [Threads -> Nat]
    <2>1. value[t] \in Values /\ value = [value EXCEPT ![t] = value[t]]
        BY DEF RingInv, RingTypeOK
    <2>2. ClientStep(t)
        BY <1>1, <1>4, <2>1
        DEF Use!CallPop, Use!Call, Use!Goto, Use!ringVars, Use!shared, Use!locals, Use!history,
            ClientStep, shared, history
    <2>. QED
        BY <1>4, <2>2 DEF ClientNext, Use!CallPop, Use!Call
<1>5. ASSUME NEW t \in Threads, Use!Run(t)
      PROVE  ClientNext /\ calls' \in [Threads -> Nat]
    <2>1. CASE \/ PushTail(t) \/ PushHead(t, "idle") \/ PushCasOk(t) \/ PushWrite(t, "idle")
               \/ PopTail(t) \/ PopEmpty(t, "idle") \/ PopHead(t) \/ PopRead(t)
               \/ PopCasOk(t, "idle") \/ PopCasFail(t) \/ TryPopCasFail(t, "idle")
               \/ PushCasFail(t, "push_tail") \/ PushCasFail(t, "idle")
        <3>1. RingStep(t)
            BY <1>1, <2>1 DEF RingStep
        <3>2. calls' \in [Threads -> Nat]
            BY <1>5 DEF Use!Run
        <3>. QED
            BY <3>1, <3>2 DEF ClientNext
    <2>. QED
        BY <1>5, <2>1, UseSteps DEF Use!Run
<1>6. ASSUME Use!Drop PROVE ClientNext /\ calls' \in [Threads -> Nat]
    BY <1>1, <1>6
    DEF Use!Drop, Use!DropRing, Use!Slot, Use!locals, ClientNext, ClientDrop, DropRing, Slot, locals
<1>. QED
    BY <1>2, <1>3, <1>4, <1>5, <1>6 DEF Use!Next

\* RingBufferUse keeps the invariant of the ring.
LEMMA UseInvariance == Use!Spec => []UseInv
<1>1. Use!Init => UseInv
    <2> SUFFICES ASSUME Use!Init PROVE UseInv
        OBVIOUS
    <2>1. ClientInit
        BY DEF Use!Init, Use!RingInit, ClientInit, RingInit, Callers
    <2>2. calls \in [Threads -> Nat]
        BY DEF Use!Init
    <2>. QED
        BY <2>1, <2>2, RingStart DEF UseInv
<1>2. UseInv /\ [Use!Next]_Use!vars => UseInv'
    BY UseStep, RingInduction DEF UseInv
<1>. QED
    BY <1>1, <1>2, PTL DEF Use!Spec

\* RingBufferUse is a client like any other.
THEOREM UseIsClient == Use!Spec => AnyClient
<1>1. Use!Init => ClientInit
    BY DEF Use!Init, Use!RingInit, ClientInit, RingInit, Callers
<1>2. UseInv /\ [Use!Next]_Use!vars => [ClientNext]_clientVars
    BY UseStep
<1>. QED
    BY <1>1, <1>2, UseInvariance, PTL DEF Use!Spec, AnyClient

\* Used by itself, the ring never holds more than N values, and no two producers write one slot.
\* (Use has the constants and variables of this module, so that these are the properties that
\* RingBufferUse checks.)
THEOREM UseCapacity == Use!Spec => []WithinCapacity
    BY UseIsClient, RingSafe, PTL

\* Until a torn copy is returned, the values leave the ring in order, each one once and as it
\* was pushed, and none is left behind when the ring is dropped.
THEOREM UseQueue == Use!Spec => []QueueUntilTorn
    BY UseIsClient, RingSafe, PTL

----------------------------------------------------------------------------
(* The channel.                                                            *)

ChannelTypeOK ==
    /\ senders_count \in Nat
    /\ sender_wait_num \in Nat
    /\ receiver_state \in {0, 1, 2}
    /\ sleepers \in SUBSET Senders
    /\ receiver_asleep \in SUBSET {Receiver}
    /\ call \in [Threads -> {"none", "send", "try_send", "recv", "drain", "try_recv"}]
    /\ seen \in [Senders -> Nat]
    /\ calls \in [Threads -> Nat]
    /\ announced \in Nat
    /\ disconnected \in BOOLEAN

\* Where the Receiver stands in its calls, where it sleeps, and who is left when the Channel
\* is dropped.
Placement ==
    /\ pc[Receiver] \in {"pop_tail", "pop_head", "pop_read", "pop_cas"}
         => call[Receiver] \in {"recv", "drain", "try_recv"}
    /\ Receiver \in receiver_asleep => pc[Receiver] = "recv_check"
    /\ dropped => \A t \in Threads : pc[t] \in {"none", "gone"}

\* The threads that own a Sender.
Living == {s \in Senders : pc[s] \notin {"none", "gone"}}

\* senders_count is exact, and recv() takes what is left only when no Sender is left.
SendersCounted ==
    /\ senders_count = Cardinality(Living)
    /\ call[Receiver] = "drain" => Living = {}

\* The Receiver that sleeps though receiver_state is 1 is about to be woken, and a message that
\* came after it announced its sleep has a Sender that will look at receiver_state.
WakeDue ==
    /\ (receiver_asleep # {} /\ receiver_state = 1) => \E s \in Senders : pc[s] = "send_wake"
    /\ (/\ receiver_asleep # {} \/ pc[Receiver] = "recv_wait"
        /\ receiver_state = 2
        /\ Len(pushed) > announced)
         => \E s \in Senders : pc[s] \in {"push_write", "pushed", "send_cas"}

\* The inductive invariant.
IInv ==
    /\ RingInv /\ ChannelTypeOK /\ Placement /\ SendersCounted /\ WakeDue
    /\ DisconnectedIsFinal /\ DepartureIsSeen

\* The Receiver is not one of the Senders, and all are threads of the ring.
LEMMA Members == Receiver \in Threads /\ Receiver \notin Senders /\ \A s \in Senders : s \in Threads
    BY ChannelAssumption

\* What send() and try_send() do inside the ring.
LEMMA PushEffect ==
    ASSUME RingInv, NEW s \in Senders, Push(s)
    PROVE  /\ pc[s] \in {"push_tail", "push_head", "push_cas", "push_write"}
           /\ \E to \in {"push_tail", "push_head", "push_cas", "push_write", "full", "pushed", "idle"} :
                /\ pc' = [pc EXCEPT ![s] = to]
                /\ pc[s] = "push_write" => to = "pushed"
                /\ UNCHANGED <<head, pushed>> \/ (pc[s] = "push_cas" /\ to = "push_write")
                /\ call' = [call EXCEPT ![s] = IF to = "idle" THEN "none" ELSE @]
           /\ RingStep(s)
           /\ UNCHANGED <<tail, dropped, sendSide, recvSide, senders_count, calls, disconnected>>
<1> USE Members DEF RingInv, RingTypeOK, Push, Returning, Goto, RingStep, Doors, Callers,
                    shared, locals, history, ringVars
<1>1. CASE PushTail(s)
    BY <1>1 DEF PushTail
<1>2. CASE PushHead(s, WhenFull(s))
    <2>1. WhenFull(s) \in {"full", "idle"}
        BY DEF WhenFull
    <2>2. PICK to \in {"full", "idle", "push_cas"} : pc' = [pc EXCEPT ![s] = to]
        BY <1>2, <2>1 DEF PushHead
    <2>. QED
        BY <1>2, <2>1, <2>2 DEF PushHead
<1>3. CASE PushCasOk(s)
    BY <1>3 DEF PushCasOk
<1>4. CASE PushCasFail(s, WhenPushFails(s))
    <2>1. WhenPushFails(s) \in {"push_tail", "idle"}
        BY DEF WhenPushFails
    <2>. QED
        BY <1>4, <2>1 DEF PushCasFail
<1>5. CASE PushWrite(s, "pushed")
    BY <1>5 DEF PushWrite
<1>. QED
    BY <1>1, <1>2, <1>3, <1>4, <1>5

\* What recv() and try_recv() do inside the ring.
LEMMA PopEffect ==
    ASSUME RingInv, ChannelTypeOK, Placement, Pop \/ FoundEmpty
    PROVE  /\ pc[Receiver] \in {"pop_tail", "pop_head", "pop_read", "pop_cas"}
           /\ \E to \in {"pop_head", "pop_read", "pop_cas", "popped", "announce", "try_check", "idle"} :
                /\ pc' = [pc EXCEPT ![Receiver] = to]
                /\ call' = [call EXCEPT ![Receiver] = IF to = "idle" THEN "none" ELSE @]
           /\ RingStep(Receiver)
           /\ tail' = tail \/ (tail' = tail + 1 /\ tail < head)
           /\ disconnected' # disconnected => call[Receiver] = "drain" /\ head = tail /\ tail' = tail
           /\ UNCHANGED <<head, pushed, dropped, sendSide, recvSide, senders_count, calls>>
<1> USE Members DEF RingInv, RingTypeOK, Returning, Goto, RingStep, Doors, Callers,
                    shared, locals, history, ringVars
<1>1. CASE Pop /\ PopTail(Receiver)
    BY <1>1 DEF Pop, PopTail
<1>2. CASE Pop /\ PopHead(Receiver)
    BY <1>2 DEF Pop, PopHead
<1>3. CASE Pop /\ PopRead(Receiver)
    BY <1>3 DEF Pop, PopRead
<1>4. ASSUME NEW to \in {"popped", "idle"}, Pop, PopCasOk(Receiver, to)
      PROVE  /\ pc[Receiver] = "pop_cas" /\ pc' = [pc EXCEPT ![Receiver] = to]
             /\ call' = [call EXCEPT ![Receiver] = IF to = "idle" THEN "none" ELSE @]
             /\ tail' = tail + 1 /\ tail < head
             /\ UNCHANGED <<head, pushed, dropped, sendSide, recvSide, senders_count, calls, disconnected>>
    BY <1>4 DEF Pop, PopCasOk, Positions
<1>5. CASE Pop /\ PopCasOk(Receiver, IF call[Receiver] = "recv" THEN "popped" ELSE "idle")
    BY <1>4, <1>5
<1>6. CASE Pop /\ PopCasFail(Receiver)
    BY <1>6 DEF Pop, PopCasFail
<1>7. CASE Pop /\ TryPopCasFail(Receiver, "idle")
    BY <1>7 DEF Pop, TryPopCasFail
<1>8. CASE Pop /\ TryPopCasFail(Receiver, "try_check")
    BY <1>8 DEF Pop, TryPopCasFail
<1>9. CASE FoundEmpty
    <2> DEFINE to == CASE call[Receiver] = "recv" -> "announce"
                       [] call[Receiver] = "drain" -> "idle"
                       [] call[Receiver] = "try_recv" -> "try_check"
    <2>1. /\ PopEmpty(Receiver, to)
          /\ call' = [call EXCEPT ![Receiver] = IF pc'[Receiver] = "idle" THEN "none" ELSE @]
          /\ disconnected' = (disconnected \/ call[Receiver] = "drain")
          /\ UNCHANGED <<sendSide, recvSide, senders_count, calls>>
        BY <1>9 DEF FoundEmpty
    <2>2. call[Receiver] \in {"recv", "drain", "try_recv"}
        BY <2>1 DEF PopEmpty, Placement
    <2>3. to \in {"announce", "idle", "try_check"}
        BY <2>2
    <2> HIDE DEF to
    <2>4. head = current_tail[Receiver] /\ current_tail[Receiver] <= tail /\ tail <= head
        BY <2>1 DEF PopEmpty, Positions, Inside
    <2>5. head = tail
        BY <2>4
    <2>6. /\ pc[Receiver] = "pop_head" /\ pc' = [pc EXCEPT ![Receiver] = to]
          /\ UNCHANGED <<head, tail, pushed, dropped>>
        BY <2>1 DEF PopEmpty
    <2>7. RingStep(Receiver)
        BY <2>1, <2>3
    <2>8. call' = [call EXCEPT ![Receiver] = IF to = "idle" THEN "none" ELSE @]
        BY <2>1, <2>6
    <2>9. disconnected' # disconnected => call[Receiver] = "drain"
        BY <2>1 DEF ChannelTypeOK
    <2>. QED
        BY <2>1, <2>3, <2>5, <2>6, <2>7, <2>8, <2>9
<1>. QED
    BY <1>1, <1>2, <1>3, <1>5, <1>6, <1>7, <1>8, <1>9 DEF Pop

\* A step outside the ring is a step of its client.
LEMMA OutsideStep ==
    ASSUME RingInv, NEW t \in Threads, NEW to \in Doors \cup Callers,
           pc[t] \in Callers, pc' = [pc EXCEPT ![t] = to], UNCHANGED ringVars,
           dropped => to \in Callers
    PROVE  ClientNext
<1>1. value[t] \in Values /\ value' = [value EXCEPT ![t] = value[t]]
    BY DEF RingInv, RingTypeOK, ringVars, locals
<1>2. ClientStep(t)
    BY <1>1 DEF ClientStep, ringVars, shared, locals, history
<1>. QED
    BY <1>2 DEF ClientNext

\* Every step of the channel is a step of the ring, of its client, or neither.
LEMMA ChannelStep ==
    RingInv /\ ChannelTypeOK /\ Placement /\ [Next]_vars => [ClientNext]_clientVars
<1> SUFFICES ASSUME RingInv, ChannelTypeOK, Placement, [Next]_vars PROVE [ClientNext]_clientVars
    OBVIOUS
<1> USE Members
<1>1. \A t \in Threads : pc[t] \notin {"none", "gone"} => ~dropped
    BY DEF Placement
<1>2. CASE UNCHANGED vars
    BY <1>2 DEF vars, others, clientVars
<1>3. ASSUME NEW t \in Threads, NEW from \in Callers, NEW to \in Doors \cup Callers,
             Goto(t, from, to), UNCHANGED ringVars, from \notin {"none", "gone"} \/ to \in Callers
      PROVE  [ClientNext]_clientVars
    BY <1>1, <1>3, OutsideStep DEF Goto
<1>4. ASSUME NEW s \in Senders, SenderStep(s) PROVE [ClientNext]_clientVars
    <2>1. CASE SendCheck(s)
        BY <1>3, <2>1 DEF SendCheck, Line, others, Doors, Callers
    <2>2. CASE Push(s)
        BY <2>2, PushEffect DEF ClientNext
    <2>3. CASE SendLoadNum(s) \/ SendWait(s)
        BY <1>3, <2>3 DEF SendLoadNum, SendWait, Line, others, Callers
    <2>4. CASE SendLoadState(s) \/ SendCas(s) \/ SendWake(s)
        BY <1>3, <2>4 DEF SendLoadState, SendCas, SendWake, Line, others, Callers
    <2>. QED
        BY <1>4, <2>1, <2>2, <2>3, <2>4 DEF SenderStep
<1>5. ASSUME NEW s \in Senders, CallSend(s) PROVE [ClientNext]_clientVars
    <2>1. <<s, calls[s]>> \in Values
        BY DEF Values, ChannelTypeOK
    <2>2. ClientStep(s)
        BY <1>1, <1>5, <2>1
        DEF CallSend, Call, Line, Goto, ClientStep, Callers, shared, history
    <2>. QED
        BY <2>2 DEF ClientNext
<1>6. ASSUME NEW s \in Senders, Clone(s) PROVE [ClientNext]_clientVars
    <2>1. PICK u \in Senders : pc[u] = "none" /\ pc' = [pc EXCEPT ![u] = "idle"]
        BY <1>6 DEF Clone
    <2>. QED
        BY <1>3, <1>6, <2>1 DEF Clone, Goto, Callers
<1>7. ASSUME NEW s \in Senders, DropSender(s) PROVE [ClientNext]_clientVars
    BY <1>3, <1>7 DEF DropSender, Line, Callers
<1>8. CASE ReceiverStep
    <2>1. CASE Pop \/ FoundEmpty
        BY <2>1, PopEffect DEF ClientNext
    <2>2. CASE RecvCheck
        BY <1>3, <2>2 DEF RecvCheck, Line, others, Doors, Callers
    <2>3. CASE TryRecvCheck \/ RecvAdd \/ RecvWake
        BY <1>3, <2>3 DEF TryRecvCheck, RecvAdd, RecvWake, Line, others, Callers
    <2>4. CASE RecvAnnounce \/ RecvWait
        BY <1>3, <2>4 DEF RecvAnnounce, RecvWait, Line, others, Callers
    <2>. QED
        BY <1>8, <2>1, <2>2, <2>3, <2>4 DEF ReceiverStep
<1>9. CASE CallRecv \/ CallTryRecv \/ DropReceiver
    BY <1>3, <1>9 DEF CallRecv, CallTryRecv, DropReceiver, Call, Line, others, Doors, Callers
<1>10. CASE DropChannel
    BY <1>10 DEF DropChannel, ClientNext, ClientDrop, Callers
<1>11. CASE SpuriousWake
    BY <1>11 DEF SpuriousWake, others, clientVars
<1>. QED
    BY <1>2, <1>4, <1>5, <1>6, <1>7, <1>8, <1>9, <1>10, <1>11 DEF Next

\* How the number of Senders changes.
LEMMA SendersCounting ==
    ASSUME NEW S \in SUBSET Senders, NEW s \in Senders
    PROVE  /\ Cardinality(S) \in Nat
           /\ Cardinality(S) = 0 <=> S = {}
           /\ s \notin S => Cardinality(S \cup {s}) = Cardinality(S) + 1
           /\ s \in S => Cardinality(S \ {s}) = Cardinality(S) - 1
<1>1. IsFiniteSet(S)
    BY ChannelAssumption, FS_Subset
<1>. QED
    BY <1>1, FS_CardinalityType, FS_EmptySet, FS_AddElement, FS_RemoveElement

\* senders_count follows the clones and the drops, and recv() does not drain while a Sender lives.
LEMMA CountedInduction ==
    RingInv /\ ChannelTypeOK /\ Placement /\ SendersCounted /\ [Next]_vars => SendersCounted'
<1> SUFFICES ASSUME RingInv, ChannelTypeOK, Placement, SendersCounted, [Next]_vars
             PROVE  SendersCounted'
    OBVIOUS
<1> USE Members
<1>1. pc \in [Threads -> Labels] /\ call \in [Threads -> {"none", "send", "try_send", "recv", "drain", "try_recv"}]
    BY DEF RingInv, RingTypeOK, ChannelTypeOK
<1>2. ASSUME Living' = Living, senders_count' = senders_count,
             call'[Receiver] = "drain" => call[Receiver] = "drain"
      PROVE  SendersCounted'
    BY <1>2 DEF SendersCounted
<1>3. ASSUME NEW s \in Senders, NEW to, pc' = [pc EXCEPT ![s] = to],
             pc[s] \notin {"none", "gone"}, to \notin {"none", "gone"}
      PROVE  Living' = Living
    BY <1>1, <1>3 DEF Living
<1>4. ASSUME NEW to, pc' = [pc EXCEPT ![Receiver] = to] PROVE Living' = Living
    BY <1>1, <1>4 DEF Living
<1>5. CASE UNCHANGED vars
    BY <1>2, <1>5 DEF vars, others, Living
<1>6. ASSUME NEW s \in Senders, SenderStep(s) PROVE SendersCounted'
    <2> USE DEF Line, Goto, Returning, others
    <2>1. CASE SendCheck(s)
        <3>1. PICK to \in {"idle", "push_tail"} : pc[s] = "send_check" /\ pc' = [pc EXCEPT ![s] = to]
            BY <2>1 DEF SendCheck
        <3>2. Living' = Living
            BY <1>3, <3>1
        <3>3. call'[Receiver] = call[Receiver] /\ senders_count' = senders_count
            BY <1>1, <2>1 DEF SendCheck
        <3>. QED
            BY <1>2, <3>2, <3>3
    <2>2. CASE Push(s)
        <3>1. PICK to \in {"push_tail", "push_head", "push_cas", "push_write", "full", "pushed", "idle"} :
                /\ pc' = [pc EXCEPT ![s] = to]
                /\ call' = [call EXCEPT ![s] = IF to = "idle" THEN "none" ELSE @]
            BY <2>2, PushEffect
        <3>2. pc[s] \notin {"none", "gone"} /\ senders_count' = senders_count
            BY <2>2, PushEffect
        <3>3. Living' = Living
            BY <1>3, <3>1, <3>2
        <3>. QED
            BY <1>1, <1>2, <3>1, <3>2, <3>3
    <2>3. CASE SendLoadNum(s) \/ SendWait(s)
        BY <1>1, <1>2, <1>3, <2>3 DEF SendLoadNum, SendWait
    <2>4. CASE SendLoadState(s) \/ SendCas(s) \/ SendWake(s)
        BY <1>1, <1>2, <1>3, <2>4 DEF SendLoadState, SendCas, SendWake
    <2>. QED
        BY <1>6, <2>1, <2>2, <2>3, <2>4 DEF SenderStep
<1>7. ASSUME NEW s \in Senders, CallSend(s) PROVE SendersCounted'
    BY <1>1, <1>2, <1>3, <1>7 DEF CallSend, Call, Line, Goto
<1>8. ASSUME NEW s \in Senders, Clone(s) PROVE SendersCounted'
    <2>1. PICK u \in Senders : pc[u] = "none" /\ pc' = [pc EXCEPT ![u] = "idle"]
        BY <1>8 DEF Clone
    <2>2. s \in Living /\ call' = call /\ senders_count' = senders_count + 1
        BY <1>8 DEF Clone, Living
    <2>3. u \notin Living /\ Living' = Living \cup {u} /\ Living \in SUBSET Senders
        BY <1>1, <2>1 DEF Living
    <2>4. Cardinality(Living') = Cardinality(Living) + 1
        BY <2>3, SendersCounting
    <2>. QED
        BY <2>2, <2>4 DEF SendersCounted
<1>9. ASSUME NEW s \in Senders, DropSender(s) PROVE SendersCounted'
    <2>1. s \in Living /\ Living' = Living \ {s} /\ Living \in SUBSET Senders
        BY <1>1, <1>9 DEF DropSender, Line, Goto, Living
    <2>2. Cardinality(Living') = Cardinality(Living) - 1
        BY <2>1, SendersCounting
    <2>. QED
        BY <1>9, <2>1, <2>2 DEF DropSender, SendersCounted
<1>10. CASE ReceiverStep
    <2> USE DEF Line, Goto, Returning, others
    <2>1. CASE Pop \/ FoundEmpty
        <3>1. PICK to \in {"pop_head", "pop_read", "pop_cas", "popped", "announce", "try_check", "idle"} :
                /\ pc' = [pc EXCEPT ![Receiver] = to]
                /\ call' = [call EXCEPT ![Receiver] = IF to = "idle" THEN "none" ELSE @]
            BY <2>1, PopEffect
        <3>2. senders_count' = senders_count
            BY <2>1, PopEffect
        <3>. QED
            BY <1>1, <1>2, <1>4, <3>1, <3>2
    <2>2. CASE RecvCheck
        <3>1. Living' = Living /\ senders_count' = senders_count
            BY <1>4, <2>2 DEF RecvCheck
        <3>2. senders_count = 0 => Living = {}
            <4>1. Living \in SUBSET Senders
                BY DEF Living
            <4>2. ASSUME NEW s \in Living PROVE senders_count # 0
                BY <4>1, <4>2, SendersCounting DEF SendersCounted
            <4>. QED
                BY <4>2
        <3>. QED
            BY <1>1, <2>2, <3>1, <3>2 DEF RecvCheck, SendersCounted
    <2>3. CASE TryRecvCheck \/ RecvAdd \/ RecvWake
        BY <1>1, <1>2, <1>4, <2>3 DEF TryRecvCheck, RecvAdd, RecvWake
    <2>4. CASE RecvAnnounce \/ RecvWait
        BY <1>1, <1>2, <1>4, <2>4 DEF RecvAnnounce, RecvWait
    <2>. QED
        BY <1>10, <2>1, <2>2, <2>3, <2>4 DEF ReceiverStep
<1>11. CASE CallRecv \/ CallTryRecv \/ DropReceiver
    BY <1>1, <1>2, <1>4, <1>11 DEF CallRecv, CallTryRecv, DropReceiver, Call, Line, Goto, others
<1>12. CASE DropChannel
    BY <1>2, <1>12 DEF DropChannel, DropRing, Living
<1>13. CASE SpuriousWake
    BY <1>2, <1>13 DEF SpuriousWake, Living, others
<1>. QED
    BY <1>5, <1>6, <1>7, <1>8, <1>9, <1>10, <1>11, <1>12, <1>13 DEF Next

\* Whom a futex may leave asleep.
LEMMA FutexSets ==
    ASSUME NEW S, NEW X \in SUBSET S, NEW t \in S, NEW v, NEW e
    PROVE  /\ \A Y \in FutexWait(X, t, v, e) : Y \in SUBSET S /\ (v # e => Y = X)
           /\ \A Y \in FutexWakeOne(X) : Y \in SUBSET S /\ Y \in SUBSET X
    BY DEF FutexWait, FutexWakeOne

\* wake_one() leaves nobody asleep where one thread sleeps at most.
LEMMA WakeReceiver == \A X \in SUBSET {Receiver} : FutexWakeOne(X) = {{}}
<1> SUFFICES ASSUME NEW X \in SUBSET {Receiver} PROVE FutexWakeOne(X) = {{}}
    OBVIOUS
<1>1. CASE X = {}
    BY <1>1 DEF FutexWakeOne
<1>2. CASE X # {}
    <2>1. X = {Receiver}
        BY <1>2
    <2>2. {X \ {t} : t \in X} = {{}}
        BY <2>1
    <2>. QED
        BY <1>2, <2>2 DEF FutexWakeOne
<1>. QED
    BY <1>1, <1>2

\* What a thread of Senders does to what the Receiver relies on.
LEMMA SenderEffect ==
    ASSUME RingInv, ChannelTypeOK, NEW s \in Senders,
           SenderStep(s) \/ CallSend(s) \/ Clone(s) \/ DropSender(s)
    PROVE  /\ pc[s] \notin {"none", "gone"}
           /\ pc'[Receiver] = pc[Receiver] /\ call'[Receiver] = call[Receiver]
           /\ receiver_asleep' \in SUBSET receiver_asleep
           /\ receiver_state' = receiver_state \/ (receiver_state = 2 /\ receiver_state' = 1)
           /\ UNCHANGED <<tail, dropped, announced, disconnected>>
<1> USE Members DEF RingInv, RingTypeOK, ChannelTypeOK, Line, Goto, Returning, others, ringVars, shared,
                    sendSide, recvSide
<1>1. CASE SendCheck(s) \/ SendLoadNum(s) \/ SendWait(s) \/ SendLoadState(s)
    BY <1>1 DEF SendCheck, SendLoadNum, SendWait, SendLoadState
<1>2. CASE Push(s)
    <2>1. PICK to \in {"push_tail", "push_head", "push_cas", "push_write", "full", "pushed", "idle"} :
            /\ pc' = [pc EXCEPT ![s] = to]
            /\ call' = [call EXCEPT ![s] = IF to = "idle" THEN "none" ELSE @]
        BY <1>2, PushEffect
    <2>2. pc[s] \notin {"none", "gone"} /\ UNCHANGED <<tail, dropped, recvSide, disconnected>>
        BY <1>2, PushEffect
    <2>. QED
        BY <2>1, <2>2
<1>3. CASE SendCas(s)
    BY <1>3 DEF SendCas
<1>4. CASE SendWake(s)
    <2>1. receiver_asleep' = {}
        BY <1>4, WakeReceiver DEF SendWake
    <2>. QED
        BY <1>4, <2>1 DEF SendWake
<1>5. CASE CallSend(s)
    BY <1>5 DEF CallSend, Call
<1>6. CASE Clone(s)
    <2>1. PICK u \in Senders : pc[u] = "none" /\ pc' = [pc EXCEPT ![u] = "idle"]
        BY <1>6 DEF Clone
    <2>. QED
        BY <1>6, <2>1 DEF Clone
<1>7. CASE DropSender(s)
    BY <1>7 DEF DropSender
<1>. QED
    BY <1>1, <1>2, <1>3, <1>4, <1>5, <1>6, <1>7 DEF SenderStep

\* What the thread of the Receiver does.
LEMMA ReceiverEffect ==
    ASSUME RingInv, ChannelTypeOK, Placement, ReceiverStep \/ CallRecv \/ CallTryRecv \/ DropReceiver
    PROVE  /\ pc[Receiver] \notin {"none", "gone"} /\ receiver_asleep = {}
           /\ \A s \in Senders : pc'[s] = pc[s]
           /\ \/ pc'[Receiver] # "gone" /\ receiver_state' \in {receiver_state, 2}
              \/ pc'[Receiver] = "gone" /\ receiver_state' = 0
           /\ receiver_asleep' # {} => /\ pc[Receiver] = "recv_wait" /\ pc'[Receiver] = "recv_check"
                                       /\ receiver_state = 2
                                       /\ UNCHANGED <<receiver_state, announced>>
           /\ pc'[Receiver] = "recv_wait" => announced' = Len(pushed)
           /\ pc'[Receiver] \in {"pop_tail", "pop_head", "pop_read", "pop_cas"}
                => call'[Receiver] \in {"recv", "drain", "try_recv"}
           /\ UNCHANGED <<head, pushed, dropped>>
           /\ tail' = tail \/ (tail' = tail + 1 /\ tail < head)
           /\ disconnected' # disconnected => call[Receiver] = "drain" /\ head = tail /\ tail' = tail
<1> USE Members DEF RingInv, RingTypeOK, ChannelTypeOK, Line, Goto, Returning, others, ringVars, shared,
                    history, sendSide, recvSide
<1>1. CASE Pop \/ FoundEmpty
    <2>1. PICK to \in {"pop_head", "pop_read", "pop_cas", "popped", "announce", "try_check", "idle"} :
            /\ pc' = [pc EXCEPT ![Receiver] = to]
            /\ call' = [call EXCEPT ![Receiver] = IF to = "idle" THEN "none" ELSE @]
        BY <1>1, PopEffect
    <2>2. /\ pc[Receiver] \in {"pop_tail", "pop_head", "pop_read", "pop_cas"}
          /\ UNCHANGED <<head, pushed, dropped, recvSide>>
        BY <1>1, PopEffect
    <2>3. /\ tail' = tail \/ (tail' = tail + 1 /\ tail < head)
          /\ disconnected' # disconnected => call[Receiver] = "drain" /\ head = tail /\ tail' = tail
        BY <1>1, PopEffect
    <2>4. call[Receiver] \in {"recv", "drain", "try_recv"} /\ receiver_asleep = {}
        BY <2>2 DEF Placement
    <2>. QED
        BY <2>1, <2>2, <2>3, <2>4
<1>2. CASE RecvCheck \/ TryRecvCheck
    BY <1>2 DEF RecvCheck, TryRecvCheck
<1>3. CASE RecvAdd \/ RecvWake
    BY <1>3 DEF RecvAdd, RecvWake
<1>4. CASE RecvAnnounce
    BY <1>4 DEF RecvAnnounce
<1>5. CASE RecvWait
    <2>1. receiver_asleep = {} /\ (receiver_state # 2 => receiver_asleep' = receiver_asleep)
        BY <1>5, FutexSets DEF RecvWait
    <2>. QED
        BY <1>5, <2>1 DEF RecvWait
<1>6. CASE CallRecv \/ CallTryRecv
    BY <1>6 DEF CallRecv, CallTryRecv, Call
<1>7. CASE DropReceiver
    BY <1>7 DEF DropReceiver
<1>. QED
    BY <1>1, <1>2, <1>3, <1>4, <1>5, <1>6, <1>7 DEF ReceiverStep

\* The variables of the channel keep their types.
LEMMA ChannelTypeInduction ==
    IInv /\ [Next]_vars => ChannelTypeOK'
<1> SUFFICES ASSUME IInv, [Next]_vars PROVE ChannelTypeOK'
    OBVIOUS
<1> USE Members DEF IInv, ChannelTypeOK
<1>1. senders_count' \in Nat
    <2>1. Living' \in SUBSET Senders
        BY DEF Living
    <2>2. IsFiniteSet(Living')
        BY <2>1, ChannelAssumption, FS_Subset
    <2>. QED
        BY <2>2, CountedInduction, FS_CardinalityType DEF SendersCounted
<1>2. pushed \in Seq(Values) /\ Len(pushed) \in Nat
    BY LenProperties DEF RingInv, RingTypeOK
<1>3. CASE UNCHANGED vars
    BY <1>1, <1>3 DEF vars, others, sendSide, recvSide
<1>4. ASSUME NEW s \in Senders, SenderStep(s) PROVE ChannelTypeOK'
    <2> USE DEF Line, Returning, others, sendSide, recvSide
    <2>1. CASE SendCheck(s) \/ SendLoadNum(s) \/ SendLoadState(s) \/ SendCas(s)
        BY <1>1, <2>1 DEF SendCheck, SendLoadNum, SendLoadState, SendCas
    <2>2. CASE Push(s)
        BY <1>1, <2>2, PushEffect
    <2>3. CASE SendWait(s)
        <3>1. sleepers' \in SUBSET Senders
            BY <2>3, FutexSets DEF SendWait
        <3>. QED
            BY <1>1, <2>3, <3>1 DEF SendWait
    <2>4. CASE SendWake(s)
        <3>1. receiver_asleep' \in SUBSET {Receiver}
            BY <2>4, WakeReceiver DEF SendWake
        <3>. QED
            BY <1>1, <2>4, <3>1 DEF SendWake
    <2>. QED
        BY <1>4, <2>1, <2>2, <2>3, <2>4 DEF SenderStep
<1>5. ASSUME NEW s \in Senders, CallSend(s) \/ Clone(s) \/ DropSender(s) PROVE ChannelTypeOK'
    BY <1>1, <1>5 DEF CallSend, Call, Clone, DropSender, sendSide, recvSide
<1>6. CASE ReceiverStep
    <2> USE DEF Line, Returning, others, sendSide, recvSide
    <2>1. CASE Pop \/ FoundEmpty
        <3>1. disconnected' \in BOOLEAN
            BY <2>1 DEF Pop, FoundEmpty
        <3>. QED
            BY <1>1, <2>1, <3>1, PopEffect
    <2>2. CASE RecvCheck
        BY <1>1, <2>2 DEF RecvCheck
    <2>3. CASE TryRecvCheck \/ RecvAdd
        BY <1>1, <2>3 DEF TryRecvCheck, RecvAdd
    <2>4. CASE RecvAnnounce
        BY <1>1, <1>2, <2>4 DEF RecvAnnounce
    <2>5. CASE RecvWake
        <3>1. sleepers' \in SUBSET Senders
            <4>1. CASE sleepers = {}
                BY <2>5, <4>1 DEF RecvWake, FutexWakeOne
            <4>2. CASE sleepers # {}
                BY <2>5, <4>2 DEF RecvWake, FutexWakeOne
            <4>. QED
                BY <4>1, <4>2
        <3>. QED
            BY <1>1, <2>5, <3>1 DEF RecvWake
    <2>6. CASE RecvWait
        <3>1. receiver_asleep' \in SUBSET {Receiver}
            BY <2>6 DEF RecvWait, FutexWait
        <3>. QED
            BY <1>1, <2>6, <3>1 DEF RecvWait
    <2>. QED
        BY <1>6, <2>1, <2>2, <2>3, <2>4, <2>5, <2>6 DEF ReceiverStep
<1>7. CASE CallRecv \/ CallTryRecv \/ DropReceiver
    BY <1>1, <1>7 DEF CallRecv, CallTryRecv, DropReceiver, Call, Line, others, sendSide, recvSide
<1>8. CASE DropChannel
    BY <1>1, <1>8 DEF DropChannel, sendSide, recvSide
<1>9. CASE SpuriousWake
    BY <1>1, <1>9 DEF SpuriousWake, others
<1>. QED
    BY <1>3, <1>4, <1>5, <1>6, <1>7, <1>8, <1>9 DEF Next

\* A step is a Sender's, the Receiver's, or leaves the program counters alone.
LEMMA StepKinds ==
    [Next]_vars =>
        \/ \E s \in Senders : SenderStep(s) \/ CallSend(s) \/ Clone(s) \/ DropSender(s)
        \/ ReceiverStep \/ CallRecv \/ CallTryRecv \/ DropReceiver
        \/ DropChannel
        \/ /\ UNCHANGED <<others, pc, call, receiver_state, announced>>
           /\ receiver_asleep' = receiver_asleep \/ receiver_asleep' = {}
    BY DEF Next, SpuriousWake, vars, recvSide

\* The Receiver sleeps and pops where its calls say so, and nobody goes on in a dropped Channel.
LEMMA PlacementInduction ==
    IInv /\ [Next]_vars => Placement'
<1> SUFFICES ASSUME IInv, [Next]_vars PROVE Placement'
    OBVIOUS
<1> USE Members DEF IInv, Placement
<1>1. ASSUME NEW s \in Senders, SenderStep(s) \/ CallSend(s) \/ Clone(s) \/ DropSender(s)
      PROVE  Placement'
    BY <1>1, SenderEffect
<1>2. CASE ReceiverStep \/ CallRecv \/ CallTryRecv \/ DropReceiver
    BY <1>2, ReceiverEffect
<1>3. CASE DropChannel
    BY <1>3 DEF DropChannel, DropRing, recvSide
<1>4. CASE /\ UNCHANGED <<others, pc, call, receiver_state, announced>>
           /\ receiver_asleep' = receiver_asleep \/ receiver_asleep' = {}
    BY <1>4 DEF others, ringVars, shared
<1>. QED
    BY <1>1, <1>2, <1>3, <1>4, StepKinds

\* No late compare_exchange of a Sender hides that the Receiver is gone.
LEMMA DepartureInduction ==
    IInv /\ [Next]_vars => DepartureIsSeen'
<1> SUFFICES ASSUME IInv, [Next]_vars PROVE DepartureIsSeen'
    OBVIOUS
<1> USE DEF IInv, DepartureIsSeen
<1>1. ASSUME NEW s \in Senders, SenderStep(s) \/ CallSend(s) \/ Clone(s) \/ DropSender(s)
      PROVE  DepartureIsSeen'
    BY <1>1, SenderEffect
<1>2. CASE ReceiverStep \/ CallRecv \/ CallTryRecv \/ DropReceiver
    BY <1>2, ReceiverEffect
<1>3. CASE DropChannel
    BY <1>3 DEF DropChannel, DropRing, recvSide
<1>4. CASE /\ UNCHANGED <<others, pc, call, receiver_state, announced>>
           /\ receiver_asleep' = receiver_asleep \/ receiver_asleep' = {}
    BY <1>4
<1>. QED
    BY <1>1, <1>2, <1>3, <1>4, StepKinds

\* A drain that finds the ring empty has found it so for ever: no Sender is left to push or clone.
LEMMA FinalInduction ==
    IInv /\ [Next]_vars => DisconnectedIsFinal'
<1> SUFFICES ASSUME IInv, [Next]_vars PROVE DisconnectedIsFinal'
    OBVIOUS
<1> USE Members DEF IInv, DisconnectedIsFinal
<1>1. ASSUME NEW s \in Senders, SenderStep(s) \/ CallSend(s) \/ Clone(s) \/ DropSender(s)
      PROVE  DisconnectedIsFinal'
    BY <1>1, SenderEffect
<1>2. CASE ReceiverStep \/ CallRecv \/ CallTryRecv \/ DropReceiver
    <2>1. CASE disconnected
        BY <1>2, <2>1, ReceiverEffect DEF RingInv, RingTypeOK
    <2>2. CASE disconnected' /\ ~disconnected
        <3>1. call[Receiver] = "drain" /\ head' = head /\ head = tail /\ tail' = tail
            BY <1>2, <2>2, ReceiverEffect
        <3>2. \A s \in Senders : pc[s] \in {"none", "gone"} /\ pc'[s] = pc[s]
            BY <1>2, <3>1, ReceiverEffect DEF SendersCounted, Living
        <3>. QED
            BY <3>1, <3>2
    <2>. QED
        BY <2>1, <2>2
<1>3. CASE DropChannel
    BY <1>3 DEF DropChannel, DropRing
<1>4. CASE /\ UNCHANGED <<others, pc, call, receiver_state, announced>>
           /\ receiver_asleep' = receiver_asleep \/ receiver_asleep' = {}
    BY <1>4 DEF others, ringVars, shared
<1>. QED
    BY <1>1, <1>2, <1>3, <1>4, StepKinds

\* A Receiver that sleeps beside a later message, or whose announcement has been taken back,
\* keeps a Sender that will wake it.
LEMMA WakeInduction ==
    IInv /\ [Next]_vars => WakeDue'
<1> SUFFICES ASSUME IInv, [Next]_vars PROVE WakeDue'
    OBVIOUS
<1> USE Members DEF IInv
<1>1. pc \in [Threads -> Labels] /\ receiver_asleep \in SUBSET {Receiver}
    BY DEF RingInv, RingTypeOK, ChannelTypeOK
<1>2. ASSUME receiver_asleep' \in SUBSET receiver_asleep, pc'[Receiver] = pc[Receiver],
             UNCHANGED <<receiver_state, announced, pushed>>,
             \A s \in Senders : pc[s] \in {"push_write", "pushed", "send_cas", "send_wake"}
                                  => pc'[s] = pc[s]
      PROVE  WakeDue'
    BY <1>2 DEF WakeDue
<1>3. ASSUME NEW s \in Senders, SenderStep(s) PROVE WakeDue'
    <2> USE DEF Line, Goto, others, ringVars, history, sendSide, recvSide
    <2>1. pc'[Receiver] = pc[Receiver]
        BY <1>3, SenderEffect
    <2>2. CASE SendCheck(s) \/ SendLoadNum(s) \/ SendWait(s)
        BY <1>1, <1>2, <2>1, <2>2 DEF SendCheck, SendLoadNum, SendWait
    <2>3. CASE Push(s)
        <3>1. PICK to \in {"push_tail", "push_head", "push_cas", "push_write", "full", "pushed", "idle"} :
                /\ pc' = [pc EXCEPT ![s] = to]
                /\ pc[s] = "push_write" => to = "pushed"
                /\ UNCHANGED <<head, pushed>> \/ (pc[s] = "push_cas" /\ to = "push_write")
            BY <2>3, PushEffect
        <3>2. UNCHANGED recvSide /\ pc[s] \in {"push_tail", "push_head", "push_cas", "push_write"}
            BY <2>3, PushEffect
        <3>3. pc'[s] = to /\ \A u \in Senders : u # s => pc'[u] = pc[u]
            BY <1>1, <3>1
        <3>4. (receiver_asleep' # {} /\ receiver_state' = 1) => \E u \in Senders : pc'[u] = "send_wake"
            BY <3>2, <3>3 DEF WakeDue
        <3>5. CASE to \in {"push_write", "pushed"}
            BY <3>3, <3>4, <3>5 DEF WakeDue
        <3>6. CASE to \notin {"push_write", "pushed"}
            BY <1>2, <2>1, <3>1, <3>2, <3>3, <3>6
        <3>. QED
            BY <3>5, <3>6
    <2>4. CASE SendLoadState(s)
        <3>1. CASE receiver_state = 1
            BY <1>1, <2>4, <3>1 DEF SendLoadState, WakeDue
        <3>2. CASE receiver_state # 1
            <4>1. pc'[s] = "send_cas" /\ UNCHANGED <<receiver_state, receiver_asleep>>
                BY <1>1, <2>4, <3>2 DEF SendLoadState
            <4>. QED
                BY <3>2, <4>1 DEF WakeDue
        <3>. QED
            BY <3>1, <3>2
    <2>5. CASE SendCas(s)
        <3>1. CASE receiver_state = 2
            <4>1. pc'[s] = "send_wake" /\ receiver_state' = 1
                BY <1>1, <2>5, <3>1 DEF SendCas
            <4>. QED
                BY <4>1 DEF WakeDue
        <3>2. CASE receiver_state # 2
            BY <1>1, <2>5, <3>2 DEF SendCas, WakeDue
        <3>. QED
            BY <3>1, <3>2
    <2>6. CASE SendWake(s)
        <3>1. receiver_asleep' = {} /\ UNCHANGED <<receiver_state, announced, pushed>>
            BY <2>6, WakeReceiver DEF SendWake, ChannelTypeOK
        <3>2. \A u \in Senders : pc[u] \in {"push_write", "pushed", "send_cas"} => pc'[u] = pc[u]
            BY <1>1, <2>6 DEF SendWake
        <3>. QED
            BY <2>1, <3>1, <3>2 DEF WakeDue
    <2>. QED
        BY <1>3, <2>2, <2>3, <2>4, <2>5, <2>6 DEF SenderStep
<1>4. ASSUME NEW s \in Senders, CallSend(s) \/ DropSender(s) PROVE WakeDue'
    BY <1>1, <1>2, <1>4
    DEF CallSend, Call, DropSender, Line, Goto, ringVars, history, recvSide
<1>5. ASSUME NEW s \in Senders, Clone(s) PROVE WakeDue'
    <2>1. PICK u \in Senders : pc[u] = "none" /\ pc' = [pc EXCEPT ![u] = "idle"]
        BY <1>5 DEF Clone
    <2>. QED
        BY <1>1, <1>2, <1>5, <2>1 DEF Clone, ringVars, history, recvSide
<1>6. CASE ReceiverStep \/ CallRecv \/ CallTryRecv \/ DropReceiver
    <2>1. /\ receiver_asleep = {} /\ pushed' = pushed
          /\ \A s \in Senders : pc'[s] = pc[s]
          /\ receiver_asleep' # {} => /\ pc[Receiver] = "recv_wait" /\ pc'[Receiver] = "recv_check"
                                      /\ receiver_state = 2
                                      /\ UNCHANGED <<receiver_state, announced>>
          /\ pc'[Receiver] = "recv_wait" => announced' = Len(pushed)
        BY <1>6, ReceiverEffect
    <2>2. Len(pushed) \in Nat
        BY LenProperties DEF RingInv, RingTypeOK
    <2>. QED
        BY <2>1, <2>2 DEF WakeDue
<1>7. CASE DropChannel
    BY <1>7 DEF DropChannel, DropRing, recvSide, WakeDue
<1>8. CASE /\ UNCHANGED <<others, pc, call, receiver_state, announced>>
           /\ receiver_asleep' = receiver_asleep \/ receiver_asleep' = {}
    BY <1>2, <1>8 DEF others, ringVars, history
<1>. QED
    BY <1>3, <1>4, <1>5, <1>6, <1>7, <1>8, StepKinds

\* A channel starts with an empty ring, one Sender and a Receiver that is awake.
LEMMA ChannelStart == Init => IInv /\ ClientInit
<1> SUFFICES ASSUME Init PROVE IInv /\ ClientInit
    OBVIOUS
<1> USE Members DEF Init
<1>1. PICK s \in Senders : pc = [t \in Threads |-> IF t \in {s, Receiver} THEN "idle" ELSE "none"]
    OBVIOUS
<1>2. ClientInit
    BY <1>1 DEF ClientInit, Callers
<1>3. RingInv
    BY <1>2, RingStart
<1>4. Living = {s}
    BY <1>1 DEF Living
<1>5. SendersCounted
    BY <1>4, FS_Singleton DEF SendersCounted
<1>6. ChannelTypeOK
    BY DEF ChannelTypeOK
<1>7. Placement /\ DepartureIsSeen
    BY <1>1 DEF Placement, DepartureIsSeen, RingInit
<1>8. WakeDue /\ DisconnectedIsFinal
    BY <1>1 DEF WakeDue, DisconnectedIsFinal
<1>. QED
    BY <1>2, <1>3, <1>5, <1>6, <1>7, <1>8 DEF IInv

\* Every step of send(), try_send(), recv(), try_recv(), clone() and the drops keeps the
\* inductive invariant, in every channel.
THEOREM Invariance == Spec => []IInv
<1>1. Init => IInv
    BY ChannelStart
<1>2. IInv /\ [Next]_vars => IInv'
    BY ChannelStep, RingInduction, ChannelTypeInduction, PlacementInduction, CountedInduction,
       WakeInduction, FinalInduction, DepartureInduction DEF IInv
<1>. QED
    BY <1>1, <1>2, PTL DEF Spec

\* The atomics, the futex queues, the locals and the slots keep their types: senders_count never
\* goes below 0, and no position lies outside the ring.
THEOREM TypeCorrect == Spec => [](RingTypeOK /\ ChannelTypeOK)
<1>1. IInv => RingTypeOK /\ ChannelTypeOK
    BY DEF IInv, RingInv
<1>. QED
    BY <1>1, Invariance, PTL

\* The channel is one of the clients the ring buffer is made for: it calls push() and pop() from
\* outside, passes a value, and drops the ring only when nobody is in a call.
THEOREM ChannelIsClient == Spec => AnyClient
<1>1. Init => ClientInit
    BY ChannelStart
<1>2. IInv /\ [Next]_vars => [ClientNext]_clientVars
    BY ChannelStep DEF IInv
<1>. QED
    BY <1>1, <1>2, Invariance, PTL DEF Spec, AnyClient

\* A channel never holds more than N messages, no two Senders write one slot, and until a torn
\* copy is received the messages arrive in the order of their positions, each one once, and none
\* is left behind when the Channel is dropped.
THEOREM ChannelRing == Spec => [](WithinCapacity /\ QueueUntilTorn)
    BY ChannelIsClient, RingSafe, PTL

\* senders_count is the number of Senders that live, whatever clone() and drop() interleave with,
\* and recv() takes its last messages only when none lives.
THEOREM CountExact == Spec => []SendersCounted
<1>1. IInv => SendersCounted
    BY DEF IInv
<1>. QED
    BY <1>1, Invariance, PTL

\* A Receiver whose store of 2 came before a message is not left asleep beside it: a Sender is on
\* its way through the load, the compare_exchange and wake_one.
THEOREM LaterMessageWakes == Spec => []LaterSendWakes
<1>1. IInv => LaterSendWakes
    <2> SUFFICES ASSUME IInv, receiver_asleep # {}, Len(pushed) > announced PROVE Delivering # {}
        BY DEF LaterSendWakes
    <2>1. pc[Receiver] = "recv_check"
        BY DEF IInv, ChannelTypeOK, Placement
    <2>2. receiver_state \in {1, 2}
        BY <2>1 DEF IInv, ChannelTypeOK, DepartureIsSeen
    <2>. QED
        BY <2>2 DEF IInv, WakeDue, Delivering
<1>. QED
    BY <1>1, Invariance, PTL

\* What recv() says with Disconnected stays true: no Sender lives or is cloned again, and no
\* message comes, though senders_count was read before the ring was looked into.
THEOREM DisconnectedFinal == Spec => []DisconnectedIsFinal
<1>1. IInv => DisconnectedIsFinal
    BY DEF IInv
<1>. QED
    BY <1>1, Invariance, PTL

\* receiver_state is 0 exactly when the Receiver is gone: no compare_exchange of a late Sender
\* takes the drop of the Receiver back.
THEOREM DepartureSeen == Spec => []DepartureIsSeen
<1>1. IInv => DepartureIsSeen
    BY DEF IInv
<1>. QED
    BY <1>1, Invariance, PTL
=============================================================================
