------------------------------- MODULE Channel -------------------------------
(***************************************************************************)
(* src/channel.rs: a channel of many Senders and one Receiver over a ring  *)
(* buffer of src/utils/ring_buffer.rs, whose steps it takes one by one.    *)
(*                                                                         *)
(* A thread of Senders owns at most one Sender.  Two atomics are futexes:  *)
(* the Receiver sleeps on receiver_state, Senders sleep on                 *)
(* sender_wait_num.  Left out: the assertion of clone(), which needs more  *)
(* than usize::MAX / 2 Senders, and the wrap of sender_wait_num, which     *)
(* needs 2^32 receptions during one sleep.                                 *)
(***************************************************************************)
EXTENDS RingBuffer, AtomicWait

CONSTANTS Senders,     \* the threads that may own a Sender
          Receiver,    \* the thread that owns the Receiver
          MaxSends,    \* calls of send() and try_send() a thread makes (bound)
          MaxReceives  \* calls of recv() and try_recv() (bound)

ASSUME ChannelAssumption ==
    /\ Receiver \notin Senders
    /\ Threads = Senders \cup {Receiver}
    /\ IsFiniteSet(Senders)
    /\ MaxSends \in Nat /\ MaxReceives \in Nat

VARIABLES senders_count,     \* the living Senders
          sender_wait_num,   \* the receptions so far
          receiver_state,    \* 0: gone, 1: awake, 2: about to sleep
          sleepers,          \* the Senders asleep on sender_wait_num
          receiver_asleep,   \* {Receiver} when it sleeps on receiver_state
          call,              \* the call a thread is in
          seen,              \* the local sender_wait_num of send()
          calls,             \* calls made so far
          announced,         \* history: the values pushed when recv() last stored 2
          disconnected       \* history: recv() found the buffer empty and no Sender left

\* What Senders sleep with, what the Receiver sleeps with, and the rest of the channel.
sendSide == <<sender_wait_num, sleepers, seen>>
recvSide == <<receiver_state, receiver_asleep, announced>>
others == <<ringVars, senders_count, calls, disconnected>>
vars == <<others, sendSide, recvSide, pc, call>>

Init ==
    /\ RingInit
    /\ \E s \in Senders : pc = [t \in Threads |-> IF t \in {s, Receiver} THEN "idle" ELSE "none"]
    /\ senders_count = 1
    /\ sender_wait_num = 0
    /\ receiver_state = 1
    /\ sleepers = {}
    /\ receiver_asleep = {}
    /\ call = [t \in Threads |-> "none"]
    /\ seen = [s \in Senders |-> 0]
    /\ calls = [t \in Threads |-> 0]
    /\ announced = 0
    /\ disconnected = FALSE

----------------------------------------------------------------------------
\* A step of the channel's own code; a thread asleep takes none.
Line(t, from, to) ==
    /\ t \notin sleepers \cup receiver_asleep
    /\ Goto(t, from, to)

\* A thread that is back at `idle` is in no call.
Returning(t) == call' = [call EXCEPT ![t] = IF pc'[t] = "idle" THEN "none" ELSE @]

Call(t, operation, to, bound) ==
    /\ Line(t, "idle", to)
    /\ calls[t] < bound
    /\ calls' = [calls EXCEPT ![t] = @ + 1]
    /\ call' = [call EXCEPT ![t] = operation]

\* send() or try_send() is called with a new message.
CallSend(s) ==
    /\ \E operation \in {"send", "try_send"} : Call(s, operation, "send_check", MaxSends)
    /\ value' = [value EXCEPT ![s] = <<s, calls[s]>>]
    /\ UNCHANGED <<sendSide, recvSide, shared, current_head, current_tail, history,
                   senders_count, disconnected>>

\* send(), try_send(): the load of receiver_state.  0: the Receiver is gone.
SendCheck(s) ==
    /\ Line(s, "send_check", IF receiver_state = 0 THEN "idle" ELSE "push_tail")
    /\ Returning(s)
    /\ UNCHANGED <<others, sendSide, recvSide>>

\* Where a full buffer, and a lost compare_exchange in the ring, leave the caller.
WhenFull(s) == IF call[s] = "send" THEN "full" ELSE "idle"
WhenPushFails(s) == IF call[s] = "send" THEN "push_tail" ELSE "idle"

\* send(), try_send(): push() or try_push().
Push(s) ==
    /\ \/ PushTail(s) \/ PushHead(s, WhenFull(s)) \/ PushCasOk(s)
       \/ PushCasFail(s, WhenPushFails(s)) \/ PushWrite(s, "pushed")
    /\ Returning(s)
    /\ UNCHANGED <<sendSide, recvSide, senders_count, calls, disconnected>>

\* send(): the buffer is full; the load of sender_wait_num ...
SendLoadNum(s) ==
    /\ Line(s, "full", "send_wait")
    /\ seen' = [seen EXCEPT ![s] = sender_wait_num]
    /\ UNCHANGED <<others, recvSide, sender_wait_num, sleepers, call>>

\* ... and wait(&sender_wait_num, seen); then the loop starts again.
SendWait(s) ==
    /\ Line(s, "send_wait", "send_check")
    /\ sleepers' \in FutexWait(sleepers, s, sender_wait_num, seen[s])
    /\ seen' = [seen EXCEPT ![s] = 0]
    /\ UNCHANGED <<others, recvSide, sender_wait_num, call>>

\* send(), try_send(): the message is in; the load of receiver_state.
SendLoadState(s) ==
    /\ Line(s, "pushed", IF receiver_state # 1 THEN "send_cas" ELSE "idle")
    /\ Returning(s)
    /\ UNCHANGED <<others, sendSide, recvSide>>

\* Seeded fault: a store of 1 in place of the compare_exchange(2, 1).
SendCasStore(s) ==
    /\ Line(s, "send_cas", "send_wake")
    /\ receiver_state' = 1
    /\ UNCHANGED <<others, sendSide, receiver_asleep, announced, call>>

\* Seeded fault: no wake-up after the compare_exchange.
SendCasNoWake(s) ==
    /\ Line(s, "send_cas", "idle")
    /\ receiver_state' = IF receiver_state = 2 THEN 1 ELSE receiver_state
    /\ Returning(s)
    /\ UNCHANGED <<others, sendSide, receiver_asleep, announced>>

\* send(), try_send(): compare_exchange(2, 1).
SendCas(s) ==
    /\ Line(s, "send_cas", IF receiver_state = 2 THEN "send_wake" ELSE "idle")
    /\ receiver_state' = IF receiver_state = 2 THEN 1 ELSE receiver_state
    /\ Returning(s)
    /\ UNCHANGED <<others, sendSide, receiver_asleep, announced>>

\* send(), try_send(): wake_one(&receiver_state).
SendWake(s) ==
    /\ Line(s, "send_wake", "idle")
    /\ receiver_asleep' \in FutexWakeOne(receiver_asleep)
    /\ Returning(s)
    /\ UNCHANGED <<others, sendSide, receiver_state, announced>>

\* Seeded fault: a clone that is not counted.
CloneUncounted(s) ==
    /\ s \notin sleepers /\ pc[s] = "idle"
    /\ \E u \in Senders : pc[u] = "none" /\ pc' = [pc EXCEPT ![u] = "idle"]
    /\ UNCHANGED <<others, sendSide, recvSide, call>>

\* A Sender is cloned, and the clone given to a thread without one.
Clone(s) ==
    /\ s \notin sleepers /\ pc[s] = "idle"
    /\ \E u \in Senders : pc[u] = "none" /\ pc' = [pc EXCEPT ![u] = "idle"]
    /\ senders_count' = senders_count + 1
    /\ UNCHANGED <<sendSide, recvSide, ringVars, call, calls, disconnected>>

\* A Sender is dropped; nobody is woken.
DropSender(s) ==
    /\ Line(s, "idle", "gone")
    /\ senders_count' = senders_count - 1
    /\ UNCHANGED <<sendSide, recvSide, ringVars, call, calls, disconnected>>

----------------------------------------------------------------------------
\* recv() is called.
CallRecv ==
    /\ Call(Receiver, "recv", "recv_check", MaxReceives)
    /\ UNCHANGED <<sendSide, recvSide, ringVars, senders_count, disconnected>>

\* try_recv() is called: it starts with try_pop().
CallTryRecv ==
    /\ Call(Receiver, "try_recv", "pop_tail", MaxReceives)
    /\ UNCHANGED <<sendSide, recvSide, ringVars, senders_count, disconnected>>

\* recv(): the load of senders_count.  0: what is left is taken with try_pop() ("drain").
RecvCheck ==
    /\ Line(Receiver, "recv_check", "pop_tail")
    /\ call' = [call EXCEPT ![Receiver] = IF senders_count = 0 THEN "drain" ELSE "recv"]
    /\ announced' = 0
    /\ UNCHANGED <<others, sendSide, receiver_state, receiver_asleep>>

\* recv(), try_recv(): pop() or try_pop() up to its end.
Pop ==
    /\ \/ PopTail(Receiver) \/ PopHead(Receiver) \/ PopRead(Receiver)
       \/ PopCasOk(Receiver, IF call[Receiver] = "recv" THEN "popped" ELSE "idle")
       \/ call[Receiver] = "recv" /\ PopCasFail(Receiver)
       \/ call[Receiver] = "drain" /\ TryPopCasFail(Receiver, "idle")
       \/ call[Receiver] = "try_recv" /\ TryPopCasFail(Receiver, "try_check")
    /\ Returning(Receiver)
    /\ UNCHANGED <<sendSide, recvSide, senders_count, calls, disconnected>>

\* The buffer is empty: recv() prepares to sleep, or returns Disconnected.
FoundEmpty ==
    /\ PopEmpty(Receiver, CASE call[Receiver] = "recv" -> "announce"
                            [] call[Receiver] = "drain" -> "idle"
                            [] call[Receiver] = "try_recv" -> "try_check")
    /\ disconnected' = (disconnected \/ call[Receiver] = "drain")
    /\ Returning(Receiver)
    /\ UNCHANGED <<sendSide, recvSide, senders_count, calls>>

\* try_recv(): the load of senders_count chooses between two errors.
TryRecvCheck ==
    /\ Line(Receiver, "try_check", "idle")
    /\ Returning(Receiver)
    /\ UNCHANGED <<others, sendSide, recvSide>>

\* recv(): a message was taken; sender_wait_num.fetch_add(1) ...
RecvAdd ==
    /\ Line(Receiver, "popped", "recv_wake")
    /\ sender_wait_num' = sender_wait_num + 1
    /\ UNCHANGED <<others, recvSide, sleepers, seen, call>>

\* ... and wake_one(&sender_wait_num).
RecvWake ==
    /\ Line(Receiver, "recv_wake", "idle")
    /\ sleepers' \in FutexWakeOne(sleepers)
    /\ Returning(Receiver)
    /\ UNCHANGED <<others, recvSide, sender_wait_num, seen>>

\* recv(): the store of 2 that announces the sleep.
RecvAnnounce ==
    /\ Line(Receiver, "announce", "recv_wait")
    /\ receiver_state' = 2
    /\ announced' = Len(pushed)
    /\ UNCHANGED <<others, sendSide, receiver_asleep, call>>

\* recv(): wait(&receiver_state, 2); then the loop starts again.
RecvWait ==
    /\ Line(Receiver, "recv_wait", "recv_check")
    /\ receiver_asleep' \in FutexWait(receiver_asleep, Receiver, receiver_state, 2)
    /\ UNCHANGED <<others, sendSide, receiver_state, announced, call>>

\* The Receiver is dropped; nobody is woken.
DropReceiver ==
    /\ Line(Receiver, "idle", "gone")
    /\ receiver_state' = 0
    /\ UNCHANGED <<others, sendSide, receiver_asleep, announced, call>>

\* The Channel is dropped once no Sender and no Receiver borrows it.
DropChannel ==
    /\ \A t \in Threads : pc[t] \in {"none", "gone"}
    /\ DropRing
    /\ UNCHANGED <<sendSide, recvSide, senders_count, call, calls, disconnected>>

\* A futex returns though nobody woke the thread.
SpuriousWake ==
    /\ \/ \E s \in sleepers : sleepers' = sleepers \ {s} /\ UNCHANGED receiver_asleep
       \/ receiver_asleep # {} /\ receiver_asleep' = {} /\ UNCHANGED sleepers
    /\ UNCHANGED <<others, pc, sender_wait_num, receiver_state, seen, announced, call>>

----------------------------------------------------------------------------
SenderStep(s) ==
    \/ SendCheck(s) \/ Push(s) \/ SendLoadNum(s) \/ SendWait(s)
    \/ SendLoadState(s) \/ SendCas(s) \/ SendWake(s)

ReceiverStep ==
    \/ RecvCheck \/ Pop \/ FoundEmpty \/ TryRecvCheck \/ RecvAdd \/ RecvWake
    \/ RecvAnnounce \/ RecvWait

Next ==
    \/ \E s \in Senders : SenderStep(s) \/ CallSend(s) \/ Clone(s) \/ DropSender(s)
    \/ ReceiverStep \/ CallRecv \/ CallTryRecv \/ DropReceiver
    \/ DropChannel \/ SpuriousWake

Spec == Init /\ [][Next]_vars

\* The operating system runs every thread that can run, and a weak compare_exchange that
\* could succeed again and again does not fail for ever.
FairSpec ==
    /\ Spec
    /\ \A s \in Senders : WF_vars(SenderStep(s)) /\ SF_vars(Push(s) /\ head' # head)
    /\ WF_vars(ReceiverStep) /\ SF_vars(Pop /\ tail' # tail)

----------------------------------------------------------------------------
\* The Senders that hold a message whose position they have claimed and that may yet wake
\* the Receiver.
Delivering == {s \in Senders : pc[s] \in {"push_write", "pushed", "send_cas", "send_wake"}}

\* Once recv() has announced that it sleeps, no later message is slept through: some Sender
\* is still on its way to wake the Receiver.  (A message pushed before the announcement may
\* be: see CallsReturn.)
LaterSendWakes ==
    (receiver_asleep # {} /\ Len(pushed) > announced) => Delivering # {}

\* When recv() has found no Sender and then no message, there will never be another message:
\* what it says is final, though Senders are cloned and dropped and push at the same time.
DisconnectedIsFinal ==
    disconnected => head = tail /\ \A s \in Senders : pc[s] \in {"none", "gone"}

\* A Receiver that is gone is never taken for one that is awake or asleep by a Sender whose
\* compare_exchange comes late: all later sends are refused.
DepartureIsSeen == (pc[Receiver] = "gone") <=> (receiver_state = 0)

\* No call waits for ever for what is there: recv() beside a message or with no Sender
\* left, send() beside room or with no Receiver left.
CallsReturn ==
    /\ []<>~(call[Receiver] # "none" /\ (head # tail \/ senders_count = 0))
    /\ \A s \in Senders :
         []<>~(call[s] # "none" /\ (head - tail < N \/ receiver_state = 0))
=============================================================================
