----------------------------- MODULE RingBuffer -----------------------------
(***************************************************************************)
(* src/utils/ring_buffer.rs: a bounded ring of N slots shared by producers *)
(* and consumers, one access to `head`, `tail` or a slot per step.         *)
(*                                                                         *)
(* The steps of push(), pop(), try_push() and try_pop() are operators for  *)
(* the modules that call them: RingBufferUse, where every thread may make  *)
(* every call, and Channel.  A parameter says where the caller goes on.    *)
(*                                                                         *)
(* The values are plain data without a Drop of their own: the copy that a  *)
(* failed pop() throws away leaves no trace.  `head` and `tail` are usize  *)
(* counters that only grow and would take 2^64 calls to wrap.              *)
(***************************************************************************)
EXTENDS Integers, FiniteSets, SequencesExt

CONSTANTS Threads,   \* the threads that reach the buffer
          N,         \* the number of slots
          NoValue    \* what a slot holds before anybody has written it

\* The README of the crate asks for a power of 2.  new() only asserts that N is even, but
\* pop() and drop() find a slot with `& (N - 1)`, which is `% N` for a power of 2 only.
ASSUME RingBufferAssumption ==
    /\ N \in Nat \ {0, 1}
    /\ \E k \in 1..N : N = 2^k

VARIABLES buffer,         \* the slots
          head,           \* the position the next push() claims
          tail,           \* the position the next pop() takes
          dropped,        \* the buffer has been dropped
          pc,             \* where each thread stands
          current_head,   \* locals of push() and try_push()
          current_tail,   \* locals of all four
          value,          \* what a thread is about to push, or its copy of a slot
          pushed,         \* history: the values in the order of their positions
          ended,          \* history: the values that left the buffer, in that order
          early,          \* history: the threads whose copy is of a slot not yet written
          torn            \* history: such a copy has been returned

shared == <<buffer, head, tail, dropped>>
locals == <<current_head, current_tail, value>>
history == <<pushed, ended, early, torn>>
ringVars == <<shared, locals, history>>

RingInit ==
    /\ buffer = [i \in 0..(N - 1) |-> NoValue]
    /\ head = 0
    /\ tail = 0
    /\ dropped = FALSE
    /\ current_head = [t \in Threads |-> 0]
    /\ current_tail = [t \in Threads |-> 0]
    /\ value = [t \in Threads |-> NoValue]
    /\ pushed = <<>>
    /\ ended = <<>>
    /\ early = {}
    /\ torn = FALSE

----------------------------------------------------------------------------
Goto(t, from, to) ==
    /\ pc[t] = from
    /\ pc' = [pc EXCEPT ![t] = to]

Slot(position) == position % N

\* The threads that have claimed a position and not yet written its slot.
Writing(position) == {u \in Threads : pc[u] = "push_write" /\ current_head[u] = position}

\* push(), try_push(): the load of `tail`.
PushTail(t) ==
    /\ Goto(t, "push_tail", "push_head")
    /\ current_tail' = [current_tail EXCEPT ![t] = tail]
    /\ UNCHANGED <<shared, history, current_head, value>>

\* push(), try_push(): the load of `head`, and the test for room.
PushHead(t, full) ==
    /\ Goto(t, "push_head", IF head - current_tail[t] >= N THEN full ELSE "push_cas")
    /\ current_head' = [current_head EXCEPT ![t] = head]
    /\ UNCHANGED <<shared, history, current_tail, value>>

\* Seeded fault: a store in place of the compare_exchange_weak.
PushCasOkUnchecked(t) ==
    /\ Goto(t, "push_cas", "push_write")
    /\ head' = current_head[t] + 1
    /\ pushed' = Append(pushed, value[t])
    /\ UNCHANGED <<locals, buffer, tail, dropped, ended, early, torn>>

\* push(), try_push(): the compare_exchange_weak claims a position.
PushCasOk(t) ==
    /\ Goto(t, "push_cas", "push_write")
    /\ head = current_head[t]
    /\ head' = current_head[t] + 1
    /\ pushed' = Append(pushed, value[t])
    /\ UNCHANGED <<locals, buffer, tail, dropped, ended, early, torn>>

\* It fails, which being weak it may do at any time: push() starts again, try_push() gives up.
PushCasFail(t, failed) ==
    /\ Goto(t, "push_cas", failed)
    /\ current_head' = [current_head EXCEPT ![t] = 0]
    /\ current_tail' = [current_tail EXCEPT ![t] = 0]
    /\ UNCHANGED <<shared, history, value>>

\* push(), try_push(): only now the value goes into its slot.
PushWrite(t, ok) ==
    /\ Goto(t, "push_write", ok)
    /\ buffer' = [buffer EXCEPT ![Slot(current_head[t])] = value[t]]
    /\ value' = [value EXCEPT ![t] = NoValue]
    /\ current_head' = [current_head EXCEPT ![t] = 0]
    /\ current_tail' = [current_tail EXCEPT ![t] = 0]
    /\ UNCHANGED <<history, head, tail, dropped>>

\* pop(), try_pop(): the load of `tail`.
PopTail(t) ==
    /\ Goto(t, "pop_tail", "pop_head")
    /\ current_tail' = [current_tail EXCEPT ![t] = tail]
    /\ UNCHANGED <<shared, history, current_head, value>>

\* pop(), try_pop(): the load of `head` finds the buffer empty.
PopEmpty(t, none) ==
    /\ Goto(t, "pop_head", none)
    /\ head = current_tail[t]
    /\ current_tail' = [current_tail EXCEPT ![t] = 0]
    /\ UNCHANGED <<shared, history, current_head, value>>

\* It does not.
PopHead(t) ==
    /\ Goto(t, "pop_head", "pop_read")
    /\ head # current_tail[t]
    /\ UNCHANGED ringVars

\* pop(), try_pop(): assume_init_read() copies the slot, whatever is in it.
PopRead(t) ==
    /\ Goto(t, "pop_read", "pop_cas")
    /\ value' = [value EXCEPT ![t] = buffer[Slot(current_tail[t])]]
    /\ early' = IF Writing(current_tail[t]) # {} THEN early \cup {t} ELSE early
    /\ UNCHANGED <<shared, current_head, current_tail, pushed, ended, torn>>

\* The copy and the local go out of scope.
ForgetCopy(t) ==
    /\ value' = [value EXCEPT ![t] = NoValue]
    /\ early' = early \ {t}

\* Seeded fault: `tail` moves on though another thread has moved it already.
PopCasOkUnchecked(t, some) ==
    /\ Goto(t, "pop_cas", some)
    /\ tail' = current_tail[t] + 1
    /\ ended' = Append(ended, value[t])
    /\ torn' = (torn \/ t \in early)
    /\ ForgetCopy(t)
    /\ current_tail' = [current_tail EXCEPT ![t] = 0]
    /\ UNCHANGED <<buffer, head, dropped, current_head, pushed>>

\* pop(), try_pop(): the compare_exchange_weak succeeds and the copy is returned.
PopCasOk(t, some) ==
    /\ Goto(t, "pop_cas", some)
    /\ tail = current_tail[t]
    /\ tail' = current_tail[t] + 1
    /\ ended' = Append(ended, value[t])
    /\ torn' = (torn \/ t \in early)
    /\ ForgetCopy(t)
    /\ current_tail' = [current_tail EXCEPT ![t] = 0]
    /\ UNCHANGED <<buffer, head, dropped, current_head, pushed>>

\* pop(): it fails; the copy is thrown away and the loop goes on with the new `tail`.
PopCasFail(t) ==
    /\ Goto(t, "pop_cas", "pop_head")
    /\ current_tail' = [current_tail EXCEPT ![t] = tail]
    /\ ForgetCopy(t)
    /\ UNCHANGED <<shared, current_head, pushed, ended, torn>>

\* try_pop(): it fails, and that is an empty buffer to the caller.
TryPopCasFail(t, none) ==
    /\ Goto(t, "pop_cas", none)
    /\ current_tail' = [current_tail EXCEPT ![t] = 0]
    /\ ForgetCopy(t)
    /\ UNCHANGED <<shared, current_head, pushed, ended, torn>>

\* The drop of the buffer, once nobody can reach it: every value left inside is dropped.
DropRing ==
    /\ ~dropped
    /\ dropped' = TRUE
    /\ ended' = ended \o [i \in 1..(head - tail) |-> buffer[Slot(tail + i - 1)]]
    /\ UNCHANGED <<locals, buffer, head, tail, pc, pushed, early, torn>>

----------------------------------------------------------------------------
\* No position is claimed twice, and none that still holds a value is claimed: the ring
\* never holds more than N values.  The subtraction in push() does not go below 0.
WithinCapacity ==
    /\ tail <= head /\ head <= tail + N
    /\ \A t, u \in Threads :
         (t # u /\ pc[t] = "push_write" /\ pc[u] = "push_write")
             => current_head[t] # current_head[u]
    /\ \A t \in Threads : pc[t] = "push_head" => current_tail[t] <= head

\* Until a pop() returns its copy of a slot that has been claimed but not yet written, the
\* ring is a queue: the values leave it in the order of their positions, each one once and
\* as it was pushed, and when the buffer is dropped all have left.
QueueUntilTorn ==
    ~torn =>
        /\ IsPrefix(ended, pushed)
        /\ dropped => ended = pushed
=============================================================================
