---------------------------- MODULE RingBufferUse ----------------------------
(***************************************************************************)
(* The ring buffer by itself, as the tests of src/utils/ring_buffer.rs use *)
(* it: every thread may push and pop, and wait for room or not.            *)
(***************************************************************************)
EXTENDS RingBuffer

CONSTANT MaxCalls   \* calls a thread makes (bound)

ASSUME MaxCallsAssumption == MaxCalls \in Nat

VARIABLES call,    \* the call a thread is in
          calls    \* calls made so far

vars == <<ringVars, pc, call, calls>>

Init ==
    /\ RingInit
    /\ pc = [t \in Threads |-> "idle"]
    /\ call = [t \in Threads |-> "pop"]
    /\ calls = [t \in Threads |-> 0]

----------------------------------------------------------------------------
\* Every call pushes another value.
Message(t) == <<t, calls[t]>>

Call(t, operation, to) ==
    /\ Goto(t, "idle", to)
    /\ ~dropped
    /\ calls[t] < MaxCalls
    /\ calls' = [calls EXCEPT ![t] = @ + 1]
    /\ call' = [call EXCEPT ![t] = operation]

\* push() or try_push() is called.
CallPush(t) ==
    /\ \E operation \in {"push", "try_push"} : Call(t, operation, "push_tail")
    /\ value' = [value EXCEPT ![t] = Message(t)]
    /\ UNCHANGED <<shared, history, current_head, current_tail>>

\* pop() or try_pop() is called.
CallPop(t) ==
    /\ \E operation \in {"pop", "try_pop"} : Call(t, operation, "pop_tail")
    /\ UNCHANGED ringVars

\* The call goes on: a compare_exchange that fails sends only push() and pop() round again.
Run(t) ==
    /\ \/ PushTail(t) \/ PushHead(t, "idle") \/ PushCasOk(t) \/ PushWrite(t, "idle")
       \/ PushCasFail(t, IF call[t] = "push" THEN "push_tail" ELSE "idle")
       \/ PopTail(t) \/ PopEmpty(t, "idle") \/ PopHead(t) \/ PopRead(t) \/ PopCasOk(t, "idle")
       \/ call[t] = "pop" /\ PopCasFail(t)
       \/ call[t] = "try_pop" /\ TryPopCasFail(t, "idle")
    /\ UNCHANGED <<call, calls>>

\* The last reference to the buffer goes away.
Drop ==
    /\ \A t \in Threads : pc[t] = "idle"
    /\ DropRing
    /\ UNCHANGED <<call, calls>>

Next ==
    \/ \E t \in Threads : CallPush(t) \/ CallPop(t) \/ Run(t)
    \/ Drop

Spec == Init /\ [][Next]_vars
=============================================================================
