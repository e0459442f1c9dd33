---------------------------- MODULE AsyncLock ----------------------------
(***************************************************************************)
(* asyncio.Lock as the coordinator's coroutines see it.  A lock is its     *)
(* owner and the FIFO queue of the calls that wait for it.                 *)
(*                                                                         *)
(* Releasing a lock does not hand it over: it only wakes the first waiter, *)
(* which takes the lock when the event loop runs it next.  In between,     *)
(* locked() answers False, and a call that asks it then and goes on to     *)
(* `async with lock` does not get the lock at once but queues behind the   *)
(* woken waiter.                                                           *)
(***************************************************************************)
EXTENDS Sequences

\* Calls are named by the module that uses the locks; NoCall owns a free one.
CONSTANTS Calls, NoCall

Lock == [owner : Calls \union {NoCall}, queue : Seq(Calls)]

UnusedLock == [owner |-> NoCall, queue |-> <<>>]

\* Lock.locked()
Locked(lock) == lock.owner # NoCall

\* acquire() returns without yielding exactly when this holds.
Free(lock) == ~Locked(lock) /\ lock.queue = <<>>

Take(lock, call) == [lock EXCEPT !.owner = call]

Enqueue(lock, call) == [lock EXCEPT !.queue = Append(@, call)]

\* The first waiter of a released lock has been woken and may run.
Woken(lock, call) ==
    ~Locked(lock) /\ lock.queue # <<>> /\ Head(lock.queue) = call

TakeWoken(lock, call) == [owner |-> call, queue |-> Tail(lock.queue)]

Release(lock) == [lock EXCEPT !.owner = NoCall]

=============================================================================
