----------------------------- MODULE SpinlockTest -----------------------------
(***************************************************************************)
(* The threaded spinlock test, src/tests/threaded_spinlock_test.c.        *)
(*                                                                         *)
(* guk_app_main sets remaining_threads_count to 1 and starts              *)
(* thread_spawner, which creates NUM_OBJECTS threads running thread_fn,   *)
(* counting each under thread_count_lock except the last.  Every thread   *)
(* increments test_value a number of times under test_lock (load into a   *)
(* local, spin, store local + 1), then subtracts its count of cycles,     *)
(* then decrements remaining_threads_count; the thread that brings it to  *)
(* 0 checks test_value against MAGIC_VALUE and calls ok_exit, which stops *)
(* the whole guest.                                                        *)
(*                                                                         *)
(* The spin times come from rand_int and gettimeofday; here the choice to *)
(* go round the again loop once more is free, up to MaxCycles.  A         *)
(* spinlock is a flag taken by an atomic test-and-set: spin_lock waits    *)
(* until it is clear.                                                      *)
(***************************************************************************)
EXTENDS Naturals

CONSTANTS
  NUM_OBJECTS,  \* threads the spawner creates (1000 in the code)
  MAGIC_VALUE,  \* the initial test_value (0x0000beefdeadbeef in the code)
  MaxCycles     \* bound on rounds of the again loop per thread

ASSUME NUM_OBJECTS \in Nat \ {0} /\ MAGIC_VALUE \in Nat /\ MaxCycles \in Nat \ {0}

Objects == 0 .. NUM_OBJECTS - 1

VARIABLES
  remaining_threads_count,
  test_value,
  thread_count_lock,  \* TRUE while held
  test_lock,          \* TRUE while held
  count,        \* the spawner's loop counter
  sp,           \* the spawner's place: "loop", "inc", "create", "done"
  pc,           \* pc[i]: the place of thread i ("none" before create_thread)
  local,        \* local_test_value of each thread
  cycles,       \* cycles of each thread
  outcome       \* "running", or what ok_exit was called after

vars == <<remaining_threads_count, test_value, thread_count_lock, test_lock,
          count, sp, pc, local, cycles, outcome>>

thread == <<pc, local, cycles>>

Running == outcome = "running"

At(i, p) == Running /\ pc[i] = p

Goto(i, p) == pc' = [pc EXCEPT ![i] = p]

-----------------------------------------------------------------------------
(* thread_spawner                                                          *)

\* the for loop test, then spin_lock(&thread_count_lock)
SpawnerLock ==
  /\ Running /\ sp = "loop"
  /\ count < NUM_OBJECTS
  /\ ~thread_count_lock
  /\ thread_count_lock' = TRUE
  /\ sp' = "inc"
  /\ UNCHANGED <<remaining_threads_count, test_value, test_lock, count,
                 thread, outcome>>

\* the for loop ends and thread_spawner returns
SpawnerExit ==
  /\ Running /\ sp = "loop"
  /\ count = NUM_OBJECTS
  /\ sp' = "done"
  /\ UNCHANGED <<remaining_threads_count, test_value, thread_count_lock,
                 test_lock, count, thread, outcome>>

\* fault-injection variant: the last thread is counted as well
spawner_counts_all(c) == TRUE

\* fault-injection variant: the first thread is the one left uncounted
spawner_counts_after_first(c) == c # 0

\* "we therefore don't account for the last one"
spawner_counts(c) == c # NUM_OBJECTS - 1

\* the conditional increment of remaining_threads_count, spin_unlock
SpawnerCount ==
  /\ Running /\ sp = "inc"
  /\ remaining_threads_count' =
       IF spawner_counts(count) THEN remaining_threads_count + 1
                                ELSE remaining_threads_count
  /\ thread_count_lock' = FALSE
  /\ sp' = "create"
  /\ UNCHANGED <<test_value, test_lock, count, thread, outcome>>

\* allocate_object(count): create_thread; then count++
SpawnerCreate ==
  /\ Running /\ sp = "create"
  /\ Goto(count, "again")
  /\ cycles' = [cycles EXCEPT ![count] = 0]
  /\ count' = count + 1
  /\ sp' = "loop"
  /\ UNCHANGED <<remaining_threads_count, test_value, thread_count_lock,
                 test_lock, local, outcome>>

-----------------------------------------------------------------------------
(* thread_fn                                                               *)

\* fault-injection variant: the lock is entered without waiting for it
Acquire_unchecked(i) ==
  /\ At(i, "again")
  /\ test_lock' = TRUE
  /\ Goto(i, "load")
  /\ UNCHANGED <<remaining_threads_count, test_value, thread_count_lock,
                 count, sp, local, cycles, outcome>>

\* again: spin_lock(&test_lock)
Acquire(i) ==
  /\ At(i, "again")
  /\ ~test_lock
  /\ test_lock' = TRUE
  /\ Goto(i, "load")
  /\ UNCHANGED <<remaining_threads_count, test_value, thread_count_lock,
                 count, sp, local, cycles, outcome>>

\* local_test_value = test_value, then the spin
Load(i) ==
  /\ At(i, "load")
  /\ local' = [local EXCEPT ![i] = test_value]
  /\ Goto(i, "store")
  /\ UNCHANGED <<remaining_threads_count, test_value, thread_count_lock,
                 test_lock, count, sp, cycles, outcome>>

\* test_value = local_test_value + 1; cycles++; spin_unlock; and either
\* goto again or go on, as the elapsed time decides
Store(i) ==
  /\ At(i, "store")
  /\ test_value' = local[i] + 1
  /\ cycles' = [cycles EXCEPT ![i] = @ + 1]
  /\ test_lock' = FALSE
  /\ \/ cycles'[i] < MaxCycles /\ Goto(i, "again")
     \/ Goto(i, "tail")
  /\ UNCHANGED <<remaining_threads_count, thread_count_lock, count, sp,
                 local, outcome>>

\* spin_lock(&test_lock) after the loop
TailLock(i) ==
  /\ At(i, "tail")
  /\ ~test_lock
  /\ test_lock' = TRUE
  /\ Goto(i, "sub")
  /\ UNCHANGED <<remaining_threads_count, test_value, thread_count_lock,
                 count, sp, local, cycles, outcome>>

\* test_value -= cycles; spin_unlock(&test_lock)
Subtract(i) ==
  /\ At(i, "sub")
  /\ test_value' = test_value - cycles[i]
  /\ test_lock' = FALSE
  /\ Goto(i, "count")
  /\ UNCHANGED <<remaining_threads_count, thread_count_lock, count, sp,
                 local, cycles, outcome>>

\* spin_lock(&thread_count_lock)
CountLock(i) ==
  /\ At(i, "count")
  /\ ~thread_count_lock
  /\ thread_count_lock' = TRUE
  /\ Goto(i, "dec")
  /\ UNCHANGED <<remaining_threads_count, test_value, test_lock, count, sp,
                 local, cycles, outcome>>

\* remaining_threads_count--; spin_unlock; the thread that saw 0 goes on
\* to the check, every other one returns
Decrement(i) ==
  /\ At(i, "dec")
  /\ remaining_threads_count' = remaining_threads_count - 1
  /\ thread_count_lock' = FALSE
  /\ Goto(i, IF remaining_threads_count' = 0 THEN "last" ELSE "done")
  /\ UNCHANGED <<test_value, test_lock, count, sp, local, cycles, outcome>>

\* test_value read without a lock, and ok_exit either way
Check(i) ==
  /\ At(i, "last")
  /\ outcome' = IF test_value # MAGIC_VALUE THEN "failed" ELSE "successful"
  /\ UNCHANGED <<remaining_threads_count, test_value, thread_count_lock,
                 test_lock, count, sp, thread>>

ThreadStep(i) ==
  \/ Acquire(i) \/ Load(i) \/ Store(i) \/ TailLock(i)
  \/ Subtract(i) \/ CountLock(i) \/ Decrement(i) \/ Check(i)

-----------------------------------------------------------------------------

\* guk_app_main: remaining_threads_count = 1, create the spawner
Init ==
  /\ remaining_threads_count = 1
  /\ test_value = MAGIC_VALUE
  /\ thread_count_lock = FALSE
  /\ test_lock = FALSE
  /\ count = 0
  /\ sp = "loop"
  /\ pc = [i \in Objects |-> "none"]
  /\ local = [i \in Objects |-> 0]
  /\ cycles = [i \in Objects |-> 0]
  /\ outcome = "running"

SpawnerStep == SpawnerLock \/ SpawnerExit \/ SpawnerCount \/ SpawnerCreate

Next == SpawnerStep \/ \E i \in Objects : ThreadStep(i)

\* the scheduler runs every runnable thread; a thread spinning on a lock
\* gets it once its holder, which spins for a bounded time, releases it
Spec == Init /\ [][Next]_vars /\ WF_vars(SpawnerStep)
                              /\ \A i \in Objects : WF_vars(ThreadStep(i))

-----------------------------------------------------------------------------
(* Properties.                                                             *)

(* A thread that sees remaining_threads_count reach 0 is the last one:    *)
(* the spawner has created all NUM_OBJECTS threads and every other        *)
(* thread has finished, however thread exits interleave with the          *)
(* spawner's counting.  The count starts at 1 for the spawner itself and  *)
(* the last thread is never counted; shifting either breaks this.         *)
LastSeesAllDone ==
  \A i \in Objects :
    pc[i] = "last" => \A j \in Objects \ {i} : pc[j] = "done"

(* The test's own check never fails: test_lock makes every               *)
(* load-increment-store of test_value atomic, every thread takes off      *)
(* exactly the cycles it added, and the final unlocked read comes after   *)
(* all of them.                                                            *)
TestSuccessful == outcome # "failed"

(* The test ends: some thread sees remaining_threads_count reach 0 and    *)
(* calls ok_exit.                                                          *)
TestEnds == <>(outcome # "running")

=============================================================================
