-------------------------------- MODULE Time --------------------------------
(***************************************************************************)
(* The guest clock of src/arch/x86/time.c on one vCPU.                     *)
(*                                                                         *)
(* Xen publishes the vCPU's time record (vcpu_time_info) with a version    *)
(* that is odd while an update is in progress.  The guest copies it into   *)
(* the per-cpu shadow_time with get_time_values_from_xen, retrying until   *)
(* it saw one even version on both sides of the copy, and reads the shadow *)
(* in guk_monotonic_clock, retrying until the shadow's version did not     *)
(* change under it.  The shadow has two writers on the same CPU: the       *)
(* thread that calls monotonic_clock and the VIRQ_TIMER handler            *)
(* timer_handler, which may interrupt it between any two instructions      *)
(* where interrupts are enabled.  A structure copy                         *)
(* `shadow->f = src->f` is a load and a store, so the interrupt can fall   *)
(* between the two; the model takes each of them as a step.                *)
(*                                                                         *)
(* Data abstraction: a host's TSC and system time both tick with real time *)
(* `now`, from the host's own origins, so scale_delta with the host's      *)
(* tsc_to_system_mul/tsc_shift is the identity; a shadow gives the true    *)
(* time exactly when its tsc_timestamp and system_timestamp come from one  *)
(* publication of the current host.  The wallclock record (wc_sec,         *)
(* wc_nsec) is one number: the host's boot time on the wall clock.         *)
(* Migration during suspend moves the guest to another host, whose system  *)
(* time may be behind.                                                     *)
(***************************************************************************)
EXTENDS Integers, Sequences

CONSTANTS
  MaxTime,      \* real time runs over 0..MaxTime
  MaxUpdates,   \* bound on Xen's publications of vcpu_time_info
  Hosts,        \* hosts: [boot |-> wall time of boot, tsc0 |-> TSC at time 0]
  MaxSuspends,  \* bound on suspend/resume cycles
  ThreadCalls,  \* the calls the thread makes: "mono", "gtod", "suspend",
                \* and the idle thread's "block"
  BlockUntils   \* the NOW() values the idle thread blocks until

ASSUME /\ MaxTime \in Nat /\ MaxUpdates \in Nat /\ MaxSuspends \in Nat
       /\ \E h \in Hosts : h.boot = 0
       /\ \A h \in Hosts : h.boot \in 0..MaxTime /\ h.tsc0 \in Nat
       /\ ThreadCalls \subseteq {"mono", "gtod", "suspend", "block"}
       /\ BlockUntils \subseteq Nat

VARIABLES
  now,          \* real time
  host,         \* the host the guest runs on
  nupd,         \* publications made so far
  nmig,         \* migrations made so far, at most one per suspension
  src,          \* vcpu_time_info: [version, tsc, sys]
  wc,           \* shared_info wallclock: [version, sec]
  shadow,       \* per-cpu shadow_time: [version, tsc, sys]
  shadow_ts,    \* wallclock shadow (shadow_ts.ts_sec/ts_nsec)
  shadow_ts_version,
  irqs,         \* the thread's interrupt flag: "on" or "off"
  pc,           \* the thread's program point
  caller,       \* which call monotonic_clock returns to
  gret,         \* where get_time_values_from_xen returns to
  gi,           \* index of the field get_time_values_from_xen copies
  reg,          \* the value loaded and not yet stored
  local_time_version,
  t_sys,        \* shadow->system_timestamp as loaded at line 194
  time,         \* monotonic_clock's local `time`
  t_real,       \* ghost: the host's true system time when `time` was read
  suspend_time, suspended, time_addend, nsusp,
  bug,          \* a BUG_ON fired
  last_now,     \* ghost: the last value of NOW() the thread obtained
  timer,        \* Xen's singleshot timer of the vCPU, in the host's system
                \* time, or NoTimer
  until         \* block_domain's argument

xenv == <<now, host, nupd, nmig, src, wc>>
kvars == <<shadow, shadow_ts, shadow_ts_version, suspend_time, suspended,
           time_addend, nsusp, bug, last_now, timer>>
thread == <<pc, caller, gret, gi, reg, local_time_version, t_sys, time,
            t_real, irqs, until>>
vars == <<xenv, kvars, thread>>

\* The host's TSC (rdtscll) and system time (vcpu_time_info.system_time).
tsc_now == now + host.tsc0
sys_now == now - host.boot

Odd(v) == v % 2 = 1

\* no deadline pending; every deadline the guest sets is at least 0
NoTimer == -1

\* Xen's singleshot timer has expired
TimerDue == timer # NoTimer /\ sys_now >= timer

\* The fields get_time_values_from_xen copies, in the order of the code.
Fields == <<"version", "tsc", "sys">>

-----------------------------------------------------------------------------
(* Xen: publication of vcpu_time_info with the version protocol, and       *)
(* migration while the guest is suspended.                                 *)

XenBegin ==
  /\ ~Odd(src.version) /\ nupd < MaxUpdates
  /\ src' = [version |-> src.version + 1, tsc |-> tsc_now, sys |-> sys_now]
  /\ nupd' = nupd + 1
  /\ UNCHANGED <<now, host, nmig, wc, kvars, thread>>

XenEnd ==
  /\ Odd(src.version)
  /\ src' = [src EXCEPT !.version = @ + 1]
  /\ UNCHANGED <<now, host, nupd, nmig, wc, kvars, thread>>

Tick ==
  /\ now < MaxTime
  /\ now' = now + 1
  /\ UNCHANGED <<host, nupd, nmig, src, wc, kvars, thread>>

\* The new host's records: its own system time and wallclock, with a
\* version counter that either continues or starts afresh.
Migrate ==
  /\ pc = "suspended" /\ ~Odd(src.version) /\ nmig < nsusp
  /\ nmig' = nmig + 1
  /\ \E h \in Hosts \ {host}, v \in {2, src.version + 2} :
       /\ h.boot <= now
       /\ host' = h
       /\ src' = [version |-> v, tsc |-> now + h.tsc0, sys |-> now - h.boot]
       /\ wc' = [version |-> wc.version + 2, sec |-> h.boot]
  /\ timer' \in {timer, NoTimer}
  /\ UNCHANGED <<now, nupd, shadow, shadow_ts, shadow_ts_version,
                 suspend_time, suspended, time_addend, nsusp, bug, last_now,
                 thread>>

-----------------------------------------------------------------------------
(* Interrupt context and initialisation.                                   *)

\* get_time_values_from_xen with interrupts disabled: only Xen runs beside
\* it, the loop spins while the version is odd and ends with a copy of one
\* publication.
xen_snapshot == [version |-> src.version, tsc |-> src.tsc, sys |-> src.sys]

\* update_wallclock: the same loop over wc_version.  wc changes only while
\* the guest is suspended, so the copy is one step.
update_wallclock == shadow_ts' = wc.sec /\ shadow_ts_version' = wc.version

\* The singleshot timer after a VIRQ_TIMER: one that was due has fired.
timer_after_virq == IF TimerDue THEN NoTimer ELSE timer

\* set_timer_interrupt: a delta below MILLISECS(1) is raised to it (a time
\* unit of the model is a millisecond), then set_timer_op(monotonic_clock()
\* + delta); monotonic_clock() is the host's system time here, the shadow
\* having just been refreshed with interrupts masked.
set_timer_interrupt(delta) == sys_now + (IF delta < 1 THEN 1 ELSE delta)

\* check_need_resched: nothing for the idle thread or a resched_running_time
\* of 0; set_need_resched (a flag of the scheduler's thread, not held here)
\* when get_running_time has reached it; otherwise the timer is set for the
\* rest of the slice.  The current thread, its resched_running_time r and
\* the runstate's running time rt belong to the scheduler and Xen and are
\* inputs; rt never exceeds the system time.
check_need_resched ==
  \/ timer' = timer_after_virq
  \/ \E r \in 1 .. MaxTime, rt \in 0 .. sys_now :
       rt < r /\ timer' = set_timer_interrupt(r - rt)

\* timer_handler: get_time_values_from_xen, update_wallclock and
\* check_need_resched, run with events masked between two steps of the
\* thread.  BUG_ON(!in_irq() ...) of update_wallclock cannot fire in_irq.
TimerHandler ==
  /\ irqs = "on" /\ ~Odd(src.version)
  /\ shadow' = xen_snapshot
  /\ update_wallclock
  /\ check_need_resched
  /\ UNCHANGED <<xenv, suspend_time, suspended, time_addend, nsusp, bug,
                 last_now, thread>>

\* init_time: shadow_ts and time_addend zeroed, then update_wallclock,
\* before interrupts are enabled.
init_time ==
  /\ pc = "init"
  /\ time_addend' = 0
  /\ update_wallclock
  /\ pc' = "idle" /\ irqs' = "on"
  /\ UNCHANGED <<xenv, shadow, suspend_time, suspended, nsusp, bug, last_now,
                 timer, caller, gret, gi, reg, local_time_version, t_sys, time,
                 t_real, until>>

-----------------------------------------------------------------------------
(* Thread context.                                                         *)

\* The thread enters guk_monotonic_clock (NOW), guk_gettimeofday (which
\* takes wallclock_lock with spin_lock_irqsave), time_suspend (called on
\* the suspend path with interrupts disabled) or, as the idle thread,
\* block_domain(until), which is entered with interrupts disabled and
\* starts with NOW().
Call(c) ==
  /\ pc = "idle"
  /\ c = "suspend" => nsusp < MaxSuspends
  /\ pc' = "m_ver" /\ caller' = c
  /\ irqs' = IF c = "mono" THEN "on" ELSE "off"
  /\ until' \in IF c = "block" THEN BlockUntils ELSE {0}
  /\ UNCHANGED <<xenv, kvars, gret, gi, reg, local_time_version, t_sys, time,
                 t_real>>

\* The steps of monotonic_clock and get_time_values_from_xen change only
\* the thread's locals and the shadow.
Local(v) == UNCHANGED <<xenv, shadow_ts, shadow_ts_version, suspend_time,
                        suspended, time_addend, nsusp, bug, last_now, timer,
                        irqs, until, v>>

\* monotonic_clock, line 192: local_time_version = shadow->version.
MonoVersion ==
  /\ pc = "m_ver"
  /\ local_time_version' = shadow.version
  /\ pc' = "m_sys"
  /\ Local(<<shadow, caller, gret, gi, reg, t_sys, time, t_real>>)

\* Line 194, the load of shadow->system_timestamp.
MonoSys ==
  /\ pc = "m_sys"
  /\ t_sys' = shadow.sys
  /\ pc' = "m_tsc"
  /\ Local(<<shadow, caller, gret, gi, reg, local_time_version, time,
             t_real>>)

\* get_nsec_offset and scale_delta: rdtscll minus shadow->tsc_timestamp,
\* scaled by the identity; the sum is the local `time`.
get_nsec_offset == tsc_now - shadow.tsc

MonoTsc ==
  /\ pc = "m_tsc"
  /\ time' = t_sys + get_nsec_offset
  /\ t_real' = sys_now
  /\ pc' = "m_fresh"
  /\ Local(<<shadow, caller, gret, gi, reg, local_time_version, t_sys>>)

\* time_values_up_to_date
time_values_up_to_date(sh) == sh.version = src.version

\* Lines 195-196: refresh the shadow when Xen's version moved on.
MonoFresh ==
  /\ pc = "m_fresh"
  /\ IF time_values_up_to_date(shadow)
       THEN pc' = "m_chk" /\ UNCHANGED <<gi, gret>>
       ELSE pc' = "g_load" /\ gi' = 1 /\ gret' = "m_chk"
  /\ Local(<<shadow, caller, reg, local_time_version, t_sys, time, t_real>>)

\* get_time_values_from_xen, lines 165-170: each `shadow->f = src->f` is a
\* load (GetLoad) and a store (GetStore).
GetLoad ==
  /\ pc = "g_load"
  /\ reg' = src[Fields[gi]]
  /\ pc' = "g_store"
  /\ Local(<<shadow, caller, gret, gi, local_time_version, t_sys, time,
             t_real>>)

GetStore ==
  /\ pc = "g_store"
  /\ shadow' = [shadow EXCEPT ![Fields[gi]] = reg]
  /\ reg' = 0
  /\ IF gi < Len(Fields) THEN gi' = gi + 1 /\ pc' = "g_load"
                        ELSE pc' = "g_chk" /\ UNCHANGED gi
  /\ Local(<<caller, gret, local_time_version, t_sys, time, t_real>>)

\* Fault-injection variant: the odd test negated, (!(v & 1)) for (v & 1).
get_time_values_retry_even(sh, s) == ~Odd(s.version) \/ sh.version # s.version

\* Line 173: retry while Xen's version is odd or differs from the copy.
get_time_values_retry(sh, s) == Odd(s.version) \/ sh.version # s.version

GetCheck ==
  /\ pc = "g_chk"
  /\ IF get_time_values_retry(shadow, src)
       THEN pc' = "g_load" /\ gi' = 1
       ELSE pc' = gret /\ UNCHANGED gi
  /\ Local(<<shadow, caller, gret, reg, local_time_version, t_sys, time,
             t_real>>)

\* Line 198: start again when the shadow changed under the read.
MonoCheck ==
  /\ pc = "m_chk"
  /\ pc' = IF local_time_version # shadow.version THEN "m_ver" ELSE "m_done"
  /\ Local(<<shadow, caller, gret, gi, reg, local_time_version, t_sys, time,
             t_real>>)

\* The caller's part once monotonic_clock returns.  The locals of
\* monotonic_clock are dead from here and are cleared, so that states that
\* differ only in them are one.
Return(v) ==
  /\ gret' = "m_chk" /\ gi' = 1 /\ reg' = 0 /\ local_time_version' = 0
  /\ t_sys' = 0 /\ time' = 0 /\ t_real' = 0
  /\ UNCHANGED <<xenv, shadow, caller, until, v>>

\* NOW() of a thread: monotonic_clock() plus time_addend, the correction
\* block_domain takes off again ("until is in system time not hypervisor
\* time").
MonoReturn ==
  /\ pc = "m_done" /\ caller = "mono"
  /\ pc' = "idle"
  /\ last_now' = time + time_addend
  /\ Return(<<shadow_ts, shadow_ts_version, suspend_time, suspended,
              time_addend, nsusp, bug, timer, irqs>>)

\* guk_gettimeofday after monotonic_clock: BUG_ON(shadow_ts_version == 0),
\* tv = shadow_ts + nsec, spin_unlock_irqrestore.
gettimeofday_end ==
  /\ pc = "m_done" /\ caller = "gtod"
  /\ bug' = (bug \/ shadow_ts_version = 0)
  /\ pc' = "idle" /\ irqs' = "on"
  /\ Return(<<shadow_ts, shadow_ts_version, suspend_time, suspended,
              time_addend, nsusp, last_now, timer>>)

\* time_suspend: suspend_time = monotonic_clock(); ++suspended.  The guest
\* then stops until time_resume.
time_suspend_end ==
  /\ pc = "m_done" /\ caller = "suspend"
  /\ suspend_time' = time
  /\ suspended' = suspended + 1
  /\ nsusp' = nsusp + 1
  /\ last_now' = time + time_addend
  /\ pc' = "suspended"
  /\ Return(<<shadow_ts, shadow_ts_version, time_addend, bug, timer, irqs>>)

\* "until is in system time not hypervisor time": set_timer_op takes the
\* hypervisor's, so time_addend comes off.
block_timer(u) == u - time_addend

\* block_domain after NOW(): if NOW() < until, set_timer_op(until -
\* time_addend), cpu_state = CPU_SLEEPING and SCHEDOP_block, which returns
\* with events enabled once one is pending; otherwise local_irq_enable.
block_domain_end ==
  /\ pc = "m_done" /\ caller = "block"
  /\ last_now' = time + time_addend
  /\ IF time + time_addend < until
       THEN timer' = block_timer(until) /\ pc' = "blocked" /\ UNCHANGED irqs
       ELSE pc' = "idle" /\ irqs' = "on" /\ UNCHANGED timer
  /\ Return(<<shadow_ts, shadow_ts_version, suspend_time, suspended,
              time_addend, nsusp, bug>>)

\* SCHEDOP_block returns: an event is pending, the due timer or another;
\* cpu_state = CPU_UP, and events are enabled (BUG_ON(irqs_disabled())).
BlockWake ==
  /\ pc = "blocked"
  /\ pc' = "idle" /\ irqs' = "on" /\ until' = 0
  /\ UNCHANGED <<xenv, kvars, caller, gret, gi, reg, local_time_version,
                 t_sys, time, t_real>>

\* Fault-injection variant: time_resume without get_time_values_from_xen.
time_resume_begin_no_refresh ==
  /\ pc = "suspended" /\ ~Odd(src.version)
  /\ update_wallclock
  /\ pc' = "m_ver" /\ caller' = "resume"
  /\ UNCHANGED <<xenv, shadow, suspend_time, suspended, time_addend, nsusp,
                 bug, last_now, timer, irqs, gret, gi, reg, local_time_version,
                 t_sys, time, t_real, until>>

\* Fault-injection variant: time_resume without update_wallclock.
time_resume_begin_stale_wc ==
  /\ pc = "suspended" /\ ~Odd(src.version)
  /\ shadow' = xen_snapshot
  /\ pc' = "m_ver" /\ caller' = "resume"
  /\ UNCHANGED <<xenv, shadow_ts, shadow_ts_version, suspend_time, suspended,
                 time_addend, nsusp, bug, last_now, timer, irqs, gret, gi, reg,
                 local_time_version, t_sys, time, t_real, until>>

\* time_resume, lines 348-349: get_time_values_from_xen and
\* update_wallclock with interrupts still disabled, then monotonic_clock.
\* BUG_ON(!in_irq() && smp_init_completed && !suspended) cannot fire, since
\* suspended is still raised.
time_resume_begin ==
  /\ pc = "suspended" /\ ~Odd(src.version)
  /\ shadow' = xen_snapshot
  /\ update_wallclock
  /\ pc' = "m_ver" /\ caller' = "resume"
  /\ UNCHANGED <<xenv, suspend_time, suspended, time_addend, nsusp, bug,
                 last_now, timer, irqs, gret, gi, reg, local_time_version, t_sys,
                 time, t_real, until>>

\* Lines 351-356: delta = monotonic_clock() - suspend_time, a u64
\* difference read as long long; a clock that went back is compensated.
\* Fault-injection variant: the compensation with its sign reversed.
time_addend_after_flipped(delta) ==
  IF delta < 0 THEN time_addend + delta ELSE time_addend

time_addend_after(delta) ==
  IF delta < 0 THEN time_addend - delta ELSE time_addend

time_resume_end ==
  /\ pc = "m_done" /\ caller = "resume"
  /\ time_addend' = time_addend_after(time - suspend_time)
  /\ suspended' = suspended - 1
  /\ last_now' = time + time_addend'
  /\ pc' = "idle" /\ irqs' = "on"
  /\ Return(<<shadow_ts, shadow_ts_version, suspend_time, nsusp, bug, timer>>)

-----------------------------------------------------------------------------

Init ==
  /\ now = 0 /\ nupd = 0 /\ nmig = 0
  /\ host \in {h \in Hosts : h.boot = 0}
  /\ src = [version |-> 2, tsc |-> host.tsc0, sys |-> 0]
  /\ wc = [version |-> 2, sec |-> 0]
  /\ shadow = [version |-> 0, tsc |-> 0, sys |-> 0]
  /\ shadow_ts = 0 /\ shadow_ts_version = 0
  /\ irqs = "off" /\ pc = "init" /\ caller = "mono" /\ gret = "m_chk"
  /\ gi = 1 /\ reg = 0 /\ local_time_version = 0
  /\ t_sys = 0 /\ time = 0 /\ t_real = 0
  /\ suspend_time = 0 /\ suspended = 0 /\ time_addend = 0 /\ nsusp = 0
  /\ bug = FALSE /\ last_now = 0
  /\ timer = NoTimer /\ until = 0

Next ==
  \/ XenBegin \/ XenEnd \/ Tick \/ Migrate
  \/ TimerHandler \/ init_time
  \/ \E c \in ThreadCalls : Call(c)
  \/ MonoVersion \/ MonoSys \/ MonoTsc \/ MonoFresh \/ MonoCheck
  \/ GetLoad \/ GetStore \/ GetCheck
  \/ MonoReturn \/ gettimeofday_end \/ time_suspend_end
  \/ time_resume_begin \/ time_resume_end
  \/ block_domain_end \/ BlockWake

Spec == Init /\ [][Next]_vars

\* The thread's own steps: one is enabled at each program point, and the
\* timer handler, which runs to completion between two of them, does not
\* take the CPU for ever.
ThreadStep ==
  \/ init_time
  \/ MonoVersion \/ MonoSys \/ MonoTsc \/ MonoFresh \/ MonoCheck
  \/ GetLoad \/ GetStore \/ GetCheck
  \/ MonoReturn \/ gettimeofday_end \/ time_suspend_end
  \/ time_resume_begin \/ time_resume_end \/ block_domain_end

\* Xen completes an update it began; the thread is scheduled.
FairSpec == Spec /\ WF_vars(ThreadStep) /\ WF_vars(XenEnd)

-----------------------------------------------------------------------------
(* Properties.                                                             *)

\* monotonic_clock "is required to return accurate time": when it returns,
\* `time` is the host's system time at the instant the TSC was read, i.e.
\* the shadow it used held one publication of Xen's record.  This is what
\* the two version loops of get_time_values_from_xen and monotonic_clock
\* are for, against Xen publishing and timer_handler refreshing the shadow.
MonotonicAccurate == pc = "m_done" => time = t_real

\* guk_gettimeofday returns the wall time: shadow_ts (the host's wallclock
\* at system time 0) plus the system time, also right after a migration.
GettimeofdayTrue ==
  (pc = "m_done" /\ caller = "gtod") => shadow_ts + time = t_real + host.boot

\* Every call into the clock returns, and a suspended guest resumes: the
\* retry loops of get_time_values_from_xen and monotonic_clock end although
\* timer_handler and Xen keep writing the records they read.
InCall == pc \notin {"idle"}
CallsReturn == InCall ~> ~InCall

\* NOW() never goes back, across suspend and resume on another host
\* included: time_resume's time_addend makes up for a system time that
\* went back.
NowMonotonic == [][last_now' >= last_now]_vars

=============================================================================
