----------------------------- MODULE ConsoleRing -----------------------------
(***************************************************************************)
(* The guest side of the Xen console rings, src/console/xencons_ring.c,   *)
(* with the console daemon of the other domain as its environment.        *)
(*                                                                         *)
(* Two rings are shared with the daemon: out (guest produces, daemon      *)
(* consumes) and in (daemon produces, guest consumes).  Their indices     *)
(* are free-running XENCONS_RING_IDX counters, kept here modulo IDX = 2^W *)
(* so that they wrap; a slot is idx & (SIZE - 1).  Bytes carry their      *)
(* sequence number in their direction, so that loss, duplication and      *)
(* reordering show.  One thread sends; the in ring is drained by the      *)
(* event-channel handler handle_input.                                    *)
(***************************************************************************)
EXTENDS Naturals, Sequences

CONSTANTS
  W,           \* width in bits of XENCONS_RING_IDX (32 in the code)
  SIZE,        \* sizeof(intf->out) = sizeof(intf->in), a power of two
  Lens,        \* the lengths a caller may pass to xencons_ring_send
  StartIdx,    \* the index values the rings may hold when the guest starts
  BindOk,      \* the outcomes bind_evtchn may have (TRUE: bound)
  MaxBytes,    \* bound on bytes offered in each direction
  MaxSuspends  \* bound on suspend/resume cycles

IDX == 2 ^ W

ASSUME /\ SIZE \in {2 ^ k : k \in 1 .. W - 2}
       /\ Lens \subseteq Nat \ {0}
       /\ StartIdx \subseteq 0 .. IDX - 1
       /\ BindOk \subseteq BOOLEAN /\ BindOk # {}

VARIABLES
  out_prod, out_cons, out,  \* intf->out_prod, intf->out_cons, intf->out[]
  in_prod, in_cons, in,     \* intf->in_prod, intf->in_cons, intf->in[]
  bound,        \* the console event channel is bound to handle_input
  phase,        \* "boot" (before xencons_ring_init), "up", "suspended"
  guest_evt,    \* an event from the daemon is pending for the guest
  dom_evt,      \* a notify_daemon is pending for the daemon
  snd,          \* the sender inside xencons_ring_send_no_notify
  bug,          \* a BUG_ON has fired
  sent,         \* bytes xencons_ring_send reported sent, in order
  shown,        \* bytes the daemon has taken from the out ring
  typed,        \* bytes the daemon has put into the in ring
  rx,           \* bytes handle_input has passed to xencons_rx
  asked,        \* bytes callers have offered to xencons_ring_send
  nsusp         \* suspend/resume cycles so far

vars == <<out_prod, out_cons, out, in_prod, in_cons, in, bound, phase,
          guest_evt, dom_evt, snd, bug, sent, shown, typed, rx, asked, nsusp>>

\* XENCONS_RING_IDX arithmetic: unsigned and W bits wide
u(x) == x % IDX

\* MASK_XENCONS_IDX(idx, ring)
MASK_XENCONS_IDX(i) == i % SIZE

\* the conversion of a size_t to int: the low W bits, read as signed
to_int(x) == IF u(x) >= IDX \div 2 THEN u(x) - IDX ELSE u(x)

\* fault-injection variant: the index difference is taken without wrapping
used_unwrapped(prod, cons) == prod - cons

\* the bytes in flight from prod back to cons, (prod - cons) in the code
used(prod, cons) == u(prod - cons + IDX)

-----------------------------------------------------------------------------
(* The guest.                                                             *)

\* fault-injection variant: the result is not narrowed to int
xencons_ring_avail_wide == SIZE - out_prod + out_cons

\* xencons_ring_avail: sizeof(intf->out) - intf->out_prod + intf->out_cons
xencons_ring_avail == to_int(SIZE - out_prod + out_cons + IDX)

\* xencons_ring_send_no_notify up to the barrier: read out_cons and
\* out_prod, and BUG_ON((prod - cons) > sizeof(intf->out))
SendBegin(len) ==
  /\ snd = [busy |-> FALSE]
  /\ ~bug
  /\ asked + len <= MaxBytes
  /\ asked' = asked + len
  /\ IF used(out_prod, out_cons) > SIZE
       THEN bug' = TRUE /\ UNCHANGED snd
       ELSE /\ snd' = [busy |-> TRUE, cons |-> out_cons, prod |-> out_prod, len |-> len]
            /\ UNCHANGED bug
  /\ UNCHANGED <<out_prod, out_cons, out, in_prod, in_cons, in, bound, phase,
                 guest_evt, dom_evt, sent, shown, typed, rx, nsusp>>

\* the number of bytes the copy loop writes: it stops at len or when the
\* ring is full as seen from the cons read at the start
send_count(s) ==
  LET room == SIZE - used(s.prod, s.cons)
  IN  IF s.len < room THEN s.len ELSE room

\* the copy loop, wmb, intf->out_prod = prod; then xencons_ring_send
\* calls notify_daemon
SendFinish ==
  LET s == snd
      n == send_count(s)
      data == [k \in 1 .. n |-> Len(sent) + k]
  IN  /\ s.busy
      /\ out' = [j \in DOMAIN out |->
                   LET k == (j - MASK_XENCONS_IDX(s.prod) + SIZE) % SIZE
                   IN  IF k < n THEN data[k + 1] ELSE out[j]]
      /\ out_prod' = u(s.prod + n)
      /\ sent' = sent \o data
      /\ dom_evt' = TRUE
      /\ snd' = [busy |-> FALSE]
      /\ UNCHANGED <<out_cons, in_prod, in_cons, in, bound, phase, guest_evt,
                     bug, shown, typed, rx, asked, nsusp>>

\* fault-injection variant: cons is advanced before the slot is read
input_bytes_preinc(cons, n) == [k \in 1 .. n |-> in[MASK_XENCONS_IDX(u(cons + k))]]

\* the loop of handle_input: the n bytes from slot cons on, in order
input_bytes(cons, n) == [k \in 1 .. n |-> in[MASK_XENCONS_IDX(u(cons + k - 1))]]

\* handle_input: read in_cons and in_prod, BUG_ON, pass every byte from
\* cons to prod to xencons_rx, publish in_cons, notify_daemon
HandleInput ==
  LET n == used(in_prod, in_cons)
  IN  /\ bound /\ guest_evt
      /\ ~bug
      /\ guest_evt' = FALSE
      /\ IF n > SIZE
           THEN bug' = TRUE /\ UNCHANGED <<in_cons, rx, dom_evt>>
           ELSE /\ rx' = rx \o input_bytes(in_cons, n)
                /\ in_cons' = in_prod
                /\ dom_evt' = TRUE
                /\ UNCHANGED bug
      /\ UNCHANGED <<out_prod, out_cons, out, in_prod, in, bound, phase, snd,
                     sent, shown, typed, asked, nsusp>>

\* fault-injection variant: no notify_daemon after binding
xencons_ring_init_quiet(ok) ==
  /\ bound' = ok
  /\ dom_evt' = dom_evt

\* xencons_ring_init, whose event channel is nonzero in a domU: bind
\* handle_input to it and, on success, notify_daemon in case data came
\* in while unbound
xencons_ring_init(ok) ==
  /\ bound' = ok
  /\ dom_evt' = (ok \/ dom_evt)

RingInit ==
  /\ phase = "boot"
  /\ phase' = "up"
  /\ \E ok \in BindOk : xencons_ring_init(ok)
  /\ UNCHANGED <<out_prod, out_cons, out, in_prod, in_cons, in, guest_evt,
                 snd, bug, sent, shown, typed, rx, asked, nsusp>>

\* xencons_suspend: unbind_evtchn; a pending event is dropped with it
Suspend ==
  /\ phase = "up"
  /\ nsusp < MaxSuspends
  /\ phase' = "suspended"
  /\ bound' = FALSE
  /\ guest_evt' = FALSE
  /\ nsusp' = nsusp + 1
  /\ UNCHANGED <<out_prod, out_cons, out, in_prod, in_cons, in, dom_evt,
                 snd, bug, sent, shown, typed, rx, asked>>

\* xencons_resume: xencons_ring_init again
Resume ==
  /\ phase = "suspended"
  /\ phase' = "up"
  /\ \E ok \in BindOk : xencons_ring_init(ok)
  /\ UNCHANGED <<out_prod, out_cons, out, in_prod, in_cons, in, guest_evt,
                 snd, bug, sent, shown, typed, rx, asked, nsusp>>

-----------------------------------------------------------------------------
(* The console daemon (not in this repository): it drains the out ring,  *)
(* fills the in ring, and answers a notification by raising an event     *)
(* when input is waiting.  An event sent to an unbound channel is lost.  *)

DaemonRead ==
  /\ out_cons # out_prod
  /\ shown' = Append(shown, out[MASK_XENCONS_IDX(out_cons)])
  /\ out_cons' = u(out_cons + 1)
  /\ UNCHANGED <<out_prod, out, in_prod, in_cons, in, bound, phase, guest_evt,
                 dom_evt, snd, bug, sent, typed, rx, asked, nsusp>>

DaemonWrite ==
  /\ Len(typed) < MaxBytes
  /\ used(in_prod, in_cons) < SIZE
  /\ in' = [in EXCEPT ![MASK_XENCONS_IDX(in_prod)] = Len(typed) + 1]
  /\ in_prod' = u(in_prod + 1)
  /\ typed' = Append(typed, Len(typed) + 1)
  /\ guest_evt' = (guest_evt \/ bound)
  /\ UNCHANGED <<out_prod, out_cons, out, in_cons, bound, phase, dom_evt,
                 snd, bug, sent, shown, rx, asked, nsusp>>

DaemonKick ==
  /\ dom_evt
  /\ dom_evt' = FALSE
  /\ guest_evt' = (guest_evt \/ (bound /\ in_prod # in_cons))
  /\ UNCHANGED <<out_prod, out_cons, out, in_prod, in_cons, in, bound, phase,
                 snd, bug, sent, shown, typed, rx, asked, nsusp>>

-----------------------------------------------------------------------------

Init ==
  /\ \E o \in StartIdx : out_prod = o /\ out_cons = o
  /\ \E i \in StartIdx : in_prod = i /\ in_cons = i
  /\ out = [j \in 0 .. SIZE - 1 |-> 0]
  /\ in = [j \in 0 .. SIZE - 1 |-> 0]
  /\ bound = FALSE
  /\ phase = "boot"
  /\ guest_evt = FALSE
  /\ dom_evt = FALSE
  /\ snd = [busy |-> FALSE]
  /\ bug = FALSE
  /\ sent = << >> /\ shown = << >> /\ typed = << >> /\ rx = << >>
  /\ asked = 0
  /\ nsusp = 0

Next ==
  \/ \E len \in Lens : SendBegin(len)
  \/ SendFinish
  \/ HandleInput
  \/ RingInit
  \/ Suspend
  \/ Resume
  \/ DaemonRead
  \/ DaemonWrite
  \/ DaemonKick

\* the handler runs whenever an event is pending on the bound channel, a
\* send in progress completes, the suspend path always resumes, and the
\* daemon answers its notifications and drains the out ring
Fairness ==
  /\ WF_vars(HandleInput)
  /\ WF_vars(SendFinish)
  /\ WF_vars(RingInit)
  /\ WF_vars(Resume)
  /\ WF_vars(DaemonKick)
  /\ WF_vars(DaemonRead)

Spec == Init /\ [][Next]_vars /\ Fairness

-----------------------------------------------------------------------------
(* Properties.                                                             *)

(* xencons_ring_avail() is the free space of the out ring: sizeof minus  *)
(* the bytes sent and not yet read, also when out_prod has wrapped and   *)
(* out_cons has not.                                                     *)
AvailExact == xencons_ring_avail = SIZE - (Len(sent) - Len(shown))

(* Every byte the daemon puts into the in ring reaches xencons_rx, also  *)
(* when it arrived while the channel was unbound across suspend/resume,  *)
(* unless a failed bind_evtchn has left the running guest unbound.        *)
InputDelivered ==
  \A n \in 1 .. MaxBytes :
    Len(typed) >= n ~> (Len(rx) >= n \/ (phase = "up" /\ ~bound))

-----------------------------------------------------------------------------
(* Refinement: the two rings implement the bounded FIFO channels of       *)
(* ConsoleChannel.  A channel holds the bytes of its ring from cons up to *)
(* prod, read through the masked slots.                                    *)

ring_content(prod, cons, ring) ==
  [k \in 1 .. used(prod, cons) |-> ring[MASK_XENCONS_IDX(u(cons + k - 1))]]

Chan == INSTANCE ConsoleChannel
          WITH outq <- ring_content(out_prod, out_cons, out),
               inq <- ring_content(in_prod, in_cons, in)

(* The guest and the daemon only ever see the rings behave as two FIFO    *)
(* channels of SIZE bytes: the copy loop of xencons_ring_send never       *)
(* overwrites a byte the daemon has not read, even with indices that wrap *)
(* and an out_cons read before the daemon moved it (so neither BUG_ON    *)
(* fires); the daemon reads the bytes in the order sent; and handle_input *)
(* passes on the oldest bytes of the in ring, each once.                  *)
ChannelRefined == Chan!Spec

=============================================================================
