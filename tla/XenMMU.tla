------------------------------- MODULE XenMMU -------------------------------
(***************************************************************************)
(* The hypervisor side of the paravirtualised MMU interface that the      *)
(* page-table code of src/arch/x86/mm.c drives.  The hypervisor is not    *)
(* part of this repository: these operators state the contract of spec   *)
(* section 6 (MMU-update records, pin requests, single mapping updates)   *)
(* with the checks the hypervisor applies before it accepts an update.    *)
(*                                                                         *)
(* The operators are state-passing: a machine state hv is a record        *)
(*   mem     : the contents of every frame, read as ENTRIES table entries  *)
(*   type    : 0 for an ordinary frame, l in 1..LEVELS for a frame the     *)
(*             hypervisor has validated as a level-l page table            *)
(*   crashed : "no", or why the guest terminated                          *)
(* and each hypercall maps a machine state to the next one.  Once the     *)
(* guest has crashed every operator leaves the machine state alone.       *)
(***************************************************************************)
EXTENDS Naturals, Sequences

CONSTANTS
  LEVELS,   \* depth of the page-table tree (2, 3 or 4)
  ENTRIES,  \* entries per table node (L1_PAGETABLE_ENTRIES)
  MFN       \* the hypervisor frame numbers owned by the guest

ASSUME LEVELS \in 2..4 /\ ENTRIES \in Nat \ {0} /\ 0 \notin MFN

Slots == 0 .. ENTRIES - 1

(* A table entry: frame, present bit, writable bit and large-page bit.    *)
Entry == [mfn : MFN \cup {0}, present : BOOLEAN, rw : BOOLEAN, pse : BOOLEAN]

(* The all-zero entry: what memset leaves and what demolish writes.       *)
Zero == [mfn |-> 0, present |-> FALSE, rw |-> FALSE, pse |-> FALSE]

(* What an uncleared frame may hold: a present entry naming a frame the   *)
(* guest does not own.                                                     *)
Junk == [mfn |-> 0, present |-> TRUE, rw |-> TRUE, pse |-> FALSE]

ZeroPage == [s \in Slots |-> Zero]
JunkPage == [s \in Slots |-> Junk]

Crashed(hv) == hv.crashed # "no"
Crash(hv, why) == IF Crashed(hv) THEN hv ELSE [hv EXCEPT !.crashed = why]

(* Frame m is the target of a writable mapping in some live L1 table or  *)
(* of a writable large-page entry in some live L2 table.                  *)
WritableMapped(hv, m) ==
  \E t \in MFN : \E s \in Slots :
     LET e == hv.mem[t][s]
     IN  /\ e.present /\ e.rw /\ e.mfn = m
         /\ \/ hv.type[t] = 1
            \/ hv.type[t] = 2 /\ e.pse

(* An entry may stand in a level-l table: a leaf never makes a page-table *)
(* frame writable, and a link points at a frame already of type l-1.      *)
ValidEntry(hv, l, e) ==
  \/ ~e.present
  \/ /\ e.mfn \in MFN
     /\ e.pse => l = 2
     /\ IF l = 1 \/ e.pse
          THEN e.rw => hv.type[e.mfn] = 0
          ELSE hv.type[e.mfn] = l - 1

(* Frame m can be given type l: it has it, or it is an ordinary frame     *)
(* with no writable mapping whose every entry is valid at level l.        *)
Typeable(hv, m, l) ==
  /\ m \in MFN
  /\ \/ hv.type[m] = l
     \/ /\ hv.type[m] = 0
        /\ ~WritableMapped(hv, m)
        /\ \A s \in Slots : ValidEntry(hv, l, hv.mem[m][s])

(* The check applied to a new entry for a level-l table: as ValidEntry,   *)
(* except that a link may type a fresh frame on the fly.                  *)
NewEntryOk(hv, l, e) ==
  IF e.present /\ ~e.pse /\ l > 1
    THEN Typeable(hv, e.mfn, l - 1)
    ELSE ValidEntry(hv, l, e)

(* Store e at slot s of table t, typing a newly linked frame.            *)
Store(hv, t, s, e) ==
  [hv EXCEPT !.mem[t][s] = e,
             !.type = IF e.present /\ ~e.pse /\ hv.type[t] > 1
                        THEN [@ EXCEPT ![e.mfn] = hv.type[t] - 1]
                        ELSE @]

(* One MMU-update record u = [t, s, val]: write val into slot s of the    *)
(* page-table frame t.  A refused update fails the hypercall, and every   *)
(* caller in mm.c answers a failed hypercall with crash_exit().           *)
MmuUpdateOne(hv, u) ==
  IF Crashed(hv) THEN hv
  ELSE IF /\ u.t \in MFN
          /\ hv.type[u.t] >= 1
          /\ NewEntryOk(hv, hv.type[u.t], u.val)
       THEN Store(hv, u.t, u.s, u.val)
       ELSE Crash(hv, "hypercall")

(* HYPERVISOR_mmu_update over a batch: records applied in order, the     *)
(* first refused one ends the call.                                       *)
RECURSIVE MmuUpdate(_, _)
MmuUpdate(hv, ups) ==
  IF ups = << >> THEN hv
  ELSE MmuUpdate(MmuUpdateOne(hv, Head(ups)), Tail(ups))

(* HYPERVISOR_mmuext_op with a MMUEXT_PIN_Ln_TABLE command.               *)
Pin(hv, m, l) ==
  IF Crashed(hv) THEN hv
  ELSE IF Typeable(hv, m, l)
       THEN [hv EXCEPT !.type[m] = l]
       ELSE Crash(hv, "hypercall")

(* The L1 table the hypervisor's own walk from root finds for va, or 0   *)
(* when an upper-level entry is absent or a large page.                  *)
RECURSIVE L1Of(_, _, _, _)
L1Of(hv, m, l, va) ==
  IF l = 1 THEN m
  ELSE LET e == hv.mem[m][(va \div (ENTRIES ^ (l - 1))) % ENTRIES]
       IN  IF e.present /\ ~e.pse /\ e.mfn \in MFN
             THEN L1Of(hv, e.mfn, l - 1, va)
             ELSE 0

(* update_va_mapping: does the hypervisor accept val as the L1 entry of  *)
(* va, and the machine state after it does.                               *)
VaMappingOk(hv, root, va, val) ==
  /\ ~Crashed(hv)
  /\ L1Of(hv, root, LEVELS, va) # 0
  /\ NewEntryOk(hv, 1, val)

VaMappingStore(hv, root, va, val) ==
  Store(hv, L1Of(hv, root, LEVELS, va), va % ENTRIES, val)

(* HYPERVISOR_multicall of update_va_mapping requests c = [va, val]: a   *)
(* refused request leaves its entry alone and reports its failure only   *)
(* in its own result slot; the multicall itself returns 0.               *)
RECURSIVE Multicall(_, _, _)
Multicall(hv, root, calls) ==
  IF calls = << >> THEN hv
  ELSE LET c == Head(calls)
           hv1 == IF VaMappingOk(hv, root, c.va, c.val)
                    THEN VaMappingStore(hv, root, c.va, c.val)
                    ELSE hv
       IN  Multicall(hv1, root, Tail(calls))

(* The translation the MMU makes for va: the leaf entry, or Zero.       *)
RECURSIVE LeafFrom(_, _, _, _)
LeafFrom(hv, m, l, va) ==
  LET e == hv.mem[m][(va \div (ENTRIES ^ (l - 1))) % ENTRIES]
  IN  IF l = 1 \/ e.pse THEN e
      ELSE IF e.present /\ e.mfn \in MFN THEN LeafFrom(hv, e.mfn, l - 1, va)
      ELSE Zero

=============================================================================
