---------------------------- MODULE ConsoleChannel ----------------------------
(***************************************************************************)
(* What the console rings of src/console/xencons_ring.c promise, without  *)
(* the rings: two bounded FIFO channels between the guest and the console *)
(* daemon.  outq holds what the guest has sent and the daemon has not yet *)
(* shown, inq what the daemon has typed and the guest has not yet passed  *)
(* on; neither ever holds more than SIZE bytes.  sent, shown, typed and rx *)
(* are the histories at the four ends.                                     *)
(***************************************************************************)
EXTENDS Naturals, Sequences

CONSTANT SIZE   \* the capacity of each channel

VARIABLES outq, inq, sent, shown, typed, rx

avars == <<outq, inq, sent, shown, typed, rx>>

\* the bytes history h' adds to h, when h' only appends to h
Added(h) == SubSeq(h', Len(h) + 1, Len(h'))

Appends(h) == Len(h') > Len(h) /\ SubSeq(h', 1, Len(h)) = h

\* the guest sends some bytes; they fit in the out channel
Send ==
  /\ Appends(sent)
  /\ Len(outq) + Len(Added(sent)) <= SIZE
  /\ outq' = outq \o Added(sent)
  /\ UNCHANGED <<inq, shown, typed, rx>>

\* the daemon shows the oldest byte of the out channel
Show ==
  /\ outq # << >>
  /\ shown' = Append(shown, Head(outq))
  /\ outq' = Tail(outq)
  /\ UNCHANGED <<inq, sent, typed, rx>>

\* the daemon types some bytes; they fit in the in channel
Type ==
  /\ Appends(typed)
  /\ Len(inq) + Len(Added(typed)) <= SIZE
  /\ inq' = inq \o Added(typed)
  /\ UNCHANGED <<outq, sent, shown, rx>>

\* the guest passes on the oldest n bytes of the in channel
Receive ==
  \E n \in 1 .. Len(inq) :
    /\ rx' = rx \o SubSeq(inq, 1, n)
    /\ inq' = SubSeq(inq, n + 1, Len(inq))
    /\ UNCHANGED <<outq, sent, shown, typed>>

Init ==
  /\ outq = << >> /\ inq = << >>
  /\ sent = << >> /\ shown = << >> /\ typed = << >> /\ rx = << >>

Next == Send \/ Show \/ Type \/ Receive

Spec == Init /\ [][Next]_avars

=============================================================================
