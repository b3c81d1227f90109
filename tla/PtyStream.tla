------------------------------ MODULE PtyStream ------------------------------
(***************************************************************************)
(* The traffic of one terminal with its child: the edge-triggered          *)
(* descriptor in the bridge, the one read per dispatch into a buffer that  *)
(* belongs to the pty, the emulator that is fed from that buffer and       *)
(* answers in the middle of it, and the output that waits for the kernel.  *)
(*                                                                         *)
(* The child's bytes are numbered; the emulator answers the bytes in Asks  *)
(* (the last byte of a request such as "report cursor position").          *)
(***************************************************************************)
EXTENDS Integers, Sequences

CONSTANTS
  BufSize,  \* SHL_PTY_BUFSIZE
  KOut,     \* what the line discipline holds ready to be read
  KIn,      \* what it takes before it is full
  Asks,     \* the bytes the emulator answers
  MaxOut,   \* bound: bytes the child writes
  MaxKeys   \* bound: keys accepted

\* One read empties the line discipline: 4096 bytes against a buffer of 16384.
ASSUME SizeAssumption ==
  /\ BufSize \in Nat /\ KOut \in Nat \ {0} /\ KIn \in Nat \ {0}
  /\ KOut <= BufSize
ASSUME BoundsAssumption == MaxOut \in Nat /\ MaxKeys \in Nat /\ Asks \subseteq 1 .. MaxOut

VARIABLES
  written,    \* bytes the child has written
  out,        \* those in the kernel
  edge,       \* the bridge's ready list holds the pty
  calls,      \* shl_pty_dispatch calls under way, the innermost first
  in_buf,     \* pty->in_buf
  shown,      \* bytes the emulator has parsed
  out_buf,    \* pty->out_buf, a ByteQueue (see PtyRing)
  inp,        \* input in the kernel
  got,        \* input the child has read
  sent,       \* history: what shl_pty_write accepted
  clobbered   \* history: in_buf was filled while bytes of it waited to be parsed

vars == <<written, out, edge, calls, in_buf, shown, out_buf, inp, got, sent, clobbered>>

Key == 0

Shorter(m, n) == IF m < n THEN m ELSE n

\* Wrong: only input is asked for.
EventsIn == {"in"}

\* What the bridge registers.
Events == {"in", "out"}

Dispatching == [pc |-> "read", pos |-> 1, len |-> 0]

\* The caller's bytes that are still to be parsed.
Unparsed(call) == IF call.pc = "parse" THEN SubSeq(in_buf, call.pos, call.len) ELSE <<>>

Init ==
  /\ written = 0 /\ out = <<>> /\ edge = TRUE
  /\ calls = <<>> /\ in_buf = [i \in 1 .. BufSize |-> 0] /\ shown = <<>>
  /\ out_buf = <<>> /\ inp = <<>> /\ got = <<>> /\ sent = <<>>
  /\ clobbered = FALSE
-----------------------------------------------------------------------------
ChildWrites ==
  /\ written < MaxOut /\ Len(out) < KOut
  /\ written' = written + 1
  /\ out' = Append(out, written + 1)
  /\ edge' = (edge \/ "in" \in Events)
  /\ UNCHANGED <<calls, in_buf, shown, out_buf, inp, got, sent, clobbered>>

\* The kernel may report room at any read, and does so when there was none.
ChildReads ==
  /\ inp # <<>>
  /\ got' = Append(got, Head(inp))
  /\ inp' = Tail(inp)
  /\ \E room \in BOOLEAN :
       /\ Len(inp) = KIn => room
       /\ edge' = (edge \/ (room /\ "out" \in Events))
  /\ UNCHANGED <<written, out, calls, in_buf, shown, out_buf, sent, clobbered>>

\* shl_pty_write, which fails when the ring cannot grow.
Accept(byte) ==
  \/ out_buf' = Append(out_buf, byte) /\ sent' = Append(sent, byte)
  \/ UNCHANGED <<out_buf, sent>>

\* term_key_event: the bytes of the key are written and the pty dispatched.
KeyEvent ==
  /\ calls = <<>>
  /\ Len(SelectSeq(sent, LAMBDA b : b = Key)) < MaxKeys
  /\ Accept(Key)
  /\ calls' = <<Dispatching>>
  /\ UNCHANGED <<written, out, edge, in_buf, shown, inp, got, clobbered>>

\* shl_pty_bridge_dispatch takes the event.  When bytes were read it adds the
\* descriptor once more, which fails since it is there: that arms nothing.
BridgeDispatch ==
  /\ calls = <<>> /\ edge
  /\ edge' = FALSE
  /\ calls' = <<Dispatching>>
  /\ UNCHANGED <<written, out, in_buf, shown, out_buf, inp, got, sent, clobbered>>

\* The line discipline hands over what it has.
ReadLength == Shorter(BufSize, Len(out))

\* pty_read, once: num is 1.
Read ==
  LET n == ReadLength IN
  /\ calls # <<>> /\ Head(calls).pc = "read"
  /\ out' = SubSeq(out, n + 1, Len(out))
  /\ in_buf' = [i \in 1 .. BufSize |-> IF i <= n THEN out[i] ELSE in_buf[i]]
  /\ clobbered' = (clobbered \/ (n > 0 /\ \E j \in 2 .. Len(calls) : Unparsed(calls[j]) # <<>>))
  /\ calls' = <<[pc |-> IF n = 0 THEN "write" ELSE "parse", pos |-> 1, len |-> n]>>
              \o Tail(calls)
  /\ UNCHANGED <<written, edge, shown, out_buf, inp, got, sent>>

\* Wrong: one byte more is parsed than was read.
AdvancedPastEnd(call) ==
  [pc |-> IF call.pos > call.len THEN "write" ELSE "parse", pos |-> call.pos + 1,
   len |-> call.len]

\* The emulator has one byte more behind it.
Advanced(call) ==
  [pc |-> IF call.pos = call.len THEN "write" ELSE "parse", pos |-> call.pos + 1,
   len |-> call.len]

\* Wrong: an answer is left for the next dispatch and the reading call ends.
ParseReturns ==
  /\ calls # <<>> /\ Head(calls).pc = "parse"
  /\ LET byte == in_buf[Head(calls).pos] IN
       /\ shown' = Append(shown, byte)
       /\ IF byte \in Asks
          THEN Accept(byte) /\ calls' = <<[Head(calls) EXCEPT !.pc = "write"]>> \o Tail(calls)
          ELSE UNCHANGED <<out_buf, sent>> /\ calls' = <<Advanced(Head(calls))>> \o Tail(calls)
  /\ UNCHANGED <<written, out, edge, in_buf, inp, got, clobbered>>

\* tsm_vte_input on one byte.  term_write_cb sends the answer and dispatches
\* the pty, within the parsing of the buffer.
Parse ==
  /\ calls # <<>> /\ Head(calls).pc = "parse"
  /\ LET byte == in_buf[Head(calls).pos]
         rest == <<Advanced(Head(calls))>> \o Tail(calls)
     IN  /\ shown' = Append(shown, byte)
         /\ \/ byte \in Asks /\ Accept(byte) /\ calls' = <<Dispatching>> \o rest
            \/ byte \notin Asks /\ UNCHANGED <<out_buf, sent>> /\ calls' = rest
  /\ UNCHANGED <<written, out, edge, in_buf, inp, got, clobbered>>

\* Wrong: all that was offered to the kernel leaves the ring.
PoppedAll(taken) == <<>>

\* ring_pop of what writev took.
Popped(taken) == SubSeq(out_buf, taken + 1, Len(out_buf))

\* pty_write: the kernel takes what it has room for, and the call returns.
Write ==
  LET taken == Shorter(Len(out_buf), KIn - Len(inp)) IN
  /\ calls # <<>> /\ Head(calls).pc = "write"
  /\ inp' = inp \o SubSeq(out_buf, 1, taken)
  /\ out_buf' = Popped(taken)
  /\ calls' = Tail(calls)
  /\ UNCHANGED <<written, out, edge, in_buf, shown, got, sent, clobbered>>

Frecon == BridgeDispatch \/ Read \/ Parse \/ Write

Next == ChildWrites \/ ChildReads \/ KeyEvent \/ Frecon

\* The event loop comes back to a readable bridge; a child reads its input.
Spec == Init /\ [][Next]_vars
LiveSpec == Spec /\ WF_vars(Frecon) /\ WF_vars(ChildReads)
-----------------------------------------------------------------------------
\* A dispatch that begins within another was caused by the byte just shown, which
\* asked.
NestedByAsk ==
  Len(calls) > 1 /\ Head(calls).pc = "read" =>
    shown # <<>> /\ shown[Len(shown)] \in Asks

\* A dispatch nests only where a byte asked for an answer, all but the innermost
\* one are past their read, and positions stay in the buffer (pty_read,
\* term_write_cb).
TypeOK ==
  /\ written \in 0 .. MaxOut /\ edge \in BOOLEAN /\ clobbered \in BOOLEAN
  /\ out \in Seq(1 .. MaxOut) /\ Len(out) <= KOut
  /\ in_buf \in [1 .. BufSize -> 0 .. MaxOut]
  /\ shown \in Seq(1 .. MaxOut)
  /\ out_buf \in Seq(0 .. MaxOut) /\ inp \in Seq(0 .. MaxOut) /\ Len(inp) <= KIn
  /\ got \in Seq(0 .. MaxOut) /\ sent \in Seq(0 .. MaxOut)
  /\ \A j \in 1 .. Len(calls) :
       /\ calls[j].pc \in {"read", "parse", "write"}
       /\ calls[j].pc = "parse" => calls[j].pos \in 1 .. calls[j].len
       /\ calls[j].len \in 0 .. BufSize
       /\ calls[j].pc = "read" => j = 1
  /\ NestedByAsk

\* Keys and answers reach the child in the order they were accepted, each
\* once, whatever dispatches nest and however little the kernel takes
\* (shl_pty_write, pty_write).
InputInOrder == sent = got \o inp \o out_buf

\* The dispatches with bytes before them.
Waiting == {j \in 1 .. Len(calls) : Unparsed(calls[j]) # <<>>}

WaitingBytes == IF Waiting = {} THEN <<>> ELSE Unparsed(calls[CHOOSE j \in Waiting : TRUE])

\* The one way to lose output is the buffer filled under the emulator's feet:
\* as long as that has not happened one dispatch at most has bytes to parse,
\* and every byte written is shown, waits before that dispatch or waits in the
\* kernel, in order and once (pty_read, term_read_cb).
FaithfulUnlessClobbered ==
  \/ clobbered
  \/ /\ \A j, k \in Waiting : j = k
     /\ shown \o WaitingBytes \o out = [i \in 1 .. written |-> i]

\* Nothing is left lying: what a child has written is parsed and what was
\* accepted for it arrives, although the descriptor is edge-triggered, one
\* dispatch reads once and writes once and re-arming it has no effect
\* (pty_read, pty_write, shl_pty_bridge_add, shl_pty_bridge_dispatch).
BothWaysFlow ==
  /\ \A k \in 1 .. MaxOut : written >= k ~> Len(shown) >= k
  /\ \A k \in 1 .. MaxOut + MaxKeys : Len(sent) >= k ~> Len(got) >= k

\* "/run/frecon/current [...] can be used [...] to write text to currently
\* active terminal" (README.md:159): when nothing is on the way any more, each
\* byte that was written has been shown once, be it out of order.  A dispatch
\* nested in the parsing of the buffer overwrites bytes that are still to be
\* parsed: those are lost, and the ones over them shown twice.
ShownAsWritten ==
  calls = <<>> /\ out = <<>> =>
    \A byte \in 1 .. written :
      \E i \in 1 .. Len(shown) : \A j \in 1 .. Len(shown) : shown[j] = byte <=> j = i
=============================================================================
