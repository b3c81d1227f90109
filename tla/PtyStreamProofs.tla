--------------------------- MODULE PtyStreamProofs ---------------------------
(***************************************************************************)
(* Three facts about the traffic of a terminal, for every size of the      *)
(* buffers and however deeply dispatches nest: no position leaves in_buf   *)
(* or reaches a byte that was never read; input is neither lost, repeated  *)
(* nor reordered on its way to the child; and output is shown as it was    *)
(* written unless a nested read filled the buffer under it.                *)
(***************************************************************************)
EXTENDS PtyStream, SequenceTheorems, TLAPS

\* The bytes of both directions; 0 is a key, and what in_buf holds at first.
Input == 0 .. MaxOut
Output == 1 .. MaxOut

Call == [pc : {"read", "parse", "write"}, pos : Nat, len : 0 .. BufSize]

\* What is behind a dispatch's length was filled by a read, and reading
\* elsewhere does not empty it.
Filled == \A j \in 1 .. Len(calls) : \A k \in 1 .. calls[j].len : in_buf[k] # 0

\* A dispatch that is not the innermost one.
LEMMA InnerCalls ==
  ASSUME calls \in Seq(Call), calls # <<>>
  PROVE  /\ Head(calls) = calls[1] /\ calls[1] \in Call
         /\ Len(calls) \in Nat /\ Len(calls) >= 1
         /\ Tail(calls) \in Seq(Call)
         /\ Len(Tail(calls)) = Len(calls) - 1
         /\ \A j \in 1 .. Len(calls) - 1 : Tail(calls)[j] = calls[j + 1]
BY HeadTailProperties

\* A dispatch put in front of others.
LEMMA InFront ==
  ASSUME NEW call \in Call, NEW rest \in Seq(Call)
  PROVE  /\ <<call>> \o rest \in Seq(Call)
         /\ Len(<<call>> \o rest) = Len(rest) + 1
         /\ (<<call>> \o rest)[1] = call
         /\ \A j \in 2 .. Len(rest) + 1 : (<<call>> \o rest)[j] = rest[j - 1]
<1>1. <<call>> \in Seq(Call) /\ Len(<<call>>) = 1 /\ <<call>>[1] = call
  OBVIOUS
<1> QED
  BY <1>1, ConcatProperties

\* What term_write_cb and term_key_event add is a byte (shl_pty_write).
LEMMA AcceptType ==
  ASSUME NEW byte \in Input, Accept(byte),
         out_buf \in Seq(Input), sent \in Seq(Input)
  PROVE  out_buf' \in Seq(Input) /\ sent' \in Seq(Input)
<1>1. Append(out_buf, byte) \in Seq(Input)
  BY AppendProperties
<1>2. Append(sent, byte) \in Seq(Input)
  BY AppendProperties
<1> QED
  BY <1>1, <1>2 DEF Accept

\* The part of IInv about the dispatches.
CallsOK ==
  /\ calls \in Seq(Call)
  /\ \A j \in 1 .. Len(calls) :
       /\ calls[j].pc = "parse" => calls[j].pos \in 1 .. calls[j].len
       /\ calls[j].pc = "read" => j = 1
  /\ Filled

\* The part about everything else.
DataOK ==
  /\ written \in 0 .. MaxOut /\ edge \in BOOLEAN /\ clobbered \in BOOLEAN
  /\ out \in Seq(Output) /\ Len(out) <= KOut
  /\ in_buf \in [1 .. BufSize -> 0 .. MaxOut]
  /\ shown \in Seq(Output)
  /\ out_buf \in Seq(Input) /\ inp \in Seq(Input) /\ Len(inp) <= KIn
  /\ got \in Seq(Input) /\ sent \in Seq(Input)

IInv == DataOK /\ CallsOK

\* With NestedByAsk it is the type invariant, and more.
LEMMA IInvTypes == IInv /\ NestedByAsk => TypeOK
<1> SUFFICES ASSUME IInv, NestedByAsk PROVE TypeOK
  OBVIOUS
<1>1. ASSUME NEW j \in 1 .. Len(calls)
      PROVE  /\ calls[j].pc \in {"read", "parse", "write"}
             /\ calls[j].pc = "parse" => calls[j].pos \in 1 .. calls[j].len
             /\ calls[j].len \in 0 .. BufSize
             /\ calls[j].pc = "read" => j = 1
  <2>1. calls[j] \in Call
    BY ElementOfSeq DEF IInv, CallsOK
  <2> QED
    BY <2>1 DEF Call, IInv, CallsOK
<1> QED
  BY <1>1 DEF IInv, DataOK, TypeOK, Input, Output

LEMMA Constants ==
  /\ BufSize \in Nat /\ KOut \in Nat \ {0} /\ KIn \in Nat \ {0} /\ MaxOut \in Nat
  /\ Dispatching \in Call
BY SizeAssumption, BoundsAssumption DEF Dispatching, Call

\* A dispatch in the middle of the buffer, one byte further.
LEMMA AdvancedOK ==
  ASSUME NEW call \in Call, call.pos \in 1 .. call.len
  PROVE  /\ Advanced(call) \in Call
         /\ Advanced(call).len = call.len
         /\ Advanced(call).pc # "read"
         /\ Advanced(call).pc = "parse" => Advanced(call).pos \in 1 .. call.len
BY Constants DEF Advanced, Call

\* Putting a dispatch in the place of the innermost one.
LEMMA ReplaceFirst ==
  ASSUME CallsOK, calls # <<>>, NEW call \in Call,
         call.pc = "parse" => call.pos \in 1 .. call.len,
         \A k \in 1 .. call.len : in_buf'[k] # 0,
         \A j \in 1 .. Len(calls) : \A k \in 1 .. calls[j].len : in_buf'[k] # 0,
         calls' = <<call>> \o Tail(calls)
  PROVE  CallsOK'
<1>0. calls \in Seq(Call)
  BY DEF CallsOK
<1>1. /\ calls' \in Seq(Call) /\ Len(calls') = Len(calls)
      /\ calls'[1] = call
      /\ \A j \in 2 .. Len(calls) : calls'[j] = calls[j]
  BY <1>0, InnerCalls, InFront
<1>2. \A j \in 1 .. Len(calls') : j = 1 \/ j \in 2 .. Len(calls)
  BY <1>0, <1>1
<1>3. ASSUME NEW j \in 1 .. Len(calls')
      PROVE  /\ calls'[j].pc = "parse" => calls'[j].pos \in 1 .. calls'[j].len
             /\ calls'[j].pc = "read" => j = 1
             /\ \A k \in 1 .. calls'[j].len : in_buf'[k] # 0
  <2>1. CASE j = 1
    BY <2>1, <1>1
  <2>2. CASE j \in 2 .. Len(calls)
    BY <2>2, <1>1 DEF CallsOK
  <2> QED
    BY <1>2, <2>1, <2>2
<1> QED
  BY <1>1, <1>3 DEF CallsOK, Filled

\* A dispatch that begins while others are under way, none of which reads.
LEMMA Nest ==
  ASSUME CallsOK, UNCHANGED in_buf, NEW rest \in Seq(Call), Len(rest) = Len(calls),
         \A j \in 1 .. Len(rest) :
            /\ rest[j].pc # "read" /\ rest[j].len = calls[j].len
            /\ rest[j].pc = "parse" => rest[j].pos \in 1 .. rest[j].len,
         calls' = <<Dispatching>> \o rest
  PROVE  CallsOK'
<1>1. /\ calls' \in Seq(Call) /\ Len(calls') = Len(rest) + 1
      /\ calls'[1] = Dispatching
      /\ \A j \in 2 .. Len(rest) + 1 : calls'[j] = rest[j - 1]
  BY Constants, InFront
<1>2. ASSUME NEW j \in 1 .. Len(calls')
      PROVE  /\ calls'[j].pc = "parse" => calls'[j].pos \in 1 .. calls'[j].len
             /\ calls'[j].pc = "read" => j = 1
             /\ \A k \in 1 .. calls'[j].len : in_buf'[k] # 0
  <2>0. Len(rest) \in Nat
    OBVIOUS
  <2>1. CASE j = 1
    BY <2>1, <1>1 DEF Dispatching
  <2>2. CASE j # 1
    <3>1. j \in 2 .. Len(rest) + 1 /\ j - 1 \in 1 .. Len(rest)
      BY <2>0, <2>2, <1>1
    <3>2. calls'[j] = rest[j - 1]
      BY <3>1, <1>1
    <3>3. \A k \in 1 .. rest[j - 1].len : in_buf[k] # 0
      BY <3>1 DEF CallsOK, Filled
    <3> QED
      BY <3>1, <3>2, <3>3
  <2> QED
    BY <2>1, <2>2
<1> QED
  BY <1>1, <1>2 DEF CallsOK, Filled

LEMMA InitType == Init => IInv
<1> SUFFICES ASSUME Init PROVE IInv
  OBVIOUS
<1>1. DataOK
  <2>1. /\ out \in Seq(Output) /\ shown \in Seq(Output)
        /\ out_buf \in Seq(Input) /\ inp \in Seq(Input)
        /\ got \in Seq(Input) /\ sent \in Seq(Input)
    BY DEF Init
  <2>2. in_buf \in [1 .. BufSize -> 0 .. MaxOut]
    BY Constants DEF Init
  <2>3. Len(out) <= KOut /\ Len(inp) <= KIn
    BY Constants DEF Init
  <2>4. written \in 0 .. MaxOut /\ edge \in BOOLEAN /\ clobbered \in BOOLEAN
    <3>1. written = 0 /\ edge = TRUE /\ clobbered = FALSE
      BY Zenon DEF Init
    <3>2. 0 \in 0 .. MaxOut
      BY Constants
    <3> QED
      BY <3>1, <3>2, Zenon
  <2> QED
    BY <2>1, <2>2, <2>3, <2>4 DEF DataOK
<1>2. CallsOK
  BY DEF Init, CallsOK, Filled
<1> QED
  BY <1>1, <1>2 DEF IInv

\* A read fills the buffer from its start (pty_read).
LEMMA ReadType == IInv /\ Read => IInv'
<1> SUFFICES ASSUME IInv, Read PROVE IInv'
  OBVIOUS
<1> DEFINE n == ReadLength
           call == [pc |-> IF n = 0 THEN "write" ELSE "parse", pos |-> 1, len |-> n]
<1>0. DataOK /\ CallsOK
  BY DEF IInv
<1>1. n \in 0 .. BufSize /\ n <= Len(out) /\ Len(out) \in Nat
  <2>1. out \in Seq(Output)
    BY <1>0 DEF DataOK
  <2> QED
    BY <2>1, Constants DEF ReadLength, Shorter
<1>2. \A i \in 1 .. n : out[i] \in Output
  BY <1>0, <1>1, ElementOfSeq DEF DataOK
<1>3. \A i \in 1 .. BufSize : in_buf'[i] = IF i <= n THEN out[i] ELSE in_buf[i]
  BY DEF Read
<1>4. in_buf' \in [1 .. BufSize -> 0 .. MaxOut]
  <2>1. in_buf' = [i \in 1 .. BufSize |-> IF i <= n THEN out[i] ELSE in_buf[i]]
    BY DEF Read
  <2>2. \A i \in 1 .. BufSize : (IF i <= n THEN out[i] ELSE in_buf[i]) \in 0 .. MaxOut
    <3> HIDE DEF n
    <3> TAKE i \in 1 .. BufSize
    <3>1. CASE i <= n
      BY <1>1, <1>2, <3>1 DEF Output
    <3>2. CASE ~(i <= n)
      BY <1>0, <3>2 DEF DataOK
    <3> QED
      BY <3>1, <3>2
  <2> QED
    BY <2>1, <2>2
<1>5. out' \in Seq(Output) /\ Len(out') <= KOut
  <2>1. out' = SubSeq(out, n + 1, Len(out)) /\ out \in Seq(Output) /\ Len(out) <= KOut
    BY <1>0 DEF Read, DataOK
  <2> HIDE DEF n
  <2>2. /\ SubSeq(out, n + 1, Len(out)) \in Seq(Output)
        /\ Len(SubSeq(out, n + 1, Len(out))) = IF n + 1 <= Len(out) THEN Len(out) - n ELSE 0
    BY <1>1, <2>1, SubSeqProperties
  <2> QED
    BY <1>1, <2>1, <2>2, Constants
<1>6. DataOK'
  BY <1>0, <1>4, <1>5 DEF DataOK, Read
<1>7. call \in Call
  BY <1>1 DEF Call
<1>8. \A j \in 1 .. Len(calls) : \A k \in 1 .. calls[j].len : in_buf'[k] # 0
  <2> SUFFICES ASSUME NEW j \in 1 .. Len(calls), NEW k \in 1 .. calls[j].len
               PROVE  in_buf'[k] # 0
    OBVIOUS
  <2>1. calls[j].len \in 0 .. BufSize
    <3>1. calls[j] \in Call
      BY <1>0, ElementOfSeq DEF CallsOK
    <3> QED
      BY <3>1 DEF Call
  <2>2. in_buf[k] # 0
    BY <1>0 DEF CallsOK, Filled
  <2>3. k \in 1 .. BufSize
    BY <2>1, Constants
  <2> QED
    BY <1>2, <1>3, <2>2, <2>3 DEF Output
<1>9. \A k \in 1 .. call.len : in_buf'[k] # 0
  BY <1>1, <1>2, <1>3, Constants DEF Output
<1>10. calls # <<>> /\ calls' = <<call>> \o Tail(calls)
  BY DEF Read
<1>11. call.pc = "parse" => call.pos \in 1 .. call.len
  BY <1>1
<1>12. CallsOK'
  <2> HIDE DEF call
  <2> QED
    BY <1>0, <1>7, <1>8, <1>9, <1>10, <1>11, ReplaceFirst
<1> QED
  BY <1>6, <1>12 DEF IInv

\* A byte of the buffer that was read is parsed, and an answer nests a dispatch
\* (term_read_cb, term_write_cb).
LEMMA ParseType == IInv /\ Parse => IInv'
<1> SUFFICES ASSUME IInv, Parse PROVE IInv'
  OBVIOUS
<1> DEFINE c == Head(calls)
           byte == in_buf[c.pos]
           rest == <<Advanced(c)>> \o Tail(calls)
<1>0. DataOK /\ CallsOK
  BY DEF IInv
<1>1. calls # <<>> /\ c.pc = "parse"
  BY DEF Parse
<1>2. c = calls[1] /\ c \in Call /\ 1 \in 1 .. Len(calls)
  BY <1>0, <1>1, InnerCalls DEF CallsOK
<1>3. c.pos \in 1 .. c.len /\ c.len \in 0 .. BufSize
  BY <1>0, <1>1, <1>2 DEF CallsOK, Call
<1>4. byte \in Output
  <2>1. byte # 0
    BY <1>0, <1>2, <1>3 DEF CallsOK, Filled
  <2>2. c.pos \in 1 .. BufSize
    BY <1>3, Constants
  <2>3. byte \in Input
    BY <1>0, <2>2 DEF DataOK, Input
  <2> QED
    BY <2>1, <2>3, Constants DEF Input, Output
<1>5. shown' \in Seq(Output)
  BY <1>0, <1>4, AppendProperties DEF Parse, DataOK
<1>6. out_buf' \in Seq(Input) /\ sent' \in Seq(Input)
  <2>1. Accept(byte) \/ UNCHANGED <<out_buf, sent>>
    BY DEF Parse
  <2>2. byte \in Input
    BY <1>4, Constants DEF Input, Output
  <2> QED
    BY <1>0, <2>1, <2>2, AcceptType DEF DataOK
<1>7. DataOK'
  BY <1>0, <1>5, <1>6 DEF DataOK, Parse
<1>8. /\ Advanced(c) \in Call /\ Advanced(c).len = c.len /\ Advanced(c).pc # "read"
      /\ Advanced(c).pc = "parse" => Advanced(c).pos \in 1 .. c.len
  BY <1>2, <1>3, AdvancedOK
<1>9. CASE calls' = rest
  <2>1. /\ \A k \in 1 .. Advanced(c).len : in_buf'[k] # 0
        /\ \A j \in 1 .. Len(calls) : \A k \in 1 .. calls[j].len : in_buf'[k] # 0
    BY <1>0, <1>2, <1>8 DEF CallsOK, Filled, Parse
  <2>2. Advanced(c).pc = "parse" => Advanced(c).pos \in 1 .. Advanced(c).len
    BY <1>8
  <2>3. CallsOK'
    BY <1>0, <1>1, <1>8, <1>9, <2>1, <2>2, ReplaceFirst
  <2> QED
    BY <1>7, <2>3 DEF IInv
<1>10. CASE calls' = <<Dispatching>> \o rest
  <2>1. /\ Tail(calls) \in Seq(Call) /\ Len(Tail(calls)) = Len(calls) - 1
        /\ Len(calls) \in Nat
        /\ \A j \in 1 .. Len(calls) - 1 : Tail(calls)[j] = calls[j + 1]
    BY <1>0, <1>1, InnerCalls DEF CallsOK
  <2>2. /\ rest \in Seq(Call) /\ Len(rest) = Len(calls)
        /\ rest[1] = Advanced(c)
        /\ \A j \in 2 .. Len(calls) : rest[j] = calls[j]
    BY <1>8, <2>1, InFront
  <2>3. ASSUME NEW j \in 1 .. Len(rest)
        PROVE  /\ rest[j].pc # "read" /\ rest[j].len = calls[j].len
               /\ rest[j].pc = "parse" => rest[j].pos \in 1 .. rest[j].len
    <3>1. CASE j = 1
      BY <3>1, <1>2, <1>8, <2>2
    <3>2. CASE j # 1
      <4>1. j \in 2 .. Len(calls) /\ j \in 1 .. Len(calls)
        BY <2>1, <2>2, <3>2
      <4>2. calls[j] \in Call
        BY <1>0, <4>1, ElementOfSeq DEF CallsOK
      <4> QED
        BY <1>0, <2>2, <4>1, <4>2, <3>2 DEF CallsOK
    <3> QED
      BY <3>1, <3>2
  <2>4. UNCHANGED in_buf
    BY DEF Parse
  <2>5. CallsOK'
    <3> HIDE DEF rest
    <3> QED
      BY <1>0, <1>10, <2>2, <2>3, <2>4, Nest
  <2> QED
    BY <1>7, <2>5 DEF IInv
<1> QED
  BY <1>9, <1>10 DEF Parse

\* What the kernel takes leaves the ring, and the dispatch ends (pty_write).
LEMMA WriteParts ==
  ASSUME DataOK, Write
  PROVE  \E taken \in Nat :
           /\ taken <= Len(out_buf) /\ taken <= KIn - Len(inp)
           /\ SubSeq(out_buf, 1, taken) \in Seq(Input)
           /\ Len(SubSeq(out_buf, 1, taken)) = taken
           /\ inp' = inp \o SubSeq(out_buf, 1, taken)
           /\ out_buf' = SubSeq(out_buf, taken + 1, Len(out_buf))
           /\ out_buf' \in Seq(Input)
<1> DEFINE taken == Shorter(Len(out_buf), KIn - Len(inp))
<1>0. /\ out_buf \in Seq(Input) /\ inp \in Seq(Input)
      /\ Len(out_buf) \in Nat /\ Len(inp) \in Nat /\ Len(inp) <= KIn
  BY DEF DataOK
<1>1. taken \in Nat /\ taken <= Len(out_buf) /\ taken <= KIn - Len(inp)
  BY <1>0, Constants DEF Shorter
<1>2. inp' = inp \o SubSeq(out_buf, 1, taken) /\ out_buf' = SubSeq(out_buf, taken + 1, Len(out_buf))
  BY DEF Write, Popped
<1> HIDE DEF taken
<1>e. \A i \in 1 .. Len(out_buf) : out_buf[i] \in Input
  BY <1>0, ElementOfSeq
<1>3. SubSeq(out_buf, 1, taken) \in Seq(Input) /\ Len(SubSeq(out_buf, 1, taken)) = taken
  BY <1>0, <1>1, <1>e, SubSeqProperties
<1>4. SubSeq(out_buf, taken + 1, Len(out_buf)) \in Seq(Input)
  BY <1>0, <1>1, <1>e, SubSeqProperties
<1> QED
  BY <1>1, <1>2, <1>3, <1>4

LEMMA WriteType == IInv /\ Write => IInv'
<1> SUFFICES ASSUME IInv, Write PROVE IInv'
  OBVIOUS
<1>0. DataOK /\ CallsOK
  BY DEF IInv
<1>1. PICK taken \in Nat :
           /\ taken <= Len(out_buf) /\ taken <= KIn - Len(inp)
           /\ SubSeq(out_buf, 1, taken) \in Seq(Input)
           /\ Len(SubSeq(out_buf, 1, taken)) = taken
           /\ inp' = inp \o SubSeq(out_buf, 1, taken)
           /\ out_buf' \in Seq(Input)
  BY <1>0, WriteParts
<1>2. inp' \in Seq(Input) /\ Len(inp') <= KIn
  <2>1. inp \in Seq(Input) /\ Len(inp) \in Nat
    BY <1>0 DEF DataOK
  <2>2. inp' \in Seq(Input) /\ Len(inp') = Len(inp) + taken
    BY <1>1, <2>1, ConcatProperties
  <2> QED
    BY <1>1, <2>1, <2>2, Constants
<1>3. DataOK'
  BY <1>0, <1>1, <1>2 DEF DataOK, Write
<1>4. /\ calls' = Tail(calls) /\ calls # <<>>
      /\ calls' \in Seq(Call) /\ Len(calls') = Len(calls) - 1 /\ Len(calls) \in Nat
      /\ \A j \in 1 .. Len(calls) - 1 : calls'[j] = calls[j + 1]
  BY <1>0, InnerCalls DEF Write, CallsOK
<1>5. ASSUME NEW j \in 1 .. Len(calls')
      PROVE  /\ calls'[j].pc = "parse" => calls'[j].pos \in 1 .. calls'[j].len
             /\ calls'[j].pc = "read" => j = 1
             /\ \A k \in 1 .. calls'[j].len : in_buf'[k] # 0
  <2>1. calls'[j] = calls[j + 1] /\ j + 1 \in 1 .. Len(calls) /\ j + 1 # 1
    BY <1>4
  <2> QED
    BY <1>0, <2>1 DEF CallsOK, Filled, Write
<1>6. CallsOK'
  BY <1>4, <1>5 DEF CallsOK, Filled
<1> QED
  BY <1>3, <1>6 DEF IInv

\* A key or an event of the bridge begins the only dispatch.
LEMMA StartsDispatch ==
  ASSUME CallsOK, calls = <<>>, calls' = <<Dispatching>>, UNCHANGED in_buf
  PROVE  CallsOK'
<1>1. calls' \in Seq(Call) /\ Len(calls') = 1 /\ calls'[1] = Dispatching
  BY Constants
<1>2. \A j \in 1 .. Len(calls') : j = 1
  BY <1>1
<1> QED
  BY <1>1, <1>2 DEF CallsOK, Filled, Dispatching

LEMMA NextType == IInv /\ [Next]_vars => IInv'
<1> SUFFICES ASSUME IInv, [Next]_vars PROVE IInv'
  OBVIOUS
<1>0. DataOK /\ CallsOK
  BY DEF IInv
<1>1. CASE ChildWrites
  <2>1. out' \in Seq(Output) /\ Len(out') <= KOut
    <3>1. out \in Seq(Output) /\ written + 1 \in Output /\ Len(out) < KOut
      BY <1>0, <1>1, Constants DEF DataOK, ChildWrites, Output
    <3>2. out' \in Seq(Output) /\ Len(out') = Len(out) + 1
      BY <1>1, <3>1, AppendProperties DEF ChildWrites
    <3> QED
      BY <3>1, <3>2, Constants
  <2>2. DataOK'
    BY <1>0, <1>1, <2>1, Constants DEF DataOK, ChildWrites
  <2>3. CallsOK'
    BY <1>0, <1>1 DEF CallsOK, Filled, ChildWrites
  <2> QED
    BY <2>2, <2>3 DEF IInv
<1>2. CASE ChildReads
  <2>1. /\ inp' \in Seq(Input) /\ Len(inp') <= KIn
        /\ got' \in Seq(Input)
    <3>1. inp \in Seq(Input) /\ inp # <<>> /\ Len(inp) <= KIn /\ got \in Seq(Input)
      BY <1>0, <1>2 DEF DataOK, ChildReads
    <3>2. /\ Head(inp) \in Input /\ Tail(inp) \in Seq(Input)
          /\ Len(Tail(inp)) = Len(inp) - 1 /\ Len(inp) \in Nat
      BY <3>1, HeadTailProperties
    <3>3. got' = Append(got, Head(inp)) /\ inp' = Tail(inp)
      BY <1>2 DEF ChildReads
    <3> QED
      BY <3>1, <3>2, <3>3, AppendProperties, Constants
  <2>2. DataOK'
    BY <1>0, <1>2, <2>1 DEF DataOK, ChildReads
  <2>3. CallsOK'
    BY <1>0, <1>2 DEF CallsOK, Filled, ChildReads
  <2> QED
    BY <2>2, <2>3 DEF IInv
<1>3. CASE KeyEvent
  <2>1. out_buf' \in Seq(Input) /\ sent' \in Seq(Input)
    <3>1. Key \in Input /\ Accept(Key)
      BY <1>3, Constants DEF Key, KeyEvent, Input
    <3> QED
      BY <1>0, <3>1, AcceptType DEF DataOK
  <2>2. DataOK'
    BY <1>0, <1>3, <2>1 DEF DataOK, KeyEvent
  <2>3. CallsOK'
    BY <1>0, <1>3, StartsDispatch DEF KeyEvent
  <2> QED
    BY <2>2, <2>3 DEF IInv
<1>4. CASE BridgeDispatch
  <2>1. DataOK'
    BY <1>0, <1>4 DEF DataOK, BridgeDispatch
  <2>2. CallsOK'
    BY <1>0, <1>4, StartsDispatch DEF BridgeDispatch
  <2> QED
    BY <2>1, <2>2 DEF IInv
<1>5. CASE UNCHANGED vars
  BY <1>5 DEF IInv, DataOK, CallsOK, Filled, vars
<1> QED
  BY <1>1, <1>2, <1>3, <1>4, <1>5, ReadType, ParseType, WriteType DEF Next, Frecon

\* Only a byte that asked puts a dispatch that is to read before others; the
\* others are past their read, so no end of a dispatch uncovers one.
LEMMA NextNested == IInv /\ NestedByAsk /\ [Next]_vars => NestedByAsk'
<1> SUFFICES ASSUME IInv, NestedByAsk, [Next]_vars PROVE NestedByAsk'
  OBVIOUS
<1>0. DataOK /\ CallsOK
  BY DEF IInv
<1>1. CASE UNCHANGED <<calls, shown>>
  BY <1>1 DEF NestedByAsk
<1>2. CASE calls' = <<Dispatching>>
  BY <1>2 DEF NestedByAsk
<1>3. ASSUME calls # <<>>, NEW call \in Call, call.pc # "read",
             calls' = <<call>> \o Tail(calls)
      PROVE  NestedByAsk'
  <2>1. calls' \in Seq(Call) /\ calls'[1] = call
    BY <1>0, <1>3, InnerCalls, InFront DEF CallsOK
  <2> QED
    BY <1>3, <2>1 DEF NestedByAsk
<1>4. CASE Read
  <2> DEFINE n == ReadLength
             call == [pc |-> IF n = 0 THEN "write" ELSE "parse", pos |-> 1, len |-> n]
  <2>1. n \in 0 .. BufSize
    <3>1. Len(out) \in Nat
      BY <1>0 DEF DataOK
    <3> QED
      BY <3>1, Constants DEF ReadLength, Shorter
  <2>2. call \in Call /\ call.pc # "read"
    BY <2>1 DEF Call
  <2>3. calls # <<>> /\ calls' = <<call>> \o Tail(calls)
    BY <1>4 DEF Read
  <2> HIDE DEF call
  <2> QED
    BY <1>3, <2>2, <2>3
<1>5. CASE Parse
  <2> DEFINE c == Head(calls)
             byte == in_buf[c.pos]
             rest == <<Advanced(c)>> \o Tail(calls)
  <2>1. calls # <<>> /\ c.pc = "parse" /\ shown' = Append(shown, byte)
    BY <1>5 DEF Parse
  <2>2. c \in Call /\ c.pos \in 1 .. c.len
    <3>1. c = calls[1] /\ c \in Call /\ 1 \in 1 .. Len(calls)
      BY <1>0, <2>1, InnerCalls DEF CallsOK
    <3> QED
      BY <1>0, <2>1, <3>1 DEF CallsOK
  <2>3. Advanced(c) \in Call /\ Advanced(c).pc # "read"
    BY <2>2, AdvancedOK
  <2>4. CASE calls' = rest
    <3> HIDE DEF c
    <3> QED
      BY <1>3, <2>1, <2>3, <2>4
  <2>5. CASE byte \in Asks
    <3>1. shown' # <<>> /\ shown'[Len(shown')] = byte
      <4>1. shown \in Seq(Output)
        BY <1>0 DEF DataOK
      <4>2. byte \in Output
        BY <2>5, BoundsAssumption DEF Output
      <4> HIDE DEF byte
      <4> QED
        BY <2>1, <4>1, <4>2, AppendProperties
    <3> QED
      BY <2>5, <3>1 DEF NestedByAsk
  <2> QED
    BY <1>5, <2>4, <2>5 DEF Parse
<1>6. CASE Write
  <2>1. /\ calls \in Seq(Call) /\ calls # <<>> /\ calls' = Tail(calls)
        /\ Len(calls') = Len(calls) - 1 /\ Len(calls) \in Nat
        /\ \A j \in 1 .. Len(calls) - 1 : calls'[j] = calls[j + 1]
    BY <1>0, <1>6, InnerCalls DEF Write, CallsOK
  <2>2. ASSUME Len(calls') > 1 PROVE Head(calls').pc # "read"
    <3>1. Head(calls') = calls[2] /\ 2 \in 1 .. Len(calls)
      BY <2>1, <2>2
    <3> QED
      BY <1>0, <3>1 DEF CallsOK
  <2> QED
    BY <2>2 DEF NestedByAsk
<1> QED
  BY <1>1, <1>2, <1>4, <1>5, <1>6
  DEF Next, Frecon, ChildWrites, ChildReads, KeyEvent, BridgeDispatch, vars

\* Positions stay in in_buf, the emulator sees only bytes that were read, and
\* dispatches nest only where a byte asked for an answer (pty_read,
\* term_write_cb), for every size of the buffers.
THEOREM StreamTypeCorrect == Spec => []TypeOK
<1>1. Init => IInv
  BY InitType
<1>2. IInv /\ [Next]_vars => IInv'
  BY NextType
<1>3. Init => NestedByAsk
  BY DEF Init, NestedByAsk
<1>4. IInv /\ NestedByAsk /\ [Next]_vars => NestedByAsk'
  BY NextNested
<1>5. IInv /\ NestedByAsk => TypeOK
  BY IInvTypes
<1> QED
  BY <1>1, <1>2, <1>3, <1>4, <1>5, PTL DEF Spec
-----------------------------------------------------------------------------
(* Input in order.                                                         *)

\* A byte accepted waits behind the others.
LEMMA AcceptedInOrder ==
  ASSUME NEW byte \in Input, Accept(byte), UNCHANGED <<got, inp>>, DataOK,
         InputInOrder
  PROVE  InputInOrder'
<1>0. /\ got \in Seq(Input) /\ inp \in Seq(Input) /\ out_buf \in Seq(Input)
      /\ got \o inp \in Seq(Input) /\ (got \o inp) \o out_buf \in Seq(Input)
      /\ <<byte>> \in Seq(Input)
  BY ConcatProperties DEF DataOK
<1>1. CASE out_buf' = Append(out_buf, byte) /\ sent' = Append(sent, byte)
  <2>1. Append(out_buf, byte) = out_buf \o <<byte>>
    BY <1>0, AppendIsConcat
  <2>2. Append((got \o inp) \o out_buf, byte) = ((got \o inp) \o out_buf) \o <<byte>>
    BY <1>0, AppendIsConcat
  <2>3. ((got \o inp) \o out_buf) \o <<byte>> = (got \o inp) \o (out_buf \o <<byte>>)
    BY <1>0, ConcatAssociative
  <2> QED
    BY <1>1, <2>1, <2>2, <2>3 DEF InputInOrder
<1>2. CASE UNCHANGED <<out_buf, sent>>
  BY <1>2 DEF InputInOrder
<1> QED
  BY <1>1, <1>2 DEF Accept

\* The child takes the front of what is in the kernel.
LEMMA ReadInOrder ==
  ASSUME ChildReads, DataOK, InputInOrder
  PROVE  InputInOrder'
<1>0. /\ got \in Seq(Input) /\ inp \in Seq(Input) /\ out_buf \in Seq(Input)
      /\ inp # <<>>
  BY DEF DataOK, ChildReads
<1>1. /\ Head(inp) \in Input /\ Tail(inp) \in Seq(Input)
      /\ <<Head(inp)>> \in Seq(Input)
      /\ inp = <<Head(inp)>> \o Tail(inp)
  BY <1>0, HeadTailProperties
<1>2. Append(got, Head(inp)) = got \o <<Head(inp)>>
  BY <1>0, <1>1, AppendIsConcat
<1>3. (got \o <<Head(inp)>>) \o Tail(inp) = got \o (<<Head(inp)>> \o Tail(inp))
  BY <1>0, <1>1, ConcatAssociative
<1> QED
  BY <1>1, <1>2, <1>3 DEF InputInOrder, ChildReads

\* What the kernel takes is the front of what waits (pty_write).
LEMMA WriteInOrder ==
  ASSUME Write, DataOK, InputInOrder
  PROVE  InputInOrder'
<1>0. /\ got \in Seq(Input) /\ inp \in Seq(Input) /\ out_buf \in Seq(Input)
      /\ Len(out_buf) \in Nat
  BY DEF DataOK
<1>1. PICK taken \in Nat :
           /\ taken <= Len(out_buf)
           /\ SubSeq(out_buf, 1, taken) \in Seq(Input)
           /\ inp' = inp \o SubSeq(out_buf, 1, taken)
           /\ out_buf' = SubSeq(out_buf, taken + 1, Len(out_buf))
           /\ out_buf' \in Seq(Input)
  BY WriteParts
<1> DEFINE front == SubSeq(out_buf, 1, taken)
<1>2. out_buf = front \o out_buf'
  <2>1. SubSeq(out_buf, 1, taken) \o SubSeq(out_buf, taken + 1, Len(out_buf))
          = SubSeq(out_buf, 1, Len(out_buf))
    <3>1. /\ 1 \in 1 .. Len(out_buf) + 1 /\ taken \in 1 - 1 .. Len(out_buf)
          /\ Len(out_buf) \in taken .. Len(out_buf)
      BY <1>0, <1>1
    <3> QED
      BY <1>0, <3>1, ConcatAdjacentSubSeq
  <2>2. SubSeq(out_buf, 1, Len(out_buf)) = out_buf
    BY <1>0, SubSeqFull
  <2> QED
    BY <1>1, <2>1, <2>2
<1> HIDE DEF front
<1>3. front \in Seq(Input)
  BY <1>1 DEF front
<1>4. (got \o inp) \o (front \o out_buf') = ((got \o inp) \o front) \o out_buf'
  <2>1. got \o inp \in Seq(Input)
    BY <1>0, ConcatProperties
  <2>2. out_buf' \in Seq(Input)
    BY <1>1
  <2>3. ((got \o inp) \o front) \o out_buf' = (got \o inp) \o (front \o out_buf')
    BY <1>3, <2>1, <2>2, ConcatAssociative
  <2> QED
    BY <2>3
<1>5. (got \o inp) \o front = got \o (inp \o front)
  BY <1>0, <1>3, ConcatAssociative
<1>6. got' = got /\ sent' = sent /\ inp' = inp \o front
  BY <1>1 DEF Write, front
<1> QED
  BY <1>2, <1>4, <1>5, <1>6 DEF InputInOrder

LEMMA NextInOrder == IInv /\ InputInOrder /\ [Next]_vars => InputInOrder'
<1> SUFFICES ASSUME IInv, InputInOrder, [Next]_vars PROVE InputInOrder'
  OBVIOUS
<1>0. DataOK /\ CallsOK
  BY DEF IInv
<1>1. CASE KeyEvent
  <2>1. Key \in Input
    BY Constants DEF Key, Input
  <2> QED
    BY <1>0, <1>1, <2>1, AcceptedInOrder DEF KeyEvent
<1>2. CASE Parse
  <2> DEFINE byte == in_buf[Head(calls).pos]
  <2>1. CASE UNCHANGED <<out_buf, sent>>
    BY <1>2, <2>1 DEF Parse, InputInOrder
  <2>2. CASE byte \in Asks /\ Accept(byte)
    <3>1. byte \in Input
      <4>1. byte \in Asks
        BY <2>2
      <4> HIDE DEF byte
      <4>2. byte \in 1 .. MaxOut
        BY <4>1, BoundsAssumption
      <4> QED
        BY <4>2 DEF Input
    <3> QED
      BY <1>0, <1>2, <2>2, <3>1, AcceptedInOrder DEF Parse
  <2> QED
    BY <1>2, <2>1, <2>2 DEF Parse
<1>3. CASE ChildReads
  BY <1>0, <1>3, ReadInOrder
<1>4. CASE Write
  BY <1>0, <1>4, WriteInOrder
<1>5. CASE ChildWrites \/ BridgeDispatch \/ Read \/ UNCHANGED vars
  BY <1>5 DEF ChildWrites, BridgeDispatch, Read, vars, InputInOrder
<1> QED
  BY <1>1, <1>2, <1>3, <1>4, <1>5 DEF Next, Frecon

\* Keys and answers reach the child in the order they were accepted, each once,
\* for every size of the buffers and of the nesting (shl_pty_write, pty_write).
THEOREM InputNeverReordered == Spec => []InputInOrder
<1>1. Init => IInv /\ InputInOrder
  <2>1. Init => InputInOrder
    BY DEF Init, InputInOrder
  <2> QED
    BY <2>1, InitType
<1>2. IInv /\ InputInOrder /\ [Next]_vars => (IInv /\ InputInOrder)'
  BY NextType, NextInOrder
<1> QED
  BY <1>1, <1>2, PTL DEF Spec
-----------------------------------------------------------------------------
(* Output shown or waiting, in order and once.                             *)

Count(n) == [i \in 1 .. n |-> i]

\* Where the outermost bytes of in_buf begin and end (pty_read, term_read_cb).
LEMMA Bytes ==
  ASSUME NEW buf \in [1 .. BufSize -> 0 .. MaxOut],
         NEW m \in 1 .. BufSize, NEW n \in 1 .. BufSize, m <= n
  PROVE  /\ SubSeq(buf, m, n) \in Seq(0 .. MaxOut)
         /\ SubSeq(buf, m, n) # <<>>
         /\ SubSeq(buf, m, n) = <<buf[m]>> \o SubSeq(buf, m + 1, n)
<1>0. BufSize \in Nat /\ MaxOut \in Nat
  BY Constants
<1>1. buf \in Seq(0 .. MaxOut) /\ Len(buf) = BufSize
  BY <1>0
<1>2. SubSeq(buf, m, n) \in Seq(0 .. MaxOut) /\ Len(SubSeq(buf, m, n)) = n - m + 1
  <2>1. \A i \in m .. n : buf[i] \in 0 .. MaxOut
    BY <1>0
  <2> QED
    BY <1>0, <1>1, <2>1, SubSeqProperties
<1>3. SubSeq(buf, m, n) # <<>>
  <2>1. Len(SubSeq(buf, m, n)) # 0
    BY <1>0, <1>2
  <2>2. ASSUME SubSeq(buf, m, n) = <<>> PROVE FALSE
    BY <2>1, <2>2
  <2> QED
    BY <2>2
<1>4. m \in 1 .. Len(buf) /\ n \in m .. Len(buf)
  BY <1>0, <1>1
<1> QED
  BY <1>1, <1>2, <1>3, <1>4, SubSeqRecursiveFirst

\* What FaithfulUnlessClobbered says, dispatch by dispatch.
LEMMA WhoWaits ==
  ASSUME FaithfulUnlessClobbered, ~clobbered
  PROVE  \/ /\ \A j \in 1 .. Len(calls) : Unparsed(calls[j]) = <<>>
            /\ (shown \o <<>>) \o out = Count(written)
         \/ \E k \in 1 .. Len(calls) :
               /\ Unparsed(calls[k]) # <<>>
               /\ \A j \in 1 .. Len(calls) : j # k => Unparsed(calls[j]) = <<>>
               /\ (shown \o Unparsed(calls[k])) \o out = Count(written)
<1>0. /\ \A j, k \in Waiting : j = k
      /\ (shown \o WaitingBytes) \o out = Count(written)
  BY DEF FaithfulUnlessClobbered, Count
<1>1. CASE Waiting = {}
  BY <1>0, <1>1 DEF Waiting, WaitingBytes
<1>2. CASE Waiting # {}
  <2> DEFINE k == CHOOSE j \in Waiting : TRUE
  <2>1. k \in Waiting /\ WaitingBytes = Unparsed(calls[k])
    BY <1>2 DEF WaitingBytes
  <2> HIDE DEF k
  <2> QED
    BY <1>0, <2>1 DEF Waiting
<1> QED
  BY <1>1, <1>2

\* A step after which no dispatch has bytes before it.
LEMMA NoneWaits ==
  ASSUME \A j \in 1 .. Len(calls') : Unparsed(calls[j])' = <<>>,
         (shown \o <<>>)' \o out' = Count(written')
  PROVE  FaithfulUnlessClobbered'
<1>1. Waiting' = {}
  BY DEF Waiting
<1>2. WaitingBytes' = <<>>
  BY <1>1 DEF WaitingBytes
<1> QED
  BY <1>1, <1>2 DEF FaithfulUnlessClobbered, Count

\* A step after which one has.
LEMMA OneWaits ==
  ASSUME NEW k \in 1 .. Len(calls'),
         Unparsed(calls[k])' # <<>>,
         \A j \in 1 .. Len(calls') : j # k => Unparsed(calls[j])' = <<>>,
         (shown' \o Unparsed(calls[k])') \o out' = Count(written')
  PROVE  FaithfulUnlessClobbered'
<1>1. Waiting' = {k}
  BY DEF Waiting
<1>2. WaitingBytes' = Unparsed(calls[k])'
  BY <1>1 DEF WaitingBytes
<1> QED
  BY <1>1, <1>2 DEF FaithfulUnlessClobbered, Count

\* A dispatch has bytes before it exactly while it parses.
LEMMA ParsingWaits ==
  ASSUME IInv, NEW j \in 1 .. Len(calls)
  PROVE  /\ Unparsed(calls[j]) \in Seq(Input)
         /\ Unparsed(calls[j]) = <<>> <=> calls[j].pc # "parse"
<1>1. CASE calls[j].pc = "parse"
  <2>1. calls[j] \in Call /\ calls[j].pos \in 1 .. calls[j].len
    BY <1>1, ElementOfSeq DEF IInv, CallsOK
  <2>2. /\ calls[j].pos \in 1 .. BufSize /\ calls[j].len \in 1 .. BufSize
        /\ calls[j].pos <= calls[j].len
    BY <2>1, Constants DEF Call
  <2>3. in_buf \in [1 .. BufSize -> 0 .. MaxOut]
    BY DEF IInv, DataOK
  <2> QED
    BY <1>1, <2>2, <2>3, Bytes DEF Unparsed, Input
<1>2. CASE calls[j].pc # "parse"
  BY <1>2 DEF Unparsed
<1> QED
  BY <1>1, <1>2

\* Nothing of the output moves.
LEMMA NothingMoves ==
  ASSUME FaithfulUnlessClobbered, Len(calls') = Len(calls),
         \A j \in 1 .. Len(calls) : Unparsed(calls[j])' = Unparsed(calls[j]),
         UNCHANGED <<written, out, shown, clobbered>>
  PROVE  FaithfulUnlessClobbered'
<1>0. CASE clobbered
  BY <1>0 DEF FaithfulUnlessClobbered
<1>1. CASE ~clobbered
  <2>1. Waiting' = Waiting /\ \A j \in Waiting : Unparsed(calls[j])' = Unparsed(calls[j])
    BY DEF Waiting
  <2>2. WaitingBytes' = WaitingBytes
    <3>1. CASE Waiting = {}
      BY <2>1, <3>1 DEF WaitingBytes
    <3>2. CASE Waiting # {}
      <4>1. (CHOOSE j \in Waiting : TRUE) \in Waiting
        BY <3>2
      <4> QED
        BY <2>1, <3>2, <4>1 DEF WaitingBytes
    <3> QED
      BY <3>1, <3>2
  <2> QED
    BY <2>1, <2>2 DEF FaithfulUnlessClobbered
<1> QED
  BY <1>0, <1>1

\* A byte written waits in the kernel, behind the others.
LEMMA WritesFaithful ==
  ASSUME IInv, FaithfulUnlessClobbered, ChildWrites
  PROVE  FaithfulUnlessClobbered'
<1>0. DataOK /\ written' = written + 1 /\ out' = Append(out, written + 1)
      /\ UNCHANGED <<calls, in_buf, shown, clobbered>>
  BY DEF IInv, ChildWrites
<1>1. ASSUME NEW w \in Seq(Input), (shown \o w) \o out = Count(written)
      PROVE  (shown' \o w) \o out' = Count(written')
  <2>1. /\ shown \o w \in Seq(Nat) /\ out \in Seq(Nat) /\ <<written + 1>> \in Seq(Nat)
        /\ written + 1 \in Nat /\ written \in Nat
    <3>1. shown \in Seq(Nat) /\ w \in Seq(Nat) /\ out \in Seq(Nat) /\ written \in Nat
      BY <1>0, Constants DEF DataOK, Input, Output
    <3> QED
      BY <3>1, ConcatProperties
  <2>2. Append(out, written + 1) = out \o <<written + 1>>
    BY <2>1, AppendIsConcat
  <2>3. (shown \o w) \o (out \o <<written + 1>>) = ((shown \o w) \o out) \o <<written + 1>>
    BY <2>1, ConcatAssociative
  <2>4. Count(written) \in Seq(Nat) /\ Len(Count(written)) = written
    BY <2>1 DEF Count
  <2>5. Count(written) \o <<written + 1>> = Count(written + 1)
    <3>0. /\ Len(<<written + 1>>) = 1 /\ <<written + 1>>[1] = written + 1
          /\ Len(Count(written)) = written /\ written \in Nat
          /\ Count(written) \in Seq(Nat) /\ <<written + 1>> \in Seq(Nat)
      BY <2>1, <2>4
    <3>1. /\ Count(written) \o <<written + 1>> \in Seq(Nat)
          /\ Len(Count(written) \o <<written + 1>>) = written + 1
          /\ \A i \in 1 .. written + 1 : (Count(written) \o <<written + 1>>)[i] =
               IF i <= written THEN Count(written)[i] ELSE <<written + 1>>[i - written]
      BY <3>0, ConcatProperties
    <3>2. Count(written + 1) \in Seq(Nat) /\ Len(Count(written + 1)) = written + 1
      BY <2>1 DEF Count
    <3>3. \A i \in 1 .. written + 1 :
             (Count(written) \o <<written + 1>>)[i] = Count(written + 1)[i]
      <4> TAKE i \in 1 .. written + 1
      <4>1. CASE i <= written
        BY <2>1, <3>1, <4>1 DEF Count
      <4>2. CASE i = written + 1
        BY <2>1, <3>0, <3>1, <4>2 DEF Count
      <4>3. i <= written \/ i = written + 1
        BY <3>0
      <4> QED
        BY <4>1, <4>2, <4>3
    <3> QED
      BY <3>1, <3>2, <3>3, SeqEqual
  <2> QED
    BY <1>0, <1>1, <2>2, <2>3, <2>5
<1>2. \A j \in 1 .. Len(calls) : Unparsed(calls[j])' = Unparsed(calls[j])
  BY <1>0 DEF Unparsed
<1>3. CASE clobbered
  BY <1>0, <1>3 DEF FaithfulUnlessClobbered
<1>4. CASE /\ \A j \in 1 .. Len(calls) : Unparsed(calls[j]) = <<>>
           /\ (shown \o <<>>) \o out = Count(written)
  <2>1. <<>> \in Seq(Input)
    OBVIOUS
  <2>2. (shown' \o <<>>) \o out' = Count(written')
    BY <1>1, <1>4, <2>1
  <2> QED
    BY <1>0, <1>2, <1>4, <2>2, NoneWaits
<1>5. ASSUME NEW k \in 1 .. Len(calls),
             Unparsed(calls[k]) # <<>>,
             \A j \in 1 .. Len(calls) : j # k => Unparsed(calls[j]) = <<>>,
             (shown \o Unparsed(calls[k])) \o out = Count(written)
      PROVE  FaithfulUnlessClobbered'
  <2>1. Unparsed(calls[k]) \in Seq(Input)
    BY ParsingWaits
  <2>2. (shown' \o Unparsed(calls[k])') \o out' = Count(written')
    BY <1>1, <1>2, <1>5, <2>1
  <2> QED
    BY <1>0, <1>2, <1>5, <2>2, OneWaits
<1> QED
  BY <1>3, <1>4, <1>5, WhoWaits

\* A read takes the front of what the kernel holds; it clobbers, or nothing
\* was left in the buffer (pty_read).
LEMMA ReadFaithful ==
  ASSUME IInv, FaithfulUnlessClobbered, Read
  PROVE  FaithfulUnlessClobbered'
<1> DEFINE n == ReadLength
           call == [pc |-> IF n = 0 THEN "write" ELSE "parse", pos |-> 1, len |-> n]
<1>0. DataOK /\ CallsOK
  BY DEF IInv
<1>1. /\ out \in Seq(Nat) /\ Len(out) \in Nat /\ out \in Seq(Output)
      /\ n \in 0 .. BufSize /\ n <= Len(out) /\ BufSize \in Nat
  <2>1. out \in Seq(Output) /\ out \in Seq(Nat)
    BY <1>0, Constants DEF DataOK, Output
  <2> QED
    BY <2>1, Constants DEF ReadLength, Shorter
<1>2. /\ calls # <<>> /\ calls \in Seq(Call) /\ Head(calls).pc = "read"
      /\ calls' = <<call>> \o Tail(calls)
      /\ out' = SubSeq(out, n + 1, Len(out))
      /\ in_buf' = [i \in 1 .. BufSize |-> IF i <= n THEN out[i] ELSE in_buf[i]]
      /\ clobbered' = (clobbered \/ (n > 0 /\ \E j \in 2 .. Len(calls) : Unparsed(calls[j]) # <<>>))
      /\ UNCHANGED <<shown, written>>
  BY <1>0 DEF Read, CallsOK
<1>3. /\ call \in Call /\ call.pos = 1 /\ call.len = n
      /\ call.pc = IF n = 0 THEN "write" ELSE "parse"
  BY <1>1 DEF Call
<1> HIDE DEF call, n
<1>4. /\ Len(calls') = Len(calls) /\ Len(calls) \in Nat /\ Len(calls) >= 1
      /\ calls'[1] = call /\ calls[1].pc = "read"
      /\ \A j \in 2 .. Len(calls) : calls'[j] = calls[j]
  BY <1>2, <1>3, InnerCalls, InFront
<1>5. in_buf \in [1 .. BufSize -> 0 .. MaxOut]
  BY <1>0 DEF DataOK
<1>6. CASE n = 0
  <2>1. in_buf' = in_buf
    <3>1. \A i \in 1 .. BufSize : ~(i <= n)
      BY <1>1, <1>6
    <3> QED
      BY <1>2, <1>5, <3>1
  <2>2. out' = out
    BY <1>1, <1>2, <1>6, SubSeqFull
  <2>3. ASSUME NEW j \in 1 .. Len(calls) PROVE Unparsed(calls[j])' = Unparsed(calls[j])
    <3>1. CASE j = 1
      BY <1>3, <1>4, <1>6, <3>1 DEF Unparsed
    <3>2. CASE j \in 2 .. Len(calls)
      BY <1>4, <2>1, <3>2 DEF Unparsed
    <3> QED
      BY <1>4, <3>1, <3>2
  <2>4. clobbered' = clobbered
    <3>1. ~(n > 0)
      BY <1>6
    <3>2. clobbered \in BOOLEAN
      BY <1>0, Zenon DEF DataOK
    <3> QED
      BY <1>2, <3>1, <3>2, Zenon
  <2> QED
    BY <1>2, <1>4, <2>2, <2>3, <2>4, NothingMoves
<1>7. CASE n # 0 /\ ~clobbered'
  <2>1. n > 0 /\ n \in 1 .. BufSize
    BY <1>1, <1>7
  <2>2. ~clobbered /\ \A j \in 2 .. Len(calls) : Unparsed(calls[j]) = <<>>
    BY <1>2, <1>7, <2>1
  <2>3. \A j \in 1 .. Len(calls) : Unparsed(calls[j]) = <<>>
    <3>1. Unparsed(calls[1]) = <<>>
      BY <1>4 DEF Unparsed
    <3> QED
      BY <1>4, <2>2, <3>1
  <2>4. (shown \o <<>>) \o out = Count(written)
    BY <2>2, <2>3, WhoWaits
  <2>5. out = SubSeq(out, 1, n) \o SubSeq(out, n + 1, Len(out))
    <3>1. 1 \in 1 .. Len(out) + 1 /\ n \in 1 - 1 .. Len(out) /\ Len(out) \in n .. Len(out)
      BY <1>1
    <3> QED
      BY <1>1, <3>1, ConcatAdjacentSubSeq, SubSeqFull
  <2>6. SubSeq(in_buf', 1, n) = SubSeq(out, 1, n)
    <3>1. \A i \in 1 .. n : in_buf'[i] = out[i] /\ out[i] \in Output
      BY <1>1, <1>2, <2>1, ElementOfSeq
    <3>2. /\ SubSeq(in_buf', 1, n) \in Seq(Output) /\ Len(SubSeq(in_buf', 1, n)) = n
          /\ \A i \in 1 .. n : SubSeq(in_buf', 1, n)[i] = in_buf'[i]
      BY <1>1, <2>1, <3>1, SubSeqProperties
    <3>3. /\ SubSeq(out, 1, n) \in Seq(Output) /\ Len(SubSeq(out, 1, n)) = n
          /\ \A i \in 1 .. n : SubSeq(out, 1, n)[i] = out[i]
      BY <1>1, <2>1, <3>1, SubSeqProperties
    <3> QED
      BY <3>1, <3>2, <3>3, SeqEqual
  <2>7. Unparsed(calls[1])' = SubSeq(out, 1, n)
    BY <1>3, <1>4, <1>7, <2>6 DEF Unparsed
  <2>8. SubSeq(out, 1, n) # <<>> /\ SubSeq(out, 1, n) \in Seq(Nat)
    <3>1. \A i \in 1 .. n : out[i] \in Nat
      BY <1>1, <2>1, ElementOfSeq
    <3>2. SubSeq(out, 1, n) \in Seq(Nat) /\ Len(SubSeq(out, 1, n)) = n
      BY <1>1, <2>1, <3>1, SubSeqProperties
    <3>3. Len(SubSeq(out, 1, n)) # 0
      BY <1>1, <2>1, <3>2
    <3>4. ASSUME SubSeq(out, 1, n) = <<>> PROVE FALSE
      BY <3>3, <3>4
    <3> QED
      BY <3>2, <3>4
  <2>9. ASSUME NEW j \in 1 .. Len(calls'), j # 1 PROVE Unparsed(calls[j])' = <<>>
    <3>1. j \in 2 .. Len(calls) /\ j \in 1 .. Len(calls)
      BY <1>4, <2>9
    <3>2. calls'[j].pc # "parse"
      BY <1>4, <2>2, <3>1, ParsingWaits
    <3> QED
      BY <3>2 DEF Unparsed
  <2>10. (shown' \o Unparsed(calls[1])') \o out' = Count(written')
    <3>1. shown \in Seq(Nat)
      BY <1>0, Constants DEF DataOK, Output
    <3>2. SubSeq(out, n + 1, Len(out)) \in Seq(Nat)
      <4>1. \A i \in n + 1 .. Len(out) : out[i] \in Nat
        BY <1>1, ElementOfSeq
      <4> QED
        BY <1>1, <4>1, SubSeqProperties
    <3>3. (shown \o SubSeq(out, 1, n)) \o SubSeq(out, n + 1, Len(out)) = shown \o out
      <4> DEFINE front == SubSeq(out, 1, n)
                 back == SubSeq(out, n + 1, Len(out))
      <4>1. front \in Seq(Nat) /\ back \in Seq(Nat) /\ out = front \o back
        BY <2>5, <2>8, <3>2
      <4> HIDE DEF front, back
      <4>2. (shown \o front) \o back = shown \o (front \o back)
        BY <3>1, <4>1, ConcatAssociative
      <4> QED
        BY <4>1, <4>2 DEF front, back
    <3>4. shown \o <<>> = shown
      BY <3>1, ConcatEmptySeq
    <3> QED
      BY <1>2, <2>4, <2>7, <3>3, <3>4
  <2>11. 1 \in 1 .. Len(calls')
    BY <1>4
  <2> QED
    BY <2>7, <2>8, <2>9, <2>10, <2>11, OneWaits
<1>8. CASE clobbered'
  BY <1>8 DEF FaithfulUnlessClobbered
<1> QED
  BY <1>6, <1>7, <1>8

\* A byte parsed is shown; whatever is nested before it has read nothing yet
\* (term_read_cb, term_write_cb).
LEMMA ParseFaithful ==
  ASSUME IInv, FaithfulUnlessClobbered, Parse
  PROVE  FaithfulUnlessClobbered'
<1> DEFINE c == Head(calls)
           byte == in_buf[c.pos]
           rest == <<Advanced(c)>> \o Tail(calls)
<1>0. DataOK /\ CallsOK
  BY DEF IInv
<1>1. /\ calls # <<>> /\ calls \in Seq(Call) /\ c.pc = "parse"
      /\ shown' = Append(shown, byte)
      /\ calls' = rest \/ calls' = <<Dispatching>> \o rest
      /\ UNCHANGED <<written, out, in_buf, clobbered>>
  BY <1>0 DEF Parse, CallsOK
<1>2. /\ c = calls[1] /\ c \in Call /\ 1 \in 1 .. Len(calls) /\ Len(calls) \in Nat
      /\ Tail(calls) \in Seq(Call) /\ Len(Tail(calls)) = Len(calls) - 1
      /\ \A j \in 1 .. Len(calls) - 1 : Tail(calls)[j] = calls[j + 1]
  BY <1>1, InnerCalls
<1>3. /\ c.pos \in 1 .. c.len /\ c.len \in 1 .. BufSize /\ c.pos \in 1 .. BufSize
      /\ BufSize \in Nat
  <2>1. c.pos \in 1 .. c.len /\ c.len \in 0 .. BufSize
    BY <1>0, <1>1, <1>2 DEF CallsOK, Call
  <2> QED
    BY <2>1, Constants
<1>4. /\ SubSeq(in_buf, c.pos, c.len) # <<>>
      /\ SubSeq(in_buf, c.pos, c.len) = <<byte>> \o SubSeq(in_buf, c.pos + 1, c.len)
      /\ byte \in Nat
  <2>1. in_buf \in [1 .. BufSize -> 0 .. MaxOut]
    BY <1>0 DEF DataOK
  <2>2. c.pos <= c.len
    BY <1>3
  <2>3. byte \in Nat
    BY <1>3, <2>1, Constants
  <2> HIDE DEF c
  <2> QED
    BY <1>3, <2>1, <2>2, <2>3, Bytes
<1>5. Unparsed(calls[1]) = SubSeq(in_buf, c.pos, c.len)
  BY <1>1, <1>2 DEF Unparsed
<1>6. CASE clobbered
  BY <1>1, <1>6 DEF FaithfulUnlessClobbered
<1>7. CASE ~clobbered
  <2>1. /\ \A j \in 1 .. Len(calls) : j # 1 => Unparsed(calls[j]) = <<>>
        /\ (shown \o Unparsed(calls[1])) \o out = Count(written)
    BY <1>2, <1>4, <1>5, <1>7, WhoWaits
  <2>2. (shown' \o SubSeq(in_buf, c.pos + 1, c.len)) \o out' = Count(written')
    <3> DEFINE left == SubSeq(in_buf, c.pos + 1, c.len)
    <3>1. shown \in Seq(Nat) /\ <<byte>> \in Seq(Nat)
      BY <1>0, <1>4, Constants DEF DataOK, Output
    <3>2. left \in Seq(Nat)
      <4>1. in_buf \in [1 .. BufSize -> Nat]
        BY <1>0, Constants DEF DataOK
      <4>2. \A i \in c.pos + 1 .. c.len : in_buf[i] \in Nat
        BY <1>3, <4>1
      <4> QED
        BY <1>3, <4>2, SubSeqProperties
    <3>3. Append(shown, byte) = shown \o <<byte>>
      BY <1>4, <3>1, AppendIsConcat
    <3> HIDE DEF left, byte
    <3>4. (shown \o <<byte>>) \o left = shown \o (<<byte>> \o left)
      BY <3>1, <3>2, ConcatAssociative
    <3> QED
      BY <1>1, <1>4, <1>5, <2>1, <3>3, <3>4 DEF left
  <2>3. /\ Advanced(c) \in Call /\ Advanced(c).len = c.len /\ Advanced(c).pos = c.pos + 1
        /\ Advanced(c).pc = IF c.pos = c.len THEN "write" ELSE "parse"
    <3>1. Advanced(c) \in Call
      BY <1>2, <1>3, AdvancedOK
    <3> QED
      BY <3>1 DEF Advanced
  <2>4. /\ rest \in Seq(Call) /\ Len(rest) = Len(calls) /\ rest[1] = Advanced(c)
        /\ \A j \in 2 .. Len(calls) : rest[j] = calls[j]
    BY <1>2, <2>3, InFront
  <2>5. PICK d \in {0, 1} :
          /\ Len(calls') = Len(calls) + d
          /\ \A j \in 1 .. Len(calls) : calls'[j + d] = rest[j]
          /\ d = 1 => calls'[1] = Dispatching
    <3> HIDE DEF rest
    <3>1. CASE calls' = rest
      <4>1. \A j \in 1 .. Len(calls) : j + 0 = j
        BY <1>2
      <4> QED
        BY <2>4, <3>1, <4>1
    <3>2. CASE calls' = <<Dispatching>> \o rest
      <4>1. /\ Len(calls') = Len(rest) + 1 /\ calls'[1] = Dispatching
            /\ \A j \in 2 .. Len(rest) + 1 : calls'[j] = rest[j - 1]
        BY <2>4, <3>2, InFront, Constants
      <4>2. \A j \in 1 .. Len(calls) : j + 1 \in 2 .. Len(rest) + 1 /\ (j + 1) - 1 = j
        BY <1>2, <2>4
      <4>3. \A j \in 1 .. Len(calls) : calls'[j + 1] = rest[j]
        BY <4>1, <4>2
      <4> QED
        BY <2>4, <4>1, <4>3
    <3> QED
      BY <1>1, <3>1, <3>2
  <2>6. calls'[1 + d] = Advanced(c) /\ 1 + d \in 1 .. Len(calls')
    BY <1>2, <2>4, <2>5
  <2>7. ASSUME NEW j \in 1 .. Len(calls'), j # 1 + d PROVE Unparsed(calls[j])' = <<>>
    <3>1. CASE d = 1 /\ j = 1
      BY <2>5, <3>1 DEF Unparsed, Dispatching
    <3>2. CASE j - d \in 2 .. Len(calls)
      <4>1. j - d \in 1 .. Len(calls) /\ (j - d) + d = j /\ j - d # 1
        BY <2>5, <3>2
      <4>2. calls'[j] = calls[j - d]
        BY <2>4, <2>5, <3>2, <4>1
      <4>3. calls[j - d].pc # "parse"
        BY <2>1, <4>1, ParsingWaits
      <4> QED
        BY <4>2, <4>3 DEF Unparsed
    <3>3. (d = 1 /\ j = 1) \/ j - d \in 2 .. Len(calls)
      BY <1>2, <2>5, <2>7
    <3> QED
      BY <3>1, <3>2, <3>3
  <2>8. CASE c.pos = c.len
    <3>1. SubSeq(in_buf, c.pos + 1, c.len) = <<>>
      BY <1>3, <2>8, SubSeqEmpty
    <3>2. Unparsed(calls[1 + d])' = <<>>
      BY <2>3, <2>6, <2>8 DEF Unparsed
    <3>3. \A j \in 1 .. Len(calls') : Unparsed(calls[j])' = <<>>
      BY <2>7, <3>2
    <3>4. (shown \o <<>>)' \o out' = Count(written')
      BY <2>2, <3>1
    <3> QED
      BY <3>3, <3>4, NoneWaits
  <2>9. CASE c.pos # c.len
    <3>1. Unparsed(calls[1 + d])' = SubSeq(in_buf, c.pos + 1, c.len)
      BY <1>1, <2>3, <2>6, <2>9 DEF Unparsed
    <3>2. SubSeq(in_buf, c.pos + 1, c.len) # <<>>
      <4>1. c.pos + 1 \in 1 .. BufSize /\ c.pos + 1 <= c.len
        BY <1>3, <2>9
      <4>2. in_buf \in [1 .. BufSize -> 0 .. MaxOut]
        BY <1>0 DEF DataOK
      <4> QED
        BY <1>3, <4>1, <4>2, Bytes
    <3> QED
      BY <2>2, <2>6, <2>7, <3>1, <3>2, OneWaits
  <2> QED
    BY <2>8, <2>9
<1> QED
  BY <1>6, <1>7

\* A dispatch that ends had parsed its bytes (pty_write).
LEMMA WriteFaithful ==
  ASSUME IInv, FaithfulUnlessClobbered, Write
  PROVE  FaithfulUnlessClobbered'
<1>0. DataOK /\ CallsOK
  BY DEF IInv
<1>1. /\ calls # <<>> /\ Head(calls).pc = "write" /\ calls \in Seq(Call)
      /\ UNCHANGED <<written, out, in_buf, shown, clobbered>>
  BY <1>0 DEF Write, CallsOK
<1>2. /\ Len(calls') = Len(calls) - 1 /\ Len(calls) \in Nat /\ Len(calls) >= 1
      /\ \A j \in 1 .. Len(calls) - 1 : calls'[j] = calls[j + 1]
      /\ calls[1].pc = "write"
  BY <1>1, InnerCalls DEF Write
<1>3. \A j \in 1 .. Len(calls') : Unparsed(calls[j])' = Unparsed(calls[j + 1])
  BY <1>1, <1>2 DEF Unparsed
<1>4. Unparsed(calls[1]) = <<>>
  BY <1>2 DEF Unparsed
<1>5. CASE clobbered
  BY <1>1, <1>5 DEF FaithfulUnlessClobbered
<1>6. CASE /\ \A j \in 1 .. Len(calls) : Unparsed(calls[j]) = <<>>
           /\ (shown \o <<>>) \o out = Count(written)
  <2>1. \A j \in 1 .. Len(calls') : j + 1 \in 1 .. Len(calls)
    BY <1>2
  <2> QED
    BY <1>1, <1>3, <1>6, <2>1, NoneWaits
<1>7. ASSUME NEW k \in 1 .. Len(calls),
             Unparsed(calls[k]) # <<>>,
             \A j \in 1 .. Len(calls) : j # k => Unparsed(calls[j]) = <<>>,
             (shown \o Unparsed(calls[k])) \o out = Count(written)
      PROVE  FaithfulUnlessClobbered'
  <2>1. k # 1
    BY <1>4, <1>7
  <2>2. k - 1 \in 1 .. Len(calls') /\ (k - 1) + 1 = k
    BY <1>2, <2>1
  <2>3. \A j \in 1 .. Len(calls') : j # k - 1 => j + 1 \in 1 .. Len(calls) /\ j + 1 # k
    BY <1>2
  <2>4. Unparsed(calls[k - 1])' = Unparsed(calls[k])
    BY <1>3, <2>2
  <2>5. \A j \in 1 .. Len(calls') : j # k - 1 => Unparsed(calls[j])' = <<>>
    BY <1>3, <1>7, <2>3
  <2> QED
    BY <1>1, <1>7, <2>2, <2>4, <2>5, OneWaits
<1> QED
  BY <1>5, <1>6, <1>7, WhoWaits

\* The first dispatch of a key or an event has nothing to parse yet.
LEMMA StartsFaithful ==
  ASSUME FaithfulUnlessClobbered, calls = <<>>, calls' = <<Dispatching>>,
         UNCHANGED <<written, out, in_buf, shown, clobbered>>
  PROVE  FaithfulUnlessClobbered'
<1>1. Len(calls) = 0
  OBVIOUS
<1>2. CASE clobbered
  BY <1>2 DEF FaithfulUnlessClobbered
<1>3. CASE ~clobbered
  <2>1. (shown \o <<>>) \o out = Count(written)
    BY <1>1, <1>3, WhoWaits
  <2>2. \A j \in 1 .. Len(calls') : Unparsed(calls[j])' = <<>>
    BY DEF Unparsed, Dispatching
  <2> QED
    BY <2>1, <2>2, NoneWaits
<1> QED
  BY <1>2, <1>3

LEMMA NextFaithful ==
  IInv /\ FaithfulUnlessClobbered /\ [Next]_vars => FaithfulUnlessClobbered'
<1> SUFFICES ASSUME IInv, FaithfulUnlessClobbered, [Next]_vars
             PROVE  FaithfulUnlessClobbered'
  OBVIOUS
<1>1. CASE ChildWrites
  BY <1>1, WritesFaithful
<1>2. CASE ChildReads \/ UNCHANGED vars
  <2>1. UNCHANGED <<written, out, in_buf, calls, shown, clobbered>>
    BY <1>2 DEF ChildReads, vars
  <2>2. \A j \in 1 .. Len(calls) : Unparsed(calls[j])' = Unparsed(calls[j])
    BY <2>1 DEF Unparsed
  <2> QED
    BY <2>1, <2>2, NothingMoves
<1>3. CASE KeyEvent \/ BridgeDispatch
  BY <1>3, StartsFaithful DEF KeyEvent, BridgeDispatch
<1> QED
  BY <1>1, <1>2, <1>3, ReadFaithful, ParseFaithful, WriteFaithful DEF Next, Frecon

\* Unless a read filled the buffer under the bytes of an outer dispatch, one
\* dispatch at most has bytes to parse and everything the child wrote is shown
\* or waits, in order and once, for every size of the buffers and every depth
\* of nesting (pty_read, term_read_cb, term_write_cb).
THEOREM OutputFaithful == Spec => []FaithfulUnlessClobbered
<1>1. Init => IInv /\ FaithfulUnlessClobbered
  <2>1. ASSUME Init PROVE FaithfulUnlessClobbered
    <3>1. Waiting = {} /\ shown = <<>> /\ out = <<>> /\ written = 0
      BY <2>1 DEF Init, Waiting
    <3>2. WaitingBytes = <<>>
      BY <3>1 DEF WaitingBytes
    <3>3. (<<>> \o <<>>) \o <<>> = [i \in 1 .. 0 |-> i]
      <4>1. <<>> \in Seq(Nat)
        OBVIOUS
      <4>2. <<>> \o <<>> = <<>>
        BY <4>1, ConcatEmptySeq
      <4>3. [i \in 1 .. 0 |-> i] = <<>>
        OBVIOUS
      <4> QED
        BY <4>2, <4>3
    <3> QED
      BY <3>1, <3>2, <3>3 DEF FaithfulUnlessClobbered
  <2> QED
    BY <2>1, InitType
<1>2. IInv /\ FaithfulUnlessClobbered /\ [Next]_vars => (IInv /\ FaithfulUnlessClobbered)'
  BY NextType, NextFaithful
<1> QED
  BY <1>1, <1>2, PTL DEF Spec
=============================================================================
